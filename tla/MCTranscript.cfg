SPECIFICATION Spec
CONSTANTS
    Scripts <- MCScripts
    Troubles = {"said", "interrupt", "terminate", "stall"}
    Budget = 1
INVARIANTS ReloadShowsTheSame ShownOnce NoCaretLeft LegsAgree
CHECK_DEADLOCK FALSE
