SPECIFICATION ToolSpec
CONSTANTS
    Tools = {t1, t2}
    Mishaps <- AllMishaps
    Budget = 5
INVARIANTS ReloadAgrees NoSpinner
PROPERTIES EndedStaysEnded
SYMMETRY Symmetry
CHECK_DEADLOCK FALSE
