CONSTANTS
  MaxItems = 3
  MaxPending = 2
  DefaultMaxPending = 3
  MaxFaulty = 2
SPECIFICATION Spec
INVARIANTS PendingSurvivesRestart FirstComeFirstServed
PROPERTIES KeepsPromise
CHECK_DEADLOCK FALSE
