\* One schedule of each kind, or two, made by the user to run twice or by a minion without limit.
CONSTANTS
  None = None
  Unlimited = Unlimited
  s1 = s1
  s2 = s2
  Schedules = {s1, s2}
  Monitors = {m1, m2}
  Repeats = {2}
  MaxRetries = 1
  MaxFires = 2
  Mixes <- MCMixes
  Handled <- Single
  Raising <- MCRaising
SPECIFICATION Spec
INVARIANTS FiresAreCounted
PROPERTIES DeletedStaysDeleted OncePerTime DueIsServed FinishedIsArchived
CHECK_DEADLOCK FALSE
