\* Calls of one session and of two, which are interrupted and ended in every way.
CONSTANTS
  s1 = s1
  s2 = s2
  s3 = s3
  a1 = a1
  a2 = a2
  b1 = b1
  c1 = c1
  c2 = c2
  None = None
  Sessions = {s1, s2, s3}
  Tools = {a1, a2, b1, c1, c2}
  Home <- MCHome
  Sig <- MCSig
  Endings <- MCEndings
  Together <- Pairs
  Interruptible = {s1, s2}
SPECIFICATION Spec
INVARIANTS PausedWhileAsked StatusFollowsAnswer
PROPERTIES OnlyOwnDropped PauseEnds
CHECK_DEADLOCK FALSE
