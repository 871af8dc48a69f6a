CONSTANTS
  None = None
  Tree = Tree
  p1 = p1
  p2 = p2
  Sessions = {a, b, c}
  Procs = {p1, p2}
  Allowed <- MCAll
  MaxCrossed = 2
  MaxMinions = 3
SYMMETRY Symmetric
SPECIFICATION Spec
INVARIANTS TreeIsSound NoneHalfDeleted NobodyStuck
CHECK_DEADLOCK FALSE
