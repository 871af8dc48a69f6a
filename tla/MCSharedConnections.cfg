\* Two sessions and a call share a connection that may be opened anew.
CONSTANTS
  None = None
  Sessions = {s1, s2}
  Calls = {c1}
  Conns = {k1, k2}
  Owners = {o1, o2}
  MaxRefs = 2
  MaxKept = 1
  Linked = {s2}
SYMMETRY Symmetric
SPECIFICATION Spec
INVARIANTS ClientIsOpen RefsCountSessions RefreshedWhileUsed
CHECK_DEADLOCK FALSE
