\* Two callers whose operations may overlap, and room for a lost client.
CONSTANTS
  NoClient = NoClient
  Callers = {u1, u2}
  Tasks = {}
  Clients = {k1, k2}
  Messages = {m1}
  MaxInbox = 1
SPECIFICATION Spec
INVARIANTS NoClientLeaks ActiveHasClient AtRest
CHECK_DEADLOCK FALSE
PROPERTIES StartingEnds
