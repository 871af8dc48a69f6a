\* One processor and a user who starts, restarts, stops and resets the session
\* of a message, another message behind it, and a server that dies.
CONSTANTS
  NoClient = NoClient
  NoTask = NoTask
  Callers = {u1, t1}
  Tasks = {t1}
  Clients = {k1}
  Messages = {}
  MaxInbox = 1
  MaxItems = 2
  MaxPending = 1
  DefaultMaxPending = 1
  MaxFaulty = 0
  Resets = {2}
  MaxDisturbed = 1
SPECIFICATION FairDeliverySpec
INVARIANTS AtMostOnce NoneLeftBehind
PROPERTIES Progress
CHECK_DEADLOCK FALSE
