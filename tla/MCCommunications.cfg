\* Two comms of any priority, one user, two clients.
CONSTANTS
  NoClient = NoClient
  Callers = {u1, m1, m2}
  Tasks = {m1, m2}
  Clients = {k1, k2}
  Messages = {}
  MaxInbox = 0
  MaxCalls = 1
  m1 = m1
  m2 = m2
  Mails <- MCMails
SPECIFICATION CommSpec
PROPERTIES ReachesActive RoutesEnd
CHECK_DEADLOCK FALSE
