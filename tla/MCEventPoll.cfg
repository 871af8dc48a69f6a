\* The queue of one session, which overflows with the third message, and
\* another session the browser goes to.
CONSTANTS
  NoSession = NoSession
  Sessions = {a, b}
  Talking = {a}
  MaxSize = 2
  MaxMessages = 3
  Troubles = {"reboot", "stall", "restart", "reload"}
SPECIFICATION Spec
INVARIANTS NothingElseLost
PROPERTIES Delivered
CHECK_DEADLOCK FALSE
