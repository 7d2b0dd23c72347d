CONSTANTS
  RequestTimeout = 14
  LineTimeout = 10
  PingWait = 6
  CommandWait = 3
  Leftover = TRUE
  MaxCommands = 5
SPECIFICATION FairLifeSpec
INVARIANTS TypeOK OwnReplyUnlessLate StartedIsTimed SafeOnceStarted
PROPERTIES EndsWithTheReply AlwaysReturns
CHECK_DEADLOCK FALSE
