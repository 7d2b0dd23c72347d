CONSTANTS
  RequestTimeout = 14
  LineTimeout = 10
  PingWait = 6
  CommandWait = 3
  Leftover = FALSE
  MaxCommands = 5
SPECIFICATION LifeSpec
INVARIANTS OwnReply
CHECK_DEADLOCK FALSE
