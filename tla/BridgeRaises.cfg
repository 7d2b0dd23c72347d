CONSTANTS
  Asks = {a1}
  Pollers = {}
  NoAsk = NoAsk
  AskTimeout = 2
  HookTimeout = 5
  Stale = 1
  MaxWait = 1
  WaitSlice = 1
  CallLimit = 1
  Strict = TRUE
  CloudUrl = TRUE
  MaxVersion = 1
  MaxCrashes = 0
SPECIFICATION Spec
INVARIANTS NoSilentRun
