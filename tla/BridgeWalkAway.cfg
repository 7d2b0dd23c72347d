CONSTANTS
  Asks = {a1, a2}
  Pollers = {}
  NoAsk = NoAsk
  AskTimeout = 18
  HookTimeout = 20
  Stale = 2
  MaxWait = 1
  WaitSlice = 1
  CallLimit = 1
  Strict = FALSE
  CloudUrl = FALSE
  MaxVersion = 1
  MaxCrashes = 0
SPECIFICATION Spec
INVARIANTS NoSilentRun
