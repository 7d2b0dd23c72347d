CONSTANTS
  Asks = {a1}
  Pollers = {}
  NoAsk = NoAsk
  AskTimeout = 1
  HookTimeout = 1
  Stale = 1
  MaxWait = 1
  WaitSlice = 1
  CallLimit = 1
  Strict = FALSE
  CloudUrl = TRUE
  MaxVersion = 2
  MaxCrashes = 1
  Flippers = {f1}
  BoxStale = 1
  MaxEvictions = 1
  Ordered = FALSE
  MaxFaults = 1
SPECIFICATION SyncSpec
INVARIANTS MirrorCatchesUp
