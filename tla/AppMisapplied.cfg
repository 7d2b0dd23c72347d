CONSTANTS
  Asks = {a1, a2}
  NoAsk = NoAsk
  MaxFaults = 0
  MaxKeys = 1
  MaxLosses = 0
SPECIFICATION Spec
INVARIANTS PressIsForItsPrompt
CHECK_DEADLOCK FALSE
