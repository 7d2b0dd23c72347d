CONSTANTS
  Asks = {a1, a2}
  NoAsk = NoAsk
  MaxFaults = 2
  MaxKeys = 2
  MaxLosses = 1
SPECIFICATION FairSpec
INVARIANTS TypeOK EachKeyCountsOnce EveryPromptBuzzes
PROPERTIES EveryAskIsSeen ExitEnds
CHECK_DEADLOCK FALSE
