CONSTANTS
  Posts = {p1, p2}
  Asks = {a1}
  MaxFaults = 1
SPECIFICATION FairSpec
INVARIANTS TypeOK LatestIsPlayed LastStatusIsTold RedTells
PROPERTIES EveryAlertIsHeard
CHECK_DEADLOCK FALSE
