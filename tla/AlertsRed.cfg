CONSTANTS
  Posts = {p1, p2}
  Asks = {a1}
  MaxFaults = 0
SPECIFICATION Spec
INVARIANTS RedUntilAnswered
CHECK_DEADLOCK FALSE
