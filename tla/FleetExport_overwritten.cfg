SPECIFICATION Spec
CONSTANTS
  None = None
  Jobs = {p1, p2}
  Workers = {w1, w2}
  MaxAttempts = 3
  MaxStalls = 1
  MaxFaults = 0

INVARIANT
  ReadyMessageIsTrue
CHECK_DEADLOCK FALSE
