SPECIFICATION Spec
CONSTANTS
  Processes = {q1}
  Ids = {1, 2, 3}
  None = None
  MaxTime = 2
  MaxFaults = 0
INVARIANT
  SequentialWritesVerify
CHECK_DEADLOCK FALSE
