SPECIFICATION FairSpec
CONSTANTS
  None = None
  Jobs = {x1, x2}
  Workers = {w1}
  MaxAttempts = 3
  MaxStalls = 1
  JobsHaveTenant = FALSE
  MaxFaults = 0
PROPERTY PreparedIsDelivered
CHECK_DEADLOCK FALSE
