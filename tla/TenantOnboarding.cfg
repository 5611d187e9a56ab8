SPECIFICATION Spec
CONSTANTS
  Pages = {p1}
  Accounts = {a1, a2}
  None = None
  MaxFaults = 1
INVARIANT
  PasswordStepWorks
CHECK_DEADLOCK FALSE
