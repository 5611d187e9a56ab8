SPECIFICATION OfficeSpec
CONSTANTS
  None = None
  Jobs = {p1, p2}
  Workers = {w1, w2}
  MaxAttempts = 3
  MaxStalls = 1
  MaxFaults = 1
  Editors = {w1, w2}
  Languages = {h1, h2}
  Phones = {r1, r2}
  MaxVersion = 2
INVARIANTS
  ReadyIsTrue
  TextsExplained
PROPERTIES
  ProgressCompletes
  AssemblyEnds
CHECK_DEADLOCK FALSE
