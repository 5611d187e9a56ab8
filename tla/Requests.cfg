SPECIFICATION RequestsSpec
CONSTANTS
  None = None
  Tabs = {x1, x2}
  MaxTokens = 3
  Resets = {s1}
  MaxFailed = 1
  MaxFaults = 1
  Pages = {x1, x2}
  Requests = {r1, r2}
  MaxOtpAttempts = 2
  Insurers = {n1, n2}
  OnboardingPages = {o1}
  Accounts = {x1, x2}
  Flags = {fleet, dkp}
  Restricted = {fleet}
  Plans = {49, 149}
  SettingsActors = {x1, x2}
  Processes = {q1, q2}
  Ids = {1, 2, 3}
  MaxTime = 2
  Values = {0, 1, 2}
  MaxSaves = 2
  MaxLoads = 3
  Addresses = {h1, h2}
  MaxCalls = 3
  Makes = {h1, h2}
  MaxPicks = 2
  MaxMounts = 2
  MaxOpen = 2
  MaxTyped = 2
  Cars = {h1, h2}
  MaxChecks = 2
  MaxTurns = 2
  MaxChanges = 1
  MaxRuns = 2
  MaxLines = 1
  MaxOpens = 3
  ShownOffers = {x1, x2}
  Counts = {1, 2}
  MaxPages = 4
  Interests = {"go", "kasko"}
  MaxStarts = 2
  MaxAsks = 3
  FleetSize = 2
  PageSize = 1
  Users = {x1, x2}
  FleetQuotes = {x1, x2}
  Rates = {1, 2}
  MaxPolicies = 2
  MaxAssigns = 2
SYMMETRY Symmetry
INVARIANTS
  ResetEndsEarlierSessions
  CookieOpensSession
  SessionLossExplained
  AttemptsBounded
  OffersExplained
  InServiceCanCharge
  SettingsExplained
  BrokenChainExplained
  
CHECK_DEADLOCK FALSE
