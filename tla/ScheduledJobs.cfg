SPECIFICATION JobsSpec
CONSTANTS
  None = None
  Policies = {p1, p2}
  FirstEnd <- MCFirstEnd
  Stages <- MCStages
  Extensions = {1}
  Channels = 1
  LastDay = 1
  Jobs <- MCJobs
  Tenants = {t1, t2}
  Runs = {all1, one1}
  SingleRuns = {one1}
  Syncs = {w1, w2}
  Brands = {b1, b2}
  Ages = {49, 71}
  MaxAge = 77
  Companies = {h1, h2}
  HeaderLike = {h2}
  MaxChanges = 1
  MaxRuns = 2
  DomainRows = {w1, w2}
  Hosts = {h1, h2}
  Requests = {r1, r2}
  Entries = {h1}
  Logos = {l1, l2}
  Broken = {l1}
  MaxVisits = 2
  TenantOf <- MCTenantOf
  Workers = {w1, w2}
  MaxAttempts = 2
  MaxStalls = 1
  MaxFaults = 1
SYMMETRY Symmetry
INVARIANTS
  LoggedIsOrdered
  RenewedLeftAlone
  ChecksExplained
  RunAccountsForAll
  InvoiceMailedOnce
  DoneIsWhole
  BreachesExplained
  InsurersExplained
  SeedExplained
  HostsExplained
CHECK_DEADLOCK FALSE
