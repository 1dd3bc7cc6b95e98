SPECIFICATION Spec
CONSTANTS
  t1 = t1
  t2 = t2
  n1 = n1
  n2 = n2
  n3 = n3
  FeedKinds <- MCKinds
  FThreads = {t1, t2}
  Ids = {1, 2}
  Storms = {1}
  Attempts = 2
  MaxRequests = 3
  MaxRestarts = 1
  RThreads = {t1, t2}
  Keys = {"A", "a", "n"}
  Lower <- MCLower
  Derived <- MCDerived
  Names = {n1, n2, n3}
  Prohibited = {n3}
  Capabilities = {"known", "geo"}
  Known = "known"
  Versions = {1, 2}
  Nothing = Nothing
  Startup = Startup
  MaxCalls = 3
  MaxDeaths = 1
INVARIANTS
  ClaimsAreBacked
  RestartKeepsListing
  StormsAreListed
  SourcesAreUnique
  CapabilitiesAreWhole
SYMMETRY Interchangeable
CHECK_DEADLOCK FALSE
