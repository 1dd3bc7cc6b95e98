SPECIFICATION Spec
CONSTANTS
  Actors = {"ops", "guest"}
  Admins = {"ops"}
  Workers = {"w1"}
  Lifetime = 2
  Settings <- MCSettings
  LastTick = 4
  MaxRestarts = 1
  MaxTokens = 1
  Addresses = {"here"}
  MaxRequests = 2
  Window = 1
  j1 = j1
  j2 = j2
  j3 = j3
  Jtis = {j1, j2, j3}
  ExpiryOf <- MCExpiryOf
  OwnerOf <- MCOwnerOf
  TableSize = 2
  Never = Never
  Anyone = Anyone
INVARIANTS
  PrivilegeIsEarned
  RetryAfterIsEnough
  ReplaysAreExplained
CHECK_DEADLOCK FALSE
