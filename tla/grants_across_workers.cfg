\* Three requests in two workers, one grant, one failure or death at any step.
SPECIFICATION Spec
CONSTANTS
  Absent = Absent
  Partial = Partial
  Garbled = Garbled
  None = None
  t1 = t1
  t2 = t2
  t3 = t3
  w1 = w1
  w2 = w2
  g1 = g1
  g2 = g2
  i1 = i1
  i2 = i2
  Threads = {t1, t2, t3}
  WorkerOf <- MCWorkerOf
  Grants = {g1}
  Ids = {i1}
  IdOf <- OwnIds
  MaxTroubles = 1
INVARIANTS
  RevokedIsRefused
  RefusalsAreExplained
SYMMETRY Siblings
