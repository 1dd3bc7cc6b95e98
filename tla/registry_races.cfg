\* Three concurrent requests on one package, crashes at any step.
CONSTANTS
  Absent = Absent
  Partial = Partial
  Garbled = Garbled
  Threads = {t1, t2, t3}
  Packages = {p1}
  Datasets = {d1}
SPECIFICATION Spec
SYMMETRY Symmetry
INVARIANTS
  StoredHistoriesReplay
  CertifiedPassedTheGate
