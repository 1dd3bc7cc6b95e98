\* One request at a time: two packages of one dataset, crashes at any step.
CONSTANTS
  Absent = Absent
  Partial = Partial
  Garbled = Garbled
  Threads = {t1}
  Packages = {p1, p2}
  Datasets = {d1}
SPECIFICATION RetrievalSpec
CONSTANT Prepared = {p1}
INVARIANTS
  SavedIsReadable
  RejectionWithdraws
  GrantsAreCurrent
PROPERTIES
  LifecyclePromise
