\* Two concurrent requests on one upload and two datasets, a crash at any step.
CONSTANTS
  None = None
  u1 = u1
  d1 = d1
  good = good
  bad = bad
  Threads = {t1, t2}
  Uploads = {u1}
  Datasets = {d1, u1}
  Contents = {good, bad}
  Certifiable = {good}
  DatasetFile <- FileOfDataset
  Requests <- SomeRequests
  MaxJobs = 2
  MaxCrashes = 1
SPECIFICATION Spec
SYMMETRY Symmetry
\* When MaxJobs is reached and the uploads are done for, nothing is left to do.
CHECK_DEADLOCK FALSE
INVARIANTS
  KeyIngestsOnce
  JobsAccountForTarget
PROPERTIES
  OffLifecycleOnlyIfStale
