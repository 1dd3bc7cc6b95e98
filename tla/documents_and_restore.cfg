SPECIFICATION StoresSpec
CONSTANTS
  None = None
  d1 = d1
  d2 = d2
  o1 = o1
  o2 = o2
  t1 = t1
  t2 = t2
  DocThreads = {t1, t2}
  ObjThreads = {t1, t2}
  Docs = {d1, d2}
  Categories = {"bcab"}
  Contents = {"x"}
  Actors = {"editor"}
  RolesOf <- MCRolesOf
  WriteRoles = {"bcaes-editor"}
  Admin = "admin"
  MaxVersions = 3
  Mixed = FALSE
  MaxRequests = 5
  Objects = {o1, o2}
  Dimensions = {"sdk_adoption", "replay_status"}
INVARIANTS
  PredecessorsKept
  StoredChainsVerify
  CategoriesAreUnique
  DeletionsLast
  UnresolvedWereDeleted
  MemoryIsStored
CHECK_DEADLOCK FALSE
SYMMETRY Interchangeable
