SPECIFICATION Spec
CONSTANTS
  t1 = t1
  t2 = t2
  p1 = p1
  p2 = p2
  p3 = p3
  KThreads = {t1, t2}
  Packages = {p1, p2, p3}
  Major <- MCMajor
  NoPackage = NoPackage
  NoObject = NoObject
  MaxObjects = 3
  SThreads = {t1, t2}
  Records <- MCRecords
  RequiredOf <- MCRequiredOf
  NoRecord = NoRecord
  MaxChanges = 5
INVARIANTS
  LineageIsMutual
  KeysAgree
  ConfirmedChangesCount
CHECK_DEADLOCK FALSE
SYMMETRY Interchangeable
