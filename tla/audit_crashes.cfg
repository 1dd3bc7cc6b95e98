\* Crashes, failed writes and one lost entry at any step.
CONSTANTS
  Absent = Absent
  Partial = Partial
  Garbled = Garbled
  Events = {e1, e2}
  MaxEntries = 3
SPECIFICATION Spec
\* A torn manifest, or a torn first entry, keeps the service down for good.
CHECK_DEADLOCK FALSE
INVARIANTS
  ReturnedEntriesStay
  CorruptOnlyIfDamaged
  QuietChainVerifies
