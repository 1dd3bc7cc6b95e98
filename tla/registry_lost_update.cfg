\* Two concurrent requests on one package.
CONSTANTS
  Absent = Absent
  Partial = Partial
  Garbled = Garbled
  Threads = {t1, t2}
  Packages = {p1}
  Datasets = {d1}
SPECIFICATION Spec
PROPERTIES
  SavesFollowTheGraph
