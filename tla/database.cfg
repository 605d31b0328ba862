CONSTANTS
  o1 = o1
  o2 = o2
  k1 = k1
  v1 = v1
  v2 = v2
  Absent = Absent
  TORN = TORN
  Owners = {o1, o2}
  Keys = {k1}
  Values = {v1, v2}
  Mutable = {v1}
  MaxRevisions = 1
  Copies = {1, 2, 3}
  Tasks = {1, 2}
  Backups <- MCBackups
  MaxSaves = 3
SPECIFICATION FairSpec
INVARIANTS
  TypeOK
  InStep
PROPERTIES
  StoredForward
  RescueKeeps
  Flushed
