SPECIFICATION LogSpec
CONSTANTS
  Key = {k1, k2}
  Val = {v1, v2}
  Absent = absent
  NoWrite = nowrite
  MaxLog = 4
  MaxCrash = 2
  TornWrites = FALSE
INVARIANTS LogTypeOK
PROPERTIES ImplementsKV
CHECK_DEADLOCK FALSE
