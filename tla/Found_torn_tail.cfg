SPECIFICATION LogSpec
CONSTANTS
  Key = {k1, k2}
  Val = {v1, v2}
  Absent = absent
  NoWrite = nowrite
  MaxLog = 3
  MaxCrash = 1
  TornWrites = TRUE
PROPERTIES ImplementsKV
CHECK_DEADLOCK FALSE
