SPECIFICATION Spec
CONSTANTS
  Clients = {"writer", "reader"}
  Writers = {"writer"}
  Tables = {"t1", "t2"}
  MaxRowId = 2
  MaxUpdates = 3
  MaxCrashes = 1
CHECK_DEADLOCK FALSE
INVARIANTS
  CacheIsAVersion
PROPERTIES
  ReadersGoForward
