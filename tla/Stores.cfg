SPECIFICATION Spec
CONSTANTS
  Tables = {"t1", "t2"}
  Persistent = {"t2"}
  Kind = {"memory", "indexed_db", "bundled", "web_sql"}
  Generated = {1}
  Values = {"a", "b"}
  PageSize = 2
  MaxRowId = 4
  MaxStatements = 2
  MaxCommits = 2
  MaxRestarts = 2
  MaxVersion = 2
CHECK_DEADLOCK FALSE
INVARIANTS
  CacheIsReplica
  IndexKnowsRows
  IdsAreFresh
  RowsAreUpgraded
PROPERTIES
  RestartRestores
