SPECIFICATION Spec
CONSTANTS
  Tables = {"t1", "t2"}
  Persistent = {"t2"}
  Kind = {"indexed_db"}
  Generated = {1}
  Values = {"a"}
  PageSize = 2
  MaxRowId = 3
  MaxStatements = 1
  MaxCommits = 1
  MaxRestarts = 1
  MaxVersion = 1
CHECK_DEADLOCK FALSE
PROPERTY
  IndicesDeserialized
