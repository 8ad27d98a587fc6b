SPECIFICATION Spec
CONSTANTS
  Unbound = Unbound
  Null = Null
  Unset = Unset
  BlockSize = 2
  QueryPercent = 100
  BaseOf <- MCBaseOf
  ColumnNames <- MCColumnNames
  Indices <- MCIndices
  Builders <- Orderings
  Databases <- MCDatabases
INVARIANT NeverAffectsResult
CHECK_DEADLOCK FALSE
