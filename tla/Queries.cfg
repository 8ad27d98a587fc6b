SPECIFICATION Spec
CONSTANTS
  Unbound = Unbound
  Null = Null
  Unset = Unset
  BlockSize = 2
  QueryPercent = 100
  BaseOf <- MCBaseOf
  ColumnNames <- MCColumnNames
  Indices <- MCIndices
  Builders <- MCBuilders
  Databases <- MCDatabases
INVARIANTS PassesKeepRows PassesKeepOrder AnswersCurrent
CHECK_DEADLOCK FALSE
