SPECIFICATION Spec
CONSTANTS
  RowId = {1, 2, 3}
  Absent = Absent
  NullKey = NullKey
  TableOf <- ReplaceTableOf
  ValuesOf <- ReplaceValuesOf
  PrimaryKey <- MCPrimaryKey
  Uniques <- ReplaceUniques
  NotNullable <- IdNotNullable
  ForeignKeys <- ReplaceForeignKeys
  Replaceable = {"p"}
  MaxStatements = 2
CHECK_DEADLOCK FALSE
INVARIANT
  NoOrphans
