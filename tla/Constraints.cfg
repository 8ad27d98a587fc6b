SPECIFICATION Spec
CONSTANTS
  RowId = {1, 2, 3, 4, 5, 6}
  Absent = Absent
  NullKey = NullKey
  TableOf <- MCTableOf
  ValuesOf <- MCValuesOf
  PrimaryKey <- MCPrimaryKey
  Uniques <- MCUniques
  NotNullable <- MCNotNullable
  ForeignKeys <- MCForeignKeys
  Replaceable = {"c", "g", "f"}
  MaxStatements = 2
CHECK_DEADLOCK FALSE
INVARIANTS
  NoOrphans
PROPERTIES
  DeletesDependents
  ReferencesFollow
