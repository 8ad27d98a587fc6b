SPECIFICATION Spec
CONSTANTS
  RowId = {1, 2, 3}
  Absent = Absent
  NullKey = NullKey
  Primary = "pk"
  Value <- MCValue
  Index <- MCIndex
  Unique <- MCUnique
  KeyOf <- MCKeyOf
CHECK_DEADLOCK FALSE
INVARIANTS
  IndexMatchesCache
  UniqueKeys
  DiffIsNet
  RollbackRestores
  FailsOnlyOnReuse
