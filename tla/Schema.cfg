SPECIFICATION Spec
CONSTANTS
  Nil = Nil
  Tables = {"t1", "t2", "t3", "t4"}
  Declared <- MCDeclared
  Declarations <- MCDeclarations
  MaxCalls = 5
  MaxConnects = 1
CHECK_DEADLOCK FALSE
INVARIANTS
  SchemaIsSound
  ScopesCoverAccess
