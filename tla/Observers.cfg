SPECIFICATION Spec
CONSTANTS
  Nil = Nil
  Builder = {b1, b2}
  Handler = {h1}
  Tables <- MCTables
  Limits = {0, 1}
  Values = {1, 2}
  MaxCalls = 7
  MaxPending = 2
SYMMETRY TwoBuilders
CHECK_DEADLOCK FALSE
INVARIANTS
  TasksAnswerTheirQuery
  ObserversHearOfWrites
PROPERTY
  HandlersCanFollow
