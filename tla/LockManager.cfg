SPECIFICATION Spec
CONSTANTS
  Table = {t1, t2}
  Task = {a, b, c}
  Nil = Nil
INVARIANTS
  Exclusion
PROPERTIES
  ReservationBlocks
  ImplementsPromise
