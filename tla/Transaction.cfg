SPECIFICATION FairSpec
CONSTANTS
  Tx = {a, b, c}
  Nil = Nil
CHECK_DEADLOCK FALSE
INVARIANTS
  UncommittedIsLocked
  CallbacksAllowed
  ToldTheTruth
PROPERTIES
  LocksReleased
