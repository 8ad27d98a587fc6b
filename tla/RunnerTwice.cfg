SPECIFICATION Spec
CONSTANTS
  Nil = Nil
  Table <- MCTable
  Task <- TwiceTask
  Workloads <- TwiceWorkloads
  Kind <- MCKind
  Plans <- MCPlans
  Observed <- JoinAndSingle
  ObserverOf <- MCObserverOf
  MayThrow = {}
  Empties = {}
CHECK_DEADLOCK FALSE
INVARIANT
  Isolation
