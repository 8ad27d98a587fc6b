SPECIFICATION FairSpec
CONSTANTS
  Nil = Nil
  Table <- MCTable
  Task <- MCTask
  Workloads <- MCWorkloads
  Kind <- MCKind
  Plans <- MCPlans
  Observed <- JoinAndSingle
  ObserverOf <- MCObserverOf
  MayThrow = {"e2"}
  Empties <- MCEmpties
CHECK_DEADLOCK FALSE
INVARIANTS
  Isolation
  NoneStranded
  ObserverSeesChange
  ObserversCurrent
PROPERTIES
  SerialSpec
  ReservationKept
  EveryTaskSettles
