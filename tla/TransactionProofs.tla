-------------------------- MODULE TransactionProofs --------------------------
(***************************************************************************)
(* Theorems about Transaction.tla, for any number of transactions: the     *)
(* types, UncommittedIsLocked, CallbacksAllowed and ToldTheTruth.          *)
(*                                                                         *)
(* The invariant has three parts.  Consistent says, of each transaction    *)
(* alone, where its task, its journal and its callbacks are in each state  *)
(* of the object.  LocksOK says which tasks hold the locks and which wait. *)
(* DataOK says what is in memory and in the store, until a rollback has    *)
(* thrown half-way: then nothing is said of that.                          *)
(***************************************************************************)
EXTENDS Transaction, Integers, TLAPS

Tasks     == {"none", "queued", "running", "resolved", "rejected", "lost", "ended"}
Journals  == {"unused", "changed", "terminated", "halfUndone"}
Promises  == {"none", "pending", "fulfilled", "rejected"}
Callbacks == {"scope", "attached", "attachFailed", "ended", "endedInError"}

\* A task that has the locks.
Holding == {"running", "resolved", "rejected", "lost"}

\* A journal that may still be written to.
Open == {"unused", "changed"}

\* One that was rolled back, or should have been.
Over == {"terminated", "halfUndone"}

\* Of one transaction: state, task, journal, callbacks due and promise.
Consistent(s, t, j, d, p) ==
    /\ s = "CREATED" => t = "none" /\ j = "unused" /\ d = {} /\ p = "none"
    /\ s = "ACQUIRING_SCOPE" =>
          /\ j = "unused" /\ p = "none"
          /\ \/ t = "queued" /\ d = {}
             \/ t = "running" /\ d = {"scope"}
    /\ s = "ACQUIRED_SCOPE" => t = "running" /\ j \in Open /\ d = {} /\ p = "none"
    /\ s = "EXECUTING_QUERY" =>
          /\ p = "none"
          /\ \/ t = "running" /\ j \in Open /\ d \in {{}, {"attached"}}
             \/ t \in {"rejected", "ended"} /\ j = "terminated" /\ d = {"attachFailed"}
             \/ t = "lost" /\ j = "halfUndone" /\ d = {"attachFailed"}
    /\ s \in {"EXECUTING_AND_COMMITTING", "COMMITTING"} =>
          \/ /\ t = "queued" /\ j = "unused" /\ d = {} /\ p = "pending"
             /\ s = "EXECUTING_AND_COMMITTING"
          \/ t = "running" /\ j \in Open /\ d = {} /\ p = "pending"
          \/ t = "resolved" /\ j = "terminated" /\ d = {} /\ p = "pending"
          \/ t = "rejected" /\ j \in Over /\ d = {} /\ p = "pending"
          \/ /\ t = "lost" /\ j \in Over /\ d = {} /\ p = "pending"
             /\ s = "COMMITTING"
          \/ t = "ended" /\ j = "terminated" /\ p = "pending" /\ d = {"ended"}
          \/ t = "ended" /\ j \in Over /\ p = "pending" /\ d = {"endedInError"}
          \/ t = "ended" /\ j \in Over /\ d = {} /\ p = "rejected"
    /\ s = "ROLLING_BACK" =>
          \/ t = "resolved" /\ j = "terminated" /\ p = "pending" /\ d = {}
          \/ t = "ended" /\ j = "terminated" /\ p = "pending" /\ d = {"ended"}
          \/ t = "lost" /\ j = "halfUndone" /\ p = "none" /\ d = {}
    /\ s = "FINALIZED" =>
          /\ d = {}
          /\ \/ t = "none" /\ j = "unused" /\ p = "rejected"
             \/ t = "running" /\ j \in Open /\ p = "none"
             \/ t = "rejected" /\ j = "terminated" /\ p = "none"
             \/ t = "lost" /\ j = "halfUndone" /\ p = "none"
             \/ t = "ended" /\ j \in Over

Types ==
    /\ state \in [Tx -> State] /\ promise \in [Tx -> Promises]
    /\ due \in [Tx -> SUBSET Callbacks]
    /\ task \in [Tx -> Tasks] /\ journal \in [Tx -> Journals]
    /\ undo \in [Tx -> SUBSET Tx]
    /\ cache \in SUBSET Tx /\ store \in SUBSET Tx
    /\ refused \in SUBSET Tx /\ untold \in SUBSET Tx

EachConsistent ==
    \A x \in Tx : Consistent(state[x], task[x], journal[x], due[x], promise[x])

LocksOK ==
    /\ holder \in Tx \cup {Nil}
    /\ queue \in Seq(Tx)
    /\ \A x \in Tx : holder = x <=> task[x] \in Holding
    /\ \A i \in 1 .. Len(queue) : task[queue[i]] = "queued"
    /\ \A i, j \in 1 .. Len(queue) : queue[i] = queue[j] => i = j
    /\ \A x \in Tx : task[x] = "queued" => \E i \in 1 .. Len(queue) : queue[i] = x

\* Of a transaction whose changes are in the store.
Committed(x, t, p, d, s, u) ==
    /\ s # "ROLLING_BACK"
    /\ \/ t \in {"resolved", "ended"} /\ p # "rejected" /\ "endedInError" \notin d
       \/ t \in {"rejected", "lost", "ended"} /\ x \in u

DataOK ==
    /\ \A x \in Tx : journal[x] = "changed" => undo[x] = store
    /\ cache # store => \E x \in Tx : journal[x] = "changed"
    /\ \A x \in store : Committed(x, task[x], promise[x], due[x], state[x], untold)
    /\ \A x \in cache : x \in store \/ journal[x] = "changed"

Base == Types /\ EachConsistent /\ LocksOK

IInv == Base /\ (Restored => DataOK)

-----------------------------------------------------------------------------
(* The states from which each state may be entered.                        *)
LEMMA WhereFrom ==
    ASSUME Types, NEW x \in Tx
    PROVE  /\ Allowed(x, "ACQUIRING_SCOPE") => state[x] = "CREATED"
           /\ Allowed(x, "EXECUTING_AND_COMMITTING") => state[x] = "CREATED"
           /\ Allowed(x, "EXECUTING_QUERY") => state[x] = "ACQUIRED_SCOPE"
           /\ Allowed(x, "COMMITTING") => state[x] = "ACQUIRED_SCOPE"
           /\ Allowed(x, "ROLLING_BACK") => state[x] = "ACQUIRED_SCOPE"
           /\ Allowed(x, "ACQUIRED_SCOPE") <=>
                state[x] \in {"ACQUIRING_SCOPE", "EXECUTING_QUERY"}
           /\ Allowed(x, "FINALIZED") <=>
                state[x] \in {"EXECUTING_QUERY", "EXECUTING_AND_COMMITTING",
                              "COMMITTING", "ROLLING_BACK"}
<1>1. state[x] \in State
  BY DEF Types
<1> QED BY <1>1 DEF Allowed, StateTransitions, State

(* At first no transaction has begun.                                      *)
LEMMA InitIInv == Init => IInv
<1> SUFFICES ASSUME Init PROVE IInv
  OBVIOUS
<1> USE DEF Init
<1>1. Types
  BY DEF Types, State, Promises, Tasks, Journals
<1>2. EachConsistent
  BY DEF EachConsistent, Consistent
<1>3. LocksOK
  BY TxAssumption DEF LocksOK, Holding
<1>4. DataOK
  BY DEF DataOK
<1> QED BY <1>1, <1>2, <1>3, <1>4 DEF IInv, Base

-----------------------------------------------------------------------------
(* The call of a user that schedules the task of a new transaction.        *)
LEMMA ScheduleKeeps ==
    ASSUME Base, NEW x \in Tx, Begin(x) \/ Exec(x)
    PROVE  Base' /\ (DataOK => DataOK')
<1>0. /\ state[x] = "CREATED" /\ task[x] = "none" /\ journal[x] = "unused"
      /\ due[x] = {} /\ promise[x] = "none"
  BY WhereFrom DEF Base, EachConsistent, Consistent, Begin, Exec, Enter
<1>1. Types'
  BY DEF Base, Types, Begin, Exec, Enter, Schedule, Starting, State, Promises,
     Tasks, Callbacks, data
<1>2. \A y \in Tx : y # x =>
        /\ state'[y] = state[y] /\ promise'[y] = promise[y]
        /\ due'[y] = due[y] /\ task'[y] = task[y] /\ journal'[y] = journal[y]
  BY DEF Base, Types, Begin, Exec, Enter, Schedule, Starting, data
<1>3. EachConsistent'
  <2>1. CASE holder = Nil /\ Begin(x)
    <3>1. /\ state'[x] = "ACQUIRING_SCOPE" /\ promise'[x] = "none"
          /\ due'[x] = {"scope"} /\ task'[x] = "running" /\ journal'[x] = "unused"
      BY <1>0, <2>1 DEF Base, Types, Begin, Enter, Schedule, Starting, data
    <3> QED BY <3>1, <1>2 DEF Base, EachConsistent, Consistent
  <2>2. CASE holder # Nil /\ Begin(x)
    <3>1. /\ state'[x] = "ACQUIRING_SCOPE" /\ promise'[x] = "none"
          /\ due'[x] = {} /\ task'[x] = "queued" /\ journal'[x] = "unused"
      BY <1>0, <2>2 DEF Base, Types, Begin, Enter, Schedule, data
    <3> QED BY <3>1, <1>2 DEF Base, EachConsistent, Consistent
  <2>3. CASE Exec(x)
    <3>1. /\ state'[x] = "EXECUTING_AND_COMMITTING" /\ promise'[x] = "pending"
          /\ due'[x] = {} /\ task'[x] \in {"running", "queued"}
          /\ journal'[x] = "unused"
      BY <1>0, <2>3 DEF Base, Types, Exec, Enter, Schedule, Starting, data
    <3> QED BY <3>1, <1>2 DEF Base, EachConsistent, Consistent, Open
  <2> QED BY <2>1, <2>2, <2>3
<1>4. LocksOK'
  <2>1. CASE holder = Nil
    BY <1>0, <2>1, TxAssumption
    DEF Base, Types, LocksOK, Begin, Exec, Schedule, Holding, Tasks
  <2>2. CASE holder # Nil
    <3>1. /\ holder' = holder /\ queue' = Append(queue, x)
          /\ task' = [task EXCEPT ![x] = "queued"]
      BY <2>2 DEF Begin, Exec, Schedule
    <3>2. \A i \in 1 .. Len(queue) : queue[i] # x
      BY <1>0 DEF Base, LocksOK
    <3>3. /\ queue' \in Seq(Tx) /\ Len(queue') = Len(queue) + 1
          /\ \A i \in 1 .. Len(queue) : queue'[i] = queue[i]
          /\ queue'[Len(queue) + 1] = x
      BY <3>1 DEF Base, LocksOK
    <3>4. \A y \in Tx : task'[y] = IF y = x THEN "queued" ELSE task[y]
      BY <3>1 DEF Base, Types
    <3>5. \A y \in Tx : holder' = y <=> task'[y] \in Holding
      BY <1>0, <3>1, <3>4 DEF Base, LocksOK, Holding
    <3> QED BY <1>0, <3>1, <3>2, <3>3, <3>4, <3>5 DEF Base, LocksOK
  <2> QED BY <2>1, <2>2
<1>5. ASSUME DataOK PROVE DataOK'
  BY <1>0, <1>2, <1>5 DEF Base, Types, DataOK, Committed, Begin, Exec, data
<1> QED BY <1>1, <1>3, <1>4, <1>5 DEF Base

-----------------------------------------------------------------------------
(* The calls that change the state of the object and neither its task nor  *)
(* its journal.                                                            *)
LEMMA CallKeeps ==
    ASSUME Base, NEW x \in Tx,
           ExecRefused(x) \/ Attach(x) \/ AttachRefused(x) \/ Commit(x)
    PROVE  Base' /\ (DataOK => DataOK')
<1>1. \/ /\ state[x] = "CREATED" /\ state'[x] = "FINALIZED"
         /\ promise'[x] = "rejected"
      \/ /\ state[x] = "ACQUIRED_SCOPE" /\ promise'[x] = promise[x]
         /\ state'[x] \in {"EXECUTING_QUERY", "FINALIZED"}
      \/ /\ state[x] = "ACQUIRED_SCOPE" /\ state'[x] = "COMMITTING"
         /\ promise'[x] = "pending"
  BY WhereFrom DEF Base, Types, ExecRefused, Attach, AttachRefused, Commit, Enter
<1>2. Types'
  BY DEF Base, Types, ExecRefused, Attach, AttachRefused, Commit, Enter, State,
     Promises, data
<1>3. UNCHANGED <<due, task, data, lock, untold>>
  BY DEF ExecRefused, Attach, AttachRefused, Commit
<1>4. \A y \in Tx : y # x => state'[y] = state[y] /\ promise'[y] = promise[y]
  BY DEF Base, Types, ExecRefused, Attach, AttachRefused, Commit, Enter
<1>5. Consistent(state[x], task[x], journal[x], due[x], promise[x])
  BY DEF Base, EachConsistent
<1>6. task[x] \in {"none", "running"}
  BY <1>1, <1>5 DEF Consistent
<1>7. EachConsistent'
  <2>1. Consistent(state'[x], task'[x], journal'[x], due'[x], promise'[x])
    BY <1>1, <1>3, <1>5 DEF Consistent, Open, data
  <2> QED BY <1>3, <1>4, <2>1 DEF Base, EachConsistent, data
<1>8. LocksOK'
  BY <1>3 DEF Base, LocksOK, lock
<1>9. ASSUME DataOK PROVE DataOK'
  <2>1. x \notin store
    BY <1>6, <1>9 DEF Base, DataOK, Committed
  <2>2. \A y \in store : y \in Tx /\ y # x
    BY <2>1 DEF Base, Types
  <2>3. store' = store /\ cache' = cache /\ journal' = journal /\ undo' = undo
        /\ task' = task /\ due' = due
    BY <1>3 DEF data
  <2> QED BY <1>3, <1>4, <1>9, <2>2, <2>3 DEF Base, DataOK, Committed
<1> QED BY <1>2, <1>7, <1>8, <1>9 DEF Base

-----------------------------------------------------------------------------
(* Of the tasks that hold the locks there is one, and the others have      *)
(* nothing to roll back: what is in memory is in the store.                *)
LEMMA HolderAlone ==
    ASSUME Base, DataOK, NEW x \in Tx, task[x] = "running"
    PROVE  /\ holder = x
           /\ \A y \in Tx : y # x => task[y] \notin Holding
           /\ \A y \in Tx : y # x => journal[y] # "changed"
           /\ journal[x] # "changed" => cache = store
           /\ x \notin store
<1>1. holder = x /\ \A y \in Tx : y # x => task[y] \notin Holding
  BY DEF Base, LocksOK, Holding
<1>2. ASSUME NEW y \in Tx, journal[y] = "changed" PROVE task[y] \in Holding
  BY <1>2 DEF Base, EachConsistent, Consistent, Holding, Types, State, Over
<1>3. \A y \in Tx : y # x => journal[y] # "changed"
  BY <1>1, <1>2
<1> QED BY <1>1, <1>3 DEF Base, DataOK, Committed

(* A query that succeeds, of those attached or of those exec() was given.  *)
LEMMA WriteKeeps ==
    ASSUME Base, NEW x \in Tx, QuerySucceeds(x) \/ ExecQueries(x)
    PROVE  Base' /\ (DataOK => DataOK')
<1>1. /\ task[x] = "running" /\ journal[x] \in Open
      /\ promise[x] \in {"none", "pending"}
  BY DEF Base, EachConsistent, Consistent, QuerySucceeds, Querying, ExecQueries, Open
<1>2. ASSUME DataOK
      PROVE  /\ \A y \in Tx : y # x => journal[y] # "changed"
             /\ journal[x] # "changed" => cache = store
  BY <1>1, <1>2, HolderAlone
<1>3. Types'
  BY DEF Base, Types, QuerySucceeds, ExecQueries, Write, Add, Callbacks,
     Journals, api
<1>4. UNCHANGED <<state, promise, task, lock, store, untold>>
  BY DEF QuerySucceeds, ExecQueries, Write, api
<1>5. \A y \in Tx : y # x => journal'[y] = journal[y] /\ due'[y] = due[y]
  BY DEF Base, Types, QuerySucceeds, ExecQueries, Write, Add, api
<1>6. /\ journal'[x] = "changed"
      /\ \/ state[x] = "EXECUTING_QUERY" /\ due'[x] = {"attached"}
         \/ state[x] = "EXECUTING_AND_COMMITTING" /\ due'[x] = due[x]
  BY DEF Base, Types, QuerySucceeds, Querying, ExecQueries, Write, Add, api
<1>7. EachConsistent'
  <2>1. Consistent(state'[x], task'[x], journal'[x], due'[x], promise'[x])
    BY <1>1, <1>4, <1>6 DEF Base, EachConsistent, Consistent, Open
  <2> QED BY <1>4, <1>5, <2>1 DEF Base, EachConsistent
<1>8. LocksOK'
  BY <1>4 DEF Base, LocksOK, lock
<1>9. ASSUME DataOK PROVE DataOK'
  <2>1. undo'[x] = store /\ cache' = cache \cup {x}
    BY <1>1, <1>2, <1>9 DEF Base, Types, DataOK, QuerySucceeds, ExecQueries, Write, Open
  <2>2. \A y \in store : y \in Tx /\ y # x
    BY <1>1, <1>9, HolderAlone DEF Base, Types
  <2>3. \A y \in Tx : journal'[y] = "changed" => undo'[y] = store'
    BY <1>2, <1>4, <1>5, <1>9, <2>1
  <2>4. \A y \in store' : Committed(y, task'[y], promise'[y], due'[y], state'[y], untold')
    BY <1>4, <1>5, <1>9, <2>2 DEF Base, DataOK, Committed
  <2>5. \A y \in cache' : y \in store' \/ journal'[y] = "changed"
    <3>1. \A y \in cache : y \in store \/ y = x
      BY <1>2, <1>9 DEF Base, Types, DataOK
    <3> QED BY <1>4, <1>6, <2>1, <3>1
  <2> QED BY <1>6, <2>3, <2>4, <2>5 DEF DataOK
<1> QED BY <1>3, <1>7, <1>8, <1>9 DEF Base

(* A journal that is rolled back leaves in memory what is in the store.    *)
LEMMA UndoRestores ==
    ASSUME Base, DataOK, NEW x \in Tx, task[x] = "running", Undo(x)
    PROVE  cache' = store /\ store' = store
BY HolderAlone DEF Base, DataOK, Undo

(* The ways in which it is.                                                *)
LEMMA UndoKeeps ==
    ASSUME Base, NEW x \in Tx, Rollback(x) \/ QueryFails(x) \/ FlushFails(x)
    PROVE  Base' /\ (DataOK => DataOK')
<1>1. task[x] = "running" /\ promise[x] \in {"none", "pending"}
  BY WhereFrom DEF Base, EachConsistent, Consistent, Rollback, Enter, QueryFails,
     Querying, FlushFails, Flushing
<1>2. ASSUME DataOK PROVE cache' = store /\ store' = store
  BY <1>1, <1>2, UndoRestores DEF Rollback, QueryFails, FlushFails
<1>3. Types'
  BY DEF Base, Types, Rollback, Enter, QueryFails, FlushFails, Undo, Add,
     Callbacks, Journals, Tasks, State, Promises, api
<1>4. /\ UNCHANGED <<lock, store, untold>>
      /\ \A y \in Tx : y # x =>
           /\ state'[y] = state[y] /\ promise'[y] = promise[y]
           /\ due'[y] = due[y] /\ task'[y] = task[y] /\ journal'[y] = journal[y]
  BY DEF Base, Types, Rollback, Enter, QueryFails, FlushFails, Undo, Add, api
<1>5. /\ journal'[x] = "terminated" /\ task'[x] \in {"resolved", "rejected"}
      /\ \/ /\ state[x] = "ACQUIRED_SCOPE" /\ state'[x] = "ROLLING_BACK"
            /\ promise'[x] = "pending" /\ due'[x] = due[x] /\ task'[x] = "resolved"
         \/ /\ state'[x] = "EXECUTING_QUERY" /\ state[x] = state'[x]
            /\ promise'[x] = promise[x] /\ due'[x] = {"attachFailed"}
            /\ task'[x] = "rejected"
         \/ /\ state'[x] \in {"COMMITTING", "EXECUTING_AND_COMMITTING"}
            /\ state[x] = state'[x] /\ promise'[x] = promise[x]
            /\ due'[x] = due[x] /\ task'[x] = "rejected"
  BY WhereFrom DEF Base, Types, Rollback, Enter, QueryFails, Querying, FlushFails,
     Flushing, Undo, Add, api
<1>6. EachConsistent'
  <2>1. Consistent(state'[x], task'[x], journal'[x], due'[x], promise'[x])
    BY <1>1, <1>5 DEF Base, EachConsistent, Consistent, Over
  <2> QED BY <1>4, <2>1 DEF Base, EachConsistent
<1>7. LocksOK'
  BY <1>1, <1>4, <1>5 DEF Base, LocksOK, lock, Holding
<1>8. ASSUME DataOK PROVE DataOK'
  <2>1. \A y \in store : y \in Tx /\ y # x
    BY <1>1, <1>8, HolderAlone DEF Base, Types
  <2>2. \A y \in Tx : journal'[y] # "changed"
    BY <1>1, <1>4, <1>5, <1>8, HolderAlone
  <2>3. \A y \in store' : Committed(y, task'[y], promise'[y], due'[y], state'[y], untold')
    BY <1>2, <1>4, <1>8, <2>1 DEF Base, DataOK, Committed
  <2> QED BY <1>2, <1>8, <2>2, <2>3 DEF DataOK
<1> QED BY <1>3, <1>6, <1>7, <1>8 DEF Base

(* A commit that succeeds writes what is in memory, which is what was in   *)
(* the store and the changes of the transaction.                           *)
LEMMA FlushKeeps ==
    ASSUME Base, NEW x \in Tx, FlushSucceeds(x) \/ ObserversThrow(x)
    PROVE  Base' /\ (DataOK => DataOK')
<1>1. /\ task[x] = "running" /\ promise[x] = "pending" /\ due[x] = {}
      /\ state[x] \in {"COMMITTING", "EXECUTING_AND_COMMITTING"}
  BY DEF Base, EachConsistent, Consistent, FlushSucceeds, ObserversThrow, Flushing
<1>2. Types'
  BY DEF Base, Types, FlushSucceeds, ObserversThrow, Journals, Tasks, api
<1>3. /\ UNCHANGED <<api, lock, cache, undo>> /\ store' = cache
      /\ journal'[x] = "terminated"
      /\ \/ task'[x] = "resolved" /\ untold' = untold
         \/ /\ untold' = untold \cup {x}
            /\ task'[x] = IF state[x] = "COMMITTING" THEN "lost" ELSE "rejected"
      /\ \A y \in Tx : y # x => task'[y] = task[y] /\ journal'[y] = journal[y]
  BY DEF Base, Types, FlushSucceeds, ObserversThrow
<1>4. EachConsistent'
  <2>1. Consistent(state[x], task'[x], journal'[x], due[x], promise[x])
    BY <1>1, <1>3 DEF Consistent, Over
  <2> QED BY <1>3, <2>1 DEF Base, EachConsistent, api
<1>5. LocksOK'
  BY <1>1, <1>3 DEF Base, LocksOK, lock, Holding
<1>6. ASSUME DataOK PROVE DataOK'
  <2>1. /\ \A y \in Tx : journal'[y] # "changed"
        /\ \A y \in cache : y \in store \/ y = x
    BY <1>1, <1>3, <1>6, HolderAlone DEF Base, Types, DataOK
  <2>2. Committed(x, task'[x], promise[x], due[x], state[x], untold')
    BY <1>1, <1>3 DEF Committed
  <2>3. ASSUME NEW y \in store, y # x
        PROVE  Committed(y, task'[y], promise[y], due[y], state[y], untold')
    BY <1>3, <1>6, <2>3 DEF Base, Types, DataOK, Committed
  <2>4. \A y \in cache : Committed(y, task'[y], promise[y], due[y], state[y], untold')
    BY <2>1, <2>2, <2>3
  <2> QED BY <1>3, <2>1, <2>4 DEF DataOK, api
<1> QED BY <1>2, <1>4, <1>5, <1>6 DEF Base

-----------------------------------------------------------------------------
(* The callbacks that the end of a task adds, and the ones of the task     *)
(* that gets the locks, find their transaction as they need it.            *)
LEMMA FinishKeeps ==
    ASSUME Base, NEW x \in Tx, Finish(x)
    PROVE  Base' /\ (DataOK => DataOK')
<1> DEFINE next == Head(queue)
           listening == IF task[x] = "resolved" THEN promise[x] = "pending"
                        ELSE state[x] = "EXECUTING_AND_COMMITTING"
           ends == IF ~listening THEN due[x]
                   ELSE due[x] \cup
                     {IF task[x] = "resolved" THEN "ended" ELSE "endedInError"}
<1>1. /\ task[x] \in {"resolved", "rejected"} /\ holder = x
      /\ \A y \in Tx : y # x => task[y] \notin Holding
      /\ Consistent(state[x], task[x], journal[x], due[x], promise[x])
  BY DEF Base, EachConsistent, LocksOK, Finish, Holding
<1>2. ASSUME queue # <<>>
      PROVE  /\ next \in Tx /\ next # x /\ task[next] = "queued" /\ queue[1] = next
             /\ Len(queue) \in Nat \ {0} /\ Tail(queue) \in Seq(Tx)
             /\ Len(Tail(queue)) = Len(queue) - 1
             /\ \A i \in 1 .. Len(queue) - 1 : Tail(queue)[i] = queue[i + 1]
  <2>1. queue \in Seq(Tx)
    BY DEF Base, LocksOK
  <2>2. /\ Len(queue) \in Nat \ {0} /\ queue[1] = next /\ next \in Tx
        /\ Tail(queue) \in Seq(Tx) /\ Len(Tail(queue)) = Len(queue) - 1
        /\ \A i \in 1 .. Len(queue) - 1 : Tail(queue)[i] = queue[i + 1]
    BY <1>2, <2>1
  <2>3. task[next] = "queued"
    BY <2>2 DEF Base, LocksOK
  <2> QED BY <1>1, <2>2, <2>3
<1>3. /\ UNCHANGED <<state, data, refused, untold>>
      /\ promise' = IF task[x] = "rejected" /\ state[x] = "COMMITTING"
                    THEN [promise EXCEPT ![x] = "rejected"] ELSE promise
  BY DEF Finish
<1>4. ASSUME queue = <<>>
      PROVE  /\ holder' = Nil /\ queue' = queue /\ due' = [due EXCEPT ![x] = ends]
             /\ task' = [task EXCEPT ![x] = "ended"]
  BY <1>4 DEF Base, Types, Finish, Add
<1>5. ASSUME queue # <<>>
      PROVE  /\ holder' = next /\ queue' = Tail(queue)
             /\ task' = [task EXCEPT ![x] = "ended", ![next] = "running"]
             /\ due' = [y \in Tx |-> IF y = x THEN ends
                                     ELSE IF y = next /\ state[y] = "ACQUIRING_SCOPE"
                                     THEN due[y] \cup {"scope"} ELSE due[y]]
  <2>1. CASE ~listening
    <3>1. due' = Starting(next, state, due)
      BY <1>5, <2>1 DEF Finish
    <3> QED BY <1>2, <1>5, <2>1, <3>1 DEF Base, Types, Finish, Starting
  <2>2. CASE listening
    <3>1. due' = Starting(next, state, [due EXCEPT ![x] = ends])
      BY <1>5, <2>2 DEF Finish, Add, Base, Types
    <3> QED BY <1>2, <1>5, <3>1, ZenonT(60) DEF Base, Types, Finish, Starting
  <2> QED BY <2>1, <2>2
<1>6. ends \in SUBSET Callbacks
  BY DEF Base, Types, Callbacks
<1> HIDE DEF next
<1>7. Types'
  <2>1. CASE queue = <<>>
    BY <1>3, <1>4, <1>6, <2>1 DEF Base, Types, Promises, Tasks, data
  <2>2. CASE queue # <<>>
    <3>1. due' \in [Tx -> SUBSET Callbacks]
      <4>1. \A y \in Tx : due[y] \in SUBSET Callbacks
                          /\ due[y] \cup {"scope"} \in SUBSET Callbacks
        BY DEF Base, Types, Callbacks
      <4> HIDE DEF ends
      <4> QED BY <1>5, <1>6, <2>2, <4>1
    <3>2. task' \in [Tx -> Tasks]
      BY <1>5, <2>2 DEF Base, Types, Tasks
    <3>3. promise' \in [Tx -> Promises]
      BY <1>3 DEF Base, Types, Promises
    <3> QED BY <1>3, <3>1, <3>2, <3>3 DEF Base, Types, data
  <2> QED BY <2>1, <2>2
<1>8. EachConsistent'
  <2>1. /\ state'[x] = state[x] /\ journal'[x] = journal[x] /\ task'[x] = "ended"
        /\ due'[x] = ends
        /\ promise'[x] = IF task[x] = "rejected" /\ state[x] = "COMMITTING"
                         THEN "rejected" ELSE promise[x]
    BY <1>2, <1>3, <1>4, <1>5 DEF Base, Types, data
  <2>2. Consistent(state'[x], task'[x], journal'[x], due'[x], promise'[x])
    BY <1>1, <2>1 DEF Consistent, Over
  <2>3. ASSUME NEW y \in Tx, y # x, task'[y] = task[y], due'[y] = due[y]
        PROVE  Consistent(state'[y], task'[y], journal'[y], due'[y], promise'[y])
    BY <1>3, <2>3 DEF Base, Types, EachConsistent, data
  <2>4. CASE queue = <<>>
    BY <1>4, <2>2, <2>3, <2>4 DEF Base, Types, EachConsistent
  <2>5. CASE queue # <<>>
    <3>1. /\ state'[next] = state[next] /\ promise'[next] = promise[next]
          /\ journal'[next] = journal[next] /\ task'[next] = "running"
          /\ due'[next] = IF state[next] = "ACQUIRING_SCOPE"
                          THEN due[next] \cup {"scope"} ELSE due[next]
      BY <1>2, <1>3, <1>5, <2>5, ZenonT(60) DEF Base, Types, data
    <3>2. Consistent(state[next], "queued", journal[next], due[next], promise[next])
      BY <1>2, <2>5 DEF Base, EachConsistent
    <3>3. Consistent(state'[next], task'[next], journal'[next], due'[next],
                     promise'[next])
      BY <3>1, <3>2 DEF Base, Types, State, Consistent, Open
    <3>4. \A y \in Tx : y # x /\ y # next => task'[y] = task[y] /\ due'[y] = due[y]
      BY <1>2, <1>5, <2>5 DEF Base, Types
    <3> QED BY <2>2, <2>3, <3>3, <3>4 DEF EachConsistent
  <2> QED BY <2>4, <2>5
<1>9. LocksOK'
  <2>1. CASE queue = <<>>
    BY <1>1, <1>4, <2>1, TxAssumption DEF Base, Types, LocksOK, Holding
  <2>2. CASE queue # <<>>
    <3>1. /\ task'[x] = "ended" /\ task'[next] = "running"
          /\ \A y \in Tx : y # x /\ y # next => task'[y] = task[y]
      BY <1>2, <1>5, <2>2 DEF Base, Types
    <3>2. \A y \in Tx : holder' = y <=> task'[y] \in Holding
      BY <1>1, <1>2, <1>5, <2>2, <3>1 DEF Holding
    <3>3. \A i \in 1 .. Len(queue) - 1 : /\ Tail(queue)[i] \in Tx
                                         /\ task[Tail(queue)[i]] = "queued"
                                         /\ Tail(queue)[i] # next
      BY <1>2, <2>2 DEF Base, LocksOK
    <3>4. \A i \in 1 .. Len(queue') : task'[queue'[i]] = "queued"
      <4>1. \A y \in Tx : task[y] = "queued" /\ y # next => task'[y] = "queued"
        BY <1>1, <3>1
      <4>2. queue' = Tail(queue) /\ Len(Tail(queue)) = Len(queue) - 1
        BY <1>2, <1>5, <2>2
      <4> QED BY <3>3, <4>1, <4>2
    <3>5. \A i, j \in 1 .. Len(queue') : queue'[i] = queue'[j] => i = j
      <4>1. SUFFICES ASSUME NEW i \in 1 .. Len(queue) - 1,
                            NEW j \in 1 .. Len(queue) - 1,
                            Tail(queue)[i] = Tail(queue)[j]
                     PROVE  i = j
        BY <1>2, <1>5, <2>2
      <4>2. /\ i + 1 \in 1 .. Len(queue) /\ j + 1 \in 1 .. Len(queue)
            /\ queue[i + 1] = queue[j + 1]
        BY <1>2, <2>2, <4>1
      <4>3. i + 1 = j + 1
        BY <4>2 DEF Base, LocksOK
      <4> QED BY <1>2, <2>2, <4>3
    <3>6. ASSUME NEW y \in Tx, task'[y] = "queued"
          PROVE  \E i \in 1 .. Len(queue') : queue'[i] = y
      <4>1. y # next /\ task[y] = "queued"
        BY <3>1, <3>6
      <4>2. PICK i \in 1 .. Len(queue) : queue[i] = y
        BY <4>1 DEF Base, LocksOK
      <4>3. i # 1 /\ i - 1 \in 1 .. Len(queue')
        BY <1>2, <1>5, <2>2, <4>1, <4>2
      <4>4. queue'[i - 1] = y
        BY <1>2, <1>5, <2>2, <4>2, <4>3
      <4> QED BY <4>3, <4>4
    <3> QED BY <1>2, <1>5, <2>2, <3>2, <3>4, <3>5, <3>6 DEF LocksOK
  <2> QED BY <2>1, <2>2
<1>10. ASSUME DataOK PROVE DataOK'
  <2>1. \A y \in store : y \in Tx /\ task[y] # "queued"
    BY <1>10 DEF Base, Types, DataOK, Committed
  <2>2. ASSUME NEW y \in store
        PROVE  Committed(y, task'[y], promise'[y], due'[y], state'[y], untold')
    <3>0. y \in Tx /\ Committed(y, task[y], promise[y], due[y], state[y], untold)
      BY <1>10 DEF Base, Types, DataOK
    <3>1. CASE y = x
      <4>1. task'[y] = "ended" /\ due'[y] = ends
        BY <1>2, <1>4, <1>5, <3>1 DEF Base, Types
      <4>2. x \in untold \/ (task[x] = "resolved" /\ "endedInError" \notin ends)
        <5>1. x \in untold \/ (task[x] = "resolved" /\ "endedInError" \notin due[x])
          BY <1>1, <3>0, <3>1 DEF Committed
        <5> QED BY <5>1
      <4> QED BY <1>1, <1>3, <3>0, <3>1, <4>1, <4>2 DEF Committed
    <3>2. CASE y # x
      <4>1. task'[y] = task[y] /\ due'[y] = due[y] /\ promise'[y] = promise[y]
        BY <1>2, <1>3, <1>4, <1>5, <2>1, <3>0, <3>2 DEF Base, Types
      <4> QED BY <1>3, <3>0, <4>1 DEF Committed
    <3> QED BY <3>1, <3>2
  <2> QED BY <1>3, <1>10, <2>2 DEF Base, DataOK, data
<1> QED BY <1>7, <1>8, <1>9, <1>10 DEF Base

-----------------------------------------------------------------------------
(* A callback of the object.                                               *)
LEMMA RunCallbackKeeps ==
    ASSUME Base, NEW x \in Tx, RunCallback(x)
    PROVE  Base' /\ (DataOK => DataOK')
<1>1. PICK callback \in due[x] :
        /\ Enter(x, Target(callback))
        /\ due' = [due EXCEPT ![x] = @ \ {callback}]
        /\ promise' = CASE callback = "ended" -> [promise EXCEPT ![x] = "fulfilled"]
                        [] callback = "endedInError" -> [promise EXCEPT ![x] = "rejected"]
                        [] OTHER -> promise
        /\ UNCHANGED <<task, data, lock, refused, untold>>
  BY DEF RunCallback
<1>2. /\ state' = [state EXCEPT ![x] = Target(callback)]
      /\ Target(callback) \in {"ACQUIRED_SCOPE", "FINALIZED"}
      /\ Target(callback) = "ACQUIRED_SCOPE" <=> callback \in {"scope", "attached"}
  BY <1>1 DEF Enter, Target
<1>3. /\ callback = "ended" => promise' = [promise EXCEPT ![x] = "fulfilled"]
      /\ callback = "endedInError" => promise' = [promise EXCEPT ![x] = "rejected"]
      /\ callback \notin {"ended", "endedInError"} => promise' = promise
  BY <1>1
<1>4. Types'
  BY <1>1, <1>2, <1>3 DEF Base, Types, State, Promises, data
<1>5. /\ state'[x] = Target(callback) /\ due'[x] = due[x] \ {callback}
      /\ task'[x] = task[x] /\ journal'[x] = journal[x]
      /\ callback = "ended" => promise'[x] = "fulfilled"
      /\ callback = "endedInError" => promise'[x] = "rejected"
      /\ callback \notin {"ended", "endedInError"} => promise'[x] = promise[x]
  BY <1>1, <1>2, <1>3 DEF Base, Types, data
<1>6. \A y \in Tx : y # x => /\ state'[y] = state[y] /\ promise'[y] = promise[y]
                             /\ due'[y] = due[y]
  BY <1>1, <1>2, <1>3 DEF Base, Types
<1>7. EachConsistent'
  <2>1. Consistent(state[x], task[x], journal[x], due[x], promise[x])
        /\ state[x] \in State
    BY DEF Base, Types, EachConsistent
  <2>2. Consistent(state'[x], task'[x], journal'[x], due'[x], promise'[x])
    BY <1>2, <1>5, <2>1 DEF Consistent, State, Open, Over
  <2> QED BY <1>1, <1>6, <2>2 DEF Base, EachConsistent, data
<1>8. LocksOK'
  BY <1>1 DEF Base, LocksOK, lock
<1>9. ASSUME DataOK PROVE DataOK'
  <2>1. ASSUME NEW y \in store
        PROVE  Committed(y, task[y], promise'[y], due'[y], state'[y], untold)
    <3>1. y \in Tx /\ Committed(y, task[y], promise[y], due[y], state[y], untold)
      BY <1>9 DEF Base, Types, DataOK
    <3>2. state'[x] # "ROLLING_BACK" /\ due'[x] \subseteq due[x]
      BY <1>2, <1>5
    <3> QED BY <1>5, <1>6, <3>1, <3>2 DEF Committed
  <2> QED BY <1>1, <1>9, <2>1 DEF Base, DataOK, data
<1> QED BY <1>4, <1>7, <1>8, <1>9 DEF Base

(* A rollback that throws leaves the task with its locks, or ends exec().  *)
LEMMA ThrowKeeps ==
    ASSUME Base, NEW x \in Tx,
           RollbackThrows(x) \/ QueryRollbackThrows(x) \/ FlushRollbackThrows(x)
    PROVE  Base' /\ ~Restored'
<1>1. task[x] = "running" /\ promise[x] \in {"none", "pending"}
  BY WhereFrom DEF Base, EachConsistent, Consistent, RollbackThrows, Enter,
     QueryRollbackThrows, Querying, FlushRollbackThrows, Flushing
<1>2. Types'
  BY DEF Base, Types, RollbackThrows, Enter, QueryRollbackThrows, FlushRollbackThrows,
     UndoThrows, Add, Callbacks, Journals, Tasks, State, api
<1>3. /\ UNCHANGED <<lock, promise>>
      /\ \A y \in Tx : y # x => /\ state'[y] = state[y] /\ due'[y] = due[y]
                                /\ task'[y] = task[y] /\ journal'[y] = journal[y]
  BY DEF Base, Types, RollbackThrows, Enter, QueryRollbackThrows, FlushRollbackThrows,
     UndoThrows, Add, api
<1>4. /\ journal'[x] = "halfUndone"
      /\ \/ /\ state[x] = "ACQUIRED_SCOPE" /\ state'[x] = "ROLLING_BACK"
            /\ due'[x] = due[x] /\ task'[x] = "lost"
         \/ /\ state[x] = "EXECUTING_QUERY" /\ state'[x] = state[x]
            /\ due'[x] = {"attachFailed"} /\ task'[x] = "lost"
         \/ /\ state[x] \in {"COMMITTING", "EXECUTING_AND_COMMITTING"}
            /\ state'[x] = state[x] /\ due'[x] = due[x]
            /\ task'[x] = IF state[x] = "COMMITTING" THEN "lost" ELSE "rejected"
  BY WhereFrom DEF Base, Types, RollbackThrows, Enter, QueryRollbackThrows, Querying,
     FlushRollbackThrows, Flushing, UndoThrows, Add, api
<1>5. EachConsistent'
  <2>1. Consistent(state'[x], task'[x], journal'[x], due'[x], promise'[x])
    BY <1>1, <1>3, <1>4 DEF Base, EachConsistent, Consistent, Over
  <2> QED BY <1>3, <2>1 DEF Base, EachConsistent
<1>6. LocksOK'
  BY <1>1, <1>3, <1>4 DEF Base, LocksOK, lock, Holding
<1> QED BY <1>2, <1>4, <1>5, <1>6 DEF Base, Restored

(* What is half undone stays so: only a journal in use is written to or    *)
(* rolled back.                                                            *)
LEMMA ThrownStays ==
    ASSUME Base, NEW x \in Tx, User(x) \/ Callback(x), Restored'
    PROVE  Restored
<1>1. Consistent(state[x], task[x], journal[x], due[x], promise[x])
  BY DEF Base, EachConsistent
<1>2. journal'[x] = journal[x] \/ journal[x] # "halfUndone"
  <2>1. Write(x) \/ Undo(x) \/ UndoThrows(x) \/ Flushing(x) \/ UNCHANGED journal
    BY DEF User, Callback, Begin, Exec, ExecRefused, Attach, AttachRefused, Commit,
       Rollback, RollbackThrows, QuerySucceeds, QueryFails, QueryRollbackThrows,
       ExecQueries, FlushSucceeds, ObserversThrow, FlushFails, FlushRollbackThrows,
       Finish, RunCallback, data
  <2>2. CASE Querying(x) \/ Flushing(x)
    BY <1>1, <2>2 DEF Consistent, Querying, Flushing, Open
  <2>3. CASE Rollback(x) \/ RollbackThrows(x)
    BY <1>1, <2>3, WhereFrom DEF Base, Consistent, Rollback, RollbackThrows, Enter, Open
  <2>4. CASE ExecQueries(x)
    BY <2>4 DEF ExecQueries
  <2> QED
    BY <2>2, <2>3, <2>4
    DEF User, Callback, Begin, Exec, ExecRefused, Attach, AttachRefused, Commit,
        QuerySucceeds, QueryFails, QueryRollbackThrows, FlushSucceeds,
        ObserversThrow, FlushFails, FlushRollbackThrows, Finish, RunCallback, data
<1>3. \A y \in Tx : y # x => journal'[y] = journal[y]
  BY DEF Base, Types, User, Callback, Begin, Exec, ExecRefused, Attach, AttachRefused,
     Commit, Rollback, RollbackThrows, QuerySucceeds, QueryFails, QueryRollbackThrows,
     ExecQueries, FlushSucceeds, ObserversThrow, FlushFails, FlushRollbackThrows,
     Finish, RunCallback, Write, Undo, UndoThrows, data
<1> QED BY <1>2, <1>3 DEF Restored

(* Every step keeps the invariant.                                         *)
LEMMA NextIInv == IInv /\ [Next]_vars => IInv'
<1> SUFFICES ASSUME IInv, [Next]_vars PROVE IInv'
  OBVIOUS
<1>1. CASE Next
  <2>1. PICK x \in Tx : User(x) \/ Callback(x)
    BY <1>1 DEF Next
  <2>2. Base
    BY DEF IInv
  <2>3. Base' /\ (~Restored' \/ (DataOK => DataOK'))
    BY <2>1, <2>2, ScheduleKeeps, CallKeeps, WriteKeeps, UndoKeeps, FlushKeeps,
       FinishKeeps, RunCallbackKeeps, ThrowKeeps DEF User, Callback
  <2>4. Restored' => Restored
    BY <2>1, <2>2, ThrownStays
  <2> QED BY <2>3, <2>4 DEF IInv
<1>2. CASE UNCHANGED vars
  BY <1>2 DEF vars, api, data, lock, IInv, Base, Types, EachConsistent, LocksOK, DataOK,
     Restored
<1> QED BY <1>1, <1>2

-----------------------------------------------------------------------------
(* The invariant of every run of the specification.                        *)
THEOREM TransactionInvariant == Spec => []IInv
BY InitIInv, NextIInv, PTL DEF Spec

(* Every variable of the transactions has its type, and those that wait    *)
(* are the queue (Transaction.TypeOK).                                     *)
THEOREM TypesHold == Spec => []TypeOK
<1>1. IInv => TypeOK
  BY DEF IInv, Base, Types, LocksOK, TypeOK, Promises, Callbacks, Tasks, Journals
<1> QED BY <1>1, TransactionInvariant, PTL

(* Only the transaction that has the locks has changes in memory that are  *)
(* not in the store (Transaction.UncommittedIsLocked).                     *)
THEOREM UncommittedIsLockedHolds == Spec => []UncommittedIsLocked
<1>1. ASSUME IInv, Restored PROVE UncommittedIsLocked
  <2>1. \A x \in Tx : journal[x] = "changed" => task[x] \in Holding
    BY <1>1 DEF IInv, Base, EachConsistent, Consistent, Holding, Types, State, Over
  <2>2. \A x \in Tx : journal[x] = "changed" => holder = x
    BY <1>1, <2>1 DEF IInv, Base, LocksOK
  <2> QED BY <1>1, <2>2, TxAssumption DEF IInv, Base, DataOK, UncommittedIsLocked
<1>2. IInv => UncommittedIsLocked
  BY <1>1 DEF UncommittedIsLocked
<1> QED BY <1>2, TransactionInvariant, PTL

(* No callback of a transaction finds a state that it may not leave for    *)
(* the one it wants (Transaction.CallbacksAllowed).                        *)
THEOREM CallbacksAllowedHold == Spec => []CallbacksAllowed
<1>1. ASSUME IInv PROVE CallbacksAllowed
  <2> SUFFICES ASSUME NEW x \in Tx, NEW callback \in due[x]
               PROVE  Allowed(x, Target(callback))
    BY DEF CallbacksAllowed
  <2>1. Consistent(state[x], task[x], journal[x], due[x], promise[x])
        /\ state[x] \in State
    BY <1>1 DEF IInv, Base, Types, EachConsistent
  <2>2. CASE callback \in {"scope", "attached"}
    <3>1. state[x] \in {"ACQUIRING_SCOPE", "EXECUTING_QUERY"}
      BY <2>1, <2>2 DEF Consistent, State
    <3> QED BY <1>1, <2>2, <3>1, WhereFrom DEF IInv, Base, Target
  <2>3. CASE callback \notin {"scope", "attached"}
    <3>1. state[x] \in {"EXECUTING_QUERY", "EXECUTING_AND_COMMITTING",
                        "COMMITTING", "ROLLING_BACK"}
      BY <2>1, <2>3 DEF Consistent, State
    <3> QED BY <1>1, <2>3, <3>1, WhereFrom DEF IInv, Base, Target
  <2> QED BY <2>2, <2>3
<1> QED BY <1>1, TransactionInvariant, PTL

(* What the user is told of a transaction is what became of its changes    *)
(* (Transaction.ToldTheTruth).                                             *)
THEOREM ToldTheTruthHolds == Spec => []ToldTheTruth
<1>1. ASSUME IInv, NEW x \in Tx
      PROVE  /\ promise[x] = "fulfilled" => journal[x] # "changed"
             /\ state[x] = "ROLLING_BACK" => journal[x] # "changed"
  BY <1>1 DEF IInv, Base, Types, State, EachConsistent, Consistent, Over
<1>2. IInv => ToldTheTruth
  BY <1>1 DEF IInv, Base, DataOK, Committed, ToldTheTruth
<1> QED BY <1>2, TransactionInvariant, PTL
=============================================================================
