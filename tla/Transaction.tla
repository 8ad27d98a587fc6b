---------------------------- MODULE Transaction ----------------------------
(***************************************************************************)
(* lf.proc.Transaction (src/lib/proc/transaction.js), the object through   *)
(* which a user drives a transaction by hand or hands over all its queries *)
(* at once, with the task behind it (src/lib/proc/transaction_task.js and  *)
(* query_task.js) and its journal.                                         *)
(*                                                                         *)
(* All transactions have the same scope.  The runner appears as what       *)
(* Runner.tla shows it to be for them: one task at a time, in the order    *)
(* they were scheduled.  The promise callbacks of the transaction object   *)
(* are in "due" from when their promise settles until they run.            *)
(*                                                                         *)
(* The contents of the tables are named by the transactions whose changes  *)
(* are in them.  A journal's rollback may throw half-way; when it does is  *)
(* the subject of Journal.tla, what comes of it is here.                   *)
(***************************************************************************)
EXTENDS Sequences

CONSTANTS Tx,    \* the transaction objects
          Nil    \* no transaction

ASSUME TxAssumption == Nil \notin Tx

VARIABLES
    state,     \* Transaction.state_
    promise,   \* what exec(), commit() or rollback() returned to the user
    due,       \* the callbacks on the object whose promise has settled
    task,      \* Transaction.task_: where its execution is
    journal,   \* of the task: unused, changed, terminated or half undone
    undo,      \* of the task: the contents its journal restores
    holder,    \* the task that has the locks
    queue,     \* the tasks that wait for them
    cache,     \* the contents of the tables in memory
    store,     \* and in the backing store
    refused,   \* those given a query to attach that cannot be executed
    untold     \* those committed whose observer task could not be made

api  == <<state, promise, due>>
data == <<journal, undo, cache, store>>
lock == <<holder, queue>>
vars == <<api, task, data, lock, refused, untold>>

-----------------------------------------------------------------------------
(* The lifecycle.                                                          *)

State == {"CREATED", "ACQUIRING_SCOPE", "ACQUIRED_SCOPE", "EXECUTING_QUERY",
          "EXECUTING_AND_COMMITTING", "COMMITTING", "ROLLING_BACK", "FINALIZED"}

StateTransitions_CommitsEarly ==
    [s \in State |->
       CASE s = "CREATED" -> {"ACQUIRING_SCOPE", "EXECUTING_AND_COMMITTING"}
         [] s = "ACQUIRING_SCOPE" -> {"ACQUIRED_SCOPE", "ROLLING_BACK"}
         [] s = "ACQUIRED_SCOPE" -> {"EXECUTING_QUERY", "COMMITTING", "ROLLING_BACK"}
         [] s = "EXECUTING_QUERY" -> {"ACQUIRED_SCOPE", "FINALIZED"}
         [] s = "FINALIZED" -> {}
         [] OTHER -> {"FINALIZED"}]

StateTransitions_WhileExecuting ==
    [s \in State |->
       CASE s = "CREATED" -> {"ACQUIRING_SCOPE", "EXECUTING_AND_COMMITTING"}
         [] s = "ACQUIRING_SCOPE" -> {"ACQUIRED_SCOPE"}
         [] s = "ACQUIRED_SCOPE" -> {"EXECUTING_QUERY", "COMMITTING", "ROLLING_BACK"}
         [] s = "EXECUTING_QUERY" -> {"ACQUIRED_SCOPE", "FINALIZED", "ROLLING_BACK"}
         [] s = "FINALIZED" -> {}
         [] OTHER -> {"FINALIZED"}]

StateTransitions ==
    [s \in State |->
       CASE s = "CREATED" -> {"ACQUIRING_SCOPE", "EXECUTING_AND_COMMITTING"}
         [] s = "ACQUIRING_SCOPE" -> {"ACQUIRED_SCOPE"}
         [] s = "ACQUIRED_SCOPE" -> {"EXECUTING_QUERY", "COMMITTING", "ROLLING_BACK"}
         [] s = "EXECUTING_QUERY" -> {"ACQUIRED_SCOPE", "FINALIZED"}
         [] s = "FINALIZED" -> {}
         [] OTHER -> {"FINALIZED"}]

\* stateTransition_ throws when this is not so, and the call does nothing.
Allowed(x, s) == s \in StateTransitions[state[x]]

Enter(x, s) == Allowed(x, s) /\ state' = [state EXCEPT ![x] = s]

\* The state that a callback takes the transaction to.
Target(callback) ==
    IF callback \in {"scope", "attached"} THEN "ACQUIRED_SCOPE" ELSE "FINALIZED"

Add(x, callback) == [due EXCEPT ![x] = @ \cup {callback}]

Init ==
    /\ state = [x \in Tx |-> "CREATED"]
    /\ promise = [x \in Tx |-> "none"]
    /\ due = [x \in Tx |-> {}]
    /\ task = [x \in Tx |-> "none"]
    /\ journal = [x \in Tx |-> "unused"]
    /\ undo = [x \in Tx |-> {}]
    /\ holder = Nil /\ queue = <<>>
    /\ cache = {} /\ store = {}
    /\ refused = {} /\ untold = {}

-----------------------------------------------------------------------------
(* The runner.  TransactionTask.exec, called with the locks held, only     *)
(* resolves the promise that begin() waits for.                            *)

Starting(x, states, callbacks) ==
    [callbacks EXCEPT ![x] = IF states[x] = "ACQUIRING_SCOPE"
                             THEN @ \cup {"scope"} ELSE @]

Schedule(x) ==
    IF holder = Nil
    THEN /\ holder' = x /\ UNCHANGED queue
         /\ task' = [task EXCEPT ![x] = "running"]
         /\ due' = Starting(x, state', due)
    ELSE /\ queue' = Append(queue, x) /\ UNCHANGED holder
         /\ task' = [task EXCEPT ![x] = "queued"]
         /\ UNCHANGED due

\* Runner.onTaskSuccess_ or onTaskError_: the locks go to the next task, and
\* the promise of the task's resolver settles.  commit() has a callback for
\* success only, and so has rollback(); exec() has one for each outcome.
Finish(x) ==
    /\ task[x] \in {"resolved", "rejected"}
    /\ LET listening == IF task[x] = "resolved" THEN promise[x] = "pending"
                        ELSE state[x] = "EXECUTING_AND_COMMITTING"
           callbacks == IF ~listening THEN due
                        ELSE Add(x, IF task[x] = "resolved" THEN "ended" ELSE "endedInError")
       IN  IF queue = <<>>
           THEN /\ holder' = Nil /\ due' = callbacks /\ UNCHANGED queue
                /\ task' = [task EXCEPT ![x] = "ended"]
           ELSE /\ holder' = Head(queue) /\ queue' = Tail(queue)
                /\ due' = Starting(Head(queue), state, callbacks)
                /\ task' = [task EXCEPT ![x] = "ended", ![Head(queue)] = "running"]
    /\ promise' = IF task[x] = "rejected" /\ state[x] = "COMMITTING"
                  THEN [promise EXCEPT ![x] = "rejected"] ELSE promise
    /\ UNCHANGED <<state, data, refused, untold>>

-----------------------------------------------------------------------------
(* The calls of the user.                                                  *)

Begin(x) ==
    /\ Enter(x, "ACQUIRING_SCOPE")
    /\ Schedule(x)
    /\ UNCHANGED <<promise, data, refused, untold>>

Exec(x) ==
    /\ Enter(x, "EXECUTING_AND_COMMITTING")
    /\ promise' = [promise EXCEPT ![x] = "pending"]
    /\ Schedule(x)
    /\ UNCHANGED <<data, refused, untold>>

\* A query whose assertExecPreconditions throws.
ExecRefused(x) ==
    /\ Allowed(x, "EXECUTING_AND_COMMITTING")
    /\ state' = [state EXCEPT ![x] = "FINALIZED"]
    /\ promise' = [promise EXCEPT ![x] = "rejected"]
    /\ UNCHANGED <<due, task, data, lock, refused, untold>>

Attach(x) ==
    /\ Enter(x, "EXECUTING_QUERY")
    /\ UNCHANGED <<promise, due, task, data, lock, refused, untold>>

AttachRefused(x) ==
    /\ Allowed(x, "EXECUTING_QUERY")
    /\ state' = [state EXCEPT ![x] = "FINALIZED"]
    /\ refused' = refused \cup {x}
    /\ UNCHANGED <<promise, due, task, data, lock, untold>>

\* TransactionTask.commit: the backing store starts to write.
Commit(x) ==
    /\ Enter(x, "COMMITTING")
    /\ promise' = [promise EXCEPT ![x] = "pending"]
    /\ UNCHANGED <<due, task, data, lock, refused, untold>>

\* Journal.rollback
Undo_Nothing(x) ==
    /\ journal' = [journal EXCEPT ![x] = "terminated"]
    /\ UNCHANGED <<undo, cache, store>>

Undo(x) ==
    /\ journal' = [journal EXCEPT ![x] = "terminated"]
    /\ cache' = IF journal[x] = "changed" THEN undo[x] ELSE cache
    /\ UNCHANGED <<undo, store>>

\* It throws half-way, as it may when a unique key went from one row to another:
\* some of the changes stay in memory.
UndoThrows(x) ==
    /\ journal' = [journal EXCEPT ![x] = "halfUndone"]
    /\ cache' = cache \cup {x}
    /\ UNCHANGED <<undo, store>>

\* TransactionTask.rollback
Rollback(x) ==
    /\ Enter(x, "ROLLING_BACK")
    /\ promise' = [promise EXCEPT ![x] = "pending"]
    /\ Undo(x)
    /\ task' = [task EXCEPT ![x] = "resolved"]
    /\ UNCHANGED <<due, lock, refused, untold>>

\* The user's call throws, and nobody settles the task.
RollbackThrows(x) ==
    /\ journal[x] = "changed"
    /\ Enter(x, "ROLLING_BACK")
    /\ UndoThrows(x)
    /\ task' = [task EXCEPT ![x] = "lost"]
    /\ UNCHANGED <<promise, due, lock, refused, untold>>

-----------------------------------------------------------------------------
(* The task.                                                               *)

Write(x) ==
    /\ journal' = [journal EXCEPT ![x] = "changed"]
    /\ undo' = IF journal[x] = "unused" THEN [undo EXCEPT ![x] = cache] ELSE undo
    /\ cache' = cache \cup {x}
    /\ UNCHANGED store

\* A query in execution: attachQuery ran its plan and no callback is due yet.
Querying(x) == state[x] = "EXECUTING_QUERY" /\ due[x] = {}

QuerySucceeds(x) ==
    /\ Querying(x)
    /\ Write(x)
    /\ due' = Add(x, "attached")
    /\ UNCHANGED <<state, promise, task, lock, refused, untold>>

QueryFails_KeepsLocks(x) ==
    /\ Querying(x)
    /\ Undo(x)
    /\ due' = Add(x, "attachFailed")
    /\ UNCHANGED <<state, promise, task, lock, refused, untold>>

QueryFails(x) ==
    /\ Querying(x)
    /\ Undo(x)
    /\ task' = [task EXCEPT ![x] = "rejected"]
    /\ due' = Add(x, "attachFailed")
    /\ UNCHANGED <<state, promise, lock, refused, untold>>

\* The handler throws before it rejects the task.
QueryRollbackThrows(x) ==
    /\ Querying(x)
    /\ UndoThrows(x)
    /\ task' = [task EXCEPT ![x] = "lost"]
    /\ due' = Add(x, "attachFailed")
    /\ UNCHANGED <<state, promise, lock, refused, untold>>

\* UserQueryTask.exec runs the queries that exec() was given.
ExecQueries(x) ==
    /\ state[x] = "EXECUTING_AND_COMMITTING"
    /\ task[x] = "running" /\ journal[x] = "unused"
    /\ Write(x)
    /\ UNCHANGED <<api, task, lock, refused, untold>>

\* Tx.commit is on its way; QueryTask.exec calls it after its queries.
Flushing(x) ==
    /\ task[x] = "running"
    /\ \/ state[x] = "COMMITTING"
       \/ state[x] = "EXECUTING_AND_COMMITTING" /\ journal[x] = "changed"

FlushSucceeds(x) ==
    /\ Flushing(x)
    /\ store' = cache
    /\ journal' = [journal EXCEPT ![x] = "terminated"]
    /\ task' = [task EXCEPT ![x] = "resolved"]
    /\ UNCHANGED <<api, undo, cache, lock, refused, untold>>

\* scheduleObserverTask_ throws after the store has committed, as it does while
\* an observed query cannot be planned.  commit() has no handler for that: its
\* task settles never.  exec() is rejected, and does not roll back.
ObserversThrow(x) ==
    /\ Flushing(x)
    /\ store' = cache
    /\ journal' = [journal EXCEPT ![x] = "terminated"]
    /\ task' = [task EXCEPT ![x] = IF state[x] = "COMMITTING" THEN "lost" ELSE "rejected"]
    /\ untold' = untold \cup {x}
    /\ UNCHANGED <<api, undo, cache, lock, refused>>

FlushFails(x) ==
    /\ Flushing(x)
    /\ Undo(x)
    /\ task' = [task EXCEPT ![x] = "rejected"]
    /\ UNCHANGED <<api, lock, refused, untold>>

\* exec() is rejected with another error; the task of commit() settles never.
FlushRollbackThrows(x) ==
    /\ Flushing(x)
    /\ journal[x] = "changed"
    /\ UndoThrows(x)
    /\ task' = [task EXCEPT ![x] = IF state[x] = "COMMITTING" THEN "lost" ELSE "rejected"]
    /\ UNCHANGED <<api, lock, refused, untold>>

-----------------------------------------------------------------------------
(* The callbacks on the transaction object.                                *)

RunCallback(x) ==
    \E callback \in due[x] :
        /\ Enter(x, Target(callback))
        /\ due' = [due EXCEPT ![x] = @ \ {callback}]
        /\ promise' = CASE callback = "ended" -> [promise EXCEPT ![x] = "fulfilled"]
                        [] callback = "endedInError" -> [promise EXCEPT ![x] = "rejected"]
                        [] OTHER -> promise
        /\ UNCHANGED <<task, data, lock, refused, untold>>

User(x) == \/ Begin(x) \/ Exec(x) \/ ExecRefused(x) \/ Attach(x)
           \/ AttachRefused(x) \/ Commit(x) \/ Rollback(x) \/ RollbackThrows(x)

Callback(x) == \/ QuerySucceeds(x) \/ QueryFails(x) \/ QueryRollbackThrows(x)
               \/ ExecQueries(x) \/ FlushSucceeds(x) \/ ObserversThrow(x)
               \/ FlushFails(x) \/ FlushRollbackThrows(x) \/ Finish(x) \/ RunCallback(x)

Next == \E x \in Tx : User(x) \/ Callback(x)

Spec == Init /\ [][Next]_vars

\* The callbacks of each transaction are run; users need do nothing.
FairSpec == Spec /\ \A x \in Tx : WF_vars(Callback(x))

-----------------------------------------------------------------------------
TypeOK ==
    /\ state \in [Tx -> State]
    /\ promise \in [Tx -> {"none", "pending", "fulfilled", "rejected"}]
    /\ due \in [Tx -> SUBSET {"scope", "attached", "attachFailed", "ended", "endedInError"}]
    /\ task \in [Tx -> {"none", "queued", "running", "resolved", "rejected", "lost", "ended"}]
    /\ journal \in [Tx -> {"unused", "changed", "terminated", "halfUndone"}]
    /\ undo \in [Tx -> SUBSET Tx]
    /\ holder \in Tx \cup {Nil} /\ queue \in Seq(Tx)
    /\ \A x \in Tx : task[x] = "queued" <=> \E i \in DOMAIN queue : queue[i] = x
    /\ cache \subseteq Tx /\ store \subseteq Tx
    /\ refused \subseteq Tx /\ untold \subseteq Tx

\* No rollback has thrown.
Restored == \A x \in Tx : journal[x] # "halfUndone"

(* Only the transaction that has the locks has changes in the tables that  *)
(* are not in the backing store, whatever the users of the others call and *)
(* in whatever order queries, commits and callbacks end, until a rollback  *)
(* throws.                                                                 *)
UncommittedIsLocked == Restored =>
    /\ \A x \in Tx : journal[x] = "changed" => holder = x
    /\ cache # store => holder # Nil /\ journal[holder] = "changed"

(* A promise callback of the transaction never finds itself in a state it  *)
(* may not leave for the one it wants (it would throw 107 into a promise   *)
(* nobody has): no call of the user gets in between.                       *)
CallbacksAllowed == \A x \in Tx : \A callback \in due[x] : Allowed(x, Target(callback))

(* The user is told what happened: a commit that is reported done is in    *)
(* the backing store for good, and what failed, was rolled back or never   *)
(* was committed is not there.  What the store committed and no observer   *)
(* task could be made for is the exception: there exec() is rejected.      *)
(* Until a rollback throws.                                                *)
ToldTheTruth == Restored =>
    \A x \in Tx :
        /\ promise[x] = "rejected" => x \notin store \/ x \in untold
        /\ state[x] = "ROLLING_BACK" => x \notin cache
        /\ promise[x] = "fulfilled" /\ x \in cache => x \in store
        /\ x \in store => task[x] \in {"resolved", "ended"} \/ x \in untold

(* Once the user has asked for the end of a transaction that has the       *)
(* locks, or one of its queries failed, it gives them back: except after a *)
(* query that was refused, when commit() has written to the store and no   *)
(* observer task could be made, and when its rollback throws.              *)
LocksReleased ==
    \A x \in Tx :
        (holder = x /\ x \notin refused /\
         state[x] \in {"COMMITTING", "ROLLING_BACK", "EXECUTING_AND_COMMITTING",
                       "FINALIZED"}) ~> holder # x \/ task[x] = "lost"

=============================================================================
