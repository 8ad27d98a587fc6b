------------------------------- MODULE Runner -------------------------------
(***************************************************************************)
(* lf.proc.Runner (src/lib/proc/runner.js), the tasks it runs and the      *)
(* observers they notify.                                                  *)
(*                                                                         *)
(* The program is single-threaded: a callback runs to its end before the   *)
(* next one starts.  What takes several steps here is consumePending_,     *)
(* which walks over a copy of the queue and is entered again from inside   *)
(* itself when a task it executes schedules another.  "stack" holds its    *)
(* calls in progress; the callbacks of tasks and of users happen only when *)
(* it is empty.                                                            *)
(*                                                                         *)
(* The contents of a table are named by the task that last changed it.     *)
(* Every observed query can be planned here, and every rollback runs to    *)
(* its end; Transaction.tla has what happens when not, and Observers.tla   *)
(* what observers then miss.                                               *)
(***************************************************************************)
EXTENDS LockTable, Naturals, Sequences, SequencesExt, FiniteSets

CONSTANTS
    Workloads,   \* the sets of tasks that one program may schedule
    Kind,        \* the class of each task
    Plans,       \* the plans of the tasks that users create, in order
    Observed,    \* the plans of the observed queries, in the registry's order
    ObserverOf,  \* the observer task that a task creates if its tables are observed
    MayThrow,    \* tasks whose exec() may throw instead of returning
    Empties      \* tasks that leave no rows in the tables they change

VARIABLES
    lockTable,   \* Runner.lockManager_
    queue,       \* Runner.queue_: the pending tasks, most urgent first
    stack,       \* calls of consumePending_ in progress, innermost first
    execs,       \* for each task, the calls of its exec() so far
    outcome,     \* for each task, the state of its resolver
    cache,       \* the in-memory contents of each table
    committed,   \* the contents each table had when last committed
    delivered    \* ObserverRegistry: the last results of each observed query

vars == <<lockTable, queue, stack, execs, outcome, cache, committed, delivered>>

-----------------------------------------------------------------------------
(* Tasks.  A plan has the tables it reads or changes and the observed      *)
(* query it computes, or Nil.                                              *)

TaskKind == {"query", "update", "transaction", "external", "import",
             "export", "observer"}

UserTask == {t \in Task : Kind[t] # "observer"}

ReadOnly(t) == Kind[t] \in {"query", "export", "observer"}

\* Tasks that schedule an ObserverQueryTask once they have changed tables.
Notifies(t) == Kind[t] \in {"update", "transaction", "external"}

Priority_Flat == [t \in Task |-> IF Kind[t] = "external" THEN 1 ELSE 2]

Priority == [t \in Task |->
    CASE Kind[t] \in {"export", "import", "observer"} -> 0
      [] Kind[t] = "external" -> 1
      [] OTHER -> 2]

TablesOf(plans) == UNION {plans[i].tables : i \in DOMAIN plans}

\* ObserverRegistry.getTaskItemsForTables
ItemsFor(tables) ==
    SelectSeq(Observed, LAMBDA plan : plan.tables \cap tables # {})

\* The task that creates an observer task.
Notifier(o) == CHOOSE t \in DOMAIN ObserverOf : ObserverOf[t] = o

PlansOf == [t \in Task |->
    CASE Kind[t] = "observer" -> ItemsFor(TablesOf(Plans[Notifier(t)]))
      [] Kind[t] \in {"import", "export"} -> <<[tables |-> Table, query |-> Nil]>>
      [] OTHER -> Plans[t]]

Scope == [t \in Task |-> TablesOf(PlansOf[t])]

IsObserved == [t \in Task |-> ItemsFor(Scope[t]) # <<>>]

ObservedQuery == {Observed[i].query : i \in DOMAIN Observed}

Plan == [tables : SUBSET Table, query : ObservedQuery \cup {Nil}]

ASSUME RunnerAssumption ==
    /\ Kind \in [Task -> TaskKind]
    /\ Plans \in [UserTask -> Seq(Plan)]
    /\ Observed \in Seq(Plan)
    /\ PlansOf \in [Task -> Seq(Plan)]
    /\ Nil \notin ObservedQuery \cup (Task \X Nat)
    /\ ObserverOf \in [{t \in Task : Notifies(t) /\ IsObserved[t]} -> Task \ UserTask]
    /\ \A t, u \in DOMAIN ObserverOf : ObserverOf[t] = ObserverOf[u] => t = u
    /\ \A t \in Task : Scope[t] # {}
    /\ Empties \subseteq Task

\* A query reads the same tables in whatever task it is computed: it is known
\* by its builder, which makes one plan.
ASSUME QueryAssumption ==
    \A t \in Task : \A i \in DOMAIN PlansOf[t], j \in DOMAIN Observed :
        PlansOf[t][i].query = Observed[j].query => PlansOf[t][i].tables = Observed[j].tables

\* What SelectSeq does, whatever the constants: it leaves out no observed
\* query that refers to the tables in question.
ASSUME SelectionAssumption ==
    \A t \in Task : \A i \in DOMAIN Observed :
        Observed[i].tables \cap Scope[t] # {} =>
            \E j \in DOMAIN ItemsFor(Scope[t]) : ItemsFor(Scope[t])[j] = Observed[i]

-----------------------------------------------------------------------------
(* Executions: one record for each call of exec() on a task.  "running"    *)
(* lasts until the promise it returned settles, "ok" and "failed" until    *)
(* the runner's callback on it; a call is "lost" if nothing will ever      *)
(* settle that promise, or it threw and returned none.                     *)

Call(state, results, undo) == [state |-> state, results |-> results, undo |-> undo]

Live(t) == {n \in DOMAIN execs[t] : execs[t][n].state \in {"running", "ok", "failed"}}

Running(t, n) == n \in DOMAIN execs[t] /\ execs[t][n].state = "running"

SetState(t, n, state) == [execs EXCEPT ![t][n].state = state]

Append1(t, call) == [execs EXCEPT ![t] = Append(@, call)]

Contents(tables) == [d \in tables |-> cache[d]]

Overwrite(contents, tables, t) ==
    [d \in Table |-> IF d \in tables THEN t ELSE contents[d]]

\* TableDiff remembers of each table what it was before its first change.
Journaled(undo, tables) ==
    [d \in DOMAIN undo \cup tables |-> IF d \in DOMAIN undo THEN undo[d] ELSE cache[d]]

Undone_Nothing(undo) == cache

\* Journal.rollback: the tables changed get their earlier contents back.
Undone(undo) == [d \in Table |-> IF d \in DOMAIN undo THEN undo[d] ELSE cache[d]]

-----------------------------------------------------------------------------
Init ==
    /\ lockTable = [d \in Table |-> FreeEntry]
    /\ queue     = <<>>
    /\ stack     = <<>>
    /\ execs     = [t \in Task |-> <<>>]
    /\ outcome   = [t \in Task |-> "new"]
    /\ cache     = [d \in Table |-> Nil]
    /\ committed = [d \in Table |-> Nil]
    /\ delivered = [q \in ObservedQuery |-> Nil]

Idle == stack = <<>>

-----------------------------------------------------------------------------
(* scheduleTask.                                                           *)

\* TaskQueue_.insert: after the tasks at least as urgent, which are older.
Insert(q, t) ==
    LET urgent == {n \in DOMAIN q : Priority[q[n]] <= Priority[t]}
    IN  InsertAt(q, Cardinality(urgent) + 1, t)

\* Schedules t in the given locks, queue and stack, on behalf of a call of
\* some task's exec(), or of nobody.
ScheduleTask(t, locks, q, calls, caller) ==
    /\ lockTable' = IF Priority[t] < 2 THEN ClearReserved(locks, Scope[t])
                                       ELSE locks
    /\ queue' = Insert(q, t)
    /\ stack' = <<[todo |-> queue', caller |-> caller]>> \o calls
    /\ outcome' = [outcome EXCEPT ![t] = "pending"]

UserSchedules(t) ==
    /\ Idle /\ t \in UserTask /\ outcome[t] = "new"
    /\ \E w \in Workloads : {t} \cup {u \in UserTask : outcome[u] # "new"} \subseteq w
    /\ ScheduleTask(t, lockTable, queue, stack, Nil)
    /\ UNCHANGED <<execs, cache, committed, delivered>>

-----------------------------------------------------------------------------
(* consumePending_, one task of the copied queue at a time.                *)

Visiting(t) == stack # <<>> /\ stack[1].todo # <<>> /\ t = Head(stack[1].todo)

Visited == [stack EXCEPT ![1].todo = Tail(@)]

FirstLock(t)  == IF ReadOnly(t) THEN "RESERVED_READ_ONLY" ELSE "RESERVED_READ_WRITE"
SecondLock(t) == IF ReadOnly(t) THEN "SHARED" ELSE "EXCLUSIVE"

\* requestTwoPhaseLock_
Reserved(t) == Request(lockTable, t, Scope[t], FirstLock(t))
Acquires_FirstLock(t) == CanAcquireLock(lockTable, t, Scope[t], FirstLock(t))

Acquires(t) == /\ CanAcquireLock(lockTable, t, Scope[t], FirstLock(t))
               /\ CanAcquireLock(Reserved(t), t, Scope[t], SecondLock(t))
Acquired(t) == GrantLock(Reserved(t), t, Scope[t], SecondLock(t))

\* TaskQueue_.remove; there is nothing to remove when an inner call of
\* consumePending_ has executed the task already.
Unqueued(t) == RemoveFirst(queue, t)

PassOver(t) ==
    /\ Visiting(t) /\ ~Acquires(t)
    /\ lockTable' = Reserved(t)
    /\ stack' = Visited
    /\ UNCHANGED <<queue, execs, outcome, cache, committed, delivered>>

\* The task leaves the queue and its exec() is called, which takes no step
\* of consumePending_ of its own.
Starts(t, call) ==
    /\ lockTable' = Acquired(t)
    /\ queue' = Unqueued(t)
    /\ stack' = Visited
    /\ execs' = Append1(t, call)
    /\ UNCHANGED <<outcome, delivered>>

\* QueryTask.exec of a read-only task: the first plan reads its tables.
ExecQuery(t) ==
    /\ Kind[t] \in {"query", "observer"}
    /\ Starts(t, Call("running", <<Contents(PlansOf[t][1].tables)>>, <<>>))
    /\ UNCHANGED <<cache, committed>>

\* QueryTask.exec of a read-write task, and TransactionTask.exec.
ExecUpdate(t) ==
    /\ Kind[t] \in {"update", "transaction"}
    /\ Starts(t, Call("running", <<>>, <<>>))
    /\ UNCHANGED <<cache, committed>>

\* ExportTask.exec reads everything at once.
ExecExport(t) ==
    /\ Kind[t] = "export"
    /\ Starts(t, Call("ok", <<Contents(Table)>>, <<>>))
    /\ UNCHANGED <<cache, committed>>

\* isEmptyDB_ counts rows: tables are empty again when all are deleted.
EmptyDB == \A d \in Table : cache[d] \in Empties \cup {Nil}

\* ImportTask.exec fills the cache and starts to commit.
ExecImport(t) ==
    /\ Kind[t] = "import" /\ EmptyDB
    /\ Starts(t, Call("running", <<<<>>>>, <<>>))
    /\ cache' = Overwrite(cache, Table, t)
    /\ UNCHANGED committed

\* ExternalChangeTask.exec applies changes that the backing store already
\* has and schedules the observer task before it returns.
ExecExternal(t) ==
    /\ Kind[t] = "external"
    /\ cache' = Overwrite(cache, Scope[t], t)
    /\ committed' = Overwrite(committed, Scope[t], t)
    /\ IF ~IsObserved[t]
       THEN Starts(t, Call("ok", <<>>, <<>>))
       ELSE /\ execs' = Append1(t, Call("running", <<>>, <<>>))
            /\ ScheduleTask(ObserverOf[t], Acquired(t), Unqueued(t), Visited,
                            <<t, Len(execs'[t])>>)
            /\ UNCHANGED delivered

\* The calls of exec() or of its callbacks that an exception passes through.
Interrupted == {stack[i].caller : i \in DOMAIN stack} \ {Nil}

\* exec() throws: ImportTask on a database that is not empty, and ImportTask
\* and ExternalChangeTask when an index refuses a row half-way.  Nothing
\* catches the exception before it leaves every call of consumePending_.
ExecThrows(t) ==
    /\ \/ Kind[t] = "import" /\ (~EmptyDB \/ t \in MayThrow)
       \/ Kind[t] = "external" /\ t \in MayThrow
    /\ lockTable' = Acquired(t)
    /\ queue' = Unqueued(t)
    /\ stack' = <<>>
    /\ LET calls == Append1(t, Call("lost", <<>>, <<>>)) IN
       execs' = [u \in Task |-> [n \in DOMAIN calls[u] |->
                   IF <<u, n>> \notin Interrupted THEN calls[u][n]
                   ELSE [calls[u][n] EXCEPT !.state = IF Kind[u] = "update"
                                                      THEN "failed" ELSE "lost"]]]
    /\ \E part \in SUBSET Scope[t] :
          /\ Kind[t] = "import" /\ ~EmptyDB => part = {}
          /\ cache' = Overwrite(cache, part, t)
    /\ UNCHANGED <<outcome, committed, delivered>>

\* The copy of the queue is exhausted; the caller of consumePending_ goes on.
Return ==
    /\ stack # <<>> /\ stack[1].todo = <<>>
    /\ stack' = Tail(stack)
    /\ execs' = IF stack[1].caller = Nil THEN execs
                ELSE SetState(stack[1].caller[1], stack[1].caller[2], "ok")
    /\ UNCHANGED <<lockTable, queue, outcome, cache, committed, delivered>>

-----------------------------------------------------------------------------
(* The promise callbacks of running tasks.                                 *)

PlansDone(t, n) == Len(execs[t][n].results) = Len(PlansOf[t])

\* sequentiallyExec, or attachQuery: the next plan is executed.
ExecPlan(t, n) ==
    /\ Idle /\ Running(t, n) /\ ~PlansDone(t, n)
    /\ LET e == execs[t][n] IN
       LET tables == PlansOf[t][Len(e.results) + 1].tables IN
       IF ReadOnly(t)
       THEN /\ execs' = [execs EXCEPT ![t][n].results = Append(@, Contents(tables))]
            /\ UNCHANGED cache
       ELSE /\ execs' = [execs EXCEPT ![t][n].results = Append(@, <<>>),
                                      ![t][n].undo = Journaled(@, tables)]
            /\ cache' = Overwrite(cache, tables, t)
    /\ UNCHANGED <<lockTable, queue, stack, outcome, committed, delivered>>

Deliver_LastPlan(t, results) ==
    [q \in ObservedQuery |-> IF PlansOf[t][Len(results)].query = q
                             THEN results[Len(results)] ELSE delivered[q]]

\* ObserverRegistry.updateResultsForQuery for the results of all plans.
Deliver(t, results) ==
    [q \in ObservedQuery |->
        LET computed == {i \in DOMAIN results : PlansOf[t][i].query = q}
        IN  IF computed = {} THEN delivered[q]
            ELSE results[CHOOSE i \in computed : \A j \in computed : j <= i]]

\* A read-only transaction commits; onSuccess hands the results to observers.
CommitQuery(t, n) ==
    /\ Idle /\ Kind[t] \in {"query", "observer"}
    /\ Running(t, n) /\ PlansDone(t, n)
    /\ execs' = SetState(t, n, "ok")
    /\ delivered' = Deliver(t, execs[t][n].results)
    /\ UNCHANGED <<lockTable, queue, stack, outcome, cache, committed>>

\* A read-write transaction commits and, still holding its locks, schedules
\* an observer task if some observed query refers to its tables.
CommitUpdate(t, n) ==
    /\ Idle /\ Kind[t] \in {"update", "transaction"}
    /\ Running(t, n) /\ PlansDone(t, n)
    /\ committed' = Overwrite(committed, DOMAIN execs[t][n].undo, t)
    /\ IF ~IsObserved[t]
       THEN /\ execs' = SetState(t, n, "ok")
            /\ UNCHANGED <<lockTable, queue, stack, outcome>>
       ELSE /\ ScheduleTask(ObserverOf[t], lockTable, queue, stack, <<t, n>>)
            /\ UNCHANGED execs
    /\ UNCHANGED <<cache, delivered>>

\* The import's transaction commits; nobody schedules an observer task.
CommitImport(t, n) ==
    /\ Idle /\ Kind[t] = "import" /\ Running(t, n)
    /\ execs' = SetState(t, n, "ok")
    /\ committed' = Overwrite(committed, Table, t)
    /\ UNCHANGED <<lockTable, queue, stack, outcome, cache, delivered>>

\* A plan or the commit fails.  Tasks with a journal roll it back, except
\* the import task, which has no handler for it.
Fail(t, n) ==
    /\ Idle /\ Running(t, n)
    /\ execs' = SetState(t, n, "failed")
    /\ cache' = Undone(execs[t][n].undo)
    /\ UNCHANGED <<lockTable, queue, stack, outcome, committed, delivered>>

\* TransactionTask.rollback, called by the user.
Rollback(t, n) ==
    /\ Idle /\ Kind[t] = "transaction" /\ Running(t, n)
    /\ execs' = SetState(t, n, "ok")
    /\ cache' = Undone(execs[t][n].undo)
    /\ UNCHANGED <<lockTable, queue, stack, outcome, committed, delivered>>

\* onTaskSuccess_ and onTaskError_.  A promise settles only once.
Finish(t, n) ==
    /\ Idle /\ n \in DOMAIN execs[t] /\ execs[t][n].state \in {"ok", "failed"}
    /\ lockTable' = Release(lockTable, t, Scope[t])
    /\ outcome' = [outcome EXCEPT ![t] =
                     IF @ # "pending" THEN @
                     ELSE IF execs[t][n].state = "ok" THEN "resolved" ELSE "rejected"]
    /\ execs' = SetState(t, n, "done")
    /\ stack' = <<[todo |-> queue, caller |-> Nil]>>
    /\ UNCHANGED <<queue, cache, committed, delivered>>

-----------------------------------------------------------------------------
\* The whole scope is locked: the task is executed.
Starting(t) ==
    /\ Visiting(t) /\ Acquires(t)
    /\ \/ ExecQuery(t) \/ ExecUpdate(t) \/ ExecExport(t)
       \/ ExecImport(t) \/ ExecExternal(t) \/ ExecThrows(t)

Consume == Return \/ \E t \in Task : PassOver(t) \/ Starting(t)

Progress(t, n) == \/ ExecPlan(t, n) \/ CommitQuery(t, n) \/ CommitUpdate(t, n)
                  \/ CommitImport(t, n) \/ Fail(t, n) \/ Rollback(t, n)

Next == \/ Consume
        \/ \E t \in Task : \/ UserSchedules(t)
                           \/ \E n \in DOMAIN execs[t] : Progress(t, n) \/ Finish(t, n)

Spec == Init /\ [][Next]_vars

\* Some callback that is due is run: consumePending_ runs to its end, the
\* promise of a running task settles, or the user of an explicit transaction
\* goes on with it.  Which one is left open: a workload is finite, so none
\* can be put off for ever.
Fairness == WF_vars(\/ Consume
                    \/ \E t \in Task : \E n \in DOMAIN execs[t] :
                          Progress(t, n) \/ Finish(t, n))

FairSpec == Spec /\ Fairness

-----------------------------------------------------------------------------

Conflict(t, u) == /\ t # u /\ ~(ReadOnly(t) /\ ReadOnly(u))
                  /\ Scope[t] \cap Scope[u] # {}

(* Two tasks are in progress together only if both read or they have no    *)
(* table in common, over every interleaving of two-phase requests, cleared *)
(* reservations and releases.                                              *)
Isolation == LET live == {t \in Task : Live(t) # {}} IN
             \A t, u \in live : ~Conflict(t, u)

(* An exec() has thrown instead of returning a promise.  Its locks are     *)
(* never released and what it has changed is not undone: the properties    *)
(* that name this say nothing of a program after that.                     *)
Thrown == \E t \in Task : \E n \in DOMAIN execs[t] : execs[t][n].state = "lost"

(* A failed import leaves its rows in the cache: the properties that name  *)
(* this say nothing of a program after that.                               *)
ImportFailed == \E t \in Task : Kind[t] = "import" /\
    (outcome[t] = "rejected" \/ \E n \in DOMAIN execs[t] : execs[t][n].state = "failed")

(* Once no task is in progress none is left waiting and no lock is left    *)
(* behind: the last callback of consumePending_ never strands a task,      *)
(* whatever reservations the others hold or lost.                          *)
NoneStranded ==
    (Idle /\ ~Thrown /\ \A t \in Task : Live(t) = {}) =>
        queue = <<>> /\ \A d \in Table : lockTable[d] = FreeEntry

\* An import, to which an emptied database looks new, is older than the
\* observer task and as urgent.
ImportAfter(w, contents) ==
    w \in Empties /\ contents \in Task /\ Kind[contents] = "import"

(* A change is not overtaken on its way to the observers: the results the  *)
(* observer task computes for the tables of a task that changed them are   *)
(* those that task left.  The one writer that gets in between is an import *)
(* that waited while that task deleted the last rows.                      *)
ObserverSeesChange ==
    \A w \in DOMAIN ObserverOf : LET o == ObserverOf[w] IN
        \A n \in Live(o) : LET results == execs[o][n].results IN
            \A i \in DOMAIN results : \A d \in DOMAIN results[i] \cap Scope[w] :
                results[i][d] = w \/ ImportAfter(w, results[i][d])

(* When everything has settled, every observed query whose tables changed  *)
(* has its current results, unless an observer task failed.  An import     *)
(* changes tables and tells no observer.                                   *)
ObserversCurrent ==
    (/\ Idle /\ ~Thrown /\ ~ImportFailed
     /\ queue = <<>> /\ \A t \in Task : Live(t) = {}
     /\ \A t \in Task \ UserTask : outcome[t] # "rejected") =>
        \A i \in DOMAIN Observed : LET tables == Observed[i].tables IN
            (\E d \in tables : committed[d] # Nil /\ Notifies(committed[d])) =>
                delivered[Observed[i].query] = [d \in tables |-> committed[d]]

(* A waiting writer loses a reservation only to a task that is not one of  *)
(* the users' queries or transactions and that is being scheduled on that  *)
(* table (even one less urgent: an import's to an external change's);      *)
(* releases and walks over the queue on behalf of other tasks never do.    *)
ReservationKept ==
    [][\A w \in ToSet(queue) : \A d \in Scope[w] :
         (/\ w \in ToSet(queue')
          /\ lockTable[d].reservedRW = w /\ lockTable'[d].reservedRW # w) =>
             \E t \in Task : /\ outcome[t] = "new" /\ outcome'[t] = "pending"
                             /\ Priority[t] < 2 /\ d \in Scope[t]]_vars

(* Every task that is scheduled is resolved or rejected: again and again   *)
(* (a settled resolver stays settled) no task is pending.                  *)
EveryTaskSettles == []<>(Thrown \/ \A t \in Task : outcome[t] # "pending")

\* A call of t has committed, or has read its last table, and the caller of
\* the task is not told yet.
Effective(t) == \E n \in DOMAIN execs[t] :
                    execs[t][n].state = "ok" \/ <<t, n>> \in Interrupted

Answered(t) == Effective(t) \/ outcome[t] = "resolved"

\* How far each task is, and what each reader has been answered.
Phase == [t \in Task |->
    IF outcome[t] # "pending" THEN outcome[t]
    ELSE IF Effective(t) THEN "effective" ELSE "called"]

AnswerOf == [t \in {u \in Task : ReadOnly(u)} |->
    IF Answered(t) THEN Last(execs[t]).results ELSE Nil]

ReadsOf == [t \in {u \in Task : ReadOnly(u)} |->
    [i \in DOMAIN PlansOf[t] |-> PlansOf[t][i].tables]]

WritesOf == [t \in {u \in Task : ~ReadOnly(u)} |-> Scope[t]]

Serial == INSTANCE SerialDatabase WITH
    Reads      <- ReadsOf,
    Writes     <- WritesOf,
    Watcher    <- ObserverOf,
    Cancelling <- {t \in Task : Kind[t] = "transaction"},
    phase      <- Phase,
    contents   <- committed,
    answer     <- AnswerOf

(* The tasks behave like those of a serial database: a task has its whole  *)
(* effect at once when it commits, before its caller is told; one that is  *)
(* rejected or rolled back has none; the plans of a reader, run between    *)
(* the callbacks of others, add up to one moment of committed data.  An    *)
(* exception that leaves exec() makes tasks wait, it breaks nothing here.  *)
SerialSpec == Serial!Init /\ [][Serial!Next \/ ImportFailed']_(Serial!vars)
=============================================================================
