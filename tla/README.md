# Lovefield in TLA+

Models of Lovefield, a relational database that runs in a browser and is written
in JavaScript: who may use a table when, what happens when one of several steps
fails, whether rows, indices, observers and the backing store still agree
afterwards, and whether a query plan still computes what the query says after it
has been rewritten. TLC checks the models on small instances, and TLAPS proves
theorems for every instance.

Paths in this file are relative to `src/lib/` unless they start with `docs/` or
`tests/`.

## 1. The system

Everything runs on one thread. A function runs to its end before anything else
does, and concurrency is that of promise callbacks: between two callbacks of one
task, callbacks of other tasks and calls of users happen. Databases of several
pages or clients meet in their backing store.

| Component | State it keeps | Operations |
|---|---|---|
| Lock manager, `proc/lock_manager.js` | one entry per table: exclusive, reserved for a writer, shared, reserved for readers | `requestLock`, `releaseLock`, `clearReservedLocks` |
| Runner, `proc/runner.js` | the queue by priority; the lock manager | `scheduleTask`, `consumePending_`, `onTaskSuccess_`, `onTaskError_` |
| Tasks, `proc/*_task.js` | scope, priority, resolver, transaction | `exec` of seven kinds; `attachQuery`, `commit`, `rollback` of `TransactionTask` |
| Transaction, `proc/transaction.js` | a state of the lifecycle; its task | `begin`, `attach`, `commit`, `rollback`, `exec`, `stats` |
| Journal, `cache/journal.js`, `cache/in_memory_updater.js`, `cache/table_diff.js` | the difference of each table; whether it awaits a rollback or is over | `insert`, `update`, `insertOrReplace`, `remove`, `commit`, `rollback` |
| Constraint checker, `cache/constraint_checker.js` | none | foreign keys, immediate and deferred, and cascades |
| Cache, `cache/default_cache.js` | rows by id | `set`, `remove`, `get`, `getRange` |
| Indices, `index/*.js` | B-tree nodes, the rows with a null key, statistics | `add`, `set`, `remove`, `get`, `getRange`, `cost`, `serialize` |
| Key ranges, `index/key_range.js`, `index/single_key_range_set.js` | bounds | overlap, intersection, union, complement |
| Observer registry, `observer_registry.js`, `diff_calculator.js` | the observers of each query, its last results and the array they share | `addObserver`, `removeObserver`, `updateResultsForQuery` |
| Backing stores and their transactions, `back_store.js`, `backstore/*.js` | the persistent rows; pages of several rows; revisions (Firebase) | `init`, `createTx`, `commit`, `subscribe`, `notify` |
| External changes, `backstore/external_change_observer.js` | none | schedules an `ExternalChangeTask` for diffs of the store |
| Database, prefetcher, `proc/database.js`, `cache/prefetcher.js` | whether the database is open | `init` (fills cache and indices), `close`, `export`, `import` |
| Schema, `schema/*.js` | the tables declared so far; the finished schema; what refers to what | `createTable`, the calls of a `TableBuilder`, `getSchema`, `connect` |
| Query builders, `query/*.js`, `pred/*.js` | the query being built, what is bound, the plan once it is made | the clauses, `bind`, `clone`, `explain`, `exec` |
| Query engine, `proc/*_pass.js`, `proc/*_step.js`, `proc/relation.js` | plans (trees), relations, ranges of the last execution | build a plan, rewrite it, compute it |

How they interact. A program declares a schema and connects: the store upgrades
its tables if it must, and the prefetcher fills the cache and the indices. A
builder or a transaction makes a task and gives it to the runner. The runner asks
the lock manager for the task's scope in two phases and calls `exec`. The task
computes its plans, which read the cache and the indices or change them through
the journal of the task's transaction, which asks the constraint checker. It then
commits the journal to the backing store or rolls it back, and tells observers,
directly when it only read, or by scheduling an observer task. When its promise
settles, the runner's callback releases the locks and looks at the queue again. A
backing store that changes by itself schedules an external change task.

Which behaviour is hard, and what makes the components correct:

* *Lock manager and runner.* `consumePending_` walks over a copy of the queue,
  and a task it executes may schedule another, which enters it again. Urgent
  tasks clear reservations of others. Correct means: no writer next to anyone on
  a table, nobody waits when nobody runs, a change reaches observers as it was
  made.
* *Tasks and transactions.* The plans of a task run in different callbacks, a
  commit may be refused after the cache has changed, and users call in between.
  Correct means: uncommitted changes stay behind locks, failures leave nothing,
  users are told what happened, and what is over has no locks.
* *Journal and indices.* A row goes into several indices and any of them may
  refuse it; a transaction may insert, change, delete and insert a row again.
  Correct means: the indices agree with the rows, unique keys are unique, the
  difference is the net change, a rollback restores.
* *Constraints.* Cascades change rows of other tables before all is checked, and
  deferred checks see the transaction as a whole. Correct means: no row refers to
  nothing, and cascades reach what they should and nothing else.
* *Backing stores.* Pages are rebuilt from the cache, removals and writes of one
  page meet in one transaction, upgrades take several transactions, revisions race
  with changes by other clients. Correct means: a restart brings back what was
  committed, and every client ends at a version of the server.
* *Queries.* A plan is made once, for the values and rows of that moment, and is
  shared by executions, copies and observers. Correct means: each rewriting keeps
  what the plan computes, an answer is that to the query as it is bound, and an
  observer hears of every change.
* *Schema.* Calls fail half-way and the program goes on. Correct means: what the
  builder accepts is what the constraint checker takes for granted, and what a
  statement looks into is in the scope it locks.

`PROJECT.json` lists the components with their status, and under "hazards" the
places of the code where this can go wrong.

## 2. The modules

| Module | Models | Uses |
|---|---|---|
| `LockTable` | the pure part of `LockManager`: entries, when a lock can be had, what granting, releasing and clearing do | |
| `LockManager` | the lock manager under any client | `LockTable`, `ReadersWriters` |
| `ReadersWriters` | the abstract promise: readers and writers of each table | |
| `LockManagerProofs` | theorems about the lock manager | `LockManager` |
| `Runner`, `MCRunner` | runner, all kinds of tasks, observers; workloads for it | `LockTable`, `SerialDatabase` |
| `SerialDatabase` | the abstract promise: tasks that take effect one at a time, each as a whole | |
| `RunnerProofs` | theorems about the runner; that it implements `SerialDatabase`, and that observers see every change and end with current results | `Runner` |
| `Transaction`, `TransactionProofs` | transaction object, its task, its journal, its locks; theorems | |
| `Journal`, `MCJournal`, `JournalProofs` | rows, indices and differences of one table; a table with four indices; theorems | |
| `Constraints`, `MCConstraints` | statements on tables with foreign keys; schemas and rows for it | |
| `Comparator`, `KeyRange` | order of keys of one or several columns; ranges | |
| `KeyProofs` | theorems about keys: foreign keys, and ranges of keys | `Constraints`, `KeyRange` |
| `BTree` | nodes, insertion and deletion | `Comparator` |
| `Index`, `MCIndex` | lookups, ranges and costs; an index that is grown, changed and asked; trees and questions for it | `BTree` |
| `Relations`, `Predicate`, `QuerySteps` | relations and their set operations; predicates and sets of ranges; what the steps of plans compute | `KeyRange` |
| `LogicalPlan`, `PhysicalPlan` | plans and the passes of the two rewriters | `Predicate` |
| `Queries`, `MCQueries` | a query from its builder to its answers; some seventy queries and four databases | all of the former |
| `BackStore` | native stores and the requests made of them | |
| `Stores` | the life of a database over each of four stores | `BackStore` |
| `StoresProofs` | theorems about it: store and memory agree, restarts restore | `Stores` |
| `Firebase`, `FirebaseInvariant`, `FirebaseProofs` | clients of one Firebase server; the parts of its invariants, and what each action leaves; theorems: clients have versions of it, readers go forward | |
| `TableBuilder`, `Schema` | the calls that declare a table; finalizing and connecting | |
| `StatementScope`, `MCSchema` | what statements lock and what they look into; declarations | `Schema` |
| `SelectBuilder` | select builders with their plans | |
| `Observers`, `MCObservers` | the registry and its change records, with builders and tasks | `SelectBuilder` |
| `ObserversProofs` | theorems about observed queries: tasks answer their query, observers hear of writes | `Observers` |

A definition with an underscore, as `CanLock_IgnoresShared` before `CanLock`, is
not part of a model. It is the definition after it with a bug one could have
written; `PROJECT.json` ("mutants") says which property finds it.

### Lock manager

One action per method, for any task, any set of tables and any type of lock, at
any time: `RequestLock`, `ReleaseLock`, `ClearReservedLocks`. This client is more
general than the runner. That matters because the runner can request locks again
for a task that already has them. `Nil` is the entry's `null`.
`ReadersWriters` knows only who reads and who writes; `LockManager` implements it
with `readers` the shared set and `writer` the exclusive field. Reserving is a
stutter there.

### Runner

| Variable | Code |
|---|---|
| `lockTable` | `Runner.lockManager_` |
| `queue` | `Runner.queue_` (ids of tasks only break ties of age; the order in the sequence says the same) |
| `stack` | calls of `consumePending_` on the JavaScript stack: the rest of each copied queue, and the task whose call led to it |
| `execs` | for each task, the promises its `exec()` calls returned: running, ok, failed, lost, done |
| `outcome` | the state of the task's resolver |
| `cache`, `committed` | the contents of each table in memory and as last committed, named by the task that wrote them |
| `delivered` | the results an observed query's observers got last |

Actions: `UserSchedules` (`scheduleTask`); `PassOver`, `Exec...` and `Return` (one
step of `consumePending_` each, so that it can be entered again in between);
`ExecPlan`, `Commit...`, `Fail`, `Rollback` (a promise of a running task settles);
`Finish` (`onTaskSuccess_`, `onTaskError_`). `ExecThrows` is an `exec()` that
throws: an import into a database that is not empty always does, and an external
change or an import may when an index refuses a row (constant `MayThrow`). The
exception passes through every call of `consumePending_` on the stack. Callbacks
happen only when `stack` is empty, because JavaScript runs them only then. An import
looks whether there are rows, so tables whose rows were all deleted are empty again:
`Empties` are the tasks that leave none (`EmptyDB`). Rollbacks run to their end here;
those that throw are in `Transaction` and `Constraints`.

`SerialDatabase` has no locks, queue or cache. `Runner` implements it (`SerialSpec`)
with `contents` for `committed`. A task is effective from its commit (`Effective`)
until its caller is told; scheduling, locking and executing single plans are
stutters. The change of a writer and the call of its observer task are one step
there, as they are in `CommitUpdate`. A transaction its user rolls back is resolved
without a change (`Cancel`). After an import that failed nothing is promised
(`ImportFailed`), and a task that is executed twice, as in `runner_twice`, breaks the
promise as well as isolation.

### Transaction

`state` is the lifecycle of the object and `due` the callbacks whose promise has
settled and which have not run. `task`, `journal` and `undo` belong to its task.
`holder` and `queue` stand for the runner, reduced to what `Runner` does with
tasks that all write the same tables: one at a time, in order of scheduling.
`cache` and `store` hold the names of the transactions whose changes are there.
Actions: `Begin`, `Exec`, `Attach`, `Commit`, `Rollback` by users; `ExecRefused`,
`AttachRefused` for queries whose preconditions fail; `QuerySucceeds`,
`QueryFails`, `ExecQueries`, `FlushSucceeds`, `FlushFails` of the task; `Finish` of
the runner; `RunCallback` of the object. Two things can go wrong after these.
`ObserversThrow`: the store has committed, and planning the observed queries throws;
`exec()` is then rejected (`untold`), and nothing settles the task of `commit()`, which is
"lost" with its locks. `RollbackThrows`, `QueryRollbackThrows` and
`FlushRollbackThrows`: an index refuses a rollback half-way; the journal is "halfUndone",
and the task "lost" unless it is that of `exec()`. When a rollback is refused is the
subject of `Journal` and `Constraints`.

### Journal

`cache` is the rows of the table. `index` gives, for each index and key, the rows
under it. `added`, `modified` and `deleted` are the `TableDiff`. `status` stands for
the journal's `pendingRollback_` and `terminated_` and for the stages of a rollback or
of a change by another client, `updating` for the modifications that
`InMemoryUpdater.update` still has to make: those of one map before those of the next,
and within a map in any order. `external` is the contents this change leads to. `before` is the contents the transaction or the change
found; only properties use it. A row is an id and a value; `KeyOf` is its key in each
index. An insertion that an index refuses undoes the indices before it, as
`updateTableIndicesForRow` does. A change by another client is any consistent contents
as a diff whose rows come in any order; like a rollback it may be refused half-way,
which leaves indices that are changed and a cache that is not, and nobody catches it.

### Constraints

`rows` is the cache of all tables, `before` what the transaction found. A statement
is one step of the program, but a series of checks and modifications that an
exception ends anywhere. So each operator returns the modifications made so far
and whether a check threw; `status` then says that the transaction must be rolled
back. Cascading updates, the detection of cascading deletions, immediate checks
and those at the commit are each an operator named for its method. Modifications are
functions from row ids, and loops over the rows of one table are sets: of the rows that
an index refuses, the first one is where the statement ends. The loops whose order
matters, over foreign keys, tables and rounds of `detectCascadeDeletion`, are recursive
functions. It goes round as often as there are foreign keys; no path of foreign keys is
longer, since the builder refuses cycles, and rounds that find nothing change nothing.
The journal's difference is taken as net, which `JournalProofs` proves. A rollback gives
the rows their keys back one by one. `Holds` says that a row has the key another is to
get back; depending on the order of the rows an index may (`MayRefuse`) or must
(`MustRefuse`) refuse that, and then the rollback ends half-way (`RollbackThrows`, status
"rollbackFailed") and the database goes no further in this model.

### Indices

`BTree` keeps the nodes in a function from ids to records, as the code's nodes
refer to each other. Its operators return the tree after `insert`, `remove`, with
splitting, stealing and merging as in the code. `Index` has `get`, `getRange`,
`getAll`, `cost` and the serialization, and grows a tree by a sequence of
insertions (`Growths`); then rows are added, set and removed, and `rows` is the map
it should represent. `Reload` stores the tree and reads it back: the store returns the
leaves by their ids, which are not in the order of their keys once a leaf that is not the
last one has been split, and `garbled` remembers that this has happened. Loops over siblings and leaves are recursive operators, so
nothing can be proved in these modules.

### Queries

A plan is a tree of records. `todo` is the passes that have not been applied yet,
so that properties are checked after each. Each pass is an operator from tree to
tree that follows the code's traversal, including what it does to shapes it was
not written for. When no pass is left the plan is executed, for the user or for
observers, while rows change and values are bound. `ranges` is what the key range
calculators keep from the last execution. What an answer has to be is defined at
the end, without plans: which rows satisfy the conditions, how they are grouped,
ordered and cut. Rows are functions from columns to numbers or `Null`. The query's
indices have the statistics the cost estimator reads, and `QueryPercent` is its
threshold.

### Stores

`BackStore` has what each store keeps natively: a record per row (IndexedDB,
WebSQL), a record per page of rows (bundled IndexedDB), or nothing (memory), and
how `put`, `remove` and the serialized RowId index turn into native requests.
`Stores` connects (`Open`, or an upgrade in one transaction for IndexedDB and in
several for WebSQL), changes the cache and the RowId index by statements, turns the
difference into `requests`, and lets the native store serve them one at a time.
Requests fail, transactions abort, the page is lost (`Crash`) or closed at any
time. A connection fails (status "failed") when it finds rows in a table with a
persistent index whose class was not generated (`Unreadable`; `Generated` are the schema
versions with generated classes). `expected` is the set of contents a restart may bring back. A row has a value
and the schema version its columns are of.

### Firebase

`server` is the sequence of versions of the server. A client sees one of them
(`at`), with its own unanswered updates (`sent`) laid over it, as the library does.
`store` is the code's `lf.backstore.Firebase`: `revision_`, the tables in memory,
`removedRows_`, what the listener listens to; and the tasks scheduled for external
changes. Clients connect, listen, write, are told of changes and of refusals, and
lose their pages. A transaction gets its locks (`Begin`, in `begun` from then on), and ends
(`End`) or commits; the locks stay with the update until that has settled. A task for an
external change waits for them. `MayPass` says which tasks may get their locks before an
earlier one: the lock manager reserves all tables of a task or none, so one that lacks a
table holds no other up. `overtaken` has the tables in which that has mattered. Rows have
no unique keys here, so no task is refused by an index.

### Schema

`builders` has every `TableBuilder`; an operator of `TableBuilder` gives the builder
after a call, which may have been changed by a call that threw. `schema` is the
finished schema, `info` the foreign keys `lf.schema.Info` was made from at the first
statement. `StatementScope` has the scopes the contexts compute and, next to them,
the tables each statement looks into: those whose indices `journal.js` and
`constraint_checker.js` use.

### Observers

`builder` is each `SelectBuilder` with its query and plan, `value` what is bound to
each predicate object, since builders may have been given the same one; `entries`
the registry; `pending` the tasks that wait. A table is the sequence of the values
of one column. Tasks run one at a time here, because `Runner` shows what locks and
priorities leave of them. A copy of a builder has one predicate for the conjunction its
original had: all of them ask for a number no less than what is bound, so `Conjunction`
takes the largest. `late`, `early` and `bound` of a builder, and `untold`, the observed
queries that have missed a write, are history for the properties.

## 3. The runs

All passing runs explore every reachable state of their instance; none has a
constraint on states. The properties, each with the reason it is there, are stated
at the end of the modules. Where the code does not keep a property in some case, the
property names the case (`Excepted`, `Thrown`, `ImportAfter`, `Restored`,
`garbled`, `lost`, `missed`, `overtaken`, `late`...), and
section 5 says what the code does then. Each of these exceptions is needed: without
it TLC finds a counterexample.

| Run | Instance | Shows |
|---|---|---|
| `lock_manager` | two tables, three tasks | `Exclusion`, `ReservationBlocks`, and the promise of `ReadersWriters` |
| `runner` | three workloads on three tables, of which two observed queries refer to two: an update, a transaction and two queries; an import, an export, an update and two external changes, one of which may throw; two updates, a query and an external change that touch the table nobody observes | isolation, `Runner` implements `SerialDatabase`, nobody stranded, observers see each change and end with current results, reservations are kept, every task settles |
| `transaction` | three transaction objects, every order of calls, successes, failures and callbacks; rollbacks that throw, and observed queries that cannot be planned | uncommitted changes are locked, callbacks are allowed, users are told the truth, locks are released |
| `journal` | three rows, five values, four indices (row id, primary key, unique and nullable, nullable), any sequence of transactions and of changes by other clients | indices match rows, keys are unique, the difference is net, rollbacks restore, and they and changes fail only when a unique key changes hands |
| `constraints` | six row ids in five tables, six foreign keys, two statements and a commit per transaction | no orphans, cascades of deletions and updates reach what they should |
| `index` | nodes of at most five keys; trees of up to 17 keys grown in several orders, unique or not, one or two columns, null keys; two operations after that, restarts among them | every key is found, nodes are balanced and linked, ranges, limits and skips |
| `queries` | some seventy queries on four databases of two tables with up to three rows; blocks of two rows in nested loops; no index refused for what it costs | no pass changes what a plan gives, answers are current |
| `stores` | two tables, one with persisted indices, on four stores; pages of two rows, four row ids, two statements per transaction, two commits, two restarts, two schema versions, of which the first has generated classes | cache and disk agree, restarts restore, indices know the rows, ids are fresh, rows are upgraded |
| `firebase` | a writer and a reader, two tables, two row ids, three updates (two while the reader is connected), one lost page | clients end at a version of the server, readers never go back |
| `schema` | three tables of two columns and one more to be created; 25 declarations, a unique index and a unique column after a foreign key on it among them, five of them made; one connection | what the builder accepts is sound, scopes cover what statements look into |
| `observed` | two builders, one handler, seven calls, two waiting tasks, two or three rows in the table | tasks answer their query, observers hear of writes and can follow |
| `runner_twice` | two updates, an external change and a query | a disagreement of the code with its documentation, section 5 |

Bounds, and why they are enough:

* Lock manager: an entry treats tables alike and separately, except that a
  request is granted for all tables or none, for which two are needed. Conflicts
  are between two tasks; the third can be in the way of both.
* Runner: a workload is a finite set of tasks, each scheduled once at any time.
  It has at most five tasks of users and their observer tasks. Two tables give
  tasks with one, the other and both, hence reservations of a part of a scope; the
  third is there for changes that no observer is told of.
  Every kind of task meets every priority in one of the workloads. Two tables and
  two plans are enough for a reader to see half of a writer.
* Transaction: one runs, one waits, and one is put behind it.
* Journal: a unique key moving to another row needs two rows and a third one lets
  it go round. The differences are bounded by the rows, so no sequence of statements
  is cut off. Changes by others lead to all consistent
  contents, in all orders of their rows.
* Constraints: the schema has a table that is reached by two columns and through a
  third table, a restricting key below a cascade and a deferred one. A deferred
  check needs two statements to be passed by the second.
* Index: with `MaxCount` 5 a tree of 17 keys has three levels, and steals and merges
  happen to leaves and to internal nodes. The code's 512 is even; section 5 says
  what that changes.
* Queries: every pass has queries that it changes and queries that it must leave
  alone; the tables have no rows, one row, rows that meet and rows with null.
  `BlockSize` 2 makes the right table of a nested loop fill more than one block.
* Stores: pages of two rows with four ids give pages that empty, pages shared by
  what is put and what is removed, and rows on several pages. Two restarts allow a
  crash while connecting after a crash.
* Firebase: the order of one update being refused and the next one being answered
  needs two, and so does a task that overtakes another. A third shows what a refused
  deletion leaves behind (section 5); a reader that is connected takes its place, which
  keeps the run short (`Room`). The theorems of section 4 are about any number of updates.
* Schema: a unique column, a key and its reverse, with a call that fails and one
  after it, take four calls.
* Observers: seven calls build two queries that share something, observe one and
  bind the other.

Deadlock is checked for the lock manager, and switched off where a model comes to an
end by itself: a finite workload of the runner, transactions that are over, a
rollback that failed, a connection that failed, bounds on calls that have been used up.

Fairness. `Runner` assumes weak fairness of "some callback that is due runs". The
JavaScript engine runs callbacks whose promises have settled, and stores are
assumed to answer. Since a workload is finite, no task can be put off for ever by
others, so nothing is needed for single tasks. The assumption includes that the
user of an explicit transaction goes on with it, since a transaction nobody ends
keeps its locks by design; scheduling itself is not assumed. `Transaction` is
stricter: weak fairness of each transaction's callbacks only. Users need do
nothing, and the liveness property starts where they have asked for the end. The
other modules state no fairness and no liveness.

## 4. What is proved

`LockManagerProofs` (assumption `NilAssumption`: `Nil` is no task), for any tables
and tasks. Its lemmas about single entries and tables of locks are repeated in
`RunnerProofs`, whose model has a `lockTable` of its own:

* `LockInvariant`: `LockInv`, the type and `EntryOK` of every entry, is inductive.
  `EntryOK` says that an exclusive lock excludes shared ones and a reserved writer
  excludes reserved readers. The type and the two exclusions are proved together,
  entry by entry: one lemma for each operation on an entry, then one for each
  operation on the table.
* From it: `TypeCorrect`, `ExclusionHolds`, `OneSideReservedHolds`, and the action
  property `ReservationBlocksHolds`.
* `PromiseKept`: the refinement of `ReadersWriters`. Initial states map to initial
  states, and each action to entering, leaving or a stutter.

`JournalProofs` (assumption `JournalAssumption`: row ids are numbers, every
row has a key in every index, and the primary key is unique and never null), for any number of rows, values and indices:

* `DiffInvariant`: rows and differences are typed, the maps are the net difference
  unless a rollback has ended, and a rollback that has ended has restored. One
  lemma per map says that `TableDiff.add`, `modify` and `delete` keep the
  difference net. During a rollback the difference stays net because the cache is
  changed only at the end.
* From it: `DiffIsNetHolds`, `RollbackRestoresHolds`.
* `IndexInvariant`: half-way through a rollback or a change by another client the
  indices are those of a mixture of the cache and the contents that are to be there at
  the end (`Current`), and unique keys are unique in all three. That they are unique at
  the end is why a refusal needs a key that changes hands. Needed is that
  `updateTableIndicesForRow` changes all indices or none (`UpdateIsAtomic`) and that
  adding and removing a row takes one listing to the next (`ApplyMoves`).
* From it: `IndexMatchesCacheHolds`, `UniqueKeysHolds`, `FailsOnlyOnReuseHolds`.
  Hypothesis `ZeroHasNoNull`: row 0, if there is one, has no null key. The code drops
  all rows with a null when row 0 leaves the null key of an index (section 5), and a
  store that scans its tables gives out ids from 1.

`RunnerProofs`, for any tables, tasks, plans and observed queries. Assumptions: `NilAssumption`; `RunnerAssumption`, the
constants are tasks, plans and observers of the right kind; `QueryAssumption`, a query
has one plan, that of its builder, whichever task computes it; `SelectionAssumption`,
the observer task of a writer leaves out no observed query on the tables written. The
last, and the part of `RunnerAssumption` that `PlansOf` is typed, hold for any constants
by the definition of `SelectSeq`. They are assumed because the prover knows nothing of
that operator; TLC evaluates them. Hypothesis
`NoReentry`: changes of other clients come in only for tables that nobody observes, and
no index refuses them. Then no task that `exec()` runs schedules another. Without it
`Isolation` is false (`runner_twice`), and a change that is refused while an update
notifies its observers makes the committed update fail.

* `RunnerInvariant`: the queue has a task once and only before its `exec()` is called,
  what `consumePending_` still has to visit is in the queue, a task is executed once, its
  resolver and its call keep step, an observer task is new until its change has been
  committed, and (`HoldInv`) a task that has been started and not been reported holds
  its locks on its whole scope. The last needs that no step of another task takes a
  shared or exclusive lock away, and that requesting both phases gives them.
* From it: `IsolationHolds`, and the action property `ReservationKeptHolds`.
* `SerialInvariant`: `DataInv`. Where cache and committed contents differ, a task that
  has the table locked has changed it; the journal of a writer has the committed
  contents of what it has changed; what a reader has read is still committed. Each of
  the three needs the others and the locks. It ends with a failed import
  (`ImportFailed`), as the property does.
* `SerialSpecHolds`: the refinement of `SerialDatabase`. Each action of the runner is one
  of a serial database or none, one lemma for each kind.
* `StrandInvariant`: `LockersInv`, locks belong to tasks in progress and reservations to
  tasks that wait; `ChainInv`, of any set of waiting tasks one is obstructed by none of
  the others; `WalkInv`, while no task is in progress the walk of `consumePending_` has
  still to come to a task that nothing obstructs. Adding a task to the queue extends the
  order of reservations at its end, which is why there is no cycle to wait in. From it:
  `NoneStrandedHolds`.
* `ObserverInvariant`: a change that an observer task has still to report stays reserved
  against later writers (`GuardInv`), because the observer task stands before them in the
  queue (`OrderInv`); so the results kept for an observer differ from what is committed
  only by changes that are on their way to it (`WriteInv`, `KeepInv`, `ResultsInv`). The
  exception is an import: it is older than the observer task and as urgent, so it comes
  first if the change has left no rows (`Sees`). From it: `ObserverSeesChangeHolds`.
* `ToldInvariant`: an observed query whose tables have changed has been delivered the
  committed contents, or an observer task that will deliver them is on its way. A task
  that delivers has read committed contents by `DataInv`; a commit puts its observer task
  on its way in the same step. It ends with a failed import. From it:
  `ObserversCurrentHolds`.

`KeyProofs`, about `Constraints` (assumptions `RowAssumption`, rows contain keys in the columns of
their table; `SchemaAssumption`, what the builder refuses; `NoSelfCascade`), for any
tables, rows and foreign keys and without the bound on statements being used:

* `DetectsExactlyDependents`: whatever the rows are, `detectCascadeDeletion` finds the
  rows that depend on those that a statement deletes, and no others. `Rounds` is what is
  so after n rounds: whatever refers to a row that was found before the last round has
  been found; what the last round has found is at least n foreign keys away from the
  first table, so that after as many rounds as there are foreign keys it has found
  nothing new that others refer to; and every closed set has all that was found. Below
  it are the loops over the tables of a round (`RoundLoop`) and over the foreign keys of
  a table (`VisitLoop`), and `UpTo` and `Iteration` in place of induction theorems.
* `ConstraintsInvariant`: what the transaction found was consistent, and what it has is
  consistent between statements. One lemma says what each statement does that succeeds
  (`InsertDoes`, `UpdateDoes`, `ReplaceDoes`, `RemoveDoes`) and one that this orphans
  nobody (`InsertKeeps`, and so on). An update is the hard one: a key that goes has been
  taken from its children by the cascade or is restricting and asked about after it, and
  what the cascade changes is nobody's parent. `DeferredChecksSuffice` is about the
  commit. A rollback that a unique index refuses ends all this: the invariant says
  nothing of the rows afterwards, nor does `NoOrphans`. From it: `NoOrphansHolds`.
* `KeysStay`: keys that cascade are never null. From it `DeletesDependentsHolds` and
  `ReferencesFollowHolds`, the two action properties.
* Hypotheses about the schema, each theorem with those it needs; section 5 says what
  happens without. `CascadesOwnColumns`: a column with a cascading foreign key has no
  other. `ReplacesKeepKeys`: a table on which `insertOrReplace` is used has no cascading
  or self-referring key on anything but its primary key. `CascadesFromKeys`: a column
  that a cascading key refers to is not nullable. The schema of `Constraints.cfg` has
  all three.

`KeyProofs`, about `KeyRange`, for all ranges of integers, bounded or not, with bounds
included or excluded: a key is in a range or in its complement (`ComplementCovers`) and never in
both (`ComplementIsDisjoint`); ranges with a common key overlap
(`OverlapsFindsCommonKeys`); the intersection of ranges that overlap has exactly the
keys of both (`AndIsIntersection`); the bounding range has all keys of both
(`BoundingCovers`). `Queries` and `Index` use these operators.

`ObserversProofs` (assumption `ObserversAssumption`: there are limits and values to give,
values are numbers, and `Nil` is none of them and no plan or builder), for any number of
builders and handlers, any contents of the table, and without the bounds on calls and
waiting tasks being used:

* `ObserversInvariant`: `IInv` is inductive. Its first half is about builders alone.
  `WhereInv` says which predicates a builder can have: the copy it was made with, and one
  it was given. `PlanOK` says that a plan is that of the query unless a clause or the
  limit came later. `BoundInv` relates what is bound to a predicate object to what was
  bound through the builder; it needs that only the kept predicate is in several builders,
  and that the predicates of one query are bound together, so that an observed query is
  always computed for one value. Its second half is about what waits. A query has the plan
  and the values it was asked with (`SelectOK`); those of observers have been planned
  (`QueriesOK`); an observer's results are those of the table, or a task that will compute
  them waits, or a write could not tell (`HearInv`). No builder that has been planned is
  planned again (`PlansStay`), so what waits is not concerned by what users do next.
* From it: `TasksAnswerTheirQueryHolds`, `ObserversHearOfWritesHolds`.
* What a plan computes is not expanded: all that is used is that it depends on the values
  of the plan's predicates, and on the limit if the plan has one (`RunSame`).
  `HandlersCanFollow` is about folds over change records and stays with TLC.

`TransactionProofs` (assumption `TxAssumption`: `Nil` is no transaction), for any number
of transactions:

* `TransactionInvariant`: `IInv` is inductive. It was checked by TLC before it was
  proved, and has three parts that the properties lack. The first two (with the types,
  `Base`) always hold, the third until a rollback throws (`Restored`): `ThrowKeeps` and
  `ThrownStays` are about that step and what follows it. `EachConsistent` says, for
  every state of the object, where its task and journal are, which callbacks are due
  and what the user was told; it makes `CallbacksAllowed` follow, whose own statement
  says nothing of tasks. `LocksOK` ties the locks to tasks: the holder is the one task
  that runs or has just ended, and the queue has each waiting task once. `DataOK` says
  that a journal that may be rolled back restores what is in the store, so that a
  rollback undoes its own changes only. One lemma for each kind of action, and
  `HolderAlone`, `UndoRestores` for what they share.
* From it: `TypesHold`, `UncommittedIsLockedHolds`, `CallbacksAllowedHold`,
  `ToldTheTruthHolds`.

`StoresProofs` (assumptions `TablesAssumption`: there are finitely many tables;
`PageSizeAssumption`: a page has at least one row; `StoresAssumption`: kinds are those of
the code, bounds are numbers and there is a first schema version), for any tables with
or without persisted indices, any values, page size, schema versions and bounds, and
for each of the four stores:

* `StoresInvariant`: `Inv` is inductive. TLC found it to hold of every reachable state
  of a small instance before it was proved. Its parts:
  `TypeInv`, which says also what a page and a request look like (`RecordOK`,
  `RequestOK`); `StatusInv`, what the state of the connection says of memory, queue and
  medium; `OwnInv`, row ids can be dealt out to the tables so that each row is in the
  table that owns its id, wherever the row is (cache, journal, queue, medium), and all
  are below `nextId`; `ColsInv`, which rows have the columns of which schema version;
  `ReplicaInv`, `ExpectedInv` and `IndexInv`.
* The hard one is `ReplicaInv` during a commit, when the store has some of the changes
  and the queue the others. `ConvergesTo` says this without counting what has been
  served: each record that is to be there is there or is put by a queued request; each
  that is too much is taken away by one; and no queued request does harm. Whatever the
  kind of store, serving the first request, with the deletion or clearing that the
  callback of a count adds, keeps it (`ServedHere`), a request to another store does
  not touch it, and when nothing is queued the store is what it was to be
  (`DataSettled`, `IndexSettled`). `TableConverges` shows that the requests
  `mergeTableChanges` makes have the property to begin with; this is where it matters
  that pages are rebuilt from the cache, that a removal from a page that is also
  written does not come after the write, and that `disableClear` keeps a count from
  clearing what was just put. `Tidy` keeps two requests of one queue out of each other's way.
* `OwnInv` is why ids stay fresh over a restart: what is stored is owned, and
  `scanRowId` is at least the greatest id of every table. For the bundled store that
  takes that pages divide the ids in order.
* A connection either succeeds (`ConnectsKeeps`) or cannot read its rows and has no
  memory (`FailedKeeps`); the properties are about those that succeed.
* From it: `TypesHold`, `ReplicaHolds`, `IndexHolds`, `IdsHold`, `UpgradesHold`, and the
  action property `RestartHolds`.
* `LeastNat` and `Induction` stand in for the library's induction theorems; with them
  the recursive function `Served` and the library's `FlattenSeq` and `SetToSeq` are
  shown to do what they should.

`FirebaseProofs` (assumption `FirebaseAssumption`: there are finitely many tables and at
least one, some row id, and writers are clients), for any clients, tables and row ids,
and without the bounds on updates and lost pages being used:

* `AlwaysTyped`, for any number of writers: `Basics`, the types with what is under way. A
  client that is not connected has nothing, a reader sends nothing, updates are answered
  and fail in order, write rows of the tables they lock and keep what those had
  (`UpdateOK`), and nobody else has these locked (`BegunInv`). Each action is first restated by what it leaves, without `EXCEPT` and
  `CHOOSE` (`IsConnect`, ..., `IsReloaded`), so that whatever follows is about `StepOf`.
* Hypothesis of the other two: `OneWriter`, which the code assumes
  (`external_change_observer.js:68`). Two writers hand out the same row ids and revisions.
* `ReadersSeeForward`: `ValueInv`, the values of a row grow with the versions of the
  server, and those of updates under way are above all of them; `SeenInv`, what waits in
  a reader's tasks is not older than its cache, and later tasks not older than earlier
  ones, in the tables in which nothing was overtaken (`Free`). There tasks that pass each
  other are about different tables, which is why the order in which they run does not
  matter (`SeenApplied`).
* `ClientsHaveVersions`, by the invariant `Together`. `VersionInv`: the revision of a row
  tells since which version it has been there as it is. So a query from a revision on has
  what is new, and with `removedRows_` brings a reader to the version it sees
  (`ReaderInv`); what the tasks that wait make of the cache is what is in the tables
  (`TaskInv`). The writer is the hard one (`WritersInv`). `WriterState` relates eight
  variables: its updates are those that failed and then the others (`Split`); those that
  the server has taken are in its versions and no one else's are (`Under`); the revision
  that it counts is that of its view, the version with its own updates laid over it
  (`Count`), so that it makes nothing of what it hears, as it has it already; its tables
  and its cache are that view, but for the tables of an update that failed, which are
  about to be read again and rolled back (`Copies`, `Befores`), and for the cache of tables
  that are not `Free`. From such a cache a transaction may write a row again that it has
  removed; `OwnInv`, the writer knows no row id in two tables, is why it writes it into
  the table where it was. A refusal is what brings
  it to take a version, and then only what it missed or was refused is not as it sees it
  (`WriterRefused`). A writer that connects begins with what the server has (`LoadInv`).
* TLC found every part of `Together` to hold in the instance of `Firebase.cfg`.

Only model-checked: `FindsKeys`, `Balanced` and `RangesFound` of `Index`;
`PassesKeepRows`, `PassesKeepOrder` and `AnswersCurrent` of `Queries`; `SchemaIsSound` and
`ScopesCoverAccess` of `StatementScope`; `HandlersCanFollow` of `Observers`; and liveness (`EveryTaskSettles`,
`LocksReleased`), which is beyond the prover as is everything with `ENABLED`. `BTree`,
`Index`, `Schema`, `StatementScope` and the modules of queries have recursive operators,
of which the prover knows nothing, and hold no theorems: what they compute is induction
over trees, plans and schemas.

## 5. Where code and documentation differ

`runner_twice` is a run of the project; `PROJECT.json` quotes the lines. The
configurations in the second list are kept to reproduce a counterexample by hand:
`tlc -config ConstraintsReplace.cfg MCConstraints` finds it in seconds. The others
are the exceptions of the properties.

* `runner_twice`: a walk over a copy of the queue that is entered again can
  request locks for a task that has left the queue meanwhile. A writer then runs
  next to a reader of its table.

By hand:

* `ConstraintsReplace.cfg` (`MCConstraints`): `insertOrReplace` of a row that exists
  follows only restricting foreign keys (`constraint_checker.js:408`). When it changes
  a unique column that is not the primary key, children with a cascading key are left
  referring to nothing. `docs/spec/08_referential_integrity.md:58-60` says it works as
  under RESTRICT.
* `IndexSkipsRows.cfg` (`MCIndex`): `getRange` on several columns stops at the second
  leaf that begins outside of the first column's range (`btree.js:219`). If that range
  excludes its lower bound and two leaves are full of the bound, all rows after them
  are left out.
* `QueriesNulls.cfg` (`MCQueries`): `OrderByIndexPass` uses an index on a nullable
  column for ORDER BY and loses the rows with null (`order_by_index_pass.js:104`);
  `docs/dd/04_query_engine.md:136-138` says the result is not affected.
* `StoresIndex.cfg` (`Stores`): unbundled IndexedDB writes a persisted index by
  counting and clearing its store and putting the new one at the same time
  (`base_tx.js:187`, `object_store.js:196`): the clearing comes last, the index is lost,
  and after a restart no row of the table is found.

In the models of locks, tasks and rows:

* An import into a database that is not empty, or that meets a duplicate key, throws
  inside the runner: it never settles and its tables stay locked (`Thrown`). Rows of an
  import whose commit failed stay in the cache (`ImportFailed`). `ImportTask` schedules
  no observer task.
* "Not empty" is about rows. An import that waits behind a change that deletes the last
  rows runs before the observer task of that change, so that observers are told of the
  imported rows as if they were what the change has left (`import_task.js:125-139`,
  `ImportAfter`).
* `attach()` of a query whose preconditions fail makes the transaction `FINALIZED`, but
  its task keeps its locks. `commit()` has no callback for failure, so the object stays
  `COMMITTING` after a commit that failed. The scope given to `begin()` is not extended
  by the tables that cascades reach (`transaction_task.js:62`).
* A rollback adds deleted rows back before it takes away the rows that have their
  unique keys now, and gives changed rows their values back one by one; the index refuses
  and the rollback stops half-way (`in_memory_updater.js:48-54,82-94`).
  `FailsOnlyOnReuse` says this is the only way it fails. What is left may be a row that
  refers to nothing (`NoOrphans`), or changes that no lock protects
  (`UncommittedIsLocked`). The task of `attach()`, `commit()` or `rollback()` then settles
  never and keeps its locks; `exec()` is rejected with the error of the index
  (`transaction_task.js:141-181`, `query_task.js:120-125`).
* Row 0 removed from the null key of a nullable index takes all null rows with it
  (`journal` uses ids from 1). `NullableIndex.clear` and `deserialize` do not maintain
  the statistics of null, and `getRange` appends null rows beyond the limit.
* A column with two foreign keys, one of which cascades: an update of the one parent's
  key gives the child that key (`journal.js:317`) and nobody looks whether the other
  parent has it, so that the child refers to nothing (`CascadesOwnColumns`).
* A parent row whose key is null makes a deletion cascade to all children with a null
  key (`CascadesFromKeys`). A table that cascades to itself is deleted from twice, or for ever
  (`NoSelfCascade`). Cascading updates do not check NOT NULL of the child. A deferred
  check refuses a commit where a parent was deleted and inserted again under another
  row id.
* With an even `MAX_COUNT`, as the code's 512, merging an internal node of the minimal
  length with one that is one below gives a node of `MAX_COUNT` keys, which is not split
  (`btree.js:462-476`). A unique index ignores the row id it is to remove.
* A leaf that is split keeps its id and its right half gets a new one
  (`btree.js:1054-1072`). A store returns the leaves of a persisted index by id, and
  `BTree.deserialize` takes them as they come (`prefetcher.js:152-188`). So, unless it was
  always the last leaf that was split, the next session has a tree that is out of order:
  it does not find keys that it has, and ranges miss rows (`garbled`).

In the models of queries (`Excepted` and its parts in `Queries`; `Sound` and `untold` in
`Observers`):

* Negated comparisons, joins and orders with null differ by how the rows are reached
  (`NegatesNulls`, `JoinsNulls`, `OrdersNulls`). An outer join by nested loop adds an
  unmatched row for every block of the right table and none when that table is empty
  (`LoopsByBlocks`). IN lists on two indexed columns are paired after each is sorted
  (`PairsRanges`). Selections, comparisons and OR are moved below outer joins
  (`ComparesBelowJoin`, `MovesOr`), groups without aggregates lose their tables
  (`GroupsPlainly`), a second aggregate of the same distinct values is not computed
  (`AggregatesTwice`). COUNT(*) ordered by an indexed column cannot be planned.
* A plan made before the last clause, or while the limit is not bound, is kept: clauses
  after it have no effect, and the limit is never applied. A predicate object given to
  two builders has the value bound last. An observer task between `bind()` and the next
  execution uses the ranges of the old values.
* A write while some observed query cannot be planned, as one whose placeholder has not
  been bound, is committed, but its promise is rejected and no observer is told
  (`user_query_task.js:87`; in `transaction_task.js:163-166` and
  `external_change_task.js:112` the locks are kept, too). `docs/spec/04_query.md` shows
  `observe()` before the first `bind()`, and says observers "will be called every time
  there is a change".
* The places in change records are those of the old results for deletions and of the
  new ones for additions, all at once, and not to be replayed one after the other as the
  records of `Array.observe` that `docs/spec/04_query.md` compares them to.

In the models of stores:

* WebSQL: a statement that fails does not undo those before it (`web_sql_tx.js:121`;
  `docs/spec/05_transaction.md:71-73`), and a task is told of success before SQLite has
  committed (`:141`). The new version is recorded in a transaction before the one that
  creates the tables (`web_sql.js:245`), so an upgrade that is cut off is never repeated.
  An upgrade that rejects leaves `connect()` pending (`web_sql.js:136`).
* IndexedDB commits the upgrade that the user's function rejected
  (`indexed_db.js:120`). Upgrades drop persisted indices and nobody writes them again;
  imports write none (`dropped`).
* The prefetcher gives the store the `deserializeRow` of a table with a persistent index
  without binding it to the table (`prefetcher.js:128-131`; at line 86, for other tables,
  it does). That of a `TableBuilder`'s table needs its `this`
  (`table_builder.js:611-625`) and throws on the first row: such a database connects
  while the table is empty and never again (`Unreadable`).
* Firebase: a refused update sets the revision back although a later one is under way
  (`firebase_tx.js:88`, `outOfStep`); rows removed by another client while the listeners
  are renewed are not noticed (`firebase.js:205`, `missed`). A row whose deletion the
  server refuses stays in `removedRows_` (`firebase.js:241`); when the server has then
  accepted an update and refuses another, the client takes the version it hears of and
  removes the row from its table and its cache, and does not read it again until it
  connects (`missed`, too). A task for an external change may run after a later one that
  is about fewer tables, because the lock manager reserves all tables of a task or none
  (`lock_manager.js:105-138`), or after the commit of a transaction that had its locks
  before (`firebase.js:250-279`); it then puts its older rows into the cache over newer
  ones, where they stay until the row changes again or the client connects again
  (`overtaken`). One writer is assumed, as
  `external_change_observer.js:68` says; two hand out the same row ids and revisions.

In the model of schemas:

* A table builder that was kept adds foreign keys to the finished schema (`late`);
  `docs/spec/01_schema.md:33` says it is not mutable.
* A primary key whose call threw makes any index of its name the primary key
  (`misnamed`). A unique index that `addIndex` adds to a column with a foreign key leaves the
  index of the key as it is, not unique, unlike `addUnique` after the key
  (`table_builder.js:442-451`): `KeysAreIndexed` asks for what the column was declared to
  be. A column with two foreign keys has one parent in `Info`, so that updates
  look into a table outside of their scope (`OneKeyPerColumn`). The scope of a table that
  cascades to itself is expanded for ever (`RunsAway`). A `connect()` whose `getSchema()`
  throws makes all later ones throw (`builder.js:262`).

## 6. What is not modelled, and the plan

Left out:

* `backstore/local_storage*.js`: no connection can choose it. `lf.base.init` knows
  IndexedDB, WebSQL, memory, its observable kin and Firebase, and throws for
  `LOCAL_STORAGE`; only tests create it (`docs/spec/02_data_store.md:58`).
* Insert, update and delete builders, whose checks are sequential and without shared
  state; printing as SQL; aliases; strings, dates and objects as values. Insertion plans,
  which are one node.
* The helpers of raw stores, beyond rewriting the rows of a table; the creation and
  upgrade of a Firebase database.
* Utilities, which appear as sets, functions and sequences, and the generator of schema
  code.

To be proved next: `KeysAreIndexed`, `NoChains` and `PrimaryKeysHold` of the schema, once
the recursive search for cycles is in a module of its own.

An abstract specification still to be stated: a durable map implemented by `Stores`.
