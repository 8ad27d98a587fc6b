------------------------------- MODULE Firebase -------------------------------
(***************************************************************************)
(* Databases of several clients over one Firebase server: how a client    *)
(* connects, writes the diff of a transaction as one update, hears of the *)
(* updates of others, turns what it hears into diffs of its tables and    *)
(* runs a task for them, and what happens to an update that is refused.   *)
(*                                                                         *)
(* The server and the library that talks to it are external.  A client    *)
(* sees some version of the server, with its own updates laid over it     *)
(* until they are answered; listeners hear of what changes in that view,  *)
(* child_removed before value, and of their own updates at once.  A new   *)
(* listener begins with the version the server has then.                  *)
(***************************************************************************)
EXTENDS Integers, Sequences, SequencesExt

\* Writers: the clients that write; the code assumes there is one.  Bounds:
\* row ids from 1 to MaxRowId, MaxUpdates updates, and as many fewer as there
\* are readers connected, MaxCrashes lost pages.
CONSTANTS Clients, Writers, Tables, MaxRowId, MaxUpdates, MaxCrashes

ASSUME FirebaseAssumption ==
    /\ Writers \subseteq Clients
    /\ IsFiniteSet(Tables) /\ Tables # {}
    /\ {MaxRowId, MaxUpdates, MaxCrashes} \subseteq Nat
    /\ MaxRowId >= 1

VARIABLES
    server,     \* its versions, the last one being current
    status,     \* of each client: closed, loading or ready
    loaded,     \* the tables a client that connects has read
    listening,  \* whether the current listeners have had their first data
    at,         \* the version of the server the client sees
    store,      \* lf.backstore.Firebase of each client, see NewStore
    cache,      \* the rows in memory, per table
    nextId,     \* lf.Row.nextId_ of each client's page
    begun,      \* the tables of each transaction that has got its locks
    sent,       \* updates not settled yet, in order
    missed,     \* history: rows removed while nobody was listening, rows that
                \* the client was not allowed to remove, and rows that it wrote
                \* when they had been removed
    overtaken,  \* history: tables of which something newer came into the cache
                \* while older external changes of them waited
    outOfStep,  \* history: an update was refused before a later one was answered
    updates, crashes

connection == <<status, loaded, listening, at>>
memory     == <<cache, nextId>>
writing    == <<begun, sent>>
history    == <<missed, overtaken, outOfStep>>
vars == <<server, connection, store, memory, writing, history, updates, crashes>>

None == [x \in {} |-> x]

Put(f, x, v) == [y \in DOMAIN f \cup {x} |-> IF y = x THEN v ELSE f[y]]

\* f with the entries of g, and without those of the keys gone.
Changed(f, g, gone) ==
    [x \in (DOMAIN f \ gone) \cup DOMAIN g |-> IF x \in DOMAIN g THEN g[x] ELSE f[x]]

NoRows == [t \in Tables |-> None]

RowsOf(rows, t) == [id \in {i \in DOMAIN rows : rows[i].table = t} |-> rows[id].value]

Contents(rows) == [t \in Tables |-> RowsOf(rows, t)]

\* lf.backstore.Firebase after its constructor and the first reads of init.
NewStore(revision) ==
    [revision    |-> revision,
     tables      |-> NoRows,
     removedRows |-> [t \in Tables |-> {}],
     startAt     |-> 0,       \* of the query that change_ listens to
     tasks       |-> <<>>]    \* the ExternalChangeTasks scheduled and not run

\* The database was created, and a first update has put a row into some table.
Init ==
    /\ server = <<[rev  |-> 2,
                   rows |-> Put(None, 1, [rev |-> 2, table |-> CHOOSE t \in Tables : TRUE,
                                          value |-> 0])]>>
    /\ status = [c \in Clients |-> "closed"]
    /\ loaded = [c \in Clients |-> {}]
    /\ listening = [c \in Clients |-> FALSE]
    /\ at = [c \in Clients |-> 1]
    /\ store = [c \in Clients |-> NewStore(-1)]
    /\ cache = [c \in Clients |-> NoRows]
    /\ nextId = [c \in Clients |-> 0]
    /\ begun = [c \in Clients |-> {}]
    /\ sent = [c \in Clients |-> <<>>]
    /\ missed = [c \in Clients |-> {}]
    /\ overtaken = [c \in Clients |-> {}]
    /\ outOfStep = FALSE
    /\ updates = 0 /\ crashes = 0

Now == server[Len(server)]

\* The bound on updates: a reader that is connected takes the place of one.
Room == updates + Cardinality({c \in Clients \ Writers : status[c] # "closed"}) < MaxUpdates

-----------------------------------------------------------------------------
(* What a client sees.                                                     *)

\* A version with an update laid over it.
Overlaid(version, update) ==
    [rev  |-> update.rev,
     rows |-> Changed(version.rows,
                      [id \in DOMAIN update.put |->
                          [rev |-> update.rev, table |-> update.put[id].table,
                           value |-> update.put[id].value]],
                      update.gone)]

\* Updates that failed are laid over nothing any more.
View(version, pending) ==
    LET laid[n \in 0 .. Len(pending)] ==
            IF n = 0 THEN version
            ELSE IF pending[n].answer = "failed" THEN laid[n - 1]
            ELSE Overlaid(laid[n - 1], pending[n])
    IN  laid[Len(pending)]

\* orderByChild('R').startAt(...): the revision entry, and the rows, from there on.
Result(k, view) ==
    [rev  |-> IF view.rev >= k.startAt THEN view.rev ELSE 0,
     rows |-> [id \in {i \in DOMAIN view.rows : view.rows[i].rev >= k.startAt} |->
                  view.rows[id]]]

-----------------------------------------------------------------------------
(* The handlers, on the state k of a client's lf.backstore.Firebase.       *)

onRemoved_(k, before, after) ==
    [k EXCEPT !.removedRows = [t \in Tables |->
        k.removedRows[t] \cup {id \in DOMAIN before.rows \ DOMAIN after.rows :
                       before.rows[id].table = t}]]

\* Listen to what comes after the revision now known.
listen_(k) ==
    [k EXCEPT !.removedRows = [t \in Tables |-> {}], !.startAt = k.revision + 1]

\* The difference of a table: what was removed and is known here, and all rows
\* of the query's result that were not removed, be they new or known.
generateDiff_(k, rows, t) ==
    LET removedIds == UNION {k.removedRows[u] : u \in Tables}
    IN  [deleted |-> k.removedRows[t] \cap DOMAIN k.tables[t],
         put     |-> RowsOf(Restrict(rows, DOMAIN rows \ removedIds), t)]

isEmpty(diff) == diff.deleted = {} /\ DOMAIN diff.put = {}

\* Mutant: a task is put before those that wait.
onChange__NewestFirst(k, result) ==
    IF result.rev \in {0, k.revision} THEN k
    ELSE LET all   == [t \in Tables |-> generateDiff_(k, result.rows, t)]
             diffs == Restrict(all, {t \in Tables : ~isEmpty(all[t])})
         IN  listen_([k EXCEPT
                !.revision = result.rev,
                !.tables   = [t \in Tables |-> Changed(k.tables[t], all[t].put, all[t].deleted)],
                !.tasks    = IF diffs = None THEN @ ELSE <<diffs>> \o @])

\* The diffs go to the memory tables at once, and to the cache by a task.
onChange_(k, result) ==
    IF result.rev \in {0, k.revision} THEN k
    ELSE LET all   == [t \in Tables |-> generateDiff_(k, result.rows, t)]
             diffs == Restrict(all, {t \in Tables : ~isEmpty(all[t])})
         IN  listen_([k EXCEPT
                !.revision = result.rev,
                !.tables   = [t \in Tables |-> Changed(k.tables[t], all[t].put, all[t].deleted)],
                !.tasks    = IF diffs = None THEN @ ELSE Append(@, diffs)])

\* What the listeners make of a change of the view.
Events(k, before, after) ==
    LET heard == onRemoved_(k, before, after)
    IN  IF Result(k, before) = Result(k, after) THEN heard
        ELSE onChange_(heard, Result(k, after))

\* A client's view changes.  Handling a change sets up new listeners, which
\* have no data yet; without data there are no events.
Hear(c, k, before, after) ==
    LET heard == IF listening[c] THEN Events(k, before, after) ELSE k
    IN  /\ store' = [store EXCEPT ![c] = heard]
        /\ listening' = [listening EXCEPT
                            ![c] = @ /\ heard.startAt = k.startAt]

\* Rows of the tables of a client that a version has no more, or elsewhere.
Gone(tables, version) ==
    {r \in Tables \X (1 .. MaxRowId) :
        r[2] \in DOMAIN tables[r[1]] \ DOMAIN RowsOf(version.rows, r[1])}

-----------------------------------------------------------------------------
(* Connecting.                                                             *)

\* The version fits; the revision and the ids of tables are read.
Connect(c) ==
    /\ status[c] = "closed"
    /\ c \in Writers \/ Room
    /\ status' = [status EXCEPT ![c] = "loading"]
    /\ loaded' = [loaded EXCEPT ![c] = {}]
    /\ store' = [store EXCEPT ![c] = NewStore(Now.rev)]
    /\ missed' = [missed EXCEPT ![c] = {}]
    /\ overtaken' = [overtaken EXCEPT ![c] = {}]
    /\ UNCHANGED <<server, listening, at, memory, writing, outOfStep, updates, crashes>>

\* Each table comes in an answer of its own.
reloadTable(c, t) ==
    /\ status[c] = "loading"
    /\ t \notin loaded[c]
    /\ loaded' = [loaded EXCEPT ![c] = @ \cup {t}]
    /\ store' = [store EXCEPT ![c].tables[t] = RowsOf(Now.rows, t)]
    /\ UNCHANGED <<server, status, listening, at, memory, writing, history, updates,
                   crashes>>

\* The greatest row id read, unlike elsewhere, may also lower the next one.
initRowId_(tables) == Max({0} \cup UNION {DOMAIN tables[t] : t \in Tables}) + 1

\* With all tables read init listens, and the Prefetcher fills the cache,
\* before the first data for the listeners can arrive.
Loaded(c) ==
    /\ status[c] = "loading"
    /\ loaded[c] = Tables
    /\ status' = [status EXCEPT ![c] = "ready"]
    /\ listening' = [listening EXCEPT ![c] = FALSE]
    /\ at' = [at EXCEPT ![c] = Len(server)]
    /\ store' = [store EXCEPT ![c] = listen_(@)]
    /\ cache' = [cache EXCEPT ![c] = store[c].tables]
    /\ nextId' = [nextId EXCEPT ![c] = initRowId_(store[c].tables)]
    /\ UNCHANGED <<server, loaded, writing, history, updates, crashes>>

\* The first data of a new query: a value event, and no child_removed.
FirstData(c) ==
    LET view == View(Now, sent[c])
        k    == onChange_(store[c], Result(store[c], view))
    IN  /\ status[c] = "ready" /\ ~listening[c]
        /\ at' = [at EXCEPT ![c] = Len(server)]
        /\ store' = [store EXCEPT ![c] = k]
        /\ listening' = [listening EXCEPT ![c] = (k.startAt = store[c].startAt)]
        /\ missed' = [missed EXCEPT ![c] = @ \cup Gone(k.tables, view)]
        /\ UNCHANGED <<server, status, loaded, memory, writing, overtaken, outOfStep, updates,
                       crashes>>

\* A later version reaches a client, which may be several updates behind.
Deliver(c, version) ==
    LET before == View(server[at[c]], sent[c])
        after  == View(server[version], sent[c])
    IN  /\ status[c] = "ready" /\ listening[c]
        /\ at' = [at EXCEPT ![c] = version]
        /\ Hear(c, store[c], before, after)
        /\ missed' = [missed EXCEPT ![c] =
                @ \cup {r \in Gone(Contents(before.rows), after) :
                            r[2] \in DOMAIN after.rows}]
        /\ UNCHANGED <<server, status, loaded, memory, writing, overtaken, outOfStep, updates,
                       crashes>>

ScopeOf(diffs) == DOMAIN diffs

\* Tables that a transaction of the client has locked, until it ends or settles.
Locked(c) == UNION (begun[c] \cup {u.tables : u \in Range(sent[c])})

\* What the first n tasks that wait are about.
Waiting(c, n) == UNION {ScopeOf(store[c].tasks[j]) : j \in 1 .. n}

\* A task about these tables may get its locks before the first n tasks.  These
\* reserve theirs earlier, but the lock manager gives a task all of its tables or
\* none: one that lacks a table, which another task or a query has locked or
\* reserved, does not keep the others.  Those it lacks are not among the tables
\* that the later task gets.
MayPass(c, n, tables) ==
    \A j \in 1 .. n : LET earlier == ScopeOf(store[c].tasks[j])
                      IN  earlier \cap tables # {} => ~(earlier \subseteq tables)

\* ExternalChangeTask, when it gets its locks.
ExternalChange(c, i) ==
    LET diffs == store[c].tasks[i]
    IN  /\ status[c] = "ready"
        /\ ScopeOf(diffs) \cap Locked(c) = {}
        /\ MayPass(c, i - 1, ScopeOf(diffs))
        /\ cache' = [cache EXCEPT ![c] = [t \in Tables |->
                        IF t \in DOMAIN diffs
                        THEN Changed(cache[c][t], diffs[t].put, diffs[t].deleted)
                        ELSE cache[c][t]]]
        /\ store' = [store EXCEPT ![c].tasks = RemoveAt(@, i)]
        /\ overtaken' = [overtaken EXCEPT ![c] = @ \cup (ScopeOf(diffs) \cap Waiting(c, i - 1))]
        /\ UNCHANGED <<server, connection, nextId, writing, missed, outOfStep, updates, crashes>>

-----------------------------------------------------------------------------
(* Writing.                                                                *)

\* A transaction gets the locks of its tables, or a query of its own.  External
\* changes of these tables that are scheduled later wait.  Tables that it locks
\* and does not change are as if another transaction had locked them.
Begin(c, tables) ==
    /\ status[c] = "ready"
    /\ tables # {}
    /\ tables \cap Locked(c) = {}
    /\ MayPass(c, Len(store[c].tasks), tables)
    /\ begun' = [begun EXCEPT ![c] = @ \cup {tables}]
    /\ UNCHANGED <<server, connection, store, memory, sent, history, updates, crashes>>

\* It ends and has changed nothing, or what it changed was rolled back.
End(c, tables) ==
    /\ begun' = [begun EXCEPT ![c] = @ \ {tables}]
    /\ UNCHANGED <<server, connection, store, memory, sent, history, updates, crashes>>

\* A transaction that has inserted a row into each table of ins, changed the rows
\* of upd and deleted those of del commits; a value is the number of the update
\* that wrote it.  Nobody sees its changes of the cache before, for its tables are
\* locked.  BaseTx puts them into the memory tables, and FirebaseTx sends them with
\* the next revision.
Commit(c, ins, upd, del) ==
    LET k     == store[c]
        v     == updates + 1
        order == SetToSeq(ins)
        home(id) == CHOOSE t \in Tables : id \in DOMAIN cache[c][t]
        new   == [id \in nextId[c] .. nextId[c] + Len(order) - 1 |->
                     [table |-> order[id - nextId[c] + 1], value |-> v]]
        put   == [id \in DOMAIN new \cup upd |->
                     IF id \in upd THEN [table |-> home(id), value |-> v] ELSE new[id]]
        tables == ins \cup {home(id) : id \in upd \cup del}
        rev   == k.revision + 1
        update == [rev |-> rev, put |-> put, gone |-> del, tables |-> tables,
                   before |-> [t \in tables |-> cache[c][t]], answer |-> "none",
                   version |-> 0]
        after(rows) == [t \in Tables |-> Changed(rows[t], RowsOf(put, t), del)]
        view  == View(server[at[c]], sent[c])
    IN  /\ status[c] = "ready"
        /\ Room
        /\ tables \in begun[c]
        /\ nextId[c] + Len(order) <= MaxRowId + 1
        /\ nextId' = [nextId EXCEPT ![c] = @ + Len(order)]
        /\ cache' = [cache EXCEPT ![c] = after(@)]
        /\ begun' = [begun EXCEPT ![c] = @ \ {tables}]
        /\ sent' = [sent EXCEPT ![c] = Append(@, update)]
        /\ overtaken' = [overtaken EXCEPT ![c] = @ \cup (tables \cap Waiting(c, Len(k.tasks)))]
        /\ Hear(c, [k EXCEPT !.revision = rev, !.tables = after(@)],
                view, View(server[at[c]], sent'[c]))
        /\ missed' = [missed EXCEPT ![c] = @ \cup (Tables \X (upd \ DOMAIN view.rows))]
        /\ updates' = updates + 1
        /\ UNCHANGED <<server, status, loaded, at, outOfStep, crashes>>

\* The server takes a client's updates in order, and accepts or refuses each.
Accept(c, i) ==
    /\ sent[c][i].answer = "none"
    /\ \A j \in 1 .. i - 1 : sent[c][j].answer # "none"
    /\ server' = Append(server, Overlaid(Now, sent[c][i]))
    /\ sent' = [sent EXCEPT ![c][i].answer = "accepted", ![c][i].version = Len(server')]
    /\ UNCHANGED <<connection, store, memory, begun, history, updates, crashes>>

Refuse(c, i) ==
    /\ sent[c][i].answer = "none"
    /\ \A j \in 1 .. i - 1 : sent[c][j].answer # "none"
    /\ sent' = [sent EXCEPT ![c][i].answer = "refused"]
    /\ UNCHANGED <<server, connection, store, memory, begun, history, updates, crashes>>

\* Answers come in order as well.
IsNext(c, i) == \A j \in 1 .. i - 1 : sent[c][j].answer = "failed"

\* The update was accepted: the version with it has come before the answer, and
\* the transaction resolves.
Accepted(c, i) ==
    /\ sent[c][i].answer = "accepted"
    /\ IsNext(c, i)
    /\ at' = [at EXCEPT ![c] = Max({@, sent[c][i].version})]
    /\ sent' = [sent EXCEPT ![c] = RemoveAt(@, i)]
    /\ Hear(c, store[c], View(server[at[c]], sent[c]), View(server[at'[c]], sent'[c]))
    /\ UNCHANGED <<server, status, loaded, memory, begun, history, updates, crashes>>

\* The update was refused: it is taken from the view, of which the listeners
\* hear first, and then the callback goes back to the revision before.
Refused(c, i) ==
    LET view(pending) == View(server[at[c]], pending)
        k == store[c]
    IN  /\ sent[c][i].answer = "refused"
        /\ IsNext(c, i)
        /\ sent' = [sent EXCEPT ![c][i].answer = "failed"]
        /\ LET heard == IF listening[c] THEN Events(k, view(sent[c]), view(sent'[c])) ELSE k
           IN  /\ store' = [store EXCEPT ![c] = [heard EXCEPT !.revision = sent[c][i].rev - 1]]
               /\ listening' = [listening EXCEPT ![c] = @ /\ heard.startAt = k.startAt]
        /\ outOfStep' = (outOfStep \/ i < Len(sent[c]))
        /\ missed' = [missed EXCEPT ![c] = @ \cup (Tables \X sent[c][i].gone)]
        /\ UNCHANGED <<server, status, loaded, at, memory, begun, overtaken, updates, crashes>>

\* Mutant: the memory tables keep the changes.
Reloaded_NoTables(c, i) ==
    /\ sent[c][i].answer = "failed"
    /\ cache' = [cache EXCEPT ![c] = [t \in Tables |->
                    IF t \in sent[c][i].tables THEN sent[c][i].before[t] ELSE cache[c][t]]]
    /\ sent' = [sent EXCEPT ![c] = RemoveAt(@, i)]
    /\ UNCHANGED <<server, connection, store, nextId, begun, history, updates, crashes>>

\* Its tables are read again, the transaction rejects, and its journal rolls
\* back the cache.
Reloaded(c, i) ==
    LET version == IF listening[c] THEN server[at[c]] ELSE Now
        u       == sent[c][i]
    IN  /\ u.answer = "failed"
        /\ store' = [store EXCEPT ![c].tables = [t \in Tables |->
                        IF t \in u.tables THEN RowsOf(View(version, sent[c]).rows, t)
                        ELSE store[c].tables[t]]]
        /\ cache' = [cache EXCEPT ![c] = [t \in Tables |->
                        IF t \in u.tables THEN u.before[t] ELSE cache[c][t]]]
        /\ sent' = [sent EXCEPT ![c] = RemoveAt(@, i)]
        /\ UNCHANGED <<server, connection, nextId, begun, history, updates, crashes>>

\* The page is gone, with what the server has not answered.
Crash(c) ==
    /\ status[c] # "closed"
    /\ crashes < MaxCrashes
    /\ crashes' = crashes + 1
    /\ status' = [status EXCEPT ![c] = "closed"]
    /\ listening' = [listening EXCEPT ![c] = FALSE]
    /\ begun' = [begun EXCEPT ![c] = {}]
    /\ sent' = [sent EXCEPT ![c] = <<>>]
    /\ cache' = [cache EXCEPT ![c] = NoRows]
    /\ store' = [store EXCEPT ![c] = NewStore(-1)]
    /\ UNCHANGED <<server, loaded, at, nextId, history, updates>>

KnownIds(c) == UNION {DOMAIN cache[c][t] : t \in Tables}

Write(c) ==
    \/ \E tables \in SUBSET Tables : Begin(c, tables)
    \/ \E tables \in begun[c] : End(c, tables)
    \/ \E ins \in SUBSET Tables, upd \in SUBSET KnownIds(c) :
       \E del \in SUBSET (KnownIds(c) \ upd) :
           /\ Cardinality(ins) + Cardinality(upd) + Cardinality(del) <= 2
           /\ Commit(c, ins, upd, del)

Settle(c) ==
    \E i \in DOMAIN sent[c] :
        \/ Accept(c, i) \/ Refuse(c, i) \/ Accepted(c, i) \/ Refused(c, i) \/ Reloaded(c, i)

CatchUp(c) ==
    \/ FirstData(c)
    \/ \E version \in at[c] + 1 .. Len(server) : Deliver(c, version)
    \/ \E i \in DOMAIN store[c].tasks : ExternalChange(c, i)

Next ==
    \/ \E c \in Clients : \/ Connect(c) \/ Loaded(c) \/ Crash(c) \/ CatchUp(c)
                          \/ \E t \in Tables : reloadTable(c, t)
    \/ \E c \in Writers : Write(c) \/ Settle(c)

Spec == Init /\ [][Next]_vars

-----------------------------------------------------------------------------
(* Correctness, for one writer and any number of readers.                  *)

Except(rows, t, ids) == Restrict(rows[t], {id \in DOMAIN rows[t] : <<t, id>> \notin ids})

\* In these tables the client has exactly the rows of a version, but for those that were
\* removed, or whose ids were given to another table, while it did not listen,
\* those it was refused to remove, and those it wrote again, from a cache that was
\* overtaken, after it had removed them: that they were removed stays in
\* removedRows_, and a later refusal makes it remove them from its tables.
Has(c, tables, rows, version) ==
    \A t \in tables : Except(rows, t, missed[c])
                          = Except(Contents(version.rows), t, missed[c])

Settled(c) == status[c] = "ready" /\ sent[c] = <<>> /\ store[c].tasks = <<>>

\* A client that has nothing under way has in its cache, and in the tables it
\* prefetches from, the version of the server it sees: each update of another
\* client whole, each of its own that was accepted, none that was refused.
\* Not so in the cache of a table that was overtaken: the external change that
\* waited then put its older rows over the newer ones of a later task, or of a
\* transaction that had begun before it.  Not so at all once an update was refused
\* while a later one was under way: the revision then goes back behind the later
\* one, which the client takes for the change of another.
CacheIsAVersion ==
    \A c \in Clients : Settled(c) /\ listening[c] /\ ~outOfStep =>
        /\ Has(c, Tables \ overtaken[c], cache[c], server[at[c]])
        /\ Has(c, Tables, store[c].tables, server[at[c]])

\* Of a row that a reader keeps it never sees an older value again, though what
\* it hears waits in tasks for their locks.  It does in a table that was
\* overtaken: the lock manager lets a later task run before an earlier one that is
\* about more tables.
ReadersGoForward ==
    [][\A c \in Clients \ Writers : status[c] = "ready" =>
        (\A t \in Tables \ overtaken[c] :
         \A id \in DOMAIN cache[c][t] \cap DOMAIN cache'[c][t] :
            cache'[c][t][id] >= cache[c][t][id])]_vars
=============================================================================
