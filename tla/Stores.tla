-------------------------------- MODULE Stores --------------------------------
(***************************************************************************)
(* The life of a database over its native store: connecting (with an      *)
(* upgrade when the stored version is older), statements that change the  *)
(* cache and the RowId index at once, a commit that turns the journal's   *)
(* diff into native requests and waits for them, imports, failures of the *)
(* native store, closing the connection and losing the page at any time.  *)
(*                                                                         *)
(* The cache's one map and its sets of row ids per table are one function *)
(* per table here: row ids are never shared (IdsAreFresh).  One           *)
(* transaction is under way at a time (Runner.tla has several).           *)
(***************************************************************************)
EXTENDS BackStore

\* Kind: the stores to choose from; Persistent: tables with the pragma
\* persistentIndex; Generated: schema versions whose tables are classes that
\* lovefield-spac generated, those of the others a TableBuilder's.  Bounds: row
\* ids below MaxRowId, MaxStatements in a transaction, MaxCommits commits and
\* imports, MaxRestarts times that the page or the connection is gone, schema
\* versions up to MaxVersion.
CONSTANTS Kind, Persistent, Generated, Values,
          MaxRowId, MaxStatements, MaxCommits, MaxRestarts, MaxVersion

ASSUME StoresAssumption ==
    /\ Kind \subseteq Kinds
    /\ Persistent \subseteq Tables
    /\ {MaxRowId, MaxStatements, MaxCommits, MaxRestarts, MaxVersion} \subseteq Nat
    /\ MaxVersion >= 1
    /\ Generated \subseteq 1 .. MaxVersion

VARIABLES
    kind,        \* the store the connection chose
    disk,        \* what is on the native medium, per native store
    version,     \* the schema version recorded there, 0 before the first
    made,        \* whether the tables exist there
    schema,      \* the version of the schema the page's code has
    status,      \* of the connection and its transaction, see TypeOK
    cache,       \* rows in memory, per table
    rowIds,      \* the RowId index in memory, per table
    nextId,      \* lf.Row.nextId_
    before,      \* cache and RowId index when the transaction began
    touched,     \* tables with a TableDiff in the journal
    statements,  \* statements of the transaction so far
    native,      \* what the open native transaction has made of disk
    requests,    \* native requests queued and not served
    unwritten,   \* WebSQL: a transaction is resolved and not yet committed
    expected,    \* history: the contents a restart may bring back
    dropped,     \* history: tables whose rows went without a persisted index
    lost,        \* history: memory and disk parted, see Parted
    halfUpgraded,\* history: an upgrade that ended before its time
    commits, restarts

memory  == <<cache, rowIds, nextId>>
journal == <<before, touched, statements>>
history == <<expected, dropped, lost, halfUpgraded>>
bounds  == <<commits, restarts>>
vars == <<kind, disk, version, made, schema, status, memory, journal, native, requests,
          unwritten, history, bounds>>

RowId == 0 .. MaxRowId - 1

\* A stored row: its value and the schema version its columns are those of.
Row == [value : Values, cols : 1 .. MaxVersion]

Contents(tables) == [t \in Tables |-> [id \in DOMAIN tables[t] |-> tables[t][id].value]]

OnDisk(stores) == Contents([t \in Tables |-> GetAll(kind, stores[Data(t)])])

NoRows == [t \in Tables |-> None]

EmptyDisk == [s \in Stores |-> None]

Snapshot == [cache |-> cache, rowIds |-> rowIds]

TypeOK ==
    /\ kind \in Kind
    /\ version \in 0 .. MaxVersion /\ schema \in 1 .. MaxVersion
    /\ {made, unwritten, lost, halfUpgraded} \subseteq BOOLEAN
    /\ DOMAIN disk = Stores /\ DOMAIN native = Stores
    /\ status \in {"closed", "failed", "versioned", "upgrading", "idle", "active",
                   "committing", "importing", "written"}
    /\ \A t \in Tables : /\ DOMAIN cache[t] \subseteq RowId
                         /\ \A id \in DOMAIN cache[t] : cache[t][id] \in Row
                         /\ rowIds[t] \subseteq RowId
    /\ nextId \in 0 .. MaxRowId
    /\ touched \subseteq Tables
    /\ dropped \subseteq Tables

Init ==
    /\ kind \in Kind
    /\ disk = EmptyDisk /\ native = EmptyDisk
    /\ version = 0 /\ schema = 1 /\ made = FALSE
    /\ status = "closed"
    /\ cache = NoRows /\ rowIds = [t \in Tables |-> {}] /\ nextId = 0
    /\ before = Snapshot /\ touched = {} /\ statements = 0
    /\ requests = <<>> /\ unwritten = FALSE
    /\ expected = {NoRows} /\ dropped = {} /\ lost = FALSE /\ halfUpgraded = FALSE
    /\ commits = 0 /\ restarts = 0

-----------------------------------------------------------------------------
(* Connecting.                                                             *)

\* The Prefetcher puts a table's rows into the cache and adds each to the index.
fetchTable(stores, t) ==
    [rows |-> GetAll(kind, stores[Data(t)]),
     index |-> DOMAIN GetAll(kind, stores[Data(t)])]

\* The index is read back, if its store holds anything at all.
reconstructPersistentRowIdIndex(stores, t) ==
    LET serializedRows == GetAll(kind, stores[Index(t)])
    IN  IF DOMAIN serializedRows = {} THEN {} ELSE Deserialized(serializedRows)

fetchTableWithPersistentIndices(stores, t) ==
    [rows |-> GetAll(kind, stores[Data(t)]),
     index |-> reconstructPersistentRowIdIndex(stores, t)]

prefetch(stores) ==
    LET fetched == [t \in Tables |-> IF t \in Persistent
                                     THEN fetchTableWithPersistentIndices(stores, t)
                                     ELSE fetchTable(stores, t)]
    IN  /\ cache'  = [t \in Tables |-> fetched[t].rows]
        /\ rowIds' = [t \in Tables |-> fetched[t].index]

\* BackStore.init raises nextId past the rows stored, and memory stores none.
setNextIdIfGreater(stores) ==
    nextId' = IF kind = "memory" THEN nextId
              ELSE Max({nextId, scanRowId(kind, stores) + 1})

\* fetchTableWithPersistentIndices hands the store a table's deserializeRow
\* that is not bound to the table.  A table class of a TableBuilder needs its
\* "this" for the first row there is; generated classes do without.
Unreadable(stores) ==
    /\ schema \notin Generated
    /\ \E t \in Persistent : DOMAIN GetAll(kind, stores[Data(t)]) # {}

\* The rest of lf.base.init.  If a row cannot be read connect() rejects, or
\* never settles, where an exception in a native callback is lost.
Connected(stores) ==
    /\ setNextIdIfGreater(stores)
    /\ nextId' <= MaxRowId
    /\ \/ /\ Unreadable(stores)
          /\ status' = "failed"
          /\ UNCHANGED <<cache, rowIds, expected, lost>>
       \/ /\ ~Unreadable(stores)
          /\ status' = "idle"
          /\ prefetch(stores)
          /\ expected' = {OnDisk(stores)} /\ lost' = FALSE

\* No upgrade: the stored version is the schema's.  WebSQL reads the greatest
\* row id of tables that may not exist, and then does not connect.
Open ==
    /\ status = "closed"
    /\ version = schema \/ kind = "memory"
    /\ kind = "web_sql" => made /\ ~unwritten
    /\ Connected(disk)
    /\ UNCHANGED <<kind, disk, version, made, schema, journal, native, requests,
                   unwritten, dropped, halfUpgraded, bounds>>

\* What addTableColumn and its kin do to the rows of some tables.
transformRows(stores, tables) ==
    LET Each(rows) == [id \in DOMAIN rows |-> [rows[id] EXCEPT !.cols = schema]]
    IN  [s \in Stores |->
            IF ~\E t \in tables : s = Data(t) THEN stores[s]
            ELSE IF kind = "bundled"
                 THEN [p \in DOMAIN stores[s] |-> Each(stores[s][p])]
                 ELSE Each(stores[s])]

removeIndexTables(stores) ==
    [s \in Stores |-> IF \E t \in Tables : s = Index(t) THEN None ELSE stores[s]]

Unindexed(stores) == {t \in Persistent : DOMAIN stores[Data(t)] # {}}

\* IndexedDB: one versionchange transaction drops the persisted indices, makes
\* the missing tables and runs the user's upgrade, of all tables.
onUpgradeNeeded ==
    /\ status = "closed"
    /\ kind \in {"indexed_db", "bundled"}
    /\ version < schema
    /\ LET stores == transformRows(removeIndexTables(disk), Tables)
       IN  /\ disk' = stores /\ native' = stores
           /\ Connected(stores)
    /\ version' = schema /\ made' = TRUE
    /\ dropped' = dropped \cup Unindexed(disk)
    /\ UNCHANGED <<kind, schema, journal, requests, unwritten, halfUpgraded, bounds>>

\* The user's upgrade rejects after some tables: connect() rejects, and the
\* versionchange transaction commits what there is.
UpgradeRejected(tables) ==
    /\ status = "closed"
    /\ kind \in {"indexed_db", "bundled"}
    /\ version < schema
    /\ LET stores == transformRows(removeIndexTables(disk), tables)
       IN  disk' = stores /\ native' = stores
    /\ version' = schema /\ made' = TRUE
    /\ dropped' = dropped \cup Unindexed(disk)
    /\ halfUpgraded' = TRUE
    /\ UNCHANGED <<kind, schema, status, memory, journal, requests, unwritten,
                   expected, lost, bounds>>

\* WebSQL: a first transaction records the version.
checkVersion ==
    /\ status = "closed"
    /\ kind = "web_sql" /\ ~unwritten
    /\ version < schema
    /\ version' = schema
    /\ status' = "versioned"
    /\ UNCHANGED <<kind, disk, made, schema, memory, journal, native, requests,
                   unwritten, history, bounds>>

\* A second one drops the persisted indices and makes the missing tables.
preUpgrade ==
    /\ status = "versioned"
    /\ status' = "upgrading"
    /\ disk' = removeIndexTables(disk) /\ native' = disk'
    /\ made' = TRUE
    /\ dropped' = dropped \cup Unindexed(disk)
    /\ UNCHANGED <<kind, version, schema, memory, journal, requests, unwritten,
                   expected, lost, halfUpgraded, bounds>>

\* Then every helper the user's upgrade calls is a transaction of its own.
transformColumn(t) ==
    /\ status = "upgrading"
    /\ disk' = transformRows(disk, {t}) /\ native' = disk'
    /\ disk' # disk
    /\ UNCHANGED <<kind, version, made, schema, status, memory, journal, requests,
                   unwritten, history, bounds>>

\* Mutant: the connection does not wait for the user's promise.
onUpgrade_NotAwaited ==
    /\ status = "upgrading"
    /\ Connected(disk)
    /\ UNCHANGED <<kind, disk, version, made, schema, journal, native, requests,
                   unwritten, dropped, halfUpgraded, bounds>>

\* The user's upgrade, of all tables, is through.
onUpgrade ==
    /\ status = "upgrading"
    /\ disk = transformRows(disk, Tables)
    /\ Connected(disk)
    /\ UNCHANGED <<kind, disk, version, made, schema, journal, native, requests,
                   unwritten, dropped, halfUpgraded, bounds>>

-----------------------------------------------------------------------------
(* Statements change the cache and the index at once.                      *)

Statement(t) ==
    /\ status \in {"idle", "active"}
    /\ status = "idle" => commits < MaxCommits
    /\ statements < MaxStatements
    /\ status' = "active"
    /\ statements' = statements + 1
    /\ before' = IF status = "idle" THEN Snapshot ELSE before
    /\ touched' = touched \cup {t}
    /\ UNCHANGED <<kind, disk, version, made, schema, native, requests, unwritten,
                   history, bounds>>

Insert(t, v) ==
    /\ Statement(t)
    /\ nextId < MaxRowId
    /\ cache' = [cache EXCEPT ![t] = Put(@, nextId, [value |-> v, cols |-> schema])]
    /\ rowIds' = [rowIds EXCEPT ![t] = @ \cup {nextId}]
    /\ nextId' = nextId + 1

Update(t, id, v) ==
    /\ Statement(t)
    /\ cache[t][id].value # v
    /\ cache' = [cache EXCEPT ![t][id].value = v]
    /\ UNCHANGED <<rowIds, nextId>>

Delete(t, ids) ==
    /\ Statement(t)
    /\ cache' = [cache EXCEPT ![t] = Without(@, ids)]
    /\ rowIds' = [rowIds EXCEPT ![t] = @ \ ids]
    /\ UNCHANGED nextId

Forget == statements' = 0 /\ touched' = {} /\ UNCHANGED before

\* Mutant: the RowId index keeps what the journal did to it.
rollback_CacheOnly ==
    /\ cache' = before.cache
    /\ UNCHANGED <<rowIds, nextId>>

\* Journal.rollback: row ids that were handed out are not taken back.
rollback ==
    /\ cache' = before.cache
    /\ rowIds' = before.rowIds
    /\ UNCHANGED nextId

\* The user's transaction gives up.
RollBack ==
    /\ status = "active"
    /\ status' = "idle"
    /\ rollback /\ Forget
    /\ UNCHANGED <<kind, disk, version, made, schema, native, requests, unwritten,
                   history, bounds>>

-----------------------------------------------------------------------------
(* Committing.                                                             *)

\* The requests for the rows of a table that the journal's diff names.
mergeTableChanges(t) ==
    LET old     == before.cache[t]
        now     == cache[t]
        deleted == DOMAIN old \ DOMAIN now
        toPut   == Restrict(now, {id \in DOMAIN now :
                                      id \in DOMAIN old => old[id] # now[id]})
        size    == Cardinality(DOMAIN native[Data(t)])
    IN  (IF deleted = {} THEN <<>>
         ELSE RemoveRows(kind, t, deleted, size, now, DOMAIN toPut # {}))
        \o PutRows(kind, t, toPut, now)

\* The requests for its persisted index, which is written whole.
mergeIndexChanges(t) ==
    IF t \notin Persistent THEN <<>>
    ELSE RewriteIndex(kind, t, rowIds[t], Cardinality(DOMAIN native[Index(t)]))

mergeIntoBackstore ==
    LET tables == SetToSeq(touched)
    IN  FlattenSeq([i \in 1 .. Len(tables) |-> mergeTableChanges(tables[i])])
        \o FlattenSeq([i \in 1 .. Len(tables) |-> mergeIndexChanges(tables[i])])

AppliedTo(stores, request) ==
    [stores EXCEPT ![request.store] = Applied(@, request)]

\* All requests of a queue served, one after the other.
Served(stores, queue) ==
    LET after[n \in 0 .. Len(queue)] ==
            IF n = 0 THEN stores ELSE AppliedTo(after[n - 1], queue[n])
    IN  after[Len(queue)]

\* The requests are queued; those to memory are served on the spot.
Send(queue, during) ==
    IF kind = "memory"
    THEN /\ disk' = Served(disk, queue) /\ native' = disk'
         /\ status' = "written"
         /\ UNCHANGED requests
    ELSE /\ requests' = queue
         /\ status' = during
         /\ UNCHANGED <<disk, native>>

Commit ==
    /\ status = "active"
    /\ Send(mergeIntoBackstore, "committing")
    /\ expected' = expected \cup {Contents(cache)}
    /\ commits' = commits + 1
    /\ UNCHANGED <<kind, version, made, schema, memory, journal, unwritten, dropped,
                   lost, halfUpgraded, restarts>>

\* ImportTask: one row into each of some tables, through an empty journal, so
\* that no persisted index is written.
Import(tables, v) ==
    LET order   == SetToSeq(tables)
        idOf(t) == nextId + (CHOOSE i \in 1 .. Len(order) : order[i] = t) - 1
        Rows(t) == Put(None, idOf(t), [value |-> v, cols |-> schema])
        now     == [t \in Tables |-> IF t \in tables
                                     THEN Put(cache[t], idOf(t), Rows(t)[idOf(t)])
                                     ELSE cache[t]]
    IN  /\ status = "idle"
        /\ commits < MaxCommits
        /\ \A t \in Tables : rowIds[t] = {}
        /\ nextId + Len(order) <= MaxRowId
        /\ nextId' = nextId + Len(order)
        /\ cache' = now
        /\ rowIds' = [t \in Tables |-> IF t \in tables THEN rowIds[t] \cup {idOf(t)}
                                       ELSE rowIds[t]]
        /\ Send(FlattenSeq([i \in 1 .. Len(order) |->
                    PutRows(kind, order[i], Rows(order[i]), now[order[i]])]), "importing")
        /\ before' = Snapshot
        /\ dropped' = dropped \cup (tables \cap Persistent)
        /\ expected' = expected \cup {Contents(now)}
        /\ commits' = commits + 1
        /\ UNCHANGED <<kind, version, made, schema, touched, statements, unwritten,
                       lost, halfUpgraded, restarts>>

\* The native store serves requests in the order they were made; a callback's
\* own requests go to the end.  WebSQL runs one transaction after the other.
Serve ==
    /\ status \in {"committing", "importing"}
    /\ requests # <<>>
    /\ ~unwritten
    /\ LET request == Head(requests)
       IN  /\ native' = AppliedTo(native, request)
           /\ requests' = Tail(requests) \o FollowUp(native[request.store], request)
    /\ UNCHANGED <<kind, disk, version, made, schema, status, memory, journal,
                   unwritten, history, bounds>>

\* IndexedDB: the transaction commits, and then oncomplete is delivered.
Complete ==
    /\ status \in {"committing", "importing"}
    /\ kind # "web_sql"
    /\ requests = <<>>
    /\ status' = "written"
    /\ disk' = native
    /\ UNCHANGED <<kind, version, made, schema, memory, journal, native, requests,
                   unwritten, history, bounds>>

\* The promise of the commit is resolved and the journal ends.
OnComplete ==
    /\ status = "written"
    /\ status' = "idle"
    /\ expected' = {Contents(cache)}
    /\ Forget
    /\ UNCHANGED <<kind, disk, version, made, schema, memory, native, requests,
                   unwritten, dropped, lost, halfUpgraded, bounds>>

\* WebSQL: it is resolved in the callback of the last statement.
OnLastStatement ==
    /\ status \in {"committing", "importing"}
    /\ kind = "web_sql"
    /\ requests = <<>> /\ ~unwritten
    /\ status' = "idle"
    /\ unwritten' = TRUE
    /\ Forget
    /\ UNCHANGED <<kind, disk, version, made, schema, memory, native, requests,
                   history, bounds>>

\* What was committed last, as memory has it.
Committed == IF status = "idle" THEN Contents(cache)
             ELSE IF status \in {"closed", "failed"} THEN OnDisk(native)
             ELSE Contents(before.cache)

\* WebSQL: SQLite commits the transaction resolved before.
SqlCommit ==
    /\ unwritten
    /\ unwritten' = FALSE
    /\ disk' = native
    /\ expected' = {Committed} \cup (IF status \in {"committing", "importing"}
                                     THEN {Contents(cache)} ELSE {})
    /\ UNCHANGED <<kind, version, made, schema, status, memory, journal, native,
                   requests, dropped, lost, halfUpgraded, bounds>>

\* WebSQL: or it fails to, when nobody listens any more.
SqlCommitFails ==
    /\ unwritten
    /\ unwritten' = FALSE
    /\ native' = disk
    /\ lost' = TRUE /\ dropped' = Persistent
    /\ UNCHANGED <<kind, disk, version, made, schema, status, memory, journal,
                   requests, expected, halfUpgraded, bounds>>

\* The task fails: a query's changes are rolled back, an import's are not.
Fails ==
    /\ status' = "idle"
    /\ requests' = <<>>
    /\ IF status = "committing" THEN rollback ELSE UNCHANGED memory
    /\ Forget

\* IndexedDB: the transaction is aborted (quota, a failed request).
OnAbort ==
    /\ status \in {"committing", "importing"}
    /\ kind # "web_sql"
    /\ Fails
    /\ native' = disk
    /\ expected' = {Contents(before.cache)}
    /\ lost' = (lost \/ status = "importing")
    /\ UNCHANGED <<kind, disk, version, made, schema, unwritten, dropped, halfUpgraded,
                   bounds>>

\* WebSQL: a statement fails.  Its error callback returns undefined, which
\* WebSQL takes for false, an error dealt with: what ran before is committed.
OnExecError ==
    /\ status \in {"committing", "importing"}
    /\ kind = "web_sql"
    /\ requests # <<>> /\ ~unwritten
    /\ Fails
    /\ unwritten' = (native # disk)
    /\ dropped' = IF native # disk THEN Persistent ELSE dropped
    /\ lost' = (lost \/ native # disk \/ status = "importing")
    /\ expected' = {Contents(before.cache)}
    /\ UNCHANGED <<kind, disk, version, made, schema, native, halfUpgraded, bounds>>

-----------------------------------------------------------------------------
(* The end of a connection.                                                *)

Gone ==
    /\ restarts < MaxRestarts
    /\ restarts' = restarts + 1
    /\ status' = "closed"
    /\ cache' = NoRows /\ rowIds' = [t \in Tables |-> {}]
    /\ before' = [cache |-> NoRows, rowIds |-> [t \in Tables |-> {}]]
    /\ statements' = 0 /\ touched' = {}
    /\ disk' = IF kind = "memory" THEN EmptyDisk ELSE disk

\* The page is closed or crashes; the next one may have a newer schema.
Crash ==
    /\ status # "closed"
    /\ Gone
    /\ nextId' = 0
    /\ requests' = <<>> /\ unwritten' = FALSE
    /\ native' = disk'
    /\ schema' \in schema .. MaxVersion
    /\ halfUpgraded' = (halfUpgraded \/ status \in {"versioned", "upgrading"})
    /\ expected' = IF kind = "memory" THEN {NoRows} ELSE expected
    /\ UNCHANGED <<kind, version, made, dropped, lost, commits>>

\* Database.close: lf.Row.nextId_ outlives it, and so does a WebSQL
\* transaction that was resolved.
Close ==
    /\ status = "idle"
    /\ Gone
    /\ native' = IF kind = "memory" THEN EmptyDisk ELSE native
    /\ expected' = IF kind = "memory" THEN {NoRows} ELSE expected
    /\ UNCHANGED <<kind, version, made, schema, nextId, requests, unwritten, dropped,
                   lost, halfUpgraded, commits>>

Next ==
    \/ Open \/ onUpgradeNeeded \/ checkVersion \/ preUpgrade \/ onUpgrade
    \/ \E tables \in SUBSET Tables : UpgradeRejected(tables)
    \/ \E t \in Tables : transformColumn(t)
    \/ \E t \in Tables, v \in Values : Insert(t, v)
    \/ \E t \in Tables, v \in Values : \E id \in DOMAIN cache[t] : Update(t, id, v)
    \/ \E t \in Tables : \E ids \in (SUBSET DOMAIN cache[t]) \ {{}} : Delete(t, ids)
    \/ RollBack \/ Commit
    \/ \E tables \in (SUBSET Tables) \ {{}}, v \in Values : Import(tables, v)
    \/ Serve \/ Complete \/ OnComplete \/ OnLastStatement
    \/ SqlCommit \/ SqlCommitFails \/ OnAbort \/ OnExecError
    \/ Crash \/ Close

Spec == Init /\ [][Next]_vars

-----------------------------------------------------------------------------
(* Correctness.                                                            *)

\* Between transactions the cache is a replica of what is stored: for WebSQL,
\* once SQLite has committed what is under way.  Not so once a WebSQL
\* transaction failed halfway or late, or an import failed.
CacheIsReplica ==
    status = "idle" /\ ~lost => OnDisk(native) = Contents(cache)

\* A connection that succeeds starts with the rows committed last, all of them
\* and no others; a transaction that was being committed when the page went
\* away is there whole or not at all.  Nothing is said of a connection that
\* cannot read its rows (Unreadable), nor of the first after a WebSQL
\* transaction or an import failed and left memory and disk apart.
RestartRestores ==
    [][(status \in {"closed", "upgrading"} /\ status' = "idle" /\ ~lost)
            => (Contents(cache') \in expected)]_vars

\* The RowId index, by which every scan of a table finds its rows, knows the
\* rows of the cache, after any connection that succeeds: unless the rows were
\* imported or have been through an upgrade without their persisted index, a
\* WebSQL transaction failed, or the store is the unbundled IndexedDB, where
\* they are lost.
IndexKnowsRows ==
    status = "idle" /\ ~lost =>
        \A t \in Tables \ dropped :
            \/ kind = "indexed_db" /\ t \in Persistent
            \/ rowIds[t] = DOMAIN cache[t]

\* No row id is given to two rows: none in use is at or above nextId, and no
\* two tables share one.  It is about rows created after connecting, as all
\* are here; createRow() of a page that has not read its store hands out ids
\* from 0.
IdsAreFresh ==
    status # "closed" =>
        /\ \A t \in Tables : \A id \in DOMAIN cache[t] : id < nextId
        /\ \A t, u \in Tables : t # u => DOMAIN cache[t] \cap DOMAIN cache[u] = {}

\* A connection never shows rows of an older schema, if every upgrade ran to
\* its end.
RowsAreUpgraded ==
    status = "idle" /\ kind # "memory" /\ ~halfUpgraded =>
        \A t \in Tables : \A id \in DOMAIN cache[t] : cache[t][id].cols = schema

\* What prefetching a table with persisted indices is documented to give:
\* indices deserialized from the data store.
IndicesDeserialized ==
    [][(status = "closed" /\ status' = "idle" /\ version' = version)
            => (\A t \in Persistent \ dropped : rowIds'[t] = DOMAIN cache'[t])]_vars
=============================================================================
