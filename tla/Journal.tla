------------------------------ MODULE Journal ------------------------------
(***************************************************************************)
(* One table under a sequence of transactions: the rows in the cache, the  *)
(* indices over them, and the journal (src/lib/cache/journal.js) through   *)
(* which a transaction changes both at once, keeping the net difference    *)
(* (src/lib/cache/table_diff.js) from which it can be committed to the     *)
(* backing store or rolled back (src/lib/cache/in_memory_updater.js).      *)
(*                                                                         *)
(* A row is an id and a value; what an index sees of a value is its key.   *)
(* An index that belongs to a unique constraint refuses a key it has, and  *)
(* then the whole modification of that row is refused.  A statement that   *)
(* changes several rows is a run of the actions below, one for each row.   *)
(* The table takes part in no foreign key.  Between two transactions       *)
(* another client may have changed the table in the backing store.         *)
(***************************************************************************)
EXTENDS Naturals, Sequences, SequencesExt

CONSTANTS RowId,      \* lf.Row ids, given out by counting up
          Value,      \* what a row may contain
          Index,      \* the indices of the table, in the order of the schema
          Primary,    \* the index of the primary key
          Unique,     \* the indices that refuse a key twice
          NullKey,    \* the key of a null value in an index on one column
          KeyOf,      \* the key of a row in each index
          Absent      \* no such row

Indices == ToSet(Index)

Keys == [i \in Indices |->
           {KeyOf[i][r] : r \in RowId \X Value} \cup {NullKey}]

ASSUME JournalAssumption ==
    /\ RowId \subseteq Nat
    /\ Absent \notin Value
    /\ Index \in Seq(Indices)
    /\ Primary \in Indices /\ Unique \subseteq Indices /\ Primary \in Unique
    /\ \A i \in Indices : RowId \X Value \subseteq DOMAIN KeyOf[i]
    /\ \A r \in RowId \X Value : KeyOf[Primary][r] # NullKey

VARIABLES
    cache,     \* lf.cache.Cache: the rows of the table
    index,     \* lf.index.IndexStore: for each index, the rows with each key
    added,     \* TableDiff.added_: the new rows
    modified,  \* TableDiff.modified_: the first and the last value of a row
    deleted,   \* TableDiff.deleted_: the rows removed, as they were
    status,    \* of the journal: terminated_, pendingRollback_, or rolling back;
               \* or that a change by another client is applied
    updating,  \* the modifications that InMemoryUpdater.update has still to apply
    before,    \* the cache when the journal was created, or the change came
    external   \* the contents that this change leads to

diff == <<added, modified, deleted>>
vars == <<cache, index, diff, status, updating, before, external>>

-----------------------------------------------------------------------------
(* InMemoryUpdater.updateTableIndexForRow_.  A modification takes a row    *)
(* from the value "then" to the value "now", either of which is Absent for *)
(* a row that is inserted or deleted.  Index.add comes before Index.remove *)
(* so that a key is refused before anything has changed.                   *)

Mod(id, then, now) == [id |-> id, then |-> then, now |-> now]

Key(i, id, value) == KeyOf[i][<<id, value>>]

Unchanged_Never(i, m) == FALSE

Unchanged(i, m) == /\ m.then # Absent /\ m.now # Absent
                   /\ Key(i, m.id, m.then) = Key(i, m.id, m.now)

Refuses_Inserts(i, ix, m) ==
    /\ m.now # Absent /\ m.then = Absent
    /\ i \in Unique /\ Key(i, m.id, m.now) # NullKey
    /\ ix[Key(i, m.id, m.now)] # {}

\* BTree.add throws: a unique tree has the key already.
Refuses(i, ix, m) ==
    /\ m.now # Absent /\ ~Unchanged(i, m)
    /\ i \in Unique /\ Key(i, m.id, m.now) # NullKey
    /\ ix[Key(i, m.id, m.now)] # {}

\* BTree.remove takes the key out of a unique tree, whichever row has it;
\* NullableIndex.remove takes an id of 0 for no id, and clears the nulls.
Remaining(i, key, ids, id) ==
    IF (i \in Unique /\ key # NullKey) \/ (key = NullKey /\ id = 0)
    THEN {} ELSE ids \ {id}

Apply(i, ix, m) ==
    IF Unchanged(i, m) THEN ix
    ELSE LET grown == IF m.now = Absent THEN ix
                      ELSE [ix EXCEPT ![Key(i, m.id, m.now)] = @ \cup {m.id}]
         IN  IF m.then = Absent THEN grown
             ELSE LET key == Key(i, m.id, m.then)
                  IN  [grown EXCEPT ![key] = Remaining(i, key, @, m.id)]

-----------------------------------------------------------------------------
(* InMemoryUpdater.updateTableIndicesForRow: the indices in turn; those    *)
(* before the first one that refuses are put back with the modification    *)
(* reversed.                                                               *)

Reversed(m) == Mod(m.id, m.now, m.then)

Refused(m) == \E i \in Indices : Refuses(i, index[i], m)

\* The indices that are updated before one refuses the modification.
UpdatedFirst(m) ==
    {Index[p] : p \in {q \in DOMAIN Index :
                          \A r \in 1..q : ~Refuses(Index[r], index[Index[r]], m)}}

UpdateIndices_NoUndo(m) ==
    [i \in Indices |-> IF i \in UpdatedFirst(m) THEN Apply(i, index[i], m)
                                                ELSE index[i]]

UpdateIndices(m) ==
    LET updated == UpdatedFirst(m)
        undone  == IF Refused(m) THEN updated ELSE {}
    IN  [i \in Indices |->
            IF i \in undone THEN Apply(i, Apply(i, index[i], m), Reversed(m))
            ELSE IF i \in updated THEN Apply(i, index[i], m)
            ELSE index[i]]

-----------------------------------------------------------------------------
(* TableDiff.  A row is in one of the three maps, or in none once it was   *)
(* added and deleted again.                                                *)

Without(f, id) == [r \in DOMAIN f \ {id} |-> f[r]]

With(f, id, v) == [r \in DOMAIN f \cup {id} |-> IF r = id THEN v ELSE f[r]]

DiffAdd(m) ==
    /\ IF m.id \in DOMAIN deleted
       THEN /\ modified' = With(modified, m.id, <<deleted[m.id], m.now>>)
            /\ deleted' = Without(deleted, m.id)
            /\ UNCHANGED added
       ELSE /\ added' = With(added, m.id, m.now)
            /\ UNCHANGED <<modified, deleted>>

DiffModify_Appends(m) ==
    /\ IF m.id \in DOMAIN added
       THEN /\ added' = With(added, m.id, m.now)
            /\ UNCHANGED modified
       ELSE /\ modified' = With(modified, m.id,
                  IF m.id \in DOMAIN modified THEN Append(modified[m.id], m.now)
                                              ELSE <<m.then, m.now>>)
            /\ UNCHANGED added
    /\ UNCHANGED deleted

DiffModify_FromLast(m) ==
    /\ IF m.id \in DOMAIN added
       THEN /\ added' = With(added, m.id, m.now)
            /\ UNCHANGED modified
       ELSE /\ modified' = With(modified, m.id, <<m.then, m.now>>)
            /\ UNCHANGED added
    /\ UNCHANGED deleted

DiffModify(m) ==
    /\ IF m.id \in DOMAIN added
       THEN /\ added' = With(added, m.id, m.now)
            /\ UNCHANGED modified
       ELSE /\ modified' = With(modified, m.id,
                  <<IF m.id \in DOMAIN modified THEN modified[m.id][1] ELSE m.then,
                    m.now>>)
            /\ UNCHANGED added
    /\ UNCHANGED deleted

DiffDelete_AsItIs(m) ==
    /\ added' = Without(added, m.id)
    /\ modified' = Without(modified, m.id)
    /\ deleted' = IF m.id \in DOMAIN added THEN deleted
                  ELSE With(deleted, m.id, m.then)

DiffDelete(m) ==
    /\ added' = Without(added, m.id)
    /\ modified' = Without(modified, m.id)
    /\ deleted' = IF m.id \in DOMAIN added THEN deleted
                  ELSE With(deleted, m.id,
                            IF m.id \in DOMAIN modified THEN modified[m.id][1]
                                                        ELSE m.then)

\* TableDiff.getReverse: the modifications that take the difference back.
Undo(id) ==
    CASE id \in DOMAIN deleted  -> Mod(id, Absent, deleted[id])
      [] id \in DOMAIN modified -> Mod(id, modified[id][2], modified[id][1])
      [] id \in DOMAIN added    -> Mod(id, added[id], Absent)

ReverseDiff ==
    {Undo(id) : id \in DOMAIN added \cup DOMAIN modified \cup DOMAIN deleted}

\* The same of a diff that leads to other contents.
Modifications(contents) ==
    {Mod(id, cache[id], contents[id]) : id \in {r \in RowId : contents[r] # cache[r]}}

\* TableDiff.getAsModifications: the rows that are added come first, then those
\* modified, then those deleted.  Within a map they come in the order the rows
\* got there; any order is allowed here, and none makes a difference.
Rank(m) == CASE m.then = Absent -> 1
             [] m.now = Absent  -> 3
             [] OTHER           -> 2

Nexts == {m \in updating : \A other \in updating : Rank(m) <= Rank(other)}

-----------------------------------------------------------------------------
NoRows == [r \in {} |-> Absent]

Empty == [id \in RowId |-> Absent]

Init ==
    /\ cache = Empty
    /\ index = [i \in Indices |-> [k \in Keys[i] |-> {}]]
    /\ added = NoRows /\ modified = NoRows /\ deleted = NoRows
    /\ status = "open"
    /\ updating = {}
    /\ before = cache /\ external = Empty

Writable == status = "open"

\* Journal.modifyRow_
ModifyRow(m) ==
    /\ index' = UpdateIndices(m)
    /\ IF Refused(m)
       THEN status' = "pendingRollback" /\ UNCHANGED <<cache, diff>>
       ELSE /\ cache' = [cache EXCEPT ![m.id] = m.now]
            /\ UNCHANGED status
            /\ CASE m.then = Absent -> DiffAdd(m)
                 [] m.now = Absent  -> DiffDelete(m)
                 [] OTHER           -> DiffModify(m)
    /\ UNCHANGED <<updating, before, external>>

\* A row to insert is new, or was deleted since.
Insert(id, value) ==
    /\ Writable /\ cache[id] = Absent
    /\ ModifyRow(Mod(id, Absent, value))

Update(id, value) ==
    /\ Writable /\ cache[id] # Absent
    /\ ModifyRow(Mod(id, cache[id], value))

\* The row that has the primary key keeps its id and gets the new value.
InsertOrReplace(id, value) ==
    LET holders == index[Primary][Key(Primary, id, value)] IN
    /\ Writable /\ cache[id] = Absent
    /\ IF holders = {} THEN ModifyRow(Mod(id, Absent, value))
       ELSE \E holder \in RowId :
               holder \in holders /\ ModifyRow(Mod(holder, cache[holder], value))

Delete(id) ==
    /\ Writable /\ cache[id] # Absent
    /\ ModifyRow(Mod(id, cache[id], Absent))

Commit ==
    /\ Writable
    /\ status' = "terminated"
    /\ UNCHANGED <<cache, index, diff, updating, before, external>>

\* Journal.rollback: InMemoryUpdater.update with the reverse diff, which
\* goes through the indices a row at a time and then changes the cache.
Rollback ==
    /\ status \in {"open", "pendingRollback"}
    /\ status' = "rollingBack"
    /\ updating' = ReverseDiff
    /\ UNCHANGED <<cache, index, diff, before, external>>

UniqueIn(contents) ==
    \A i \in Unique : \A r, s \in {id \in RowId : contents[id] # Absent} :
        (r # s /\ Key(i, r, contents[r]) = Key(i, s, contents[s])) =>
            Key(i, r, contents[r]) = NullKey

\* ExternalChangeTask.exec: what another client has made of the table, in one
\* or several transactions, comes as one diff.
ExternalChange ==
    /\ status \in {"terminated", "rolledBack"}
    /\ status' = "changing"
    /\ external' \in [RowId -> Value \cup {Absent}]
    /\ external' # cache /\ UniqueIn(external')
    /\ updating' = Modifications(external')
    /\ added' = NoRows /\ modified' = NoRows /\ deleted' = NoRows
    /\ before' = cache
    /\ UNCHANGED <<cache, index>>

\* updateIndicesForDiff_.  Nothing catches what updateTableIndicesForRow throws
\* here: the rest of the rollback, or of the change, does not happen.
UpdateRow ==
    /\ status \in {"rollingBack", "changing"}
    /\ \E m \in Nexts :
          /\ index' = UpdateIndices(m)
          /\ IF Refused(m)
             THEN /\ status' = IF status = "changing" THEN "changeFailed"
                                                      ELSE "rollbackFailed"
                  /\ UNCHANGED updating
             ELSE updating' = updating \ {m} /\ UNCHANGED status
    /\ UNCHANGED <<cache, diff, before, external>>

\* updateCacheForDiff_ with the reverse diff.
RollbackCache ==
    /\ status = "rollingBack" /\ updating = {}
    /\ cache' = [id \in RowId |-> CASE id \in DOMAIN added    -> Absent
                                    [] id \in DOMAIN deleted  -> deleted[id]
                                    [] id \in DOMAIN modified -> modified[id][1]
                                    [] OTHER                  -> cache[id]]
    /\ status' = "rolledBack"
    /\ UNCHANGED <<index, diff, updating, before, external>>

\* And with the diff of the change.
ChangeCache ==
    /\ status = "changing" /\ updating = {}
    /\ cache' = external /\ before' = external /\ external' = Empty
    /\ status' = "terminated"
    /\ UNCHANGED <<index, diff, updating>>

\* The next transaction creates its journal.
Begin ==
    /\ status \in {"terminated", "rolledBack"}
    /\ before' = cache
    /\ added' = NoRows /\ modified' = NoRows /\ deleted' = NoRows
    /\ status' = "open"
    /\ UNCHANGED <<cache, index, updating, external>>

Next ==
    \/ \E id \in RowId : \/ \E value \in Value : \/ Insert(id, value)
                                                 \/ Update(id, value)
                                                 \/ InsertOrReplace(id, value)
                         \/ Delete(id)
    \/ Commit \/ Rollback \/ ExternalChange \/ UpdateRow
    \/ RollbackCache \/ ChangeCache \/ Begin

Spec == Init /\ [][Next]_vars

-----------------------------------------------------------------------------
Row == Value \cup {Absent}

DiffTyped ==
    /\ \A id \in DOMAIN added : id \in RowId /\ added[id] \in Value
    /\ \A id \in DOMAIN modified : id \in RowId /\ modified[id] \in Value \X Value
    /\ \A id \in DOMAIN deleted : id \in RowId /\ deleted[id] \in Value

TypeOK ==
    /\ {cache, before, external} \subseteq [RowId -> Row]
    /\ \A i \in Indices : index[i] \in [Keys[i] -> SUBSET RowId]
    /\ DiffTyped
    /\ updating \subseteq [id : RowId, then : Row, now : Row]
    /\ status \in {"open", "pendingRollback", "terminated", "rollingBack",
                   "rolledBack", "rollbackFailed", "changing", "changeFailed"}

Rows == {id \in RowId : cache[id] # Absent}

Settled == status \notin {"rollingBack", "rollbackFailed", "changing", "changeFailed"}

(* Every index has exactly the rows of the cache under their keys, also    *)
(* after a modification that one of several indices refused: the updates   *)
(* of the others are taken back ("In the case where an exception is thrown *)
(* ... all the indices are unaffected", in_memory_updater.js:99), and      *)
(* after a rollback, or a change by another client, that ran to its end.   *)
IndexMatchesCache ==
    Settled => \A i \in Indices : \A k \in Keys[i] :
        index[i][k] = {id \in Rows : Key(i, id, cache[id]) = k}

(* No two rows have the same key in a unique index: no sequence of         *)
(* inserts, updates, replacements, deletions and rollbacks gets round it.  *)
UniqueKeys == Settled => UniqueIn(cache)

(* What a transaction is about to write to the backing store is the net    *)
(* difference it made: however its statements inserted, changed, deleted   *)
(* and inserted a row again, the three maps lead from the contents before  *)
(* to the contents now.                                                    *)
NetDiff ==
    /\ \A id \in DOMAIN added : before[id] = Absent /\ cache[id] = added[id]
    /\ \A id \in DOMAIN modified : modified[id] = <<before[id], cache[id]>>
    /\ \A id \in DOMAIN deleted : before[id] = deleted[id] /\ cache[id] = Absent
    /\ \A id \in RowId \ (DOMAIN added \cup DOMAIN modified \cup DOMAIN deleted) :
          cache[id] = before[id]

DiffIsNet == status # "rolledBack" => NetDiff

(* A rollback that runs to its end leaves the table as the transaction     *)
(* found it.                                                               *)
RollbackRestores == status = "rolledBack" => cache = before

\* Some row has a key in the contents that another row had before.
KeyReused(contents) ==
    \E i \in Unique : \E r, s \in RowId :
        /\ r # s /\ before[r] # Absent /\ contents[s] # Absent
        /\ Key(i, r, before[r]) = Key(i, s, contents[s])
        /\ Key(i, r, before[r]) # NullKey

(* A rollback fails only if the transaction gave a unique key of one row   *)
(* to another one, by deleting or changing the row that had it; and a      *)
(* change by another client, which is consistent as a whole, is refused    *)
(* half-way only if it does so.                                            *)
FailsOnlyOnReuse ==
    /\ status = "rollbackFailed" => KeyReused(cache)
    /\ status = "changeFailed" => KeyReused(external)
=============================================================================
