--------------------------- MODULE JournalProofs ---------------------------
(***************************************************************************)
(* Proofs about Journal.tla for any table, any set of rows and values and  *)
(* any indices: the journal's three maps are always the net difference     *)
(* from the contents the transaction found, and so a rollback that runs to *)
(* its end restores these contents.                                        *)
(* While the rollback goes through the indices the difference stays what   *)
(* it was, because the cache changes only at its end.  A change by another *)
(* client comes when there is no difference.                               *)
(***************************************************************************)
EXTENDS Journal, TLAPS

RowsTyped == /\ cache \in [RowId -> Row] /\ before \in [RowId -> Row]
             /\ external \in [RowId -> Row]

\* A change by another client finds no transaction.
ChangesAlone ==
    status = "changing" =>
        DOMAIN added = {} /\ DOMAIN modified = {} /\ DOMAIN deleted = {}

DiffInv == RowsTyped /\ DiffTyped /\ DiffIsNet /\ RollbackRestores /\ ChangesAlone

-----------------------------------------------------------------------------
(* The modifications that the operations make.                             *)
Modifies(m) == /\ m \in [id : RowId, then : Row, now : Row]
               /\ m.then = cache[m.id]
               /\ m.then # Absent \/ m.now # Absent

-----------------------------------------------------------------------------
NetAndTyped == RowsTyped /\ DiffTyped /\ NetDiff

(* TableDiff.add keeps the difference net: a row that is added was not     *)
(* there before, or was deleted by the same transaction.                   *)
LEMMA AddIsNet ==
    ASSUME NetAndTyped, NEW m, Modifies(m),
           m.then = Absent, m.now \in Value, DiffAdd(m),
           cache' = [cache EXCEPT ![m.id] = m.now], before' = before
    PROVE  DiffTyped' /\ NetDiff'
<1> USE JournalAssumption DEF NetAndTyped, RowsTyped, DiffTyped, NetDiff, Modifies, DiffAdd, With,
            Without, Row, JournalAssumption
<1>1. CASE m.id \in DOMAIN deleted
  BY <1>1
<1>2. CASE m.id \notin DOMAIN deleted
  <2>0. cache[m.id] = Absent
    OBVIOUS
  <2>1. m.id \notin DOMAIN modified
    <3> SUFFICES ASSUME m.id \in DOMAIN modified PROVE FALSE
      OBVIOUS
    <3>2. modified[m.id] = <<before[m.id], cache[m.id]>>
      OBVIOUS
    <3>3. modified[m.id] \in Value \X Value
      OBVIOUS
    <3>4. cache[m.id] \in Value
      BY <3>2, <3>3
    <3>5. Absent \notin Value
      OBVIOUS
    <3> QED BY ONLY <2>0, <3>4, <3>5
  <2>2. /\ modified' = modified /\ deleted' = deleted
        /\ added' = With(added, m.id, m.now)
    BY <1>2
  <2>3. before[m.id] = Absent
    BY <1>2, <2>0, <2>1
  <2>4. DiffTyped'
    BY <2>2
  <2>5. \A id \in DOMAIN added' : before'[id] = Absent /\ cache'[id] = added'[id]
    BY <2>2, <2>3
  <2>6. \A id \in DOMAIN modified' : modified'[id] = <<before'[id], cache'[id]>>
    BY <2>1, <2>2
  <2>7. \A id \in DOMAIN deleted' : before'[id] = deleted'[id] /\ cache'[id] = Absent
    BY <1>2, <2>2
  <2>8. \A id \in RowId \ (DOMAIN added' \cup DOMAIN modified' \cup DOMAIN deleted') :
           cache'[id] = before'[id]
    BY <1>2, <2>2
  <2> QED BY <2>4, <2>5, <2>6, <2>7, <2>8
<1> QED BY <1>1, <1>2

(* TableDiff.modify keeps the difference net, whether the transaction      *)
(* added the row, modified it already, or meets it for the first time.     *)
LEMMA ModifyIsNet ==
    ASSUME NetAndTyped, NEW m, Modifies(m),
           m.then # Absent, m.now \in Value, DiffModify(m),
           cache' = [cache EXCEPT ![m.id] = m.now], before' = before
    PROVE  DiffTyped' /\ NetDiff'
<1> USE JournalAssumption DEF NetAndTyped, RowsTyped, DiffTyped, NetDiff, Modifies, DiffModify, With,
            Without, Row, JournalAssumption
<1>1. CASE m.id \in DOMAIN added
  BY <1>1
<1>2. CASE m.id \in DOMAIN modified /\ m.id \notin DOMAIN added
  BY <1>2
<1>3. CASE m.id \notin DOMAIN modified /\ m.id \notin DOMAIN added
  BY <1>3
<1> QED BY <1>1, <1>2, <1>3

(* TableDiff.delete keeps the difference net: it remembers the row as the  *)
(* transaction found it, or forgets a row the transaction added.           *)
LEMMA DeleteIsNet ==
    ASSUME NetAndTyped, NEW m, Modifies(m),
           m.then # Absent, m.now = Absent, DiffDelete(m),
           cache' = [cache EXCEPT ![m.id] = m.now], before' = before
    PROVE  DiffTyped' /\ NetDiff'
<1> USE JournalAssumption DEF NetAndTyped, RowsTyped, DiffTyped, NetDiff, Modifies, DiffDelete, With,
            Without, Row, JournalAssumption
<1>1. CASE m.id \in DOMAIN added
  BY <1>1
<1>2. CASE m.id \in DOMAIN modified /\ m.id \notin DOMAIN added
  BY <1>2
<1>3. CASE m.id \notin DOMAIN modified /\ m.id \notin DOMAIN added
  BY <1>3
<1> QED BY <1>1, <1>2, <1>3
-----------------------------------------------------------------------------
(* Every change of a row keeps the invariant.                              *)
LEMMA ModifyRowKeepsInv ==
    ASSUME DiffInv, status = "open",
           NEW m, Modifies(m), ModifyRow(m)
    PROVE  DiffInv'
<1>2. NetAndTyped /\ before' = before /\ external' = external
  BY DEF DiffInv, DiffIsNet, NetAndTyped, ModifyRow
<1>3. CASE Refused(m)
  BY <1>2, <1>3 DEF ModifyRow, DiffInv, RowsTyped, DiffTyped, DiffIsNet, NetDiff,
                     RollbackRestores, ChangesAlone, diff
<1>4. CASE ~Refused(m)
  <2>1. cache' = [cache EXCEPT ![m.id] = m.now] /\ status' = status
    BY <1>4 DEF ModifyRow
  <2>2. RowsTyped'
    BY <1>2, <2>1 DEF NetAndTyped, RowsTyped, Modifies
  <2>3. /\ m.then \in Row /\ m.now \in Row /\ Absent \notin Value
        /\ m.then # Absent \/ m.now # Absent
    BY JournalAssumption DEF Modifies, JournalAssumption
  <2>4. DiffTyped' /\ NetDiff'
    <3>1. CASE m.then = Absent
      <4>1. m.now \in Value /\ DiffAdd(m)
        BY <1>4, <2>3, <3>1 DEF ModifyRow, Row
      <4> QED BY <1>2, <2>1, <3>1, <4>1, AddIsNet
    <3>2. CASE m.then # Absent /\ m.now = Absent
      <4>1. DiffDelete(m)
        BY <1>4, <3>2 DEF ModifyRow
      <4> QED BY <1>2, <2>1, <3>2, <4>1, DeleteIsNet
    <3>3. CASE m.then # Absent /\ m.now # Absent
      <4>1. m.now \in Value /\ DiffModify(m)
        BY <1>4, <2>3, <3>3 DEF ModifyRow, Row
      <4> QED BY <1>2, <2>1, <3>3, <4>1, ModifyIsNet
    <3> QED BY <3>1, <3>2, <3>3
  <2> QED BY <2>1, <2>2, <2>4 DEF DiffInv, DiffIsNet, RollbackRestores, ChangesAlone
<1> QED BY <1>3, <1>4

(* What Journal.insert, update, insertOrReplace and remove make of a row is *)
(* a modification of the row as it is in the cache.                        *)
LEMMA OperationsModifyRows ==
    ASSUME RowsTyped, NEW id \in RowId,
           \/ \E value \in Value : \/ Insert(id, value) \/ Update(id, value)
                                   \/ InsertOrReplace(id, value)
           \/ Delete(id)
    PROVE  status = "open" /\ \E m : Modifies(m) /\ ModifyRow(m)
<1> USE JournalAssumption DEF Writable, Modifies, Mod, RowsTyped, Row, JournalAssumption
<1>1. ASSUME NEW value \in Value, Insert(id, value)
      PROVE  status = "open" /\ Modifies(Mod(id, Absent, value))
             /\ ModifyRow(Mod(id, Absent, value))
  BY <1>1 DEF Insert
<1>2. ASSUME NEW value \in Value, Update(id, value)
      PROVE  status = "open" /\ Modifies(Mod(id, cache[id], value))
             /\ ModifyRow(Mod(id, cache[id], value))
  BY <1>2 DEF Update
<1>3. ASSUME NEW value \in Value, InsertOrReplace(id, value)
      PROVE  /\ status = "open"
             /\ \/ Modifies(Mod(id, Absent, value)) /\ ModifyRow(Mod(id, Absent, value))
                \/ \E holder \in RowId : /\ Modifies(Mod(holder, cache[holder], value))
                                         /\ ModifyRow(Mod(holder, cache[holder], value))
  BY <1>3 DEF InsertOrReplace
<1>4. ASSUME Delete(id)
      PROVE  status = "open" /\ Modifies(Mod(id, cache[id], Absent))
             /\ ModifyRow(Mod(id, cache[id], Absent))
  BY <1>4 DEF Delete
<1> HIDE DEF Modifies, Mod
<1> QED BY <1>1, <1>2, <1>3, <1>4

(* The empty journal of an empty table.                                    *)
LEMMA InitDiffInv == Init => DiffInv
<1> SUFFICES ASSUME Init PROVE DiffInv
  OBVIOUS
<1> QED
  BY DEF Init, Empty, NoRows, DiffInv, RowsTyped, Row, DiffTyped, DiffIsNet,
              NetDiff, RollbackRestores, ChangesAlone

(* Every step keeps the invariant.                                         *)
LEMMA NextDiffInv == DiffInv /\ [Next]_vars => DiffInv'
<1> SUFFICES ASSUME DiffInv, [Next]_vars PROVE DiffInv'
  OBVIOUS
<1> USE DEF Writable
<1>0. /\ RowsTyped /\ Absent \notin Value
      /\ Row = Value \cup {Absent}
  BY JournalAssumption DEF DiffInv, JournalAssumption, Row
<1>1. ASSUME NEW id \in RowId,
             \/ \E value \in Value : \/ Insert(id, value) \/ Update(id, value)
                                     \/ InsertOrReplace(id, value)
             \/ Delete(id)
      PROVE  DiffInv'
  BY <1>0, <1>1, OperationsModifyRows, ModifyRowKeepsInv
<1> USE DEF DiffInv, RowsTyped, DiffTyped, DiffIsNet, RollbackRestores, ChangesAlone, diff
<1>2. CASE Commit
  BY <1>2 DEF Commit, NetDiff
<1>3. CASE Rollback
  BY <1>3 DEF Rollback, NetDiff
<1>4. CASE UpdateRow
  BY <1>4 DEF UpdateRow, NetDiff
<1>5. CASE RollbackCache
  <2>1. \A id \in RowId : cache'[id] = before[id]
    BY <1>5 DEF RollbackCache, NetDiff
  <2>2. cache' \in [RowId -> Row] /\ before' = before
    BY <1>5, <2>1 DEF RollbackCache
  <2>3. cache' = before'
    BY <2>1, <2>2
  <2> QED BY <1>5, <2>2, <2>3 DEF RollbackCache
<1>6. CASE Begin
  <2>1. /\ DOMAIN added' = {} /\ DOMAIN modified' = {} /\ DOMAIN deleted' = {}
        /\ before' = cache /\ cache' = cache
    BY <1>6 DEF Begin, NoRows
  <2>2. NetDiff'
    BY <2>1 DEF NetDiff
  <2> QED BY <1>6, <2>1, <2>2 DEF Begin
<1>7. CASE ExternalChange
  <2>1. /\ DOMAIN added' = {} /\ DOMAIN modified' = {} /\ DOMAIN deleted' = {}
        /\ before' = cache /\ cache' = cache
    BY <1>7 DEF ExternalChange, NoRows
  <2>2. NetDiff'
    BY <2>1 DEF NetDiff
  <2>3. external' \in [RowId -> Row] /\ status' = "changing"
    BY <1>7 DEF ExternalChange, Row
  <2> QED BY <2>1, <2>2, <2>3
<1>8. CASE ChangeCache
  <2>1. /\ cache' = external /\ before' = external /\ external' = Empty
        /\ status' = "terminated" /\ UNCHANGED <<added, modified, deleted>>
    BY <1>8 DEF ChangeCache
  <2>2. /\ DOMAIN added' = {} /\ DOMAIN modified' = {} /\ DOMAIN deleted' = {}
    BY <1>8, <2>1 DEF ChangeCache
  <2>3. NetDiff' /\ DiffTyped'
    BY <2>1, <2>2 DEF NetDiff
  <2>4. RowsTyped'
    BY <2>1 DEF Empty, Row
  <2> QED BY <2>1, <2>3, <2>4
<1>9. CASE UNCHANGED vars
  BY <1>9 DEF vars, NetDiff
<1> QED
  BY <1>1, <1>2, <1>3, <1>4, <1>5, <1>6, <1>7, <1>8, <1>9 DEF Next

-----------------------------------------------------------------------------
(* The invariant of every run of the specification.                        *)
THEOREM DiffInvariant == Spec => []DiffInv
BY InitDiffInv, NextDiffInv, PTL DEF Spec

(* What a transaction commits is its net difference (Journal.DiffIsNet),   *)
(* for the maps that TableDiff.add, modify and delete build.               *)
THEOREM DiffIsNetHolds == Spec => []DiffIsNet
<1>1. DiffInv => DiffIsNet
  BY DEF DiffInv
<1> QED BY <1>1, DiffInvariant, PTL

(* A rollback that ends restores the contents that the transaction found   *)
(* (Journal.RollbackRestores), for the reverse diff of those maps.         *)
THEOREM RollbackRestoresHolds == Spec => []RollbackRestores
<1>1. DiffInv => RollbackRestores
  BY DEF DiffInv
<1> QED BY <1>1, DiffInvariant, PTL
-----------------------------------------------------------------------------
(***************************************************************************)
(* The indices.  While a rollback or a change goes through them they have  *)
(* some rows as the cache has them, those still to be updated, and the     *)
(* others as they will be in the end.                                      *)
(***************************************************************************)
Target == IF status \in {"changing", "changeFailed"} THEN external ELSE before

Indexed == [id \in RowId |->
               IF Settled \/ (\E m \in updating : m.id = id) THEN cache[id]
                                                             ELSE Target[id]]

\* What an index has when the table has these contents.
Listing(i, contents) ==
    [k \in Keys[i] |-> {id \in RowId : /\ contents[id] # Absent
                                       /\ Key(i, id, contents[id]) = k}]

UniqueAt(i, contents) ==
    i \in Unique =>
        \A r, s \in RowId :
            (/\ contents[r] # Absent /\ contents[s] # Absent
             /\ Key(i, r, contents[r]) = Key(i, s, contents[s])
             /\ Key(i, r, contents[r]) # NullKey) => r = s

AllUnique(contents) == \A i \in Indices : UniqueAt(i, contents)

\* A modification still to be made leads from the cache to the target.
LeadsToTarget(m) ==
    /\ m \in [id : RowId, then : Row, now : Row]
    /\ m.then = cache[m.id] /\ m.now = Target[m.id]
    /\ m.then # Absent \/ m.now # Absent

IndexInv ==
    /\ \A i \in Indices : index[i] = Listing(i, Indexed)
    /\ AllUnique(Indexed) /\ AllUnique(before)
    /\ Settled => updating = {}
    /\ \A m \in updating : LeadsToTarget(m)
    /\ status \in {"changing", "changeFailed"} => AllUnique(external) /\ before = cache
    /\ FailsOnlyOnReuse

IInv == DiffInv /\ IndexInv

\* Row 0 has no null in an index: NullableIndex.remove takes its id for none and
\* would drop every row with a null.  Ids start at 0 (src/lib/row.js:47), but a
\* store that scans its tables raises the first one to at least 1.
ZeroHasNoNull ==
    0 \in RowId => \A i \in Indices, v \in Value : Key(i, 0, v) # NullKey

-----------------------------------------------------------------------------
(* Two listings with the same rows under each key are the same.            *)
LEMMA SameListing ==
    ASSUME NEW K, NEW R, NEW f \in [K -> SUBSET R], NEW g \in [K -> SUBSET R],
           \A k \in K, r \in R : r \in f[k] <=> r \in g[k]
    PROVE  f = g
<1>1. \A k \in K : f[k] = g[k]
  OBVIOUS
<1> QED BY <1>1

(* Adding and removing a row in one index, InMemoryUpdater.                *)
(* updateTableIndexForRow_, takes it from the listing of the contents      *)
(* before to the listing of the contents after, if both are unique.        *)
LEMMA ApplyMoves ==
    ASSUME ZeroHasNoNull, NEW i \in Indices, NEW m \in [id : RowId, then : Row, now : Row],
           NEW c \in [RowId -> Row], c[m.id] = m.then,
           m.then # Absent \/ m.now # Absent,
           UniqueAt(i, c), UniqueAt(i, [c EXCEPT ![m.id] = m.now])
    PROVE  Apply(i, Listing(i, c), m) = Listing(i, [c EXCEPT ![m.id] = m.now])
<1> DEFINE d == [c EXCEPT ![m.id] = m.now]
           ix == Listing(i, c)
           id == m.id
<1>1. /\ id \in RowId /\ d \in [RowId -> Row] /\ d[id] = m.now
      /\ \A r \in RowId : r # id => d[r] = c[r]
  OBVIOUS
<1>2. \A v \in Value : Key(i, id, v) \in Keys[i]
  BY JournalAssumption DEF Keys, Key
<1>0. ix \in [Keys[i] -> SUBSET RowId] /\ Listing(i, d) \in [Keys[i] -> SUBSET RowId]
  BY DEF Listing
<1>3. /\ ix \in [Keys[i] -> SUBSET RowId]
      /\ \A k \in Keys[i], r \in RowId :
            /\ r \in ix[k] <=> c[r] # Absent /\ Key(i, r, c[r]) = k
            /\ r \in Listing(i, d)[k] <=> d[r] # Absent /\ Key(i, r, d[r]) = k
  BY DEF Listing
<1> HIDE DEF d, ix
<1>4. CASE Unchanged(i, m)
  <2>1. Listing(i, d) = ix
    <3>1. \A k \in Keys[i], r \in RowId : r \in Listing(i, d)[k] <=> r \in ix[k]
      BY <1>1, <1>3, <1>4 DEF Unchanged
    <3> QED BY <1>0, <3>1, SameListing, ZenonT(60)
  <2> QED BY <1>4, <2>1 DEF Apply, d, ix
<1>5. CASE ~Unchanged(i, m)
  <2> DEFINE grown == IF m.now = Absent THEN ix
                      ELSE [ix EXCEPT ![Key(i, id, m.now)] = @ \cup {id}]
             key == Key(i, id, m.then)
  <2>0. grown \in [Keys[i] -> SUBSET RowId]
    BY <1>0, <1>1, <1>2 DEF Row
  <2>1. /\ grown \in [Keys[i] -> SUBSET RowId]
        /\ \A k \in Keys[i], r \in RowId :
              r \in grown[k] <=> r \in ix[k] \/ (r = id /\ m.now # Absent /\ k = Key(i, id, m.now))
    BY <1>1, <1>2, <1>3 DEF Row
  <2> HIDE DEF grown
  <2>2. CASE m.then = Absent
    <3>1. grown = Listing(i, d)
      <4>1. \A k \in Keys[i], r \in RowId : r \in grown[k] <=> r \in Listing(i, d)[k]
        BY <1>1, <1>3, <2>1, <2>2
      <4> QED BY <1>0, <2>0, <4>1, SameListing, ZenonT(60)
    <3> QED BY <1>5, <2>2, <3>1 DEF Apply, grown, ix, d
  <2>3. CASE m.then # Absent
    <3> DEFINE final == [grown EXCEPT ![key] = Remaining(i, key, @, id)]
    <3>1. key \in Keys[i] /\ m.then \in Value
      BY <1>2, <2>3 DEF Row
    <3>2. Remaining(i, key, grown[key], id) = grown[key] \ {id}
      <4>1. \A r \in grown[key] : r \in RowId /\ (r # id => c[r] # Absent /\ Key(i, r, c[r]) = key)
        BY <1>3, <2>1, <3>1
      <4>2. CASE i \in Unique /\ key # NullKey
        BY <1>1, <2>3, <4>1, <4>2 DEF UniqueAt, Remaining
      <4>3. CASE key = NullKey /\ id = 0
        BY <1>1, <3>1, <4>3 DEF ZeroHasNoNull
      <4> QED BY <4>2, <4>3 DEF Remaining
    <3>3. /\ final \in [Keys[i] -> SUBSET RowId]
          /\ \A k \in Keys[i], r \in RowId :
                r \in final[k] <=> r \in grown[k] /\ ~(k = key /\ r = id)
      BY <2>1, <3>1, <3>2
    <3> HIDE DEF final
    <3>4. \A k \in Keys[i], r \in RowId : r \in final[k] <=> r \in Listing(i, d)[k]
      <4> SUFFICES ASSUME NEW k \in Keys[i], NEW r \in RowId
                   PROVE  r \in final[k] <=> r \in Listing(i, d)[k]
        OBVIOUS
      <4>1. CASE r # id
        BY <1>1, <1>3, <2>1, <3>3, <4>1
      <4>2. CASE r = id
        BY <1>1, <1>3, <1>5, <2>1, <2>3, <3>3, <4>2 DEF Unchanged
      <4> QED BY <4>1, <4>2
    <3>5. final = Listing(i, d)
      BY <1>0, <3>3, <3>4, SameListing, ZenonT(60)
    <3> QED BY <1>5, <2>3, <3>5 DEF Apply, grown, ix, d, final
  <2> QED BY <2>2, <2>3
<1> QED BY <1>4, <1>5

(* An index that does not refuse a row, BTree.add, stays unique.           *)
LEMMA AcceptedIsUnique ==
    ASSUME NEW i \in Indices, NEW m \in [id : RowId, then : Row, now : Row],
           NEW c \in [RowId -> Row], c[m.id] = m.then, UniqueAt(i, c),
           ~Refuses(i, Listing(i, c), m)
    PROVE  UniqueAt(i, [c EXCEPT ![m.id] = m.now])
<1> DEFINE d == [c EXCEPT ![m.id] = m.now]
<1>1. \A v \in Value, r \in RowId : Key(i, r, v) \in Keys[i]
  BY JournalAssumption DEF Keys, Key
<1>2. SUFFICES ASSUME i \in Unique, NEW r \in RowId, NEW s \in RowId,
                      d[r] # Absent, d[s] # Absent,
                      Key(i, r, d[r]) = Key(i, s, d[s]), Key(i, r, d[r]) # NullKey,
                      r = m.id, s # m.id
               PROVE  FALSE
  BY DEF UniqueAt
<1>3. d[r] = m.now /\ d[s] = c[s] /\ m.now \in Value
  BY <1>2 DEF Row
<1>4. s \in Listing(i, c)[Key(i, m.id, m.now)]
  BY <1>1, <1>2, <1>3 DEF Listing
<1>5. Unchanged(i, m)
  BY <1>2, <1>3, <1>4 DEF Refuses
<1>6. c[r] = m.then /\ m.then # Absent /\ Key(i, r, c[r]) = Key(i, s, c[s])
  BY <1>2, <1>3, <1>5 DEF Unchanged
<1> QED BY <1>2, <1>3, <1>6 DEF UniqueAt

(* InMemoryUpdater.updateTableIndicesForRow is atomic: either no index     *)
(* refuses the modification and all have it, or one refuses it and all are *)
(* as they were.                                                           *)
LEMMA UpdateIsAtomic ==
    ASSUME ZeroHasNoNull, NEW m \in [id : RowId, then : Row, now : Row],
           NEW c \in [RowId -> Row], c[m.id] = m.then,
           m.then # Absent \/ m.now # Absent, AllUnique(c),
           \A i \in Indices : index[i] = Listing(i, c)
    PROVE  /\ Refused(m) => \A i \in Indices : UpdateIndices(m)[i] = Listing(i, c)
           /\ ~Refused(m) =>
                 /\ AllUnique([c EXCEPT ![m.id] = m.now])
                 /\ \A i \in Indices :
                       UpdateIndices(m)[i] = Listing(i, [c EXCEPT ![m.id] = m.now])
<1> DEFINE d == [c EXCEPT ![m.id] = m.now]
<1>1. ASSUME NEW i \in Indices, ~Refuses(i, index[i], m)
      PROVE  /\ UniqueAt(i, d)
             /\ Apply(i, index[i], m) = Listing(i, d)
             /\ Apply(i, Listing(i, d), Reversed(m)) = Listing(i, c)
  <2>1. UniqueAt(i, c) /\ index[i] = Listing(i, c)
    BY DEF AllUnique
  <2>2. UniqueAt(i, d)
    BY <1>1, <2>1, AcceptedIsUnique
  <2>3. Apply(i, index[i], m) = Listing(i, d)
    BY <2>1, <2>2, ApplyMoves, ZenonT(60)
  <2>4. /\ Reversed(m) \in [id : RowId, then : Row, now : Row]
        /\ Reversed(m).id = m.id /\ Reversed(m).then = m.now /\ Reversed(m).now = m.then
    BY DEF Reversed, Mod
  <2>5. /\ d \in [RowId -> Row] /\ d[m.id] = m.now
        /\ [d EXCEPT ![m.id] = m.then] = c
    OBVIOUS
  <2> HIDE DEF d
  <2>6. Apply(i, Listing(i, d), Reversed(m)) = Listing(i, c)
    BY <2>1, <2>2, <2>4, <2>5, ApplyMoves
  <2> QED BY <2>2, <2>3, <2>6
<1>2. \A p \in DOMAIN Index : Index[p] \in Indices /\ p \in 1..p
                              /\ \A r \in 1..p : r \in DOMAIN Index
  BY JournalAssumption
<1>3. \A i \in UpdatedFirst(m) : i \in Indices /\ ~Refuses(i, index[i], m)
  BY <1>2 DEF UpdatedFirst
<1>4. ~Refused(m) => UpdatedFirst(m) = Indices
  BY <1>2 DEF UpdatedFirst, Refused, Indices, ToSet
<1> HIDE DEF d
<1>5. CASE Refused(m)
  BY <1>1, <1>3, <1>5 DEF UpdateIndices
<1>6. CASE ~Refused(m)
  <2>1. \A i \in Indices : UpdateIndices(m)[i] = Apply(i, index[i], m)
    BY <1>4, <1>6 DEF UpdateIndices
  <2>2. \A i \in Indices : ~Refuses(i, index[i], m)
    BY <1>6 DEF Refused
  <2> QED BY <1>1, <1>6, <2>1, <2>2 DEF AllUnique, d
<1> QED BY <1>5, <1>6

-----------------------------------------------------------------------------
(* A modified row goes to all indices and the cache, or, refused, to none. *)
LEMMA ModifyRowKeepsIndices ==
    ASSUME ZeroHasNoNull, IInv, status = "open", NEW m, Modifies(m), ModifyRow(m)
    PROVE  IndexInv'
<1>1. /\ updating = {} /\ updating' = {} /\ before' = before
      /\ Indexed = cache /\ RowsTyped
  BY DEF IInv, IndexInv, DiffInv, RowsTyped, Indexed, Settled, ModifyRow
<1>2. /\ m \in [id : RowId, then : Row, now : Row] /\ m.then = cache[m.id]
      /\ m.then # Absent \/ m.now # Absent
      /\ \A i \in Indices : index[i] = Listing(i, cache)
      /\ AllUnique(cache) /\ AllUnique(before) /\ cache \in [RowId -> Row]
  BY <1>1 DEF Modifies, IInv, IndexInv, RowsTyped
<1>3. index' = UpdateIndices(m)
  BY DEF ModifyRow
<1>4. /\ status' \in {"open", "pendingRollback"} /\ cache' \in [RowId -> Row]
      /\ \A i \in Indices : index'[i] = Listing(i, cache')
      /\ AllUnique(cache')
  <2>1. CASE Refused(m)
    <3>1. status' = "pendingRollback" /\ cache' = cache
      BY <2>1 DEF ModifyRow
    <3> QED BY <1>2, <1>3, <2>1, <3>1, UpdateIsAtomic
  <2>2. CASE ~Refused(m)
    <3>1. status' = "open" /\ cache' = [cache EXCEPT ![m.id] = m.now]
      BY <2>2 DEF ModifyRow
    <3> QED BY <1>2, <1>3, <2>2, <3>1, UpdateIsAtomic
  <2> QED BY <2>1, <2>2
<1>5. Indexed' = cache' /\ Settled'
  BY <1>4 DEF Indexed, Settled
<1> QED
  BY <1>1, <1>2, <1>4, <1>5 DEF IndexInv, FailsOnlyOnReuse, AllUnique, Settled

(* One row of a rollback or of a change by another client.  If it is       *)
(* refused, then because of a row that is still to be updated and has in   *)
(* the cache a key that goes to this row: the target has it only once.     *)
LEMMA UpdateRowKeepsIndices ==
    ASSUME ZeroHasNoNull, IInv, UpdateRow
    PROVE  IndexInv'
<1>1. PICK m \in updating :
         /\ index' = UpdateIndices(m)
         /\ IF Refused(m)
            THEN /\ status' = IF status = "changing" THEN "changeFailed"
                                                     ELSE "rollbackFailed"
                 /\ updating' = updating
            ELSE updating' = updating \ {m} /\ status' = status
  BY DEF UpdateRow, Nexts
<1>2. /\ status \in {"rollingBack", "changing"} /\ ~Settled
      /\ UNCHANGED <<cache, diff, before, external>>
      /\ RowsTyped
  BY DEF UpdateRow, Settled, IInv, DiffInv
<1> DEFINE c == Indexed
           d == [c EXCEPT ![m.id] = m.now]
<1>3. /\ LeadsToTarget(m) /\ Target \in [RowId -> Row]
      /\ m \in [id : RowId, then : Row, now : Row] /\ m.then = cache[m.id]
      /\ m.now = Target[m.id]
      /\ m.then # Absent \/ m.now # Absent
  BY <1>2 DEF IInv, IndexInv, LeadsToTarget, RowsTyped, Target
<1>4. /\ c \in [RowId -> Row] /\ c[m.id] = m.then
      /\ \A id \in RowId : c[id] = IF \E o \in updating : o.id = id
                                   THEN cache[id] ELSE Target[id]
  BY <1>2, <1>3 DEF Indexed, RowsTyped
<1>5. AllUnique(c) /\ \A i \in Indices : index[i] = Listing(i, c)
  BY DEF IInv, IndexInv
<1>6. AllUnique(Target)
  BY <1>2 DEF IInv, IndexInv, Target
<1>7. AllUnique(before)'
  BY <1>2 DEF IInv, IndexInv, AllUnique, UniqueAt
<1>8. Target' = Target
  BY <1>1, <1>2 DEF Target
<1>9. status' \in {"changing", "changeFailed"} => AllUnique(external') /\ before' = cache'
  BY <1>1, <1>2 DEF IInv, IndexInv, AllUnique, UniqueAt
<1>10. ~Settled'
  BY <1>1, <1>2 DEF Settled
<1>11. \A o \in updating' : LeadsToTarget(o)'
  BY <1>1, <1>2, <1>8 DEF IInv, IndexInv, LeadsToTarget
<1> HIDE DEF c
<1>12. /\ m \in [id : RowId, then : Row, now : Row]
       /\ m.then # Absent \/ m.now # Absent
       /\ c \in [RowId -> Row] /\ c[m.id] = m.then
  BY <1>3, <1>4
<1>13. /\ Refused(m) => \A i \in Indices : UpdateIndices(m)[i] = Listing(i, c)
       /\ ~Refused(m) =>
             /\ AllUnique(d)
             /\ \A i \in Indices : UpdateIndices(m)[i] = Listing(i, d)
  BY <1>5, <1>12, UpdateIsAtomic
<1>14. CASE Refused(m)
  <2>1. updating' = updating /\ \A i \in Indices : index'[i] = Listing(i, c)
    BY <1>1, <1>14, <1>13
  <2>2. Indexed' = c
    BY <1>2, <1>8, <1>10, <2>1 DEF Indexed, c
  <2>3. PICK i \in Indices : Refuses(i, Listing(i, c), m)
    BY <1>5, <1>14 DEF Refused
  <2>4. /\ m.now # Absent /\ m.now \in Value /\ ~Unchanged(i, m) /\ i \in Unique
        /\ Key(i, m.id, m.now) # NullKey /\ Key(i, m.id, m.now) \in Keys[i]
    BY <1>3, <2>3, JournalAssumption DEF Refuses, Row, Keys, Key
  <2>5. PICK s \in RowId : c[s] # Absent /\ Key(i, s, c[s]) = Key(i, m.id, m.now)
    BY <2>3, <2>4 DEF Refuses, Listing
  <2>6. s # m.id
    BY <1>4, <2>4, <2>5 DEF Unchanged
  <2>7. c[s] = cache[s]
    <3>1. m.id \in RowId /\ Target[m.id] = m.now /\ UniqueAt(i, Target)
      BY <1>3, <1>6 DEF AllUnique
    <3>2. c[s] # Target[s]
      BY <2>4, <2>5, <2>6, <3>1 DEF UniqueAt
    <3> QED BY <1>4, <3>2
  <2>8. FailsOnlyOnReuse'
    <3>1. CASE status = "changing"
      <4>1. /\ Target[m.id] = external[m.id] /\ cache = before
        BY <3>1 DEF Target, IInv, IndexInv
      <4>2. KeyReused(external)
        BY <1>3, <2>4, <2>5, <2>6, <2>7, <4>1 DEF KeyReused
      <4> QED BY <1>1, <1>2, <1>14, <3>1, <4>2 DEF FailsOnlyOnReuse, KeyReused
    <3>2. CASE status = "rollingBack"
      <4>1. Target[m.id] = before[m.id]
        BY <3>2 DEF Target
      <4>2. KeyReused(cache)
        BY <1>3, <2>4, <2>5, <2>6, <2>7, <4>1 DEF KeyReused
      <4> QED BY <1>1, <1>2, <1>14, <3>2, <4>2 DEF FailsOnlyOnReuse, KeyReused
    <3> QED BY <1>2, <3>1, <3>2
  <2> QED BY <1>5, <1>7, <1>9, <1>10, <1>11, <2>1, <2>2, <2>8 DEF IndexInv
<1>15. CASE ~Refused(m)
  <2>1. /\ AllUnique(d) /\ \A i \in Indices : index'[i] = Listing(i, d)
    BY <1>1, <1>15, <1>13
  <2>2. updating' = updating \ {m} /\ status' = status
    BY <1>1, <1>15
  <2>3. \A o \in updating : o.id = m.id => o = m
    <3>1. \A o \in updating : LeadsToTarget(o)
      BY DEF IInv, IndexInv
    <3> QED BY <1>3, <3>1 DEF LeadsToTarget
  <2>4. Indexed' = d
    <3>1. Indexed' = [id \in RowId |-> IF \E o \in updating' : o.id = id
                                       THEN cache[id] ELSE Target[id]]
      BY <1>2, <1>8, <1>10 DEF Indexed
    <3>2. \A id \in RowId : Indexed'[id] = d[id]
      <4> SUFFICES ASSUME NEW id \in RowId PROVE Indexed'[id] = d[id]
        OBVIOUS
      <4>1. CASE id = m.id
        BY <1>3, <1>4, <2>2, <2>3, <3>1, <4>1
      <4>2. CASE id # m.id
        BY <1>4, <2>2, <3>1, <4>2
      <4> QED BY <4>1, <4>2
    <3> QED BY <1>4, <3>1, <3>2
  <2>5. FailsOnlyOnReuse'
    BY <1>2, <2>2 DEF FailsOnlyOnReuse
  <2> HIDE DEF d
  <2> QED BY <1>7, <1>9, <1>10, <1>11, <2>1, <2>4, <2>5 DEF IndexInv
<1> QED BY <1>14, <1>15

(* The other steps: where a rollback or a change begins the listings are   *)
(* those of the cache, and where it ends those of the target.              *)
LEMMA NextKeepsIndices ==
    ASSUME ZeroHasNoNull, IInv, [Next]_vars
    PROVE  IndexInv'
<1>1. RowsTyped /\ DiffTyped /\ DiffIsNet /\ RowsTyped' /\ DiffIsNet' /\ ChangesAlone
  BY NextDiffInv DEF IInv, DiffInv
<1>2. ASSUME NEW id \in RowId,
             \/ \E value \in Value : \/ Insert(id, value) \/ Update(id, value)
                                     \/ InsertOrReplace(id, value)
             \/ Delete(id)
      PROVE  IndexInv'
  BY <1>1, <1>2, OperationsModifyRows, ModifyRowKeepsIndices
<1>3. CASE Commit
  <2>1. Indexed' = Indexed /\ Settled /\ Settled'
    BY <1>3 DEF Commit, Writable, Indexed, Settled
  <2> QED BY <1>3, <2>1 DEF Commit, IInv, IndexInv, FailsOnlyOnReuse, AllUnique, UniqueAt
<1>4. CASE Rollback
  <2>1. /\ Settled /\ ~Settled' /\ Target' = before /\ Indexed = cache /\ NetDiff
        /\ UNCHANGED <<cache, index, diff, before, external>> /\ status' = "rollingBack"
    BY <1>1, <1>4 DEF Rollback, Settled, Target, Indexed, RowsTyped, DiffIsNet
  <2>2. \A id \in DOMAIN added \cup DOMAIN modified \cup DOMAIN deleted :
           /\ Undo(id) \in [id : RowId, then : Row, now : Row] /\ Undo(id).id = id
           /\ Undo(id).then = cache[id] /\ Undo(id).now = before[id]
           /\ Undo(id).then # Absent \/ Undo(id).now # Absent
    BY <1>1, <2>1, JournalAssumption
       DEF DiffTyped, NetDiff, Undo, Mod, Row, RowsTyped, JournalAssumption
  <2>3. updating' = ReverseDiff
    BY <1>4 DEF Rollback
  <2>4. Indexed' = cache
    <3>1. \A id \in RowId : (\E m \in updating' : m.id = id) \/ Target'[id] = cache[id]
      BY <2>1, <2>2, <2>3 DEF ReverseDiff, NetDiff
    <3> QED BY <1>1, <2>1, <3>1 DEF Indexed, RowsTyped
  <2>5. \A m \in updating' : LeadsToTarget(m)'
    <3> SUFFICES ASSUME NEW m \in ReverseDiff PROVE LeadsToTarget(m)'
      BY <2>3
    <3>1. PICK id \in DOMAIN added \cup DOMAIN modified \cup DOMAIN deleted : m = Undo(id)
      BY DEF ReverseDiff
    <3> QED BY <2>1, <2>2, <3>1 DEF LeadsToTarget
  <2> QED BY <2>1, <2>4, <2>5 DEF IInv, IndexInv, FailsOnlyOnReuse, AllUnique, UniqueAt
<1>5. CASE ExternalChange
  <2>1. /\ Settled /\ ~Settled' /\ Target' = external' /\ Indexed = cache
        /\ cache' = cache /\ index' = index /\ before' = cache /\ status' = "changing"
        /\ UniqueIn(external') /\ updating' = Modifications(external')
        /\ external' \in [RowId -> Row]
    BY <1>1, <1>5 DEF ExternalChange, Settled, Target, Indexed, RowsTyped, Row
  <2>2. AllUnique(external')
    BY <2>1 DEF UniqueIn, AllUnique, UniqueAt
  <2>3. \A m \in updating' : LeadsToTarget(m)'
    BY <1>1, <2>1 DEF Modifications, Mod, LeadsToTarget, RowsTyped, Row
  <2>4. Indexed' = cache
    <3>1. \A id \in RowId : Target'[id] # cache[id] => Mod(id, cache[id], external'[id]) \in updating'
      BY <2>1 DEF Modifications
    <3>2. \A id \in RowId : (\E m \in updating' : m.id = id) \/ Target'[id] = cache[id]
      BY <3>1 DEF Mod
    <3> QED BY <1>1, <2>1, <3>2 DEF Indexed, RowsTyped
  <2>5. AllUnique(cache)
    BY <2>1 DEF IInv, IndexInv
  <2> QED BY <2>1, <2>2, <2>3, <2>4, <2>5 DEF IInv, IndexInv, FailsOnlyOnReuse, AllUnique, UniqueAt
<1>6. CASE UpdateRow
  BY <1>6, UpdateRowKeepsIndices
<1>7. CASE RollbackCache
  <2>1. /\ ~Settled /\ Settled' /\ Target = before /\ updating = {} /\ updating' = {}
        /\ index' = index /\ before' = before /\ status' = "rolledBack"
    BY <1>7 DEF RollbackCache, Settled, Target
  <2>2. cache' = before
    BY <1>7, <2>1, NextDiffInv DEF IInv, DiffInv, RollbackRestores, Next
  <2>3. Indexed' = before /\ Indexed = before
    BY <1>1, <2>1, <2>2 DEF Indexed, RowsTyped
  <2> QED BY <2>1, <2>2, <2>3 DEF IInv, IndexInv, FailsOnlyOnReuse, AllUnique, UniqueAt
<1>8. CASE ChangeCache
  <2>1. /\ ~Settled /\ Settled' /\ Target = external /\ updating = {} /\ updating' = {}
        /\ index' = index /\ before' = external /\ cache' = external /\ status' = "terminated"
    BY <1>8 DEF ChangeCache, Settled, Target
  <2>2. Indexed' = external /\ Indexed = external
    BY <1>1, <2>1 DEF Indexed, RowsTyped
  <2> QED BY <2>1, <2>2 DEF IInv, IndexInv, FailsOnlyOnReuse, AllUnique, UniqueAt
<1>9. CASE Begin
  <2>1. /\ Settled /\ Settled' /\ updating' = updating /\ index' = index
        /\ cache' = cache /\ before' = cache /\ status' = "open"
    BY <1>9 DEF Begin, Settled
  <2>2. Indexed' = cache /\ Indexed = cache
    BY <1>1, <2>1 DEF Indexed, RowsTyped
  <2> QED BY <2>1, <2>2 DEF IInv, IndexInv, FailsOnlyOnReuse, AllUnique, UniqueAt
<1>10. CASE UNCHANGED vars
  <2>1. Indexed' = Indexed /\ Settled' = Settled /\ Target' = Target
    BY <1>10 DEF vars, Indexed, Settled, Target
  <2> QED BY <1>10, <2>1 DEF vars, IInv, IndexInv, FailsOnlyOnReuse, KeyReused,
                             AllUnique, UniqueAt, LeadsToTarget
<1> QED
  BY <1>2, <1>3, <1>4, <1>5, <1>6, <1>7, <1>8, <1>9, <1>10 DEF Next

(* An empty table has empty indices.                                       *)
LEMMA InitIInv == Init => IInv
<1> SUFFICES ASSUME Init PROVE IInv
  OBVIOUS
<1>1. /\ Settled /\ cache = Empty /\ before = Empty /\ Indexed = Empty
      /\ updating = {} /\ status = "open"
      /\ index = [i \in Indices |-> [k \in Keys[i] |-> {}]]
  BY DEF Init, Settled, Indexed, Empty
<1>2. AllUnique(Empty) /\ \A i \in Indices : Listing(i, Empty) = [k \in Keys[i] |-> {}]
  BY DEF AllUnique, UniqueAt, Listing, Empty
<1> QED BY <1>1, <1>2, InitDiffInv DEF IInv, IndexInv, FailsOnlyOnReuse

-----------------------------------------------------------------------------
(* The indices and the journal together, in every run.                     *)
THEOREM IndexInvariant == ZeroHasNoNull => (Spec => []IInv)
<1> SUFFICES ASSUME ZeroHasNoNull PROVE Spec => []IInv
  OBVIOUS
<1>1. IInv /\ [Next]_vars => IInv'
  BY NextDiffInv, NextKeepsIndices DEF IInv
<1> QED BY <1>1, InitIInv, PTL DEF Spec

(* The indices say of every settled table what its rows are                *)
(* (Journal.IndexMatchesCache): updateTableIndicesForRow and               *)
(* InMemoryUpdater.update lose and forget no row.                          *)
THEOREM IndexMatchesCacheHolds == ZeroHasNoNull => (Spec => []IndexMatchesCache)
<1>1. IInv => IndexMatchesCache
  <2> SUFFICES ASSUME IInv, Settled PROVE IndexMatchesCache
    BY DEF IndexMatchesCache
  <2>1. Indexed = cache
    BY DEF IInv, DiffInv, RowsTyped, Indexed
  <2>2. ASSUME NEW i \in Indices, NEW k \in Keys[i]
        PROVE  index[i][k] = {id \in RowId : cache[id] # Absent /\ Key(i, id, cache[id]) = k}
    <3>1. index[i] = Listing(i, cache)
      BY <2>1 DEF IInv, IndexInv
    <3> QED BY <3>1 DEF Listing
  <2>3. \A i \in Indices : \A k \in Keys[i] :
           {id \in RowId : cache[id] # Absent /\ Key(i, id, cache[id]) = k}
              = {id \in Rows : Key(i, id, cache[id]) = k}
    BY DEF Rows
  <2> QED BY <2>2, <2>3 DEF IndexMatchesCache
<1> QED BY <1>1, IndexInvariant, PTL

(* No history of a table gets two rows with one key past a unique index    *)
(* (Journal.UniqueKeys), which refuses in BTree.add.                       *)
THEOREM UniqueKeysHolds == ZeroHasNoNull => (Spec => []UniqueKeys)
<1>1. IInv => UniqueKeys
  <2> SUFFICES ASSUME IInv, Settled PROVE UniqueIn(cache)
    BY DEF UniqueKeys
  <2>1. Indexed = cache
    BY DEF IInv, DiffInv, RowsTyped, Indexed
  <2>2. Unique \subseteq Indices
    BY JournalAssumption
  <2> QED BY <2>1, <2>2 DEF IInv, IndexInv, AllUnique, UniqueAt, UniqueIn
<1> QED BY <1>1, IndexInvariant, PTL

(* What makes InMemoryUpdater.update throw half-way, in a rollback or in a *)
(* change by another client, is a unique key that goes from one row to     *)
(* another (Journal.FailsOnlyOnReuse), and nothing else.                   *)
THEOREM FailsOnlyOnReuseHolds == ZeroHasNoNull => (Spec => []FailsOnlyOnReuse)
<1>1. IInv => FailsOnlyOnReuse
  BY DEF IInv, IndexInv
<1> QED BY <1>1, IndexInvariant, PTL
=============================================================================
