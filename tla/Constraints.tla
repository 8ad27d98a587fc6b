---------------------------- MODULE Constraints ----------------------------
(***************************************************************************)
(* One transaction on tables with foreign keys: the statements that its    *)
(* journal (src/lib/cache/journal.js) carries out with the checks and the  *)
(* cascades of lf.cache.ConstraintChecker                                  *)
(* (src/lib/cache/constraint_checker.js).                                  *)
(*                                                                         *)
(* A statement runs to its end in one step of the program, but it is a     *)
(* series of checks and modifications that an exception ends anywhere; the *)
(* modifications before it stay until the task rolls back.  An index gives *)
(* the rows that have a key, and the journal's difference is the net one:  *)
(* both as Journal.tla shows.                                              *)
(***************************************************************************)
EXTENDS Naturals, Sequences, SequencesExt, FiniteSets

CONSTANTS
    RowId,       \* row ids, unique among all tables
    TableOf,     \* the table each of them is for
    ValuesOf,    \* what each row may contain: functions from columns to keys
    Absent,      \* no row
    NullKey,     \* null
    PrimaryKey,  \* the primary key column of each table
    Uniques,     \* the unique columns of each table
    NotNullable, \* the columns of each table that may not be null
    ForeignKeys, \* lf.schema.ForeignKeySpec, in the order of the schema
    Replaceable, \* the tables on which insertOrReplace() is used
    MaxStatements \* bound on the statements of a transaction

Table == {TableOf[id] : id \in RowId}

RowsOf(t) == {id \in RowId : TableOf[id] = t}

Columns(t) == UNION {DOMAIN v : v \in UNION {ValuesOf[id] : id \in RowsOf(t)}}

Key == UNION {{v[column] : column \in DOMAIN v} : v \in UNION {ValuesOf[id] : id \in RowId}}

Row(t) == [Columns(t) -> Key]

ASSUME RowAssumption ==
    /\ RowId \subseteq Nat
    /\ \A id \in RowId : ValuesOf[id] \subseteq Row(TableOf[id])
    /\ \A t \in Table : Absent \notin Row(t)

Specs == {ForeignKeys[n] : n \in DOMAIN ForeignKeys}

\* The builder (src/lib/schema/builder.js and table_builder.js) refuses a
\* schema of which this is not so.
ASSUME SchemaAssumption ==
    /\ ForeignKeys \in Seq(Specs)
    /\ \A fk \in Specs :
          /\ fk.child \in Table /\ fk.column \in Columns(fk.child)
          /\ fk.parent \in Table /\ fk.ref \in Uniques[fk.parent]
          /\ fk.column # PrimaryKey[fk.child]
          /\ fk.action \in {"RESTRICT", "CASCADE"}
          /\ fk.timing \in {"IMMEDIATE", "DEFERRABLE"}
          /\ fk.action = "CASCADE" => fk.timing = "IMMEDIATE"
          /\ \A other \in Specs : ~(other.child = fk.parent /\ other.column = fk.ref)
    /\ \A t \in Table : PrimaryKey[t] \in Uniques[t] /\ Uniques[t] \subseteq Columns(t)
    /\ \E depth \in [Table -> 0..Len(ForeignKeys)] :
          \A fk \in Specs : fk.child # fk.parent => depth[fk.parent] < depth[fk.child]

\* The builder lets a table refer to itself.  If its foreign key cascades,
\* a row that refers to itself makes detectCascadeDeletion go on for ever,
\* and a row that is deleted both by a statement and by its cascade is
\* deleted twice: such schemas are left out.
ASSUME NoSelfCascade ==
    \A fk \in Specs : fk.action = "CASCADE" => fk.child # fk.parent

VARIABLES
    rows,      \* lf.cache.Cache
    before,    \* the rows as the transaction found them
    status,    \* of the journal, or what made the last statement throw
    statements \* how many the transaction has done

vars == <<rows, before, status, statements>>

-----------------------------------------------------------------------------
(* Rows, keys and modifications.                                           *)

Present(db, t) == {id \in RowId : TableOf[id] = t /\ db[id] # Absent}

\* index.get and index.containsKey of a column's index.
RowsWith(db, t, column, key) == {id \in Present(db, t) : db[id][column] = key}

\* lf.cache.Modification.  Modifications are functions from row ids.
Mod(then, now) == [then |-> then, now |-> now]

\* didColumnValueChange_, of a modification that is not empty.
Changed(m, column) ==
    m.then = Absent \/ m.now = Absent \/ m.then[column] # m.now[column]

\* The state of a statement: the rows so far and what it has thrown.
Running(db) == [rows |-> db, thrown |-> "no"]

Check(s, error, holds) ==
    IF s.thrown = "no" /\ ~holds THEN [s EXCEPT !.thrown = error] ELSE s

\* updateTableIndicesForRow throws: another row has a key of the new one.
Refuses(db, id, m) ==
    /\ m.now # Absent
    /\ \E column \in Uniques[TableOf[id]] :
          /\ Changed(m, column) /\ m.now[column] # NullKey
          /\ RowsWith(db, TableOf[id], column, m.now[column]) # {}

With(db, mods, done) == [id \in RowId |-> IF id \in done THEN mods[id].now ELSE db[id]]

\* Journal.modifyRow_ of one row after the other, in the order of their ids,
\* until an index refuses one.
ModifyRows(s, mods) ==
    LET Earlier(id) == {e \in DOMAIN mods : e < id}
        refused == {id \in DOMAIN mods :
                        Refuses(With(s.rows, mods, Earlier(id)), id, mods[id])}
        first == CHOOSE id \in refused : \A other \in refused : id <= other
    IN  IF s.thrown # "no" THEN s
        ELSE IF refused = {} THEN [s EXCEPT !.rows = With(@, mods, DOMAIN mods)]
        ELSE [rows |-> With(s.rows, mods, Earlier(first)), thrown |-> "unique"]

-----------------------------------------------------------------------------
(* The checks of ConstraintChecker.                                        *)

CheckNotNullable(t, s, mods) ==
    Check(s, "null", \A id \in DOMAIN mods : \A column \in NotNullable[t] :
                        mods[id].now[column] # NullKey)

ReferredExist_ChangedOnly(t, db, mods, timing) ==
    \A fk \in Specs : (fk.child = t /\ fk.timing = timing) =>
        \A id \in DOMAIN mods :
            mods[id].then # Absent =>
                \/ ~Changed(mods[id], fk.column)
                \/ mods[id].now[fk.column] = NullKey
                \/ RowsWith(db, fk.parent, fk.ref, mods[id].now[fk.column]) # {}

\* checkReferredKeys_: the keys that new or changed rows refer to exist.
ReferredExist(t, db, mods, timing) ==
    \A fk \in Specs : (fk.child = t /\ fk.timing = timing) =>
        \A id \in DOMAIN mods :
            Changed(mods[id], fk.column) =>
                \/ mods[id].now[fk.column] = NullKey
                \/ RowsWith(db, fk.parent, fk.ref, mods[id].now[fk.column]) # {}

\* checkReferringKeys_: nobody refers to a key that goes.  Asked about a row
\* that is not there, it throws too.
NoneRefers(t, db, mods, timing) ==
    \A fk \in Specs :
        (fk.parent = t /\ fk.action = "RESTRICT" /\ fk.timing = timing) =>
            \A id \in DOMAIN mods :
                /\ mods[id].then # Absent
                /\ Changed(mods[id], fk.ref) =>
                      RowsWith(db, fk.child, fk.column, mods[id].then[fk.ref]) = {}

CheckForeignKeysForInsert(t, s, mods, timing) ==
    Check(s, "foreign", ReferredExist(t, s.rows, mods, timing))

CheckForeignKeysForUpdate(t, s, mods, timing) ==
    Check(s, "foreign", /\ ReferredExist(t, s.rows, mods, timing)
                        /\ NoneRefers(t, s.rows, mods, timing))

CheckForeignKeysForDelete(t, s, mods, timing) ==
    Check(s, "foreign", NoneRefers(t, s.rows, mods, timing))

-----------------------------------------------------------------------------
(* Cascading updates.                                                      *)

\* detectCascadeUpdates: which foreign key of which row (id) follows which of
\* the modified rows (by).
CascadeUpdates(t, db, mods) ==
    {u \in [fk : DOMAIN ForeignKeys, by : DOMAIN mods, id : RowId] :
        LET fk == ForeignKeys[u.fk]
        IN  /\ fk.parent = t /\ fk.action = "CASCADE"
            /\ Changed(mods[u.by], fk.ref)
            /\ u.id \in RowsWith(db, fk.child, fk.column, mods[u.by].then[fk.ref])}

\* The order in which loopThroughReferringRows_ finds them.
FoundBefore(u, v) ==
    \/ u.fk < v.fk
    \/ u.fk = v.fk /\ u.by < v.by
    \/ u.fk = v.fk /\ u.by = v.by /\ u.id < v.id

\* updateByCascade_ does all those of a row where it has found the first.
DoneBefore(us, u, v) ==
    IF u.id = v.id THEN FoundBefore(u, v)
    ELSE \E w \in us : w.id = u.id /\ \A x \in us : x.id = v.id => FoundBefore(w, x)

Sets(u, id, column) == u.id = id /\ ForeignKeys[u.fk].column = column

\* The rows after some of the updates.  Those that set one column of a row
\* agree on its key: the statement gives all its rows the same.
Followed(db, mods, us) ==
    [id \in RowId |->
        IF \A u \in us : u.id # id THEN db[id]
        ELSE [column \in Columns(TableOf[id]) |->
                 IF \A u \in us : ~Sets(u, id, column) THEN db[id][column]
                 ELSE LET last == CHOOSE u \in us : Sets(u, id, column)
                      IN  mods[last.by].now[ForeignKeys[last.fk].ref]]]

FollowedFromBefore(db, mods, us) ==
    [id \in RowId |->
        IF \A u \in us : u.id # id THEN db[id]
        ELSE LET last == CHOOSE u \in us : u.id = id /\ \A v \in us : v.id = id =>
                                                            v = u \/ FoundBefore(v, u)
             IN  [db[id] EXCEPT ![ForeignKeys[last.fk].column] =
                                    mods[last.by].now[ForeignKeys[last.fk].ref]]]

UpdateByCascade_FromBefore(t, s, mods) ==
    IF s.thrown # "no" THEN s
    ELSE [s EXCEPT !.rows = FollowedFromBefore(@, mods, CascadeUpdates(t, @, mods))]

\* updateByCascade_: each starts from the row as the ones before left it.
UpdateByCascade(t, s, mods) ==
    LET us == CascadeUpdates(t, s.rows, mods)
        Earlier(u) == {v \in us : DoneBefore(us, v, u)}
        Left(u) == Followed(s.rows, mods, Earlier(u))
        Next1(u) == Followed(s.rows, mods, Earlier(u) \cup {u})
        refused == {u \in us : Refuses(Left(u), u.id, Mod(Left(u)[u.id], Next1(u)[u.id]))}
        first == CHOOSE u \in refused : \A v \in refused : v = u \/ DoneBefore(us, u, v)
    IN  IF s.thrown # "no" THEN s
        ELSE IF refused = {} THEN [s EXCEPT !.rows = Followed(@, mods, us)]
        ELSE [rows |-> Left(first), thrown |-> "unique"]

-----------------------------------------------------------------------------
(* Cascading deletions.  A round of detectCascadeDeletion finds the rows   *)
(* that refer to those of the last round:                                  *)
(*   last, keys    the rows found by table, and the tables as they came up *)
(*   tables        the tables that findReferringRowIds_ has come up with   *)
(*   all, order    the result, rowIdsPerTable and tableOrder.              *)

AppendNew(seq, t) == IF t \in ToSet(seq) THEN seq ELSE Append(seq, t)

\* The rows that refer to some rows by a foreign key.
Referring(db, fk, ids) ==
    {c \in Present(db, fk.child) : \E p \in ids : db[c][fk.column] = db[p][fk.ref]}

\* One foreign key of findReferringRowIds_, asked about rows of t.
FindReferring(db, t, ids, fk, r) ==
    LET hit == Referring(db, fk, ids)
    IN  IF fk.parent # t \/ fk.action # "CASCADE" \/ hit = {} THEN r
        ELSE [r EXCEPT !.last[fk.child] = @ \cup hit,
                       !.keys   = AppendNew(@, fk.child),
                       !.tables = AppendNew(@, fk.child)]

\* One table of a round: the tables it comes up with go to the front.
VisitTable(db, t, ids, r) ==
    LET visit[n \in 0..Len(ForeignKeys)] ==
            IF n = 0 THEN [r EXCEPT !.tables = <<>>]
            ELSE FindReferring(db, t, ids, ForeignKeys[n], visit[n - 1])
        v == visit[Len(ForeignKeys)]
    IN  [v EXCEPT !.order = v.tables \o @]

NextRound(db, r) ==
    LET round[n \in 0..Len(r.keys)] ==
            IF n = 0 THEN [r EXCEPT !.last = [c \in Table |-> {}], !.keys = <<>>]
            ELSE VisitTable(db, r.keys[n], r.last[r.keys[n]], round[n - 1])
        f == round[Len(r.keys)]
    IN  [f EXCEPT !.all = [c \in Table |-> @[c] \cup f.last[c]]]

FirstRound(t, ids) ==
    [last |-> [c \in Table |-> IF c = t THEN ids ELSE {}], keys |-> <<t>>,
     tables |-> <<>>, all |-> [c \in Table |-> {}], order |-> <<>>]

DetectCascadeDeletion_Children(t, db, ids) == NextRound(db, FirstRound(t, ids))

\* detectCascadeDeletion; no path of foreign keys is longer than there are
\* foreign keys, so that the last round finds nothing or is the last that can.
DetectCascadeDeletion(t, db, ids) ==
    LET found[n \in 0..Len(ForeignKeys)] ==
            IF n = 0 THEN FirstRound(t, ids) ELSE NextRound(db, found[n - 1])
    IN  found[Len(ForeignKeys)]

Deletions(db, ids) == [id \in ids |-> Mod(db[id], Absent)]

\* removeByCascade_: table after table, until a check fails.  A table that is
\* twice in the order is done twice.
RemoveByCascade(t, db, ids) ==
    LET found == DetectCascadeDeletion(t, db, ids)
        Left(n) == [id \in RowId |-> IF \E m \in 1..(n - 1) : id \in found.all[found.order[m]]
                                     THEN Absent ELSE db[id]]
        fails == {n \in 1..Len(found.order) :
                     LET c == found.order[n]
                     IN  ~NoneRefers(c, Left(n), Deletions(Left(n), found.all[c]), "IMMEDIATE")}
        first == CHOOSE n \in fails : \A m \in fails : n <= m
    IN  IF fails = {} THEN Running(Left(Len(found.order) + 1))
        ELSE [rows |-> Left(first), thrown |-> "foreign"]

-----------------------------------------------------------------------------
(* Statements.                                                             *)

Consistent(db, timings) ==
    \A fk \in Specs : fk.timing \in timings =>
        \A c \in Present(db, fk.child) :
            \/ db[c][fk.column] = NullKey
            \/ RowsWith(db, fk.parent, fk.ref, db[c][fk.column]) # {}

UniqueHold(db) ==
    \A t \in Table : \A column \in Uniques[t] : \A id \in Present(db, t) :
        db[id][column] # NullKey => RowsWith(db, t, column, db[id][column]) = {id}

Init ==
    /\ rows = [id \in RowId |-> Absent]
    /\ before = rows
    /\ status = "open"
    /\ statements = 0

\* A statement that throws leaves what it did to the rollback.
Ends(s) ==
    /\ rows' = s.rows
    /\ status' = IF s.thrown = "no" THEN "open" ELSE s.thrown
    /\ statements' = statements + 1
    /\ UNCHANGED before

CanExecute == status = "open" /\ statements < MaxStatements

\* Journal.insert, of rows of one table.
Insert(t, new) ==
    /\ CanExecute
    /\ LET mods == [id \in DOMAIN new |-> Mod(Absent, new[id])]
           s    == CheckNotNullable(t, Running(rows), mods)
       IN  Ends(ModifyRows(CheckForeignKeysForInsert(t, s, mods, "IMMEDIATE"), mods))

\* Journal.update, of rows that get the same key in a column.
Update(t, ids, column, key) ==
    /\ CanExecute
    /\ LET mods == [id \in ids |-> Mod(rows[id], [rows[id] EXCEPT ![column] = key])]
           s    == UpdateByCascade(t, CheckNotNullable(t, Running(rows), mods), mods)
       IN  Ends(ModifyRows(CheckForeignKeysForUpdate(t, s, mods, "IMMEDIATE"), mods))

\* Journal.insertOrReplace, of one row: a row that has its primary key is
\* replaced.
InsertOrReplace(t, id, now) ==
    /\ CanExecute /\ t \in Replaceable
    /\ LET existing == RowsWith(rows, t, PrimaryKey[t], now[PrimaryKey[t]])
           there == IF existing = {} THEN id ELSE CHOOSE e \in existing : TRUE
           mods  == [e \in {there} |-> Mod(rows[e], now)]
           s     == CheckNotNullable(t, Running(rows), mods)
           checked == IF existing = {}
                      THEN CheckForeignKeysForInsert(t, s, mods, "IMMEDIATE")
                      ELSE CheckForeignKeysForUpdate(t, s, mods, "IMMEDIATE")
       IN  Ends(ModifyRows(checked, mods))

\* Journal.remove
Remove1(t, ids) ==
    /\ CanExecute
    /\ LET mods == Deletions(rows, ids)
           s    == RemoveByCascade(t, rows, ids)
       IN  Ends(ModifyRows(CheckForeignKeysForDelete(t, s, mods, "IMMEDIATE"), mods))

\* The journal's difference, of some rows.
Net(ids) == [id \in ids |-> Mod(before[id], rows[id])]

Added(t)    == {id \in RowsOf(t) : before[id] = Absent /\ rows[id] # Absent}
Deleted(t)  == {id \in RowsOf(t) : before[id] # Absent /\ rows[id] = Absent}
Modified(t) == {id \in RowsOf(t) : before[id] # Absent /\ rows[id] # Absent
                                   /\ before[id] # rows[id]}

\* Journal.checkDeferredConstraints
DeferredHold ==
    \A t \in Table :
        /\ ReferredExist(t, rows, Net(Added(t) \cup Modified(t)), "DEFERRABLE")
        /\ NoneRefers(t, rows, Net(Deleted(t) \cup Modified(t)), "DEFERRABLE")

Commit ==
    /\ status = "open"
    /\ status' = IF DeferredHold THEN "committed" ELSE "foreign"
    /\ UNCHANGED <<rows, before, statements>>

\* A row has a key that another row of its table is to get back.
Holds(s, r) ==
    /\ s # r /\ TableOf[s] = TableOf[r] /\ rows[s] # Absent /\ before[r] # Absent
    /\ \E column \in Uniques[TableOf[r]] :
          before[r][column] # NullKey /\ rows[s][column] = before[r][column]

\* InMemoryUpdater.update takes the reversed difference of a table to its
\* indices row by row: deleted rows come back first, then modified ones get
\* their values back, then added ones go.  A row is refused if the one that
\* has its key now comes later.  Modified rows come in the order in which the
\* transaction got to them, which is not kept here: any order.
MayRefuse(t) == \E r, s \in RowsOf(t) : Holds(s, r)

\* No order of the modified rows helps.
MustRefuse(t) ==
    \/ \E r, s \in RowsOf(t) : Holds(s, r) /\ (r \in Deleted(t) \/ s \in Added(t))
    \/ \E S \in (SUBSET Modified(t)) \ {{}} : \A r \in S : \E s \in S : Holds(s, r)

CanRollBack == status \in {"open", "null", "foreign", "unique"}

\* Journal.rollback
Rollback ==
    /\ CanRollBack
    /\ \A t \in Table : ~MustRefuse(t)
    /\ rows' = before
    /\ status' = "rolledBack"
    /\ UNCHANGED <<before, statements>>

\* Journal.rollback throws half-way: some tables are as they were, the others
\* as the transaction left them, and the indices of the one refused are not
\* those of its rows (Journal.tla): nothing more is said of this database.
RollbackThrows ==
    /\ CanRollBack
    /\ \E refused \in Table :
          /\ MayRefuse(refused)
          /\ \E done \in SUBSET {t \in Table \ {refused} : ~MustRefuse(t)} :
                rows' = [id \in RowId |-> IF TableOf[id] \in done THEN before[id] ELSE rows[id]]
    /\ status' = "rollbackFailed"
    /\ UNCHANGED <<before, statements>>

\* The next transaction.
Begin ==
    /\ status \in {"committed", "rolledBack"}
    /\ before' = rows /\ status' = "open" /\ statements' = 0
    /\ UNCHANGED rows

Statement(t) ==
    \/ \E ids \in (SUBSET (RowsOf(t) \ Present(rows, t))) \ {{}} :
          \E new \in [ids -> UNION {ValuesOf[id] : id \in ids}] :
              (\A id \in ids : new[id] \in ValuesOf[id]) /\ Insert(t, new)
    \/ \E ids \in (SUBSET Present(rows, t)) \ {{}}, column \in Columns(t) :
          \E key \in {v[column] : v \in UNION {ValuesOf[id] : id \in RowsOf(t)}} :
              /\ \A id \in ids : [rows[id] EXCEPT ![column] = key] \in ValuesOf[id]
              /\ Update(t, ids, column, key)
    \/ \E id \in RowsOf(t) \ Present(rows, t) : \E now \in ValuesOf[id] :
          InsertOrReplace(t, id, now)
    \/ \E ids \in (SUBSET Present(rows, t)) \ {{}} : Remove1(t, ids)

Next == (\E t \in Table : Statement(t)) \/ Commit \/ Rollback \/ RollbackThrows \/ Begin

Spec == Init /\ [][Next]_vars

-----------------------------------------------------------------------------
(* Between statements every immediate foreign key holds, and when the      *)
(* transaction commits or has rolled back the deferrable ones do too: no   *)
(* order of checks and cascades leaves a row that refers to nothing.  A    *)
(* rollback that a unique index refuses ("rollbackFailed") may: the        *)
(* property says nothing of the rows then.                                 *)
NoOrphans ==
    /\ status \in {"open", "committed"} => Consistent(rows, {"IMMEDIATE"})
    /\ status \in {"committed", "rolledBack"} => Consistent(rows, {"DEFERRABLE"})

\* The rows that go with some others, by definition of CASCADE.
RefersBy(fk, db, c, p) ==
    /\ fk.action = "CASCADE"
    /\ fk.child = TableOf[c] /\ fk.parent = TableOf[p]
    /\ db[c] # Absent /\ db[p] # Absent
    /\ db[c][fk.column] = db[p][fk.ref] /\ db[p][fk.ref] # NullKey

Refers(db, c, p) == \E fk \in Specs : RefersBy(fk, db, c, p)

Dependents(db, ids) ==
    LET closed == {S \in SUBSET RowId : ids \subseteq S /\
                      \A c \in RowId \ S : \A p \in S : ~Refers(db, c, p)}
    IN  CHOOSE S \in closed : \A other \in closed : S \subseteq other

(* "When a row in the parent is deleted, all related rows in the child     *)
(* table, should be automatically deleted"                                 *)
(* (docs/spec/08_referential_integrity.md:64): a deletion that succeeds    *)
(* takes exactly the rows that depend on the deleted ones, through any     *)
(* number of tables and also when two paths lead to a row.                 *)
DeletesDependents ==
    [][\A t \in Table : \A ids \in (SUBSET Present(rows, t)) \ {{}} :
          (Remove1(t, ids) /\ status' = "open") =>
              rows' = [id \in RowId |-> IF id \in Dependents(rows, ids)
                                       THEN Absent ELSE rows[id]]]_vars

(* "When a column in the parent table is updated, all referencing columns  *)
(* should be automatically updated" (08_referential_integrity.md:69): a    *)
(* row that referred to another by some column does so after any statement *)
(* that deletes nothing, unless that statement gave the row itself another *)
(* key; also when several columns of it refer to one row.                  *)
ReferencesFollow ==
    [][(status = "open" /\ status' = "open" /\ before' = before /\
        \A id \in RowId : rows[id] # Absent => rows'[id] # Absent) =>
           \A fk \in Specs : \A c, p \in RowId : RefersBy(fk, rows, c, p) =>
               \/ RefersBy(fk, rows', c, p)
               \/ rows'[c] # rows[c] /\ rows'[p] = rows[p]]_vars
=============================================================================
