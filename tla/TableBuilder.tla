---------------------------- MODULE TableBuilder ----------------------------
(***************************************************************************)
(* lf.schema.TableBuilder (src/lib/schema/table_builder.js): the calls     *)
(* that declare a table.  A call is an operator that gives the builder     *)
(* after it.  A call that throws may have changed the builder before: the  *)
(* program may catch the exception and go on.                              *)
(*                                                                         *)
(* The names of columns, indices and keys are all well formed, and none is *)
(* the table's own; the order and autoIncrement of indexed columns are left*)
(* out, but for the checks of a primary key.                               *)
(***************************************************************************)
EXTENDS Naturals, Sequences, SequencesExt, FiniteSets

\* 'pk' followed by the name of the table: one name stands for it in each.
PkName == "pk"

\* No primary key has been asked for.
NoKey == "no key"

NotIndexable == {"OBJECT", "ARRAY_BUFFER"}

With(f, x, v) == [y \in DOMAIN f \cup {x} |-> IF y = x THEN v ELSE f[y]]

NewTable ==
    [columns       |-> [c \in {} |-> "type"],
     uniqueColumns |-> {},
     uniqueIndices |-> {},
     nullable      |-> {},
     pkName        |-> NoKey,
     indices       |-> [name \in {} |-> <<>>],
     fks           |-> <<>>]

-----------------------------------------------------------------------------
\* checkNameConflicts_
Taken(b, name) ==
    name \in DOMAIN b.columns \cup DOMAIN b.indices \cup b.uniqueIndices

\* normalizeColumns_ does not throw.
Known(b, columns) == ToSet(columns) \subseteq DOMAIN b.columns

Indexable(b, columns) ==
    Known(b, columns) /\ \A c \in ToSet(columns) : b.columns[c] \notin NotIndexable

AddNullable(b, columns) ==
    IF Known(b, columns) THEN [b EXCEPT !.nullable = @ \cup ToSet(columns)] ELSE b

AddColumn(b, name, type) ==
    IF Taken(b, name) THEN b
    ELSE LET added == [b EXCEPT !.columns = With(@, name, type)]
         IN  IF type \in NotIndexable THEN AddNullable(added, <<name>>) ELSE added

AddIndex(b, name, columns, unique) ==
    IF Taken(b, name) \/ ~Indexable(b, columns) THEN b
    ELSE [b EXCEPT !.indices = With(@, name, columns),
                   !.uniqueIndices = IF unique THEN @ \cup {name} ELSE @]

\* checkPrimaryKey_
AutoIncrements(b, columns) ==
    Len(columns) = 1 /\ \A c \in ToSet(columns) : b.columns[c] = "INTEGER"

\* The name is set before anything is checked.
AddPrimaryKey(b, columns, autoIncrement) ==
    LET named == [b EXCEPT !.pkName = PkName]
    IN  IF \/ Taken(b, PkName)
           \/ ~Indexable(b, columns)
           \/ autoIncrement /\ ~AutoIncrements(b, columns)
        THEN named
        ELSE [AddIndex(named, PkName, columns, TRUE) EXCEPT
                !.uniqueColumns = IF Len(columns) = 1 THEN @ \cup ToSet(columns) ELSE @]

\* The key is kept before its index, which may be refused.  fk has the name
\* of its index, its column, the parent table and column, action and timing.
AddForeignKey(b, fk) ==
    IF \/ Taken(b, fk.name)
       \/ fk.action = "CASCADE" /\ fk.timing = "DEFERRABLE"
       \/ fk.column \notin DOMAIN b.columns
    THEN b
    ELSE AddIndex([b EXCEPT !.fks = Append(@, fk)],
                  fk.name, <<fk.column>>, fk.column \in b.uniqueColumns)

\* markFkIndexForColumnUnique_
MarkFkIndexUnique(b, column) ==
    [b EXCEPT !.uniqueIndices =
        @ \cup {fk.name : fk \in {k \in ToSet(b.fks) : k.column = column}}]

AddUnique(b, name, columns) ==
    IF Taken(b, name) \/ ~Indexable(b, columns) THEN b
    ELSE LET marked == IF Len(columns) # 1 THEN b
                       ELSE MarkFkIndexUnique(
                              [b EXCEPT !.uniqueColumns = @ \cup ToSet(columns)],
                              columns[1])
         IN  AddIndex(marked, name, columns, TRUE)

-----------------------------------------------------------------------------
(* getSchema(): the table, or an exception.                                *)

PkColumns(b) == b.indices[b.pkName]

\* checkPrimaryKeyNotForeignKey_
PkRefersNowhere(b) ==
    \A fk \in ToSet(b.fks) : fk.column \notin ToSet(PkColumns(b))

\* checkPrimaryKeyDuplicateIndex_
PkIndexedOnce(b) ==
    \A name \in DOMAIN b.indices \ {b.pkName} : b.indices[name] # PkColumns(b)

\* checkPrimaryKeyNotNullable_
PkNotNullable(b) == b.nullable \cap ToSet(PkColumns(b)) = {}

\* Without the index that pkName_ names, the first of them fails on undefined.
GivesTable(b) ==
    b.pkName # NoKey =>
        /\ b.pkName \in DOMAIN b.indices
        /\ PkRefersNowhere(b) /\ PkIndexedOnce(b) /\ PkNotNullable(b)

\* generateTableClass_.  The table has copies of everything but the array of
\* foreign keys, which stays the builder's.
TableOf(b) ==
    [columns     |-> b.columns,
     unique      |-> b.uniqueColumns,
     notNullable |-> DOMAIN b.columns \ b.nullable,
     indices     |-> [name \in DOMAIN b.indices |->
                        [columns |-> b.indices[name], unique |-> name \in b.uniqueIndices]],
     pk          |-> IF b.pkName = NoKey THEN <<>> ELSE PkColumns(b)]
=============================================================================
