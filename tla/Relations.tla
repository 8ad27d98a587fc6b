----------------------------- MODULE Relations ------------------------------
(***************************************************************************)
(* What the steps of a plan hand to each other (src/lib/proc/relation.js): *)
(* the names of the tables it comes from, a sequence of entries, and the   *)
(* aggregates computed of it.  An entry has an id and a row; a row maps    *)
(* the tables it comes from to their columns, whether or not the code has  *)
(* put the prefix of the table there yet.  Ids are the positions in the    *)
(* relation an entry was made for: only entries of relations that were     *)
(* filtered from one are ever compared.                                    *)
(***************************************************************************)
EXTENDS Comparator

Put(f, x, v) == [y \in DOMAIN f \cup {x} |-> IF y = x THEN v ELSE f[y]]

Nothing == [x \in {} |-> x]

-----------------------------------------------------------------------------
(* Columns, by their effective table; aggregated ones have the column they *)
(* are an aggregate of, which may itself be aggregated.                    *)

Column(table, name) == [fn |-> "COLUMN", table |-> table, name |-> name]
Star == [fn |-> "STAR"]
Aggregate(fn, of) == [fn |-> fn, of |-> of]

IsAggregate(column) == column.fn \notin {"COLUMN", "STAR"}

RECURSIVE ColumnChain(_)
\* AggregatedColumn.getColumnChain: the column and those it is computed from.
ColumnChain(column) ==
    IF IsAggregate(column) THEN <<column>> \o ColumnChain(column.of) ELSE <<column>>

-----------------------------------------------------------------------------

Relation(tables, entries) == [tables |-> tables, entries |-> entries, aggregates |-> Nothing]

EmptyRelation == Relation({}, <<>>)

\* New entries for rows: RelationEntry gives each an id of its own.
Entries(rows) == [i \in DOMAIN rows |-> [id |-> i, row |-> rows[i]]]

FromRows(rows, tables) == Relation(tables, Entries(rows))

Payloads(relation) == [i \in DOMAIN relation.entries |-> relation.entries[i].row]

Ids(relation) == {e.id : e \in ToSet(relation.entries)}

Filter(relation, Test(_)) ==
    Relation(relation.tables, SelectSeq(relation.entries, LAMBDA e : Test(e)))

IntersectRelations(relations) ==
    IF relations = <<>> THEN EmptyRelation
    ELSE Filter(relations[1], LAMBDA e : \A i \in DOMAIN relations : e.id \in Ids(relations[i]))

UnionRelations_All(relations) ==
    IF relations = <<>> THEN EmptyRelation
    ELSE Relation(relations[1].tables, FlattenSeq([i \in DOMAIN relations |-> relations[i].entries]))

UnionRelations(relations) ==
    IF relations = <<>> THEN EmptyRelation
    ELSE FoldLeft(LAMBDA all, next : Relation(all.tables,
                      all.entries \o SelectSeq(next.entries, LAMBDA e : e.id \notin Ids(all))),
                  Relation(relations[1].tables, <<>>), relations)

\* RelationEntry.getField and setField, where no column has an alias.
Field(entry, column) == entry.row[column.table][column.name]

\* combineEntries: the row of two entries of different tables.
Combined(left, right) ==
    [t \in DOMAIN left.row \cup DOMAIN right.row |->
        IF t \in DOMAIN right.row THEN right.row[t] ELSE left.row[t]]

CrossProduct(left, right) ==
    FromRows(FlattenSeq([i \in DOMAIN left.entries |->
                 [j \in DOMAIN right.entries |-> Combined(left.entries[i], right.entries[j])]]),
             left.tables \cup right.tables)

SetAggregate(relation, column, result) ==
    [relation EXCEPT !.aggregates = Put(@, column, result)]

HasAggregate(relation, column) == column \in DOMAIN relation.aggregates
AggregateOf(relation, column) == relation.aggregates[column]
=============================================================================
