----------------------------- MODULE QuerySteps -----------------------------
(***************************************************************************)
(* The execution of a physical plan (src/lib/proc/*_step.js,               *)
(* relation_transformer.js): each step turns the relations of its children *)
(* into a sequence of relations.                                           *)
(* Numbers are positive, so that null, which JavaScript sorts as 0, is the *)
(* least; GEOMEAN and STDDEV are the values they are computed from.        *)
(***************************************************************************)
EXTENDS PhysicalPlan, FiniteSetsExt

Smaller(a, b) == IF a < b THEN a ELSE b

\* lf.index.slice: skipped and cut, from the end when reversed.
Sliced(ids, reverse, limit, skip) ==
    LET turned == IF reverse THEN Reverse(ids) ELSE ids
        from == IF skip = Null THEN 0 ELSE skip
        count == IF limit = Null THEN Len(ids) ELSE limit
    IN  SubSeq(turned, from + 1, Smaller(Len(ids), from + count))

-----------------------------------------------------------------------------
(* Steps at the leaves.                                                    *)

RowsAsEntries(table, db, ids) ==
    FromRows([i \in DOMAIN ids |-> Put(Nothing, table, db[BaseOf[table]][ids[i]])], {table})

TableAccessFull(table, db) == RowsAsEntries(table, db, [r \in DOMAIN db[BaseOf[table]] |-> r])

\* IndexRangeScanStep; ranges are the combinations of the calculator.
IndexRangeScan(scan, ranges, db, query) ==
    LET rows == db[BaseOf[scan.table]]
        limit == IF scan.limit THEN query.limit ELSE Null
        skip == IF scan.skip THEN query.skip ELSE Null
        isOnly == Len(ranges) = 1 /\ Len(scan.index.columns) = 1 /\ IsOnly(ranges[1][1])
        sorted == SortKeyRanges(scan.index.orders, ranges)
        ids == IF isOnly THEN RowsOfKey(scan.index, rows, <<ranges[1][1].from>>)
               ELSE FlattenSeq([i \in DOMAIN sorted |-> RowsInRange(scan.index, rows, sorted[i])])
    IN  FromRows(Sliced(ids, scan.reverse /\ ~isOnly, limit, skip), {BaseOf[scan.table]})

\* MultiIndexRangeScanStep: rows of any of the scans, once.
MultiIndexRangeScan(relations) ==
    LET ids == FlattenSeq([i \in DOMAIN relations |-> Payloads(relations[i])])
    IN  FromRows(FoldLeft(LAMBDA seen, r : IF r \in ToSet(seen) THEN seen ELSE Append(seen, r), <<>>, ids),
                 relations[1].tables)

-----------------------------------------------------------------------------
(* AggregationStep and GroupByStep                                         *)

Values(relation, column) ==
    LET all == [i \in DOMAIN relation.entries |-> Field(relation.entries[i], column)]
    IN  SelectSeq(all, LAMBDA v : v # Null)

Total(values) == FoldLeft(LAMBDA sum, v : sum + v, 0, values)

InOrder(values) == SortSeq(values, LAMBDA a, b : a < b)

\* distinct_: the last entry of each value, in the order of the first ones.
DistinctEntries(relation, column) ==
    LET entries == relation.entries
        Same(i, j) == Field(entries[i], column) = Field(entries[j], column)
        firsts == SelectSeq([i \in DOMAIN entries |-> i], LAMBDA i : \A j \in 1..(i - 1) : ~Same(i, j))
        LastOf(i) == CHOOSE j \in DOMAIN entries :
                         Same(i, j) /\ \A k \in (j + 1)..Len(entries) : ~Same(i, k)
    IN  Relation(relation.tables, [n \in DOMAIN firsts |-> entries[LastOf(firsts[n])]])

\* evalAggregation_
EvalAggregation(fn, relation, column) ==
    IF fn = "DISTINCT" THEN DistinctEntries(relation, column)
    ELSE IF column = Star THEN Len(relation.entries)
    ELSE LET values == Values(relation, column)
         IN  CASE fn = "COUNT" -> Len(values)
               [] values = <<>> -> Null
               [] fn = "MIN" -> InOrder(values)[1]
               [] fn = "MAX" -> Last(InOrder(values))
               [] fn = "SUM" -> Total(values)
               [] fn = "AVG" -> <<Total(values), Len(values)>>
               [] fn \in {"GEOMEAN", "STDDEV"} -> InOrder(values)

\* One column of Calculator_.calculate: from the innermost aggregate outwards,
\* and nothing more once one is found that has been computed before.
Calculate(relation, column) ==
    LET chain == Tail(Reverse(ColumnChain(column)))
        Compute(found, c) ==
            LET input == IF IsAggregate(c.of) THEN AggregateOf(found.relation, c.of) ELSE found.relation
            IN  IF found.over \/ HasAggregate(input, c) THEN [found EXCEPT !.over = TRUE]
                ELSE [found EXCEPT !.relation =
                         SetAggregate(@, c, EvalAggregation(c.fn, input, Last(ColumnChain(c))))]
    IN  FoldLeft(Compute, [relation |-> relation, over |-> FALSE], chain).relation

Aggregation(relations, columns) ==
    [i \in DOMAIN relations |-> FoldLeft(Calculate, relations[i], columns)]

\* One relation for each combination of values, in the order of their rows.
GroupBy(relation, columns) ==
    LET KeyOfEntry(e) == [i \in DOMAIN columns |-> Field(e, columns[i])]
        keys == FoldLeft(LAMBDA seen, e : IF KeyOfEntry(e) \in ToSet(seen) THEN seen ELSE Append(seen, KeyOfEntry(e)),
                         <<>>, relation.entries)
    IN  [i \in DOMAIN keys |-> Filter(relation, LAMBDA e : KeyOfEntry(e) = keys[i])]

-----------------------------------------------------------------------------
(* OrderByStep                                                             *)

Rank(value) == IF value = Null THEN 0 ELSE value

\* comparator_ of two sequences with a value for each column.
Precedes(orderBy, left, right) ==
    \E i \in DOMAIN orderBy :
        /\ \A j \in 1..(i - 1) : left[j] = right[j]
        /\ IF orderBy[i].order = "ASC" THEN Rank(left[i]) < Rank(right[i]) ELSE Rank(left[i]) > Rank(right[i])

\* A stable sort of things with a sequence of values each.
SortedBy(things, orderBy, ValuesOf(_)) ==
    LET ties(i, j) == ValuesOf(things[i]) = ValuesOf(things[j]) /\ i < j
        order == SortSeq([i \in DOMAIN things |-> i], LAMBDA i, j :
                     Precedes(orderBy, ValuesOf(things[i]), ValuesOf(things[j])) \/ ties(i, j))
    IN  [n \in DOMAIN things |-> things[order[n]]]

\* An entry has no field for an aggregate: they tie.
EntryValues(orderBy, entry) ==
    [i \in DOMAIN orderBy |-> IF IsAggregate(orderBy[i].column) THEN Null ELSE Field(entry, orderBy[i].column)]

\* Of a group, its aggregates, or the columns of its last entry.
GroupValues(orderBy, relation) ==
    [i \in DOMAIN orderBy |->
        IF IsAggregate(orderBy[i].column) THEN AggregateOf(relation, orderBy[i].column)
        ELSE Field(Last(relation.entries), orderBy[i].column)]

SortEntries(relation, orderBy) ==
    [relation EXCEPT !.entries = SortedBy(@, orderBy, LAMBDA e : EntryValues(orderBy, e))]

OrderBy(relations, orderBy) ==
    LET distinct == SelectSeq([i \in DOMAIN orderBy |-> Aggregate("DISTINCT", orderBy[i].column)],
                              LAMBDA c : Len(relations) = 1 /\ HasAggregate(relations[1], c))
    IN  IF Len(relations) # 1 THEN SortedBy(relations, orderBy, LAMBDA r : GroupValues(orderBy, r))
        ELSE IF distinct # <<>>
        THEN <<SetAggregate(relations[1], distinct[1], SortEntries(AggregateOf(relations[1], distinct[1]), orderBy))>>
        ELSE IF relations[1].entries = <<>> THEN relations
        ELSE <<SortEntries(relations[1], orderBy)>>

-----------------------------------------------------------------------------
(* ProjectStep and RelationTransformer.  A projected row maps columns to   *)
(* values; an aggregate that was not computed is Unset.                    *)

AggregatedRow(relation, columns) ==
    [c \in ToSet(columns) |->
        IF ~IsAggregate(c) THEN Field(relation.entries[1], c)
        ELSE IF HasAggregate(relation, c) THEN AggregateOf(relation, c) ELSE Unset]

PlainRow(entry, columns) == [c \in ToSet(columns) |-> Field(entry, c)]

TransformedRows(relation, columns) ==
    IF Len(columns) = 1 /\ columns[1].fn = "DISTINCT"
    THEN LET entries == AggregateOf(relation, columns[1]).entries
         IN  [i \in DOMAIN entries |-> [c \in ToSet(columns) |-> Field(entries[i], c.of)]]
    ELSE IF \E c \in ToSet(columns) : IsAggregate(c) THEN <<AggregatedRow(relation, columns)>>
    ELSE [i \in DOMAIN relation.entries |-> PlainRow(relation.entries[i], columns)]

Project(relations, columns) ==
    CASE Len(relations) = 0 -> EmptyRelation
      [] Len(relations) = 1 ->
            IF columns = <<>> THEN relations[1]
            ELSE FromRows(TransformedRows(relations[1], columns), relations[1].tables)
      [] OTHER -> FromRows([i \in DOMAIN relations |-> TransformedRows(relations[i], columns)[1]],
                           relations[1].tables)

-----------------------------------------------------------------------------
(* A step on the relations of its children; exec() of a plan.              *)

Join(join, relations, db) ==
    LET p == join.predicate
        columns == ColumnNames[BaseOf[p.right.table]]
        inner == join.column.table
        other == IF p.left = join.column THEN p.right ELSE p.left
        index == IndexOfColumn(join.column)[1]
        rows == db[BaseOf[inner]]
        outer == CHOOSE r \in ToSet(relations) : inner \notin r.tables
        RowsAt(key) == LET ids == RowsOfKey(index, rows, <<key>>) IN [i \in DOMAIN ids |-> rows[ids[i]]]
    IN  CASE join.algorithm = "hash" -> HashJoin(p, relations[1], relations[2], join.outer, columns)
          [] join.algorithm = "nested_loop" ->
                NestedLoopJoin(p, relations[1], relations[2], join.outer, columns)
          [] join.algorithm = "index" -> IndexNestedLoopJoin(outer, other, inner, index.unique,
                [key \in {Field(e, other) : e \in ToSet(outer.entries)} |-> RowsAt(key)])

\* UpdateStep: the rows with the new values.
Updated(relation, table, set) ==
    [i \in DOMAIN relation.entries |->
        [relation.entries[i].row EXCEPT ![table] = [c \in DOMAIN @ |-> IF c \in DOMAIN set THEN set[c] ELSE @[c]]]]

RECURSIVE Exec(_, _, _, _)
\* RangesOf gives each scan the combinations of key ranges it is to use.
Exec(tree, query, db, RangesOf) ==
    LET kids == FlattenSeq([i \in DOMAIN tree.kids |-> Exec(tree.kids[i], query, db, RangesOf)])
        Cut(from, count) == [kids[1] EXCEPT !.entries = SubSeq(@, from + 1, Smaller(Len(@), from + count))]
    IN  CASE tree.op = "access"      -> <<TableAccessFull(tree.arg, db)>>
          [] tree.op = "index_scan"  -> <<IndexRangeScan(tree.arg, RangesOf[tree], db, query)>>
          [] tree.op = "multi_scan"  -> <<MultiIndexRangeScan(kids)>>
          [] tree.op = "by_row_id"   -> <<RowsAsEntries(tree.arg, db, Payloads(kids[1]))>>
          [] tree.op = "no_op"       -> <<Relation({tree.arg}, <<>>)>>
          [] tree.op = "row_count"   ->
                <<SetAggregate(Relation({tree.arg}, <<>>), Aggregate("COUNT", Star), Len(db[BaseOf[tree.arg]]))>>
          [] tree.op = "select"      -> <<Eval(PredicateOf(query, tree.arg.id), kids[1])>>
          [] tree.op = "cross"       -> <<FoldLeft(CrossProduct, kids[1], Tail(kids))>>
          [] tree.op = "join"        -> <<Join(tree.arg, kids, db)>>
          [] tree.op = "group_by"    -> GroupBy(kids[1], tree.arg)
          [] tree.op = "aggregation" -> Aggregation(kids, tree.arg)
          [] tree.op = "order_by"    -> OrderBy(kids, tree.arg)
          [] tree.op = "project"     -> <<Project(kids, tree.arg.columns)>>
          [] tree.op = "skip"        -> <<Cut(query.skip, Len(kids[1].entries))>>
          [] tree.op = "limit"       -> <<Cut(0, query.limit)>>
          [] tree.op = "delete"      -> <<kids[1]>>
          [] tree.op = "update"      -> <<FromRows(Updated(kids[1], tree.arg, query.set), kids[1].tables)>>

Scans(tree) == ToSet(NodesOf(tree, "index_scan"))

\* What the calculators compute for a context.
FreshRanges(tree, query) ==
    [scan \in Scans(tree) |-> KeyRanges(query, scan.arg.index, scan.arg.predicates)]
=============================================================================
