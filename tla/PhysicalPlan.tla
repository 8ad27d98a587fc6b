---------------------------- MODULE PhysicalPlan ----------------------------
(***************************************************************************)
(* Physical plans and the passes that put indices to use                   *)
(* (src/lib/proc/physical_plan_factory.js, *_pass.js,                      *)
(* index_cost_estimator.js, index_key_range_calculator.js).  A physical    *)
(* plan has the shape of the logical one; its selections look their        *)
(* predicate up, by id, in the context they are executed with.             *)
(***************************************************************************)
EXTENDS LogicalPlan

CONSTANTS BaseOf,           \* the table each name in a query stands for
          ColumnNames,      \* of each table
          Indices,          \* of each table: a sequence of [name, unique, columns, orders]
          QueryPercent      \* INDEX_QUERY_THRESHOLD_PERCENT, in percent

IndexNames(index) == ToSet(index.columns)

PredicateOf(query, id) == CHOOSE p \in SubPredicates(query.where) : p.id = id

-----------------------------------------------------------------------------
(* Keys of rows in an index; a row id is the position of the row.          *)

KeyOf(index, row) == [i \in DOMAIN index.columns |-> row[index.columns[i]]]

Before(index, rows, r1, r2) ==
    LET favor == CompareKeys(index.orders, KeyOf(index, rows[r1]), KeyOf(index, rows[r2]))
    IN  favor = RHS \/ (favor = TIE /\ r1 < r2)

\* Row ids in the order of the keys; NullableIndex keeps null keys apart.
IndexOrder(index, rows) ==
    SortSeq(SelectSeq([r \in DOMAIN rows |-> r], LAMBDA r : KeyOf(index, rows[r]) # <<Null>>),
            LAMBDA r1, r2 : Before(index, rows, r1, r2))

RowsInRange(index, rows, range) ==
    SelectSeq(IndexOrder(index, rows), LAMBDA r : IsInRange(index.orders, KeyOf(index, rows[r]), range))

RowsOfKey(index, rows, key) ==
    SelectSeq([r \in DOMAIN rows |-> r], LAMBDA r : KeyOf(index, rows[r]) = key)

-----------------------------------------------------------------------------
(* IndexKeyRangeCalculator: ranges for the columns of an index.            *)

ColumnRanges(query, ids) ==
    FoldLeft(LAMBDA set, id : Intersect(set, ToKeyRange(PredicateOf(query, id))), <<All>>, ids)

RECURSIVE Product(_)
\* calculateCartesianProduct
Product(sets) ==
    IF sets = <<>> THEN <<<<>>>>
    ELSE FlattenSeq([i \in DOMAIN sets[1] |->
             LET rest == Product(Tail(sets)) IN [j \in DOMAIN rest |-> <<sets[1][i]>> \o rest[j]]])

\* getKeyRangeCombinations; columns without a predicate take all keys, which
\* is what NotBoundKeyRangeCalculator gives for the whole index.
KeyRanges(query, index, predicates) ==
    Product([i \in DOMAIN index.columns |->
        IF index.columns[i] \in DOMAIN predicates
        THEN ColumnRanges(query, predicates[index.columns[i]]) ELSE <<All>>])

-----------------------------------------------------------------------------
(* IndexCostEstimator                                                      *)

Threshold(db, table) == (Len(db[BaseOf[table]]) * QueryPercent) \div 100

\* isCandidate_
IsCandidate(p, db, table) ==
    /\ p.kind # "join" /\ IsKeyRangeCompatible(p)
    /\ \A column \in ColumnsOf(p) : column.table = table
    /\ IF p.kind = "combined" THEN Len(p.kids) <= Threshold(db, table)
       ELSE p.type = "in" => Len(p.value) <= Threshold(db, table)

ColumnName(p) == (CHOOSE c \in ColumnsOf(p) : TRUE).name

\* IndexRangeCandidate.consumePredicates_: ids of predicates by column.
Consumed(index, predicates) ==
    LET PredicatesOn(name) == SelectSeq(predicates, LAMBDA p : ColumnName(p) = name)
        names == {name \in IndexNames(index) : PredicatesOn(name) # <<>>}
    IN  [name \in names |-> [i \in DOMAIN PredicatesOn(name) |-> PredicatesOn(name)[i].id]]

\* No column with a predicate comes after one without.
IsUsable(index, consumed) ==
    /\ consumed # Nothing
    /\ \A i, j \in DOMAIN index.columns :
           i < j /\ index.columns[j] \in DOMAIN consumed => index.columns[i] \in DOMAIN consumed

CostOf(query, candidate, rows) ==
    LET ranges == KeyRanges(query, candidate.index, candidate.predicates)
    IN  FoldLeft(LAMBDA cost, range : cost + Len(RowsInRange(candidate.index, rows, range)), 0, ranges)

Candidates(db, table, predicates) ==
    LET usable == SelectSeq(predicates, LAMBDA p : IsCandidate(p, db, table))
        indices == Indices[BaseOf[table]]
        all == [i \in DOMAIN indices |-> [index |-> indices[i], predicates |-> Consumed(indices[i], usable)]]
    IN  SelectSeq(all, LAMBDA c : IsUsable(c.index, c.predicates))

NoCandidate == [index |-> Null, predicates |-> Nothing]

Cheapest(candidates, cost) ==
    IF candidates = <<>> THEN NoCandidate
    ELSE candidates[CHOOSE i \in DOMAIN cost :
                        /\ \A j \in DOMAIN cost : cost[i] <= cost[j]
                        /\ \A j \in 1..(i - 1) : cost[i] < cost[j]]

CheapestOf(query, candidates, rows) ==
    Cheapest(candidates, [i \in DOMAIN candidates |-> CostOf(query, candidates[i], rows)])

\* chooseIndexFor: the first one of the least cost.
ChooseIndex(query, db, table, predicates) ==
    CheapestOf(query, Candidates(db, table, predicates), db[BaseOf[table]])

-----------------------------------------------------------------------------
(* Places in a plan.                                                       *)

RECURSIVE Path(_, _), ReplaceLeaf(_, _, _), Spine(_, _)
\* The nodes from the root to the full access of a table.
Path(tree, table) ==
    IF tree.op = "access" THEN <<tree>>
    ELSE <<tree>> \o Path(tree.kids[CHOOSE i \in DOMAIN tree.kids : table \in TablesBelow(tree.kids[i])], table)

ReplaceLeaf(tree, old, new) ==
    IF tree.op = old.op /\ tree = old THEN new
    ELSE WithKids(tree, [i \in DOMAIN tree.kids |-> ReplaceLeaf(tree.kids[i], old, new)])

\* The nodes from the root down, as long as they have one child and are not
\* of the kinds where the search stops.
Spine(tree, Stops) ==
    IF tree.op \in Stops \/ Len(tree.kids) # 1 THEN <<tree>> ELSE <<tree>> \o Spine(Kid(tree), Stops)

ScanNode(table, candidate, reverse) ==
    Node("index_scan", [table |-> table, index |-> candidate.index, predicates |-> candidate.predicates,
                        reverse |-> reverse, limit |-> FALSE, skip |-> FALSE], <<>>)

ByRowId(table, kid) == Node("by_row_id", table, <<kid>>)

-----------------------------------------------------------------------------
(* IndexJoinPass                                                           *)

\* BaseColumn.getIndex: the first index on this column alone.
IndexOfColumn(column) == SelectSeq(Indices[BaseOf[column.table]], LAMBDA i : i.columns = <<column.name>>)

\* A side of a join that reads all of a table with an index on its column.
JoinCandidate(join, side) ==
    LET p == join.arg.predicate
        column == IF join.kids[side].arg = p.right.table THEN p.right ELSE p.left
    IN  IF join.kids[side].op = "access" /\ IndexOfColumn(column) # <<>> THEN column ELSE Star

RECURSIVE IndexJoinPass(_)
IndexJoinPass(tree) ==
    LET below == [i \in DOMAIN tree.kids |-> IndexJoinPass(tree.kids[i])]
        eligible == tree.op = "join" /\ tree.arg.predicate.type = "eq" /\ ~tree.arg.outer
        side == IF JoinCandidate(tree, 2) # Star THEN 2 ELSE 1
    IN  IF eligible /\ JoinCandidate(tree, side) # Star
        THEN Node("join", [tree.arg EXCEPT !.algorithm = "index", !.column = JoinCandidate(tree, side)],
                  [below EXCEPT ![side] = Node("no_op", tree.kids[side].arg, <<>>)])
        ELSE WithKids(tree, below)

-----------------------------------------------------------------------------
(* IndexRangeScanPass                                                      *)

SelectsAbove_PastJoins(tree, table) == Reverse(SelectSeq(Path(tree, table), IsSelect))

\* findSelectSteps_: from the table up, to the first join.
SelectsAbove(tree, table) ==
    LET path == Path(tree, table)
        joins == {i \in DOMAIN path : path[i].op = "join"}
        below == IF joins = {} THEN path ELSE SubSeq(path, (CHOOSE i \in joins : \A j \in joins : j <= i) + 1, Len(path))
    IN  Reverse(SelectSeq(below, IsSelect))

WithScan(tree, table, chosen) ==
    LET used == UNION {ToSet(chosen.predicates[name]) : name \in DOMAIN chosen.predicates}
    IN  IF chosen = NoCandidate THEN tree
        ELSE ReplaceLeaf(RemoveNodes(tree, {<<"select", id>> : id \in used}),
                         Access(table), ByRowId(table, ScanNode(table, chosen, FALSE)))

ScanTable(tree, table, query, db) ==
    LET selects == SelectsAbove(tree, table)
        predicates == [i \in DOMAIN selects |-> PredicateOf(query, selects[i].arg.id)]
    IN  WithScan(tree, table, ChooseIndex(query, db, table, predicates))

IndexRangeScanPass(tree, query, db) ==
    FoldLeft(LAMBDA t, access : ScanTable(t, access.arg, query, db), tree, NodesOf(tree, "access"))

-----------------------------------------------------------------------------
(* MultiColumnOrPass: an OR all of whose parts have an index.              *)

OrCandidates(select, query, db) ==
    LET p == PredicateOf(query, select.arg.id)
        table == CHOOSE t \in TablesOf(p) : TRUE
    IN  IF Cardinality(TablesOf(p)) # 1 THEN <<NoCandidate>>
        ELSE [i \in DOMAIN p.kids |-> ChooseIndex(query, db, table, <<p.kids[i]>>)]

\* Instead of the first OR, a scan for each of its parts.
WithScans(tree, or, candidates) ==
    LET base == BaseOf[CHOOSE t \in TablesOf(or.arg) : TRUE]
        accesses == SelectSeq(NodesOf(tree, "access"), LAMBDA n : BaseOf[n.arg] = base)
        table == accesses[1].arg
    IN  IF accesses = <<>> THEN tree
        ELSE ReplaceLeaf(RemoveNodes(tree, {Tag(or)}), Access(table),
                 ByRowId(table, Node("multi_scan", table,
                     [i \in DOMAIN candidates |-> ScanNode(table, candidates[i], FALSE)])))

ScanFirst(tree, ors) == IF ors = <<>> THEN tree ELSE WithScans(tree, ors[1].node, ors[1].candidates)

MultiColumnOrPass(tree, query, db) ==
    LET ors == SelectSeq(Nodes(tree), LAMBDA n : IsSelect(n) /\ IsCombined(PredicateOf(query, n.arg.id), "OR"))
        found == [i \in DOMAIN ors |-> [node |-> ors[i], candidates |-> OrCandidates(ors[i], query, db)]]
    IN  ScanFirst(tree, SelectSeq(found, LAMBDA f : NoCandidate \notin ToSet(f.candidates)))

-----------------------------------------------------------------------------
(* OrderByIndexPass: the order an index has need not be sorted for.        *)

SameOrder(orderBy, index) == \A i \in DOMAIN orderBy : orderBy[i].order = index.orders[i]
ReverseOrder(orderBy, index) == \A i \in DOMAIN orderBy : orderBy[i].order # index.orders[i]

NamesOf(orderBy) == [i \in DOMAIN orderBy |->
    IF orderBy[i].column.fn = "COLUMN" THEN orderBy[i].column.name ELSE orderBy[i].column.fn]

SuitsOrder_AnyOrder(orderBy, index) == NamesOf(orderBy) = index.columns

\* getIndexCandidateForIndexSchema_; columns are compared by name.
SuitsOrder(orderBy, index) ==
    NamesOf(orderBy) = index.columns /\ (SameOrder(orderBy, index) \/ ReverseOrder(orderBy, index))

OrderByIndexPass(tree, query) ==
    LET spine == Spine(NodesOf(tree, "order_by")[1], {})
        leaf == Last(spine)
        sorted == RemoveNodes(tree, {<<"order_by", 0>>})
        suited == SelectSeq(Indices[BaseOf[leaf.arg]], LAMBDA i : SuitsOrder(query.orderBy, i))
        Unbounded == ScanNode(leaf.arg, [index |-> suited[1], predicates |-> Nothing],
                              ReverseOrder(query.orderBy, suited[1]))
    IN  CASE query.orderBy = <<>> -> tree
          [] query.orderBy # <<>> /\ leaf.op = "access" ->
                IF suited = <<>> THEN tree
                ELSE ReplaceLeaf(sorted, leaf, ByRowId(leaf.arg, Unbounded))
          [] query.orderBy # <<>> /\ leaf.op = "index_scan" ->
                IF ~SuitsOrder(query.orderBy, leaf.arg.index) THEN tree
                ELSE ReplaceLeaf(sorted, leaf,
                         [leaf EXCEPT !.arg.reverse = ReverseOrder(query.orderBy, leaf.arg.index)])
          [] OTHER -> tree

-----------------------------------------------------------------------------
(* LimitSkipByIndexPass and GetRowCountPass                                *)

HasAggregators(query) == query.groupBy # <<>> \/ \E c \in ToSet(query.columns) : IsAggregate(c)

LimitStops_NotSelect(query) == {"order_by"} \cup (IF HasAggregators(query) THEN {"project"} ELSE {})

LimitStops(query) == {"order_by", "select"} \cup (IF HasAggregators(query) THEN {"project"} ELSE {})

LimitSkipByIndexPass(tree, query) ==
    LET leaf == Last(Spine(tree, LimitStops(query)))
    IN  IF leaf.op # "index_scan" \/ (query.limit = Null /\ query.skip = Null) THEN tree
        ELSE ReplaceLeaf(RemoveNodes(tree, {<<"limit", 0>>, <<"skip", 0>>}), leaf,
                 [leaf EXCEPT !.arg.limit = NodesOf(tree, "limit") # <<>>,
                              !.arg.skip = NodesOf(tree, "skip") # <<>>])

CountsRows(query) ==
    /\ query.columns = <<Aggregate("COUNT", Star)>> /\ Len(query.from) = 1 /\ ~HasWhere(query)
    /\ query.limit = Null /\ query.skip = Null /\ query.groupBy = <<>>

\* There is no full access when an index gives the order; the pass throws then.
GetRowCountPass(tree, query) ==
    IF ~CountsRows(query) THEN tree
    ELSE IF NodesOf(tree, "access") = <<>> THEN Node("throws", Null, <<>>)
    ELSE ReplaceLeaf(tree, NodesOf(tree, "access")[1], Node("row_count", query.from[1], <<>>))

\* PhysicalPlanFactory: the passes, in order.
PhysicalPasses(query) ==
    IF query.kind = "select"
    THEN <<"index_join", "index_range_scan", "multi_column_or", "order_by_index", "limit_skip", "get_row_count">>
    ELSE <<"index_range_scan">>

PhysicalPass(pass, tree, query, db) ==
    CASE pass = "index_join"       -> IF Len(query.from) < 2 THEN tree ELSE IndexJoinPass(tree)
      [] pass = "index_range_scan" -> IndexRangeScanPass(tree, query, db)
      [] pass = "multi_column_or"  -> MultiColumnOrPass(tree, query, db)
      [] pass = "order_by_index"   -> OrderByIndexPass(tree, query)
      [] pass = "limit_skip"       -> LimitSkipByIndexPass(tree, query)
      [] pass = "get_row_count"    -> GetRowCountPass(tree, query)
=============================================================================
