------------------------------ MODULE Queries -------------------------------
(***************************************************************************)
(* A query from its builder to its answers: its plan is generated and      *)
(* rewritten one pass at a time, and is then executed again and again,     *)
(* for its user and for its observers, while the tables change and the     *)
(* user binds other values.  The plan is made once and kept by the builder *)
(* (src/lib/query/base_builder.js); exec() gives it a clone of the         *)
(* context, observers the context of the builder itself.  What an answer   *)
(* has to be is defined at the end, without plans.                         *)
(***************************************************************************)
EXTENDS QuerySteps

CONSTANTS Builders,     \* queries: records with their parameters' values tried as "bindings"
          Databases     \* contents of the tables: a sequence of rows for each

VARIABLES db,
          query,        \* the context of the builder, bound
          plan,
          todo,         \* the passes to come
          ranges,       \* of a scan, the combinations its calculator has for the builder's context
          answer,       \* of the last execution: whether there is one, and its rows
          bound         \* values have been bound and the query was not executed since

vars == <<db, query, plan, todo, ranges, answer, bound>>

NoAnswer == [given |-> FALSE, rows |-> <<>>]
Given(relations) == [given |-> TRUE, rows |-> Payloads(relations[1])]

\* BaseBuilder.bind on the context; skip and limit may have a binder, too.
BindAll(q, values) ==
    [q EXCEPT !.where = IF HasWhere(q) THEN Bind(q.where, values) ELSE @,
              !.limit = IF q.limitParam = 0 THEN @ ELSE values[q.limitParam],
              !.skip = IF q.skipParam = 0 THEN @ ELSE values[q.skipParam]]

Init ==
    /\ db \in Databases
    /\ query \in {BindAll(q, q.bindings[1]) : q \in Builders}
    /\ plan = NaivePlan(query)
    /\ todo = LogicalPasses(query) \o PhysicalPasses(query)
    /\ ranges = Nothing /\ answer = NoAnswer /\ bound = FALSE

\* Calculators that were asked for a cost, which they are if there is a choice.
Costed(tree, scan) ==
    LET selects == SelectsAbove(tree, scan.arg.table)
        predicates == [i \in DOMAIN selects |-> PredicateOf(query, selects[i].arg.id)]
    IN  Len(Candidates(db, scan.arg.table, predicates)) > 1

KeyOfScan(scan) == <<scan.arg.table, scan.arg.index.name, scan.arg.predicates>>

RangesFor(scans) ==
    [k \in {KeyOfScan(scan) : scan \in scans} |->
        LET scan == CHOOSE s \in scans : KeyOfScan(s) = k
        IN  KeyRanges(query, scan.arg.index, scan.arg.predicates)]

\* The next pass of the rewriters.
Rewrite ==
    /\ todo # <<>> /\ todo' = Tail(todo)
    /\ plan' = IF Head(todo) \in ToSet(LogicalPasses(query)) THEN LogicalPass(Head(todo), plan, query)
               ELSE PhysicalPass(Head(todo), plan, query, db)
    /\ ranges' = IF Head(todo) = "index_range_scan"
                 THEN RangesFor({scan \in Scans(plan') : Costed(plan, scan)}) ELSE ranges
    /\ UNCHANGED <<db, query, answer, bound>>

Planned == todo = <<>> /\ plan.op # "throws"

Kept_ByPlan(scan) == IF KeyOfScan(scan) \in DOMAIN ranges THEN ranges[KeyOfScan(scan)]
                     ELSE KeyRanges(query, scan.arg.index, scan.arg.predicates)

\* exec(): the clone is a context the calculators have not seen.
RangesOfClone_Kept == [scan \in Scans(plan) |-> Kept_ByPlan(scan)]

RangesOfClone == FreshRanges(plan, query)

Execute ==
    /\ Planned
    /\ answer' = Given(Exec(plan, query, db, RangesOfClone))
    /\ ranges' = Nothing
    /\ bound' = FALSE
    /\ UNCHANGED <<db, query, plan, todo>>

\* getKeyRangeCombinations with the builder's context: what was computed for
\* the same context is used again.
RangesOfBuilder == [scan \in Scans(plan) |-> Kept_ByPlan(scan)]

\* An observer task after a change.
Observe ==
    /\ Planned /\ query.kind = "select"
    /\ answer' = Given(Exec(plan, query, db, RangesOfBuilder))
    /\ ranges' = [k \in {KeyOfScan(scan) : scan \in Scans(plan)} |->
                     RangesOfBuilder[CHOOSE scan \in Scans(plan) : KeyOfScan(scan) = k]]
    /\ UNCHANGED <<db, query, plan, todo, bound>>

\* bind() of the builder; its plan stays.
BindValues(values) ==
    /\ Planned /\ bound' = TRUE
    /\ query' = BindAll(query, values)
    /\ query' # query
    /\ answer' = NoAnswer
    /\ UNCHANGED <<db, plan, todo, ranges>>

\* Another task changes the tables.
Change(contents) ==
    /\ Planned
    /\ db' = contents /\ db' # db
    /\ answer' = NoAnswer
    /\ UNCHANGED <<query, plan, todo, ranges, bound>>

Next ==
    \/ Rewrite
    \/ Execute
    \/ Observe
    \/ \E i \in DOMAIN query.bindings : BindValues(query.bindings[i])
    \/ \E contents \in Databases : Change(contents)

Spec == Init /\ [][Next]_vars

-----------------------------------------------------------------------------
(* What a query asks for.                                                  *)

OuterOf(table) ==
    {p \in SubPredicates(query.where) : p.id \in query.outer /\ p.right.table = table}

\* A null joins nothing.
Joins(p, row) ==
    LET left == row[p.left.table][p.left.name]
        right == row[p.right.table][p.right.name]
    IN  Null \notin {left, right} /\ Compares(p.type, left, right)

RECURSIVE Source(_)
\* Rows of the first n tables: all combinations, but of a table that an outer
\* join adds those that match, or else nulls.
Source(n) ==
    LET table == query.from[n]
        new == [r \in DOMAIN db[BaseOf[table]] |-> db[BaseOf[table]][r]]
        Extended(row) ==
            LET all == [r \in DOMAIN new |-> Put(row, table, new[r])]
                matching == SelectSeq(all, LAMBDA r : \A p \in OuterOf(table) : Joins(p, r))
            IN  IF OuterOf(table) # {} /\ matching = <<>>
                THEN <<Put(row, table, [c \in ColumnNames[BaseOf[table]] |-> Null])>> ELSE matching
        before == IF n = 1 THEN <<Nothing>> ELSE Source(n - 1)
    IN  FlattenSeq([i \in DOMAIN before |-> Extended(before[i])])

RECURSIVE Holds(_, _)
Holds(p, row) ==
    CASE p.kind = "none" -> TRUE
      [] p.kind = "join" -> p.id \in query.outer \/ Joins(p, row)
      [] p.kind = "value" -> HoldsFor(p, row[p.column.table][p.column.name])
      [] p.kind = "combined" /\ p.operator = "AND" -> \A i \in DOMAIN p.kids : Holds(p.kids[i], row)
      [] p.kind = "combined" /\ p.operator = "OR" -> \E i \in DOMAIN p.kids : Holds(p.kids[i], row)

Wanted == SelectSeq(Source(Len(query.from)), LAMBDA row : Holds(query.where, row))

Of(row, column) == row[column.table][column.name]

RECURSIVE ValuesIn(_, _), Distinct(_)
Distinct(values) ==
    IF values = <<>> THEN <<>>
    ELSE <<values[1]>> \o Distinct(SelectSeq(values, LAMBDA v : v # values[1]))

ValuesIn(column, rows) ==
    IF column.fn = "DISTINCT" THEN Distinct(ValuesIn(column.of, rows))
    ELSE [i \in DOMAIN rows |-> Of(rows[i], column)]

\* The value of a column for a group of rows.
Meaning(column, rows) ==
    IF ~IsAggregate(column) THEN Of(rows[1], column)
    ELSE IF column.of = Star THEN Len(rows)
    ELSE LET values == SelectSeq(ValuesIn(column.of, rows), LAMBDA v : v # Null)
         IN  CASE column.fn = "COUNT" -> Len(values)
               [] values = <<>> -> Null
               [] column.fn = "MIN" -> CHOOSE v \in ToSet(values) : \A w \in ToSet(values) : v <= w
               [] column.fn = "MAX" -> CHOOSE v \in ToSet(values) : \A w \in ToSet(values) : v >= w
               [] column.fn = "SUM" -> Total(values)
               [] column.fn = "AVG" -> <<Total(values), Len(values)>>
               [] OTHER -> InOrder(values)

IsGrouped == query.groupBy # <<>> \/ \E c \in ToSet(query.columns) : IsAggregate(c)

\* The rows each row of the answer is made of.
Groups ==
    LET wanted == Wanted
        KeyOfRow(row) == [i \in DOMAIN query.groupBy |-> Of(row, query.groupBy[i])]
        keys == Distinct([i \in DOMAIN wanted |-> KeyOfRow(wanted[i])])
    IN  IF query.groupBy # <<>>
        THEN [i \in DOMAIN keys |-> SelectSeq(wanted, LAMBDA row : KeyOfRow(row) = keys[i])]
        ELSE IF IsGrouped THEN <<wanted>> ELSE [i \in DOMAIN wanted |-> <<wanted[i]>>]

\* All rows before SKIP and LIMIT, each with what ORDER BY looks at.
Results ==
    LET Row(group) == IF query.kind = "update" THEN Updated([entries |-> Entries(group)], query.from[1], query.set)[1]
                      ELSE IF query.columns = <<>> THEN group[1]
                      ELSE [c \in ToSet(query.columns) |-> Meaning(c, group)]
        Key(group) == [i \in DOMAIN query.orderBy |-> Meaning(query.orderBy[i].column, group)]
    IN  IF Len(query.columns) = 1 /\ query.columns[1].fn = "DISTINCT"
        THEN LET values == ValuesIn(query.columns[1], Wanted)
             IN  [i \in DOMAIN values |->
                     [row |-> [c \in ToSet(query.columns) |-> values[i]],
                      key |-> [o \in DOMAIN query.orderBy |-> values[i]]]]
        ELSE LET groups == Groups
             IN  [i \in DOMAIN groups |-> [row |-> Row(groups[i]), key |-> Key(groups[i])]]

Count(row, rows) == Cardinality({i \in DOMAIN rows : rows[i] = row})

\* No row more often than it is asked for.
Among(rows, results) ==
    LET all == [i \in DOMAIN results |-> results[i].row]
    IN  \A row \in ToSet(rows) : Count(row, rows) <= Count(row, all)

\* As many rows as the results have between SKIP and LIMIT.
HasLength(rows, results) ==
    LET skip == IF query.skip = Null THEN 0 ELSE query.skip
        left == IF Len(results) < skip THEN 0 ELSE Len(results) - skip
    IN  Len(rows) = IF query.limit = Null THEN left ELSE Smaller(query.limit, left)

\* Each row has the place its key has among all keys.
InPlace(rows, results) ==
    LET sorted == SortedBy(results, query.orderBy, LAMBDA r : r.key)
        skip == IF query.skip = Null THEN 0 ELSE query.skip
    IN  \A n \in DOMAIN rows : skip + n \in DOMAIN sorted =>
            \E r \in ToSet(results) : r.row = rows[n] /\ r.key = sorted[skip + n].key

-----------------------------------------------------------------------------
(* Queries that the code does not answer as defined above.                 *)

Predicates == SubPredicates(query.where)

HasNulls(column) == \E row \in ToSet(db[BaseOf[column.table]]) : row[column.name] = Null

\* A negated comparison holds for null, but null is in no range of keys.
NegatesNulls ==
    \E p \in Predicates : p.kind = "value" /\ p.complement /\ HasNulls(p.column)

\* The range of all keys, which gives the order of an index, has no null.
OrdersNulls == \E o \in ToSet(query.orderBy) : o.column.fn = "COLUMN" /\ HasNulls(o.column)

\* A selection and an index join find null equal to null, the other joins not.
JoinsNulls == \E p \in Predicates : p.kind = "join" /\ HasNulls(p.left) /\ HasNulls(p.right)

\* The nested loop adds a row for every block in which there is no match; a
\* table without rows has no block.
LoopsByBlocks ==
    \E p \in Predicates : /\ p.id \in query.outer /\ p.type # "eq"
                          /\ Len(db[BaseOf[p.right.table]]) \notin 1..BlockSize

\* Ranges of two columns are sorted independently of each other.
PairsRanges ==
    \E p, q \in Predicates : p.kind = "value" /\ q.kind = "value" /\ p.column # q.column
                             /\ p.type = "in" /\ q.type = "in"

\* A single group is projected as if it were the rows of a table.
GroupsPlainly == query.groupBy # <<>> /\ ~\E c \in ToSet(query.columns) : IsAggregate(c)

\* Of two aggregates of the same distinct values, the second is not computed.
AggregatesTwice ==
    \E c, d \in ToSet(query.columns) : c # d /\ IsAggregate(c) /\ IsAggregate(d)
                                      /\ c.of = d.of /\ c.of.fn = "DISTINCT"

\* The pass for OR takes the first scan of the table the names stand for,
\* and one on the right of an outer join, too.
MovesOr ==
    \E p \in Predicates : /\ IsCombined(p, "OR")
                          /\ \E t \in TablesOf(p) : \/ OuterOf(t) # {}
                                                    \/ \E u \in ToSet(query.from) \ {t} : BaseOf[u] = BaseOf[t]

\* A comparison within the right table of an outer join goes below the join.
ComparesBelowJoin ==
    \E p \in Predicates : p.kind = "join" /\ p.left.table = p.right.table /\ OuterOf(p.left.table) # {}

Excepted ==
    \/ NegatesNulls \/ OrdersNulls \/ JoinsNulls \/ LoopsByBlocks \/ PairsRanges
    \/ GroupsPlainly \/ AggregatesTwice \/ MovesOr \/ ComparesBelowJoin

-----------------------------------------------------------------------------
(* Properties.                                                             *)

RowsNow == Payloads(Exec(plan, query, db, FreshRanges(plan, query))[1])

\* Outer joins are selections until the last logical pass has made joins of
\* them; of COUNT(*) in the order of an index no plan can be made.
HasMeaning ==
    /\ plan.op # "throws"
    /\ query.outer # {} => ToSet(todo) \cap ToSet(LogicalPasses(query)) = {}

\* No pass of the rewriters changes what a query gives: after each of them,
\* the plan gives the rows that satisfy the conditions and joins, the groups
\* and the aggregates, each as often as it should be there, and as many as
\* SKIP and LIMIT leave.
PassesKeepRows ==
    HasMeaning /\ ~Excepted =>
        LET rows == RowsNow  results == Results
        IN  Among(rows, results) /\ HasLength(rows, results)

\* Nor does any pass change the order of the rows, or the place where they
\* are cut: the n-th row is one that ORDER BY allows n-th after those skipped.
PassesKeepOrder ==
    HasMeaning /\ ~Excepted => InPlace(RowsNow, Results)

\* An answer is right for the tables as they are and the values bound now,
\* though its plan was chosen for others, and though ranges of keys are kept
\* from one execution to the next.  (An observer's task between bind() and
\* the execution that follows uses the old ranges: its answer is void.)
AnswersCurrent ==
    answer.given /\ ~bound /\ ~Excepted =>
        LET results == Results
        IN  /\ Among(answer.rows, results) /\ HasLength(answer.rows, results)
            /\ InPlace(answer.rows, results)

\* docs/dd/04_query_engine.md:136: "the transformation does not affect the
\* result of the query but only the way that result is calculated."
NeverAffectsResult ==
    plan.op # "throws" /\ query.outer = {} =>
        LET naive == NaivePlan(query)
            result == Payloads(Exec(naive, query, db, FreshRanges(naive, query))[1])
        IN  /\ Len(RowsNow) = Len(result)
            /\ \A row \in ToSet(RowsNow) : Count(row, RowsNow) = Count(row, result)
=============================================================================
