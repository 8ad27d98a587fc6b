----------------------------- MODULE Predicate ------------------------------
(***************************************************************************)
(* The conditions of a query (src/lib/pred/, src/lib/eval.js).  They are   *)
(* trees of records, each with an id:                                      *)
(*   value     a column, an operator, and the values it is compared with;  *)
(*             params says for each value which element of bind()'s        *)
(*             argument it comes from, or 0 when it is a constant          *)
(*   join      two columns and an operator                                 *)
(*   combined  AND or OR of children (kids)                                *)
(* Values are integers and Null; Unset is a Binder that has no value yet.  *)
(***************************************************************************)
EXTENDS Relations, KeyRange, SequencesExt

CONSTANTS Unset,        \* lf.Binder
          BlockSize     \* 1 << BLOCK_SIZE_EXPONENT_

ASSUME UnsetAssumption == Unset \notin Bound \cup {Null}
ASSUME BlockSizeAssumption == BlockSize \in Nat \ {0}

-----------------------------------------------------------------------------
(* Sets of ranges of one column (src/lib/index/single_key_range_set.js):   *)
(* sequences of ranges in ascending order, none overlapping another.       *)

SetContains(set, key) == \E n \in DOMAIN set : ContainsKey(set[n], key)

Merge_KeepsFirst(done, range) ==
    IF done # <<>> /\ Overlaps(Last(done), range) THEN done ELSE Append(done, range)

\* One round of add's loop: a range that overlaps the last one widens it.
Merge(done, range) ==
    IF done # <<>> /\ Overlaps(Last(done), range)
    THEN Front(done) \o <<BoundingRange(Last(done), range)>>
    ELSE Append(done, range)

AddRanges(set, ranges) ==
    FoldLeft(Merge, <<>>, SortSeq(set \o ranges, LAMBDA r1, r2 : CompareRanges(r1, r2) = RHS))

RangeSet(ranges) == AddRanges(<<>>, ranges)

\* getBoundingRange, of a set that is not empty.
BoundingOf(set) == IF Len(set) = 1 THEN set[1] ELSE BoundingRange(set[1], Last(set))

Intersect(set1, set2) ==
    RangeSet(FlattenSeq([i \in DOMAIN set1 |->
        LET common == SelectSeq(set2, LAMBDA r : Overlaps(set1[i], r))
        IN  [j \in DOMAIN common |-> And(set1[i], common[j])]]))

\* SingleKeyRange.complement of ranges that each have one key.
ComplementOfKeys(keys) ==
    LET sorted == SortSeq(keys, LAMBDA r1, r2 : CompareRanges(r1, r2) = RHS)
        n == Len(sorted)
    IN  IF n = 0 THEN <<>>
        ELSE [i \in 1..(n + 1) |->
                 IF i = 1 THEN UpperBound(sorted[1].from, TRUE)
                 ELSE IF i = n + 1 THEN LowerBound(sorted[n].to, TRUE)
                 ELSE MakeRange(sorted[i - 1].to, sorted[i].from, TRUE, TRUE)]

-----------------------------------------------------------------------------
(* Predicates.                                                             *)

ValuePredicate(id, column, type, values, params) ==
    [id |-> id, kind |-> "value", column |-> column, type |-> type,
     value |-> values, params |-> params, complement |-> FALSE]

JoinPredicate(id, left, right, type) ==
    [id |-> id, kind |-> "join", left |-> left, right |-> right, type |-> type]

CombinedPredicate(id, operator, kids) ==
    [id |-> id, kind |-> "combined", operator |-> operator, kids |-> kids, complement |-> FALSE]

IsCombined(p, operator) == p.kind = "combined" /\ p.operator = operator

RECURSIVE ColumnsOf(_), SubPredicates(_)
ColumnsOf(p) ==
    CASE p.kind = "value" -> {p.column}
      [] p.kind = "join"  -> {p.left, p.right}
      [] OTHER            -> UNION {ColumnsOf(p.kids[i]) : i \in DOMAIN p.kids}

TablesOf(p) == {c.table : c \in ColumnsOf(p)}

\* A predicate and all below it, as Context's map of predicates has them.
SubPredicates(p) ==
    {p} \cup (IF p.kind = "combined" THEN UNION {SubPredicates(p.kids[i]) : i \in DOMAIN p.kids} ELSE {})

RECURSIVE SetComplement(_, _)
SetComplement(p, complement) ==
    IF p.kind = "value" THEN [p EXCEPT !.complement = complement]
    ELSE IF p.complement = complement THEN p
    ELSE [p EXCEPT !.complement = complement,
                   !.operator = IF p.operator = "AND" THEN "OR" ELSE "AND",
                   !.kids = [i \in DOMAIN p.kids |-> SetComplement(p.kids[i], complement)]]

RECURSIVE Bind(_, _)
Bind(p, values) ==
    CASE p.kind = "value" ->
            [p EXCEPT !.value = [i \in DOMAIN p.value |->
                IF p.params[i] = 0 THEN p.value[i] ELSE values[p.params[i]]]]
      [] p.kind = "join" -> p
      [] OTHER -> [p EXCEPT !.kids = [i \in DOMAIN p.kids |-> Bind(p.kids[i], values)]]

\* checkBinding_ (error 501)
IsBound(p) ==
    \A q \in SubPredicates(p) : q.kind = "value" => Unset \notin ToSet(q.value)

-----------------------------------------------------------------------------
(* Evaluation (src/lib/eval.js): only equality takes nulls as values.      *)

Compares(type, a, b) ==
    CASE type = "eq"  -> a = b
      [] type = "neq" -> a # b
      [] OTHER -> /\ Null \notin {a, b}
                  /\ CASE type = "gt"  -> a > b
                       [] type = "gte" -> a >= b
                       [] type = "lt"  -> a < b
                       [] type = "lte" -> a <= b

\* evalAsIn_ drops rows with null, whether or not the predicate is negated.
HoldsFor(p, field) ==
    CASE p.type = "in" -> field # Null /\ (field \in ToSet(p.value)) # p.complement
      [] p.type = "between" ->
            (Compares("gte", field, p.value[1]) /\ Compares("lte", field, p.value[2])) # p.complement
      [] OTHER -> Compares(p.type, field, p.value[1]) # p.complement

RECURSIVE Eval(_, _)
Eval(p, relation) ==
    CASE p.kind = "value" -> Filter(relation, LAMBDA e : HoldsFor(p, Field(e, p.column)))
      [] p.kind = "join"  ->
            Filter(relation, LAMBDA e : Compares(p.type, Field(e, p.left), Field(e, p.right)))
      [] OTHER ->
            LET results == [i \in DOMAIN p.kids |-> Eval(p.kids[i], relation)]
            IN  IF p.operator = "AND" THEN IntersectRelations(results)
                ELSE UnionRelations(results)

-----------------------------------------------------------------------------
(* Key ranges.                                                             *)

ValueIsKeyRangeCompatible(p) == p.value # <<Null>> /\ p.type \notin {"neq", "match"}

\* An OR of one column can become a set of ranges; an AND is taken apart.
IsKeyRangeCompatible(p) ==
    \/ p.kind = "value" /\ ValueIsKeyRangeCompatible(p)
    \/ /\ IsCombined(p, "OR")
       /\ \A i \in DOMAIN p.kids :
             /\ p.kids[i].kind = "value" /\ ValueIsKeyRangeCompatible(p.kids[i])
             /\ p.kids[i].column = p.kids[1].column

RangeOf(p) ==
    LET key == p.value[1]
    IN  CASE p.type = "between" -> MakeRange(key, p.value[2], FALSE, FALSE)
          [] p.type = "eq"  -> Only(key)
          [] p.type = "gte" -> LowerBound(key, FALSE)
          [] p.type = "gt"  -> LowerBound(key, TRUE)
          [] p.type = "lte" -> UpperBound(key, FALSE)
          [] p.type = "lt"  -> UpperBound(key, TRUE)

ValueToKeyRange_NotNegated(p) ==
    IF p.type = "in" THEN RangeSet([i \in DOMAIN p.value |-> Only(p.value[i])])
    ELSE RangeSet(<<RangeOf(p)>>)

ValueToKeyRange(p) ==
    LET keys == [i \in DOMAIN p.value |-> Only(p.value[i])]
    IN  IF p.type = "in" THEN RangeSet(IF p.complement THEN ComplementOfKeys(keys) ELSE keys)
        ELSE RangeSet(IF p.complement THEN Complement(RangeOf(p)) ELSE <<RangeOf(p)>>)

ToKeyRange(p) ==
    IF p.kind = "value" THEN ValueToKeyRange(p)
    ELSE FoldLeft(LAMBDA set, kid : AddRanges(set, ValueToKeyRange(kid)), <<>>, p.kids)

-----------------------------------------------------------------------------
(* Joins.  The code swaps the sides of an inner join by reversing the      *)
(* predicate of the plan itself, which the next execution finds reversed;  *)
(* detectLeftRight_ looks at the tables first, so nothing depends on it.   *)

Mirrored == [eq |-> "eq", neq |-> "neq", gt |-> "lt", lt |-> "gt", gte |-> "lte", lte |-> "gte"]

ReverseJoin(p) == [p EXCEPT !.left = p.right, !.right = p.left, !.type = Mirrored[p.type]]

Sides(p, left, right) == [predicate |-> p, left |-> left, right |-> right]

\* detectLeftRight_: the predicate's order, then the shorter relation first.
DetectLeftRight(p, relation1, relation2) ==
    LET sides == IF p.left.table \in relation1.tables THEN Sides(p, relation1, relation2)
                 ELSE Sides(p, relation2, relation1)
    IN  IF Len(sides.left.entries) > Len(sides.right.entries)
        THEN Sides(ReverseJoin(p), sides.right, sides.left) ELSE sides

JoinSides(p, left, right, isOuter) ==
    IF isOuter THEN Sides(p, left, right) ELSE DetectLeftRight(p, left, right)

\* createCombinedEntryForUnmatched_
Unmatched(entry, table, columns) ==
    Put(entry.row, table, [c \in columns |-> Null])

NestedLoopJoin(p, relation1, relation2, isOuter, columns) ==
    LET sides == JoinSides(p, relation1, relation2, isOuter)
        left  == sides.left.entries
        right == sides.right.entries
        q     == sides.predicate
        blocks == [b \in 1..((Len(right) + BlockSize - 1) \div BlockSize) |->
                      SubSeq(right, (b - 1) * BlockSize + 1,
                             IF b * BlockSize < Len(right) THEN b * BlockSize ELSE Len(right))]
        Matching(l, block) == SelectSeq(block, LAMBDA r :
            Field(l, q.left) # Null /\ Compares(q.type, Field(l, q.left), Field(r, q.right)))
        RowsFor(l, block) ==
            IF isOuter /\ Matching(l, block) = <<>> THEN <<Unmatched(l, q.right.table, columns)>>
            ELSE LET found == Matching(l, block) IN [j \in DOMAIN found |-> Combined(l, found[j])]
    IN  FromRows(FlattenSeq([b \in DOMAIN blocks |->
                     FlattenSeq([i \in DOMAIN left |-> RowsFor(left[i], blocks[b])])]),
                 relation1.tables \cup relation2.tables)

HashJoin_DropsUnmatched(p, relation1, relation2, isOuter, columns) ==
    LET sides == JoinSides(p, relation1, relation2, isOuter)
        RowsFor(e) ==
            LET found == SelectSeq(sides.right.entries, LAMBDA r :
                             Field(r, sides.predicate.right) = Field(e, sides.predicate.left)
                             /\ Field(e, sides.predicate.left) # Null)
            IN  [j \in DOMAIN found |-> Combined(e, found[j])]
    IN  FromRows(FlattenSeq([i \in DOMAIN sides.left.entries |-> RowsFor(sides.left.entries[i])]),
                 relation1.tables \cup relation2.tables)

\* The smaller relation, or the right one of an outer join, is put in the map.
HashJoin(p, relation1, relation2, isOuter, columns) ==
    LET sides == JoinSides(p, relation1, relation2, isOuter)
        q     == sides.predicate
        build == IF isOuter THEN sides.right ELSE sides.left
        probe == IF isOuter THEN sides.left ELSE sides.right
        buildColumn == IF isOuter THEN q.right ELSE q.left
        probeColumn == IF isOuter THEN q.left ELSE q.right
        Found(e) == IF Field(e, probeColumn) = Null THEN <<>>
                    ELSE SelectSeq(build.entries, LAMBDA r :
                             Field(r, buildColumn) = Field(e, probeColumn))
        RowsFor(e) ==
            IF isOuter /\ Found(e) = <<>> THEN <<Unmatched(e, q.right.table, columns)>>
            ELSE [j \in DOMAIN Found(e) |-> Combined(e, Found(e)[j])]
    IN  FromRows(FlattenSeq([i \in DOMAIN probe.entries |-> RowsFor(probe.entries[i])]),
                 relation1.tables \cup relation2.tables)

\* The rows of the inner table come from its index: rowsAt gives those of each
\* key there is in the outer relation, and of an index of unique keys only the
\* first is taken.
IndexNestedLoopJoin(outer, nonIndexed, innerTable, unique, rowsAt) ==
    LET RowsFor(e) ==
            LET rows == rowsAt[Field(e, nonIndexed)]
                used == IF unique /\ rows # <<>> THEN <<rows[1]>> ELSE rows
            IN  [j \in DOMAIN used |-> Put(e.row, innerTable, used[j])]
    IN  FromRows(FlattenSeq([i \in DOMAIN outer.entries |-> RowsFor(outer.entries[i])]),
                 outer.tables \cup {innerTable})
=============================================================================
