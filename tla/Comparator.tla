----------------------------- MODULE Comparator -----------------------------
(***************************************************************************)
(* The order of keys in an index (simple_comparator.js and                 *)
(* multi_key_comparator.js).  A key is a sequence with one value for each  *)
(* column of the index, a range of keys a sequence of ranges of the        *)
(* columns, and an index is described by the order of each column: the     *)
(* comparator of a single column is the case of length one.                *)
(***************************************************************************)
EXTENDS KeyRange, SequencesExt

CONSTANT Null   \* the value null, which only an index on several columns holds

ASSUME NullAssumption == Null \notin Bound

Orders == {"ASC", "DESC"}

-----------------------------------------------------------------------------
(* One column.                                                             *)

\* SimpleComparatorWithNull.compareAscending: null is before every value.
CompareAscending(l, r) ==
    IF l = r THEN TIE
    ELSE IF l = Null THEN RHS
    ELSE IF r = Null \/ l > r THEN LHS
    ELSE RHS

CompareColumn(order, l, r) ==
    IF order = "DESC" THEN CompareAscending(r, l) ELSE CompareAscending(l, r)

\* normalizeKeyRange_: lower is what comes first in the index.
Normalized(order, range) == IF order = "DESC" THEN ReverseRange(range) ELSE range

\* orderKeyRange
OrderRange(order, r1, r2) ==
    IF order = "DESC" THEN CompareRanges(r2, r1) ELSE CompareRanges(r1, r2)

\* compareRange: is the key right of the lower bound, and left of the upper one?
AfterLower(order, value, range) ==
    LET r == Normalized(order, range)
    IN  r.from # Unbound =>
            IF r.excludeLower THEN CompareColumn(order, value, r.from) = LHS
            ELSE CompareColumn(order, value, r.from) # RHS

BeforeUpper(order, value, range) ==
    LET r == Normalized(order, range)
    IN  r.to # Unbound =>
            IF r.excludeUpper THEN CompareColumn(order, value, r.to) = RHS
            ELSE CompareColumn(order, value, r.to) # LHS

\* A null is only in the range of all values.
ColumnInRange(order, value, range) ==
    IF value = Null THEN IsAll(range)
    ELSE AfterLower(order, value, range) /\ BeforeUpper(order, value, range)

-----------------------------------------------------------------------------
(* All columns of an index.                                                *)

Columns(orders) == DOMAIN orders

\* compare: a column that is not bound ties with everything.
CompareKeys(orders, l, r) ==
    LET Favors == [i \in Columns(orders) |->
                      IF Unbound \in {l[i], r[i]} THEN TIE
                      ELSE CompareColumn(orders[i], l[i], r[i])]
    IN  FoldLeft(LAMBDA favor, next : IF favor = TIE THEN next ELSE favor, TIE, Favors)

\* compareRange, and where the range is as seen from the key
\* (BTreeNode_.getRange's compare): TIE, or the side on which it is.
SideOf(orders, key, range) ==
    IF \E i \in Columns(orders) : ~AfterLower(orders[i], key[i], range[i]) THEN RHS
    ELSE IF \E i \in Columns(orders) : ~BeforeUpper(orders[i], key[i], range[i]) THEN LHS
    ELSE TIE

IsInRange(orders, key, range) ==
    \A i \in Columns(orders) : ColumnInRange(orders[i], key[i], range[i])

IsFirstKeyInRange(orders, key, range) == ColumnInRange(orders[1], key[1], range[1])

IsLeftOpen(orders, range) == Normalized(orders[1], range[1]).from = Unbound

\* rangeToKeys, the left-most of the two.
LeftMostOf(orders, range) ==
    [i \in Columns(orders) |-> Normalized(orders[i], range[i]).from]

FirstDifference(orders, r1, r2) ==
    FoldLeft(LAMBDA favor, i : IF favor = TIE THEN OrderRange(orders[i], r1[i], r2[i]) ELSE favor,
             TIE, [i \in Columns(orders) |-> i])

\* sortKeyRanges sorts the ranges of each column, puts the n-th ones of all
\* columns together, and sorts the result.
SortKeyRanges(orders, ranges) ==
    LET Sorted(i) == SortSeq([n \in DOMAIN ranges |-> ranges[n][i]],
                             LAMBDA r1, r2 : OrderRange(orders[i], r1, r2) = RHS)
        aligned == [n \in DOMAIN ranges |-> [i \in Columns(orders) |-> Sorted(i)[n]]]
    IN  SortSeq(aligned, LAMBDA r1, r2 : FirstDifference(orders, r1, r2) = RHS)
=============================================================================
