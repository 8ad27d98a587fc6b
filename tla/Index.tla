------------------------------- MODULE Index --------------------------------
(***************************************************************************)
(* A B-tree, with the set of rows of the null key that NullableIndex puts  *)
(* next to it when it has one column, under the operations of              *)
(* lf.index.Index; and what an index promises: a map from keys to rows.    *)
(* Initial trees are the ones that sequences of insertions lead to; MaxOps *)
(* operations follow.                                                      *)
(***************************************************************************)
EXTENDS BTree

-----------------------------------------------------------------------------
(* Reading ranges of keys from a B-tree: BTree.getRange, the functions of  *)
(* its leaves, and what it costs.  A query is a record: all (no ranges are *)
(* given), ranges, reverse, limit and skip.                                *)

Least(a, b) == IF a < b THEN a ELSE b

\* lf.index.slice
Slice(rows, reverse, limit, skip) ==
    LET ordered == IF reverse THEN Reverse(rows) ELSE rows
        n == IF limit = NoLimit THEN Len(rows) ELSE limit
    IN  SubSeq(ordered, skip + 1, Least(skip + n, Len(rows)))

\* The elements of a set in any order, and in ascending order.
Listed(set) == FoldSet(LAMBDA e, seq : Append(seq, e), <<>>, set)
RowsInOrder(values) == SortSeq(Listed(values), <)

-----------------------------------------------------------------------------
(* The whole tree.                                                         *)

\* fill, for one key: rows before the offset are passed over.
FillFrom(todo, values) ==
    LET rows == RowsInOrder(values)
        rest == SubSeq(rows, todo.offset + 1, Least(todo.offset + todo.count, Len(rows)))
    IN  IF todo.offset >= Len(rows) THEN [todo EXCEPT !.offset = @ - Len(rows)]
        ELSE [offset |-> 0, count |-> todo.count - Len(rest), rows |-> todo.rows \o rest]

RECURSIVE Fill(_, _, _)
Fill(t, todo, id) ==
    IF IsLeaf(t.nodes[id]) THEN FoldLeft(FillFrom, todo, t.nodes[id].values)
    ELSE FoldLeft(LAMBDA more, child : Fill(t, more, child), todo, t.nodes[id].children)

GetAll_SkipsFirst(t, maxCount, reverse, skip) ==
    LET todo == Fill(t, [offset |-> skip, count |-> maxCount, rows |-> <<>>], t.root)
    IN  IF reverse THEN Reverse(todo.rows) ELSE todo.rows

\* getAll_: in reverse, what is skipped is at the end.
GetAll(t, maxCount, reverse, skip) ==
    LET offset == IF reverse THEN t.totalRows - maxCount - skip ELSE skip
        todo == Fill(t, [offset |-> offset, count |-> maxCount, rows |-> <<>>], t.root)
    IN  IF reverse THEN Reverse(todo.rows) ELSE todo.rows

-----------------------------------------------------------------------------
(* One leaf.  The rows found so far and what is left to skip are in "found". *)

MidPoint(l, r) == LET mid == (l + r) \div 2 IN IF mid = l THEN mid + 1 ELSE mid

\* findFirstKey; 0 if there is none.
RECURSIVE FindFirstKey(_, _, _, _, _)
FindFirstKey(orders, keys, range, l, r) ==
    LET Side(i) == SideOf(orders, keys[i], range)
        mid == MidPoint(l, r)
        last == IF Side(r) = TIE THEN r ELSE 0
    IN  IF l >= r THEN last
        ELSE IF Side(l) = TIE THEN l
        ELSE IF Side(l) = LHS THEN 0
        ELSE IF mid = r THEN last
        ELSE IF Side(mid) = TIE THEN FindFirstKey(orders, keys, range, l, mid)
        ELSE IF Side(mid) = RHS THEN FindFirstKey(orders, keys, range, mid + 1, r)
        ELSE FindFirstKey(orders, keys, range, l + 1, mid)

\* findLastKey, from a key that is in the range.
RECURSIVE FindLastKey(_, _, _, _, _)
FindLastKey(orders, keys, range, l, r) ==
    LET Side(i) == SideOf(orders, keys[i], range)
        mid == MidPoint(l, r)
    IN  IF l >= r THEN l
        ELSE IF Side(r) = TIE THEN r
        ELSE IF Side(r) = RHS THEN l
        ELSE IF mid = r THEN l
        ELSE IF Side(mid) = TIE THEN FindLastKey(orders, keys, range, mid, r)
        ELSE IF Side(mid) = LHS THEN FindLastKey(orders, keys, range, l, mid - 1)
        ELSE 0

\* appendResultsAt_: in reverse order nothing is skipped yet.
AppendResultsAt(found, values, reverse, limit) ==
    LET passed == IF reverse THEN 0 ELSE Least(found.skip, Cardinality(values))
        rows == SubSeq(RowsInOrder(values), passed + 1, Cardinality(values))
    IN  IF Len(found.rows) >= limit THEN found
        ELSE [skip |-> found.skip - passed,
              rows |-> found.rows \o SubSeq(rows, 1, Least(limit - Len(found.rows), Len(rows)))]

\* BTreeNode_.getRange, for an index on one column.
LeafRange(t, leaf, range, found, reverse, limit) ==
    LET keys  == t.nodes[leaf].keys
        first == IF SideOf(t.orders, keys[1], range) = TIE THEN 1
                 ELSE FindFirstKey(t.orders, keys, range, 2, Len(keys))
        last  == FindLastKey(t.orders, keys, range, first, Len(keys))
        before == SideOf(t.orders, keys[1], range) = LHS
        after  == SideOf(t.orders, keys[1], range) = RHS /\ SideOf(t.orders, Last(keys), range) = RHS
    IN  IF before \/ after THEN found
        ELSE IF first = 0 \/ last < first THEN found
        ELSE FoldLeft(LAMBDA more, values : AppendResultsAt(more, values, reverse, limit),
                      found, SubSeq(t.nodes[leaf].values, first, last))

\* getRangeWithFilter, for an index on several columns.
LeafRangeWithFilter(t, leaf, range, found, reverse, limit) ==
    FoldLeft(LAMBDA more, i :
                IF IsInRange(t.orders, t.nodes[leaf].keys[i], range)
                THEN AppendResultsAt(more, t.nodes[leaf].values[i], reverse, limit) ELSE more,
             found, [i \in DOMAIN t.nodes[leaf].keys |-> i])

-----------------------------------------------------------------------------
(* From leaf to leaf.                                                      *)

\* getContainingLeafMultiKey_: a key with columns that are not bound ties
\* with a separator, and its range begins on the left of it.
RECURSIVE ContainingLeaf(_, _, _)
ContainingLeaf(t, id, key) ==
    LET pos == IF Unbound \in ToSet(key) THEN SearchKey(t, id, key) ELSE ChildFor(t, id, key)
    IN  IF IsLeaf(t.nodes[id]) THEN id ELSE ContainingLeaf(t, t.nodes[id].children[pos], key)

Stopping_First(strikes) == strikes = 1

\* The second leaf in a row that begins outside of the range is the last one.
Stopping(strikes) == strikes = 2

RECURSIVE Scan(_, _, _, _, _, _, _)
Scan(t, leaf, range, found, strikes, reverse, limit) ==
    LET more == IF Len(t.orders) > 1
                THEN LeafRangeWithFilter(t, leaf, range, found, reverse, limit)
                ELSE LeafRange(t, leaf, range, found, reverse, limit)
        struck == IF more.skip = 0 /\ ~IsFirstKeyInRange(t.orders, t.nodes[leaf].keys[1], range)
                  THEN strikes + 1 ELSE 0
    IN  IF leaf = Nil \/ Len(found.rows) >= limit THEN found
        ELSE IF Stopping(struck) THEN more
        ELSE Scan(t, t.nodes[leaf].next, range, more, struck, reverse, limit)

ScanRange(t, range, found, reverse, limit) ==
    LET first == LeftMostNode(t, t.root)
        key == IF IsLeftOpen(t.orders, range) THEN t.nodes[first].keys[1]
               ELSE LeftMostOf(t.orders, range)
    IN  Scan(t, ContainingLeaf(t, t.root, key), range, found, 0, reverse, limit)

\* getRange
GetRange(t, q) ==
    LET limit == IF q.limit = NoLimit THEN t.totalRows ELSE Least(q.limit, t.totalRows)
        left  == t.totalRows - q.skip
        maxCount == Least(IF left < 0 THEN 0 ELSE left, limit)
        isAll == \/ q.all
                 \/ Len(q.ranges) = 1 /\ Len(t.orders) = 1 /\ IsAll(q.ranges[1][1])
        found == FoldLeft(LAMBDA more, range :
                              ScanRange(t, range, more, q.reverse,
                                        IF q.reverse THEN t.totalRows ELSE maxCount),
                          [rows |-> <<>>, skip |-> q.skip], SortKeyRanges(t.orders, q.ranges))
    IN  IF t.nodes[LeftMostNode(t, t.root)].keys = <<>> \/ maxCount = 0 THEN <<>>
        ELSE IF isAll THEN GetAll(t, maxCount, q.reverse, q.skip)
        ELSE IF q.reverse THEN Slice(found.rows, TRUE, limit, q.skip)
        ELSE found.rows

AllRows == [all |-> TRUE, ranges |-> <<>>, reverse |-> FALSE, limit |-> NoLimit, skip |-> 0]

\* cost
Cost(t, range) ==
    IF Len(t.orders) = 1 /\ IsAll(range[1]) THEN t.totalRows
    ELSE IF Len(t.orders) = 1 /\ IsOnly(range[1]) THEN Cardinality(Get(t, <<range[1].from>>))
    ELSE Len(GetRange(t, [AllRows EXCEPT !.all = FALSE, !.ranges = <<range>>]))

-----------------------------------------------------------------------------
(* The index and its operations.                                           *)

CONSTANTS Growths,      \* records: unique, orders, and the sequence of [key, row] inserted
          Keys,         \* keys that operations are tried with
          NewRows,      \* rows that operations are tried with
          Queries,      \* what is asked, as records for GetRange
          MaxOps

VARIABLES tree,
          nulls,        \* NullableIndex.nulls_
          rows,         \* what has been put in and not taken out: keys to sets of rows
          garbled,      \* has a session read the leaves back in another order?
          ops           \* how many operations there have been

vars == <<tree, nulls, rows, garbled, ops>>

NullKey == <<Null>>

RowsOf(key) == IF key \in DOMAIN rows THEN rows[key] ELSE {}

Grown(g) ==
    FoldLeft(LAMBDA t, e : InsertRow(t, e.key, e.row, FALSE), EmptyTree(g.unique, g.orders), g.entries)

RowsIn(entries) ==
    [key \in {e.key : e \in ToSet(entries)} |-> {e.row : e \in {d \in ToSet(entries) : d.key = key}}]

KeysOf(t) == {key \in Keys : Len(key) = Len(t.orders)}

Init ==
    /\ ops = 0 /\ nulls = {} /\ garbled = FALSE
    /\ \E g \in Growths : tree = Grown(g) /\ rows = RowsIn(g.entries)

Operates == ops < MaxOps /\ ops' = ops + 1

\* BTree.add, NullableIndex.add: any number of rows have the null key.
Add(key, row) ==
    /\ Operates
    /\ IF key = NullKey THEN nulls' = nulls \cup {row} /\ UNCHANGED tree
       ELSE /\ ~RefusesRow(tree, key, row)
            /\ tree' = InsertRow(tree, key, row, FALSE) /\ UNCHANGED nulls
    /\ rows' = Put(rows, key, RowsOf(key) \cup {row})

\* BTree.set, NullableIndex.set
Set(key, row) ==
    /\ Operates
    /\ IF key = NullKey THEN nulls' = {row} /\ UNCHANGED tree
       ELSE tree' = InsertRow(tree, key, row, TRUE) /\ UNCHANGED nulls
    /\ rows' = Put(rows, key, {row})

\* BTree.remove and NullableIndex.remove of a row; an index of unique keys
\* does not look at the row of a key that is not null.
RemoveOne(key, row) ==
    /\ Operates
    /\ IF key = NullKey THEN nulls' = nulls \ {row} /\ UNCHANGED tree
       ELSE tree' = RemoveRow(tree, key, row) /\ UNCHANGED nulls
    /\ LET left == IF tree.unique /\ key # NullKey THEN {} ELSE RowsOf(key) \ {row}
       IN  rows' = [k \in {k \in DOMAIN rows : k # key \/ left # {}} |->
                       IF k = key THEN left ELSE rows[k]]

\* BTree.remove and NullableIndex.remove of a key.
RemoveAll(key) ==
    /\ Operates
    /\ IF key = NullKey THEN nulls' = {} /\ UNCHANGED tree
       ELSE tree' = RemoveRow(tree, key, AnyRow) /\ UNCHANGED nulls
    /\ rows' = [k \in DOMAIN rows \ {key} |-> rows[k]]

Clear ==
    /\ Operates
    /\ tree' = ClearTree(tree) /\ nulls' = {}
    /\ rows' = [k \in {} |-> {}]

\* serialize, and deserialize by the next session.  Stores return rows in the
\* order of their ids, and nobody sorts them by their keys.  A leaf that has
\* been split keeps its id and the half on its right has a new one, so that,
\* but for the last leaf, it comes back behind leaves with greater keys.
Reload ==
    /\ Operates
    /\ LET leaves == Serialize(tree)
           stored == SortSeq(leaves, LAMBDA l1, l2 : l1.id < l2.id)
       IN  /\ tree' = Deserialize(tree, stored)
           /\ garbled' = (garbled \/ stored # leaves)
    /\ UNCHANGED <<nulls, rows>>

Changes ==
    \/ \E key \in KeysOf(tree) :
          \/ RemoveAll(key)
          \/ \E row \in NewRows : Add(key, row) \/ Set(key, row)
          \/ \E row \in NewRows \cup RowsOf(key) : RemoveOne(key, row)
    \/ Clear

Next == (Changes /\ UNCHANGED garbled) \/ Reload

Spec == Init /\ [][Next]_vars

-----------------------------------------------------------------------------

RECURSIVE LeavesBelow(_, _)
LeavesBelow(t, id) ==
    IF IsLeaf(t.nodes[id]) THEN <<id>>
    ELSE FlattenSeq([i \in DOMAIN t.nodes[id].children |-> LeavesBelow(t, t.nodes[id].children[i])])

KeysBelow(t, id) == UNION {ToSet(t.nodes[leaf].keys) : leaf \in ToSet(LeavesBelow(t, id))}

\* The tree finds the rows of every key, finds nothing under other keys, and
\* counts its rows (BTree.get, containsKey, stats).  Not so of a tree whose
\* leaves came back from the store in another order than that of their keys:
\* it may miss keys that it has.
FindsKeys == ~garbled =>
    /\ KeysBelow(tree, tree.root) = DOMAIN rows \ {NullKey}
    /\ nulls = RowsOf(NullKey)
    /\ \A key \in KeysOf(tree) \ {NullKey} :
           /\ Get(tree, key) = RowsOf(key)
           /\ ContainedIn(tree, tree.root, key) <=> key \in DOMAIN rows
    /\ tree.totalRows = MapThenSumSet(LAMBDA key : Cardinality(rows[key]), DOMAIN rows \ {NullKey})

\* No node but the root has too few or too many keys, and all leaves have the
\* same depth, whatever was stolen from or merged into a neighbour under
\* another parent (delete_, steal_, merge_, splitLeaf_, splitInternal_).
Balanced ==
    \A id \in DOMAIN tree.nodes :
        LET node == tree.nodes[id]
        IN  /\ Len(node.keys) <= MaxKeyLen
            /\ id # tree.root => Len(node.keys) >= MinKeyLen
            /\ ~IsLeaf(node) =>
                  /\ Len(node.children) = Len(node.keys) + 1
                  /\ \A child \in ToSet(node.children) :
                         tree.nodes[child].height = node.height - 1 /\ tree.nodes[child].parent = id
            /\ node.parent = Nil <=> id = tree.root

\* NullableIndex.getRange: without ranges the rows of the null key come last.
Answer(q) == GetRange(tree, q) \o (IF q.all THEN RowsInOrder(nulls) ELSE <<>>)

\* What getRange is to return; a limit does not count the rows of null.
Expected(q) ==
    LET keys == {key \in DOMAIN rows \ {NullKey} :
                    q.all \/ \E n \in DOMAIN q.ranges : IsInRange(tree.orders, key, q.ranges[n])}
        ordered == SortSeq(Listed(keys), LAMBDA k1, k2 : CompareKeys(tree.orders, k1, k2) = RHS)
        found == FlattenSeq([i \in DOMAIN ordered |-> RowsInOrder(rows[ordered[i]])])
    IN  Slice(found, q.reverse, q.limit, q.skip) \o
        (IF q.all THEN RowsInOrder(RowsOf(NullKey)) ELSE <<>>)

Answered(q) == Answer(q) = Expected(q)

Asked == {q \in Queries : \A n \in DOMAIN q.ranges : Len(q.ranges[n]) = Len(tree.orders)}

\* Does the range of the first column begin after a key?  Then leaves whose
\* keys all have that key may follow each other; see AllRangesFound.
BeginsAfterKey(q) ==
    \E n \in DOMAIN q.ranges : Normalized(tree.orders[1], q.ranges[n][1]).excludeLower

\* getRange returns the rows of the ranges, in order, from the end if asked
\* so, without the skipped ones and up to the limit, unless a session has read
\* the leaves back out of order.
RangesFound ==
    ~garbled => \A q \in Asked : Len(tree.orders) = 1 \/ ~BeginsAfterKey(q) => Answered(q)

\* The same of every range of an index on several columns: "Retrieves all data
\* within the range" is what index.js says of getRange.
AllRangesFound == \A q \in Asked : Answered(q)
=============================================================================
