------------------------------- MODULE BTree --------------------------------
(***************************************************************************)
(* The B-tree behind every index (src/lib/index/btree.js).  A tree is a    *)
(* record: its nodes by their ids, the root, how many rows it has          *)
(* (stats.js), whether keys are unique and the order of the columns.       *)
(* The values of a key are the set of its rows; what reads them reads them *)
(* in ascending order, as the array in the code is sorted.                 *)
(***************************************************************************)
EXTENDS Comparator

CONSTANT MaxCount       \* BTreeNode_.MAX_COUNT_

ASSUME MaxCountAssumption == MaxCount \in Nat /\ MaxCount >= 4

MaxKeyLen == MaxCount - 1
MinKeyLen == MaxCount \div 2

Nil == 0                \* no node; ids of nodes are positive
AnyRow == -1            \* no row given to remove
NoLimit == -1

-----------------------------------------------------------------------------
(* Nodes.                                                                  *)

Leaf(parent, keys, values) ==
    [height |-> 0, parent |-> parent, prev |-> Nil, next |-> Nil,
     keys |-> keys, values |-> values, children |-> <<>>]

Internal(height, parent, keys, children) ==
    [height |-> height, parent |-> parent, prev |-> Nil, next |-> Nil,
     keys |-> keys, values |-> <<>>, children |-> children]

IsLeaf(node) == node.height = 0

\* Trees with a node changed or added, and with some nodes dropped.
Put(f, x, value) == [y \in DOMAIN f \cup {x} |-> IF y = x THEN value ELSE f[y]]
WithNode(t, id, node) == [t EXCEPT !.nodes = Put(@, id, node)]
Dropping(t, ids) == [t EXCEPT !.nodes = [id \in DOMAIN @ \ ids |-> @[id]]]

SetParents(t, ids, parent) ==
    [t EXCEPT !.nodes = [id \in DOMAIN @ |->
        IF id \in ids THEN [@[id] EXCEPT !.parent = parent] ELSE @[id]]]

\* associate_
Associate(t, left, right) ==
    [t EXCEPT !.nodes = [id \in DOMAIN @ |->
        IF id = right THEN [@[id] EXCEPT !.prev = left]
        ELSE IF id = left THEN [@[id] EXCEPT !.next = right] ELSE @[id]]]

EmptyTree(unique, orders) ==
    [nodes |-> [id \in {1} |-> Leaf(Nil, <<>>, <<>>)], root |-> 1, nextId |-> 2,
     totalRows |-> 0, unique |-> unique, orders |-> orders]

\* BTree.clear
ClearTree(t) ==
    [t EXCEPT !.nodes = [id \in {t.nextId} |-> Leaf(Nil, <<>>, <<>>)], !.root = t.nextId,
              !.nextId = @ + 1, !.totalRows = 0]

RECURSIVE LeftMostNode(_, _)
LeftMostNode(t, id) ==
    IF IsLeaf(t.nodes[id]) THEN id ELSE LeftMostNode(t, Head(t.nodes[id].children))

\* leftMostKey_
LeftMostKey(t, id) == t.nodes[LeftMostNode(t, id)].keys[1]

-----------------------------------------------------------------------------
(* Searching.                                                              *)

RECURSIVE BinarySearch(_, _, _, _, _)
BinarySearch(orders, keys, key, left, right) ==
    IF left >= right THEN left
    ELSE LET middle == (left + right) \div 2
         IN  IF CompareKeys(orders, keys[middle], key) = RHS
             THEN BinarySearch(orders, keys, key, middle + 1, right)
             ELSE BinarySearch(orders, keys, key, left, middle)

\* searchKey_: the place of the first key that is not before the given one.
SearchKey(t, id, key) ==
    BinarySearch(t.orders, t.nodes[id].keys, key, 1, Len(t.nodes[id].keys) + 1)

\* Does the node have the key at that place?
HasAt(t, id, pos, key) ==
    /\ pos <= Len(t.nodes[id].keys)
    /\ CompareKeys(t.orders, t.nodes[id].keys[pos], key) = TIE

ChildFor_Left(t, id, key) == SearchKey(t, id, key)

\* A separator is the first key of the child on its right.
ChildFor(t, id, key) ==
    LET pos == SearchKey(t, id, key) IN IF HasAt(t, id, pos, key) THEN pos + 1 ELSE pos

RECURSIVE LeafOf(_, _, _)
LeafOf(t, id, key) ==
    IF IsLeaf(t.nodes[id]) THEN id ELSE LeafOf(t, t.nodes[id].children[ChildFor(t, id, key)], key)

\* get
Get(t, key) ==
    LET leaf == LeafOf(t, t.root, key)
        pos  == SearchKey(t, leaf, key)
    IN  IF HasAt(t, leaf, pos, key) THEN t.nodes[leaf].values[pos] ELSE {}

RECURSIVE ContainedIn(_, _, _)
ContainedIn(t, id, key) ==
    LET pos == SearchKey(t, id, key)
    IN  \/ HasAt(t, id, pos, key)
        \/ ~IsLeaf(t.nodes[id]) /\ ContainedIn(t, t.nodes[id].children[pos], key)

-----------------------------------------------------------------------------
(* Insertion.  A node that is split returns a new node above its halves,   *)
(* which the parent takes into itself.                                     *)

\* splitLeaf_
SplitLeaf(t, id) ==
    LET node  == t.nodes[id]
        right == t.nextId
        top   == t.nextId + 1
        half  == MinKeyLen
        t1 == WithNode([t EXCEPT !.nextId = @ + 2], id,
                       [node EXCEPT !.parent = top, !.keys = SubSeq(@, 1, half),
                                    !.values = SubSeq(@, 1, half)])
        t2 == WithNode(t1, right, Leaf(top, SubSeq(node.keys, half + 1, Len(node.keys)),
                                       SubSeq(node.values, half + 1, Len(node.values))))
        t3 == WithNode(t2, top, Internal(1, node.parent, <<node.keys[half + 1]>>, <<id, right>>))
    IN  [tree |-> Associate(Associate(t3, right, node.next), id, right), top |-> top]

SplitInternal_KeepsParents(t, id) ==
    LET node  == t.nodes[id]
        top   == t.nextId
        right == t.nextId + 1
        half  == MinKeyLen
        t1 == WithNode([t EXCEPT !.nextId = @ + 2], id,
                       [node EXCEPT !.parent = top, !.keys = SubSeq(@, 1, half),
                                    !.children = SubSeq(@, 1, half + 1)])
        t2 == WithNode(t1, right, Internal(node.height, top,
                                           SubSeq(node.keys, half + 2, Len(node.keys)),
                                           SubSeq(node.children, half + 2, Len(node.children))))
        t3 == WithNode(t2, top, Internal(node.height + 1, node.parent, <<node.keys[half + 1]>>,
                                         <<id, right>>))
    IN  [tree |-> Associate(Associate(t3, right, node.next), id, right), top |-> top]

\* splitInternal_
SplitInternal(t, id) ==
    LET split == SplitInternal_KeepsParents(t, id)
        right == split.tree.nodes[id].next
    IN  [split EXCEPT !.tree = SetParents(@, ToSet(@.nodes[right].children), right)]

\* The node that insert returns is above two halves, and this one takes them.
TakeHalves(t, id, pos, top) ==
    LET halves == t.nodes[top]
        t1 == SetParents(t, ToSet(halves.children), id)
    IN  Dropping([t1 EXCEPT !.nodes[id].keys = InsertAt(@, pos, halves.keys[1]),
                            !.nodes[id].children =
                                SubSeq(@, 1, pos - 1) \o halves.children \o SubSeq(@, pos + 1, Len(@))],
                 {top})

InsertInLeaf(t, id, key, row, replace) ==
    LET pos == SearchKey(t, id, key)
        t1 == [t EXCEPT !.nodes[id].keys = InsertAt(@, pos, key),
                        !.nodes[id].values = InsertAt(@, pos, {row}),
                        !.totalRows = @ + 1]
    IN  IF ~HasAt(t, id, pos, key)
        THEN IF Len(t1.nodes[id].keys) = MaxCount THEN SplitLeaf(t1, id)
             ELSE [tree |-> t1, top |-> id]
        ELSE IF replace
        THEN [tree |-> [t EXCEPT !.nodes[id].values[pos] = {row},
                                 !.totalRows = @ - Cardinality(t.nodes[id].values[pos]) + 1],
              top |-> id]
        ELSE [tree |-> [t EXCEPT !.nodes[id].values[pos] = @ \cup {row}, !.totalRows = @ + 1],
              top |-> id]

RECURSIVE InsertIn(_, _, _, _, _)
InsertIn(t, id, key, row, replace) ==
    IF IsLeaf(t.nodes[id]) THEN InsertInLeaf(t, id, key, row, replace)
    ELSE LET pos   == ChildFor(t, id, key)
             below == InsertIn(t, t.nodes[id].children[pos], key, row, replace)
             node  == below.tree.nodes[below.top]
             t1    == IF ~IsLeaf(node) /\ Len(node.keys) = 1
                      THEN TakeHalves(below.tree, id, pos, below.top) ELSE below.tree
         IN  IF Len(t1.nodes[id].keys) = MaxCount THEN SplitInternal(t1, id)
             ELSE [tree |-> t1, top |-> id]

\* Exceptions 201 and 109, which are thrown before anything is changed.
RefusesRow(t, key, row) == IF t.unique THEN Get(t, key) # {} ELSE row \in Get(t, key)

InsertRow(t, key, row, replace) ==
    LET done == InsertIn(t, t.root, key, row, replace) IN [done.tree EXCEPT !.root = done.top]

-----------------------------------------------------------------------------
(* Deletion.                                                               *)

\* fix_: the separators are the first keys of the children.
Fix(t, id) ==
    LET FirstKey(keys, child) == Append(keys, LeftMostKey(t, child))
    IN  [t EXCEPT !.nodes[id].keys = FoldLeft(FirstKey, <<>>, Tail(t.nodes[id].children))]

MoreThanMin(t, id) == id # Nil /\ Len(t.nodes[id].keys) > MinKeyLen

Steal_OldParent(t, id) ==
    LET node == t.nodes[id]
        next == MoreThanMin(t, node.next)
        from == IF next THEN node.next ELSE node.prev
        taken(s) == IF next THEN Head(s) ELSE Last(s)
        left(s)  == IF next THEN Tail(s) ELSE Front(s)
        got(s, e) == IF next THEN Append(s, e) ELSE <<e>> \o s
        giver == t.nodes[from]
        t1 == IF IsLeaf(node)
              THEN [t EXCEPT !.nodes[id].keys = got(@, taken(giver.keys)),
                             !.nodes[id].values = got(@, taken(giver.values)),
                             !.nodes[from].keys = left(@),
                             !.nodes[from].values = left(@)]
              ELSE [t EXCEPT !.nodes[id].children = got(@, taken(giver.children)),
                             !.nodes[from].children = left(@)]
    IN  IF IsLeaf(node) THEN t1 ELSE Fix(Fix(t1, from), id)

\* steal_: one key, or one child, of a neighbour, which may have another parent.
Steal(t, id) ==
    LET node  == t.nodes[id]
        child == IF MoreThanMin(t, node.next) THEN Head(t.nodes[node.next].children)
                 ELSE Last(t.nodes[node.prev].children)
        t1 == Steal_OldParent(t, id)
    IN  IF IsLeaf(node) THEN t1 ELSE [t1 EXCEPT !.nodes[child].parent = id]

\* merge_: all of it goes to a neighbour, which may have another parent.
Merge(t, id, parentPos) ==
    LET node == t.nodes[id]
        next == node.next # Nil /\ Len(t.nodes[node.next].keys) < MaxKeyLen
        to   == IF next THEN node.next ELSE node.prev
        joined(mine, others) == IF next THEN mine \o others ELSE others \o mine
        t1 == SetParents(t, ToSet(node.children), to)
        t2 == [t1 EXCEPT !.nodes[to].keys = joined(node.keys, @),
                         !.nodes[to].values = joined(node.values, @),
                         !.nodes[to].children = joined(node.children, @)]
        t3 == IF IsLeaf(node) THEN t2 ELSE Fix(t2, to)
        t4 == Associate(t3, node.prev, node.next)
    IN  Dropping([t4 EXCEPT !.nodes[node.parent].keys =
                                IF parentPos <= Len(@) THEN RemoveAt(@, parentPos) ELSE @,
                            !.nodes[node.parent].children = RemoveAt(@, parentPos)],
                 {id})

Filled(t, id, parentPos) ==
    LET node == t.nodes[id]
    IN  IF Len(node.keys) >= MinKeyLen \/ node.parent = Nil THEN t
        ELSE IF MoreThanMin(t, node.next) \/ MoreThanMin(t, node.prev) THEN Steal(t, id)
        ELSE Merge(t, id, parentPos)

\* The leaf's part of delete_: fix says whether the nodes above need fixing.
DeleteInLeaf(t, id, key, row, parentPos) ==
    LET pos  == SearchKey(t, id, key)
        rows == t.nodes[id].values[pos]
        one  == row # AnyRow /\ ~t.unique
        gone == IF one THEN rows \cap {row} ELSE rows
        t1 == [t EXCEPT !.totalRows = @ - Cardinality(gone)]
        t2 == [t1 EXCEPT !.nodes[id].keys = RemoveAt(@, pos), !.nodes[id].values = RemoveAt(@, pos)]
    IN  IF ~HasAt(t, id, pos, key) THEN [tree |-> t, fix |-> FALSE]
        ELSE IF rows \ gone # {}
        THEN [tree |-> [t1 EXCEPT !.nodes[id].values[pos] = @ \ gone], fix |-> FALSE]
        ELSE [tree |-> Filled(t2, id, parentPos), fix |-> TRUE]

\* delete_
RECURSIVE DeleteIn(_, _, _, _, _)
DeleteIn(t, id, key, row, parentPos) ==
    IF IsLeaf(t.nodes[id]) THEN DeleteInLeaf(t, id, key, row, parentPos)
    ELSE LET pos   == ChildFor(t, id, key)
             below == DeleteIn(t, t.nodes[id].children[pos], key, row, pos)
         IN  IF ~below.fix THEN below
             ELSE [tree |-> Filled(Fix(below.tree, id), id, parentPos), fix |-> TRUE]

\* remove: a root that has only one child gives way to it.
RemoveRow(t, key, row) ==
    LET t1   == DeleteIn(t, t.root, key, row, 0).tree
        root == t1.nodes[t1.root]
    IN  IF Len(root.children) # 1 THEN t1
        ELSE Dropping([t1 EXCEPT !.root = root.children[1],
                                 !.nodes[root.children[1]].parent = Nil], {t1.root})

-----------------------------------------------------------------------------
(* Storing the leaves, and building a tree on stored leaves.               *)

RECURSIVE Chain(_, _)
Chain(t, id) == IF id = Nil THEN <<>> ELSE <<id>> \o Chain(t, t.nodes[id].next)

\* serialize: one row for each leaf.
Serialize(t) ==
    LET leaves == Chain(t, LeftMostNode(t, t.root))
    IN  [i \in DOMAIN leaves |-> [id |-> leaves[i], keys |-> t.nodes[leaves[i]].keys,
                                  values |-> t.nodes[leaves[i]].values]]

\* calcNodeLen_
CalcNodeLen(remaining) ==
    IF remaining >= MaxKeyLen + MinKeyLen + 1 THEN MaxKeyLen
    ELSE IF remaining \in (MinKeyLen + 1)..MaxKeyLen THEN remaining
    ELSE MinKeyLen + 1

\* createParent_
CreateParent(t, ids) ==
    LET parent == t.nextId
        keys == [i \in 1..(Len(ids) - 1) |-> t.nodes[ids[i + 1]].keys[1]]
        node == Internal(t.nodes[ids[1]].height + 1, Nil, keys, ids)
    IN  WithNode(SetParents([t EXCEPT !.nextId = @ + 1], ToSet(ids), parent), parent, node)

\* The loop of createInternals_ over the nodes that have no parent yet.
RECURSIVE CreateParents(_, _, _)
CreateParents(t, root, ids) ==
    IF ids = <<>> THEN t
    ELSE LET n  == IF CalcNodeLen(Len(ids)) < Len(ids) THEN CalcNodeLen(Len(ids)) ELSE Len(ids)
             t1 == CreateParent(t, SubSeq(ids, 1, n))
             new == t.nextId
             before == t.nodes[root].children
             t2 == [t1 EXCEPT !.nodes[new].parent = root,
                              !.nodes[root].children = Append(@, new),
                              !.nodes[root].keys =
                                  IF before = <<>> THEN @ ELSE Append(@, t1.nodes[ids[1]].keys[1])]
             t3 == IF before = <<>> THEN t2 ELSE Associate(t2, Last(before), new)
         IN  CreateParents(t3, root, SubSeq(ids, n + 1, Len(ids)))

\* createInternals_
CreateInternals(t, ids) ==
    IF Len(ids) <= MaxKeyLen + 1 THEN [CreateParent(t, ids) EXCEPT !.root = t.nextId]
    ELSE LET root == t.nextId
             height == t.nodes[ids[1]].height + 2
             t1 == WithNode([t EXCEPT !.root = root, !.nextId = @ + 1], root,
                            Internal(height, Nil, <<>>, <<>>))
         IN  CreateParents(t1, root, ids)

\* deserialize: a tree on the rows, in the order the store returns them in.
Deserialize(t, rows) ==
    LET ids == [i \in DOMAIN rows |-> rows[i].id]
        At(id) == CHOOSE i \in DOMAIN rows : rows[i].id = id
        leaves == [id \in ToSet(ids) |-> Leaf(Nil, rows[At(id)].keys, rows[At(id)].values)]
        linked == [id \in ToSet(ids) |->
                     [leaves[id] EXCEPT !.prev = IF At(id) = 1 THEN Nil ELSE ids[At(id) - 1],
                                        !.next = IF At(id) = Len(ids) THEN Nil ELSE ids[At(id) + 1]]]
        total == MapThenSumSet(LAMBDA id : MapThenSumSet(LAMBDA i : Cardinality(leaves[id].values[i]),
                                                         DOMAIN leaves[id].keys), ToSet(ids))
        t1 == [t EXCEPT !.nodes = linked, !.totalRows = total, !.root = ids[1]]
    IN  IF Len(ids) > 1 THEN CreateInternals(t1, ids) ELSE t1
=============================================================================
