---------------------------- MODULE LogicalPlan -----------------------------
(***************************************************************************)
(* Logical plans: the tree of a query, and the passes that rewrite it      *)
(* (src/lib/proc/*_logical_plan_generator.js, *_pass.js, src/lib/tree.js). *)
(* A query is a record: kind, columns, from (a sequence of tables), where, *)
(* outer (the ids of the predicates of outer joins), orderBy, groupBy,     *)
(* limit and skip, Null when there is none.                                *)
(***************************************************************************)
EXTENDS Predicate

NoPredicate == [id |-> 0, kind |-> "none"]

HasWhere(query) == query.where # NoPredicate

-----------------------------------------------------------------------------
(* Trees (tree.js, structs/tree_node.js).                                  *)

Node(op, arg, kids) == [op |-> op, arg |-> arg, kids |-> kids]

SelectNode(p, kid) == [op |-> "select", arg |-> p, kids |-> <<kid>>, pushed |-> FALSE]
Access(table) == Node("access", table, <<>>)

IsSelect(node) == node.op = "select"
Kid(node) == node.kids[1]

WithKids(node, kids) == [node EXCEPT !.kids = kids]

RECURSIVE Nodes(_), RemoveNodes(_, _)
\* lf.tree.find: nodes in pre-order.
Nodes(tree) == <<tree>> \o FlattenSeq([i \in DOMAIN tree.kids |-> Nodes(tree.kids[i])])

NodesOf(tree, op) == SelectSeq(Nodes(tree), LAMBDA n : n.op = op)

\* getLeafNodes, the tables below a node.
TablesBelow(tree) == {n.arg : n \in ToSet(NodesOf(tree, "access"))}

Tag(node) == <<node.op, IF IsSelect(node) THEN node.arg.id ELSE 0>>

\* lf.tree.removeNode, of the nodes with one of the tags; they have one child.
RemoveNodes(tree, tags) ==
    IF Tag(tree) \in tags THEN RemoveNodes(Kid(tree), tags)
    ELSE WithKids(tree, [i \in DOMAIN tree.kids |-> RemoveNodes(tree.kids[i], tags)])

\* lf.tree.swapNodeWithChild
SwapWithChild(node) == WithKids(Kid(node), <<WithKids(node, Kid(node).kids)>>)

-----------------------------------------------------------------------------
(* The plan as generated.                                                  *)

Tables(query) == [i \in DOMAIN query.from |-> Access(query.from[i])]

\* A node on top of the ones below, if the query has it.
On(exists, op, arg, kids) == IF exists THEN <<Node(op, arg, kids)>> ELSE kids

Aggregated(query) ==
    SelectSeq(query.columns \o [i \in DOMAIN query.orderBy |-> query.orderBy[i].column], IsAggregate)

\* SelectLogicalPlanGenerator.connectNodes_
SelectPlan(query) ==
    LET crossed    == On(Len(query.from) >= 2, "cross", Null, Tables(query))
        selected   == IF HasWhere(query) THEN <<SelectNode(query.where, crossed[1])>> ELSE crossed
        grouped    == On(query.groupBy # <<>>, "group_by", query.groupBy, selected)
        aggregated == On(Aggregated(query) # <<>>, "aggregation", Aggregated(query), grouped)
        ordered    == On(query.orderBy # <<>>, "order_by", query.orderBy, aggregated)
        projected  == On(TRUE, "project", [columns |-> query.columns, groupBy |-> query.groupBy], ordered)
        skipped    == On(query.skip \notin {Null, 0} \/ query.skipParam # 0, "skip", Null, projected)
        limited    == On(query.limit # Null, "limit", Null, skipped)
    IN  limited[1]

\* Delete and UpdateLogicalPlanGenerator
ChangePlan(query) ==
    LET table == Access(query.from[1])
    IN  Node(query.kind, query.from[1],
             <<IF HasWhere(query) THEN SelectNode(query.where, table) ELSE table>>)

NaivePlan(query) == IF query.kind = "select" THEN SelectPlan(query) ELSE ChangePlan(query)

-----------------------------------------------------------------------------
(* AndPredicatePass: a selection by an AND becomes a chain.                *)

RECURSIVE BreakAnd(_)
BreakAnd(p) ==
    IF IsCombined(p, "AND") THEN FlattenSeq([i \in DOMAIN p.kids |-> BreakAnd(p.kids[i])]) ELSE <<p>>

Chain(predicates, below) == FoldRight(SelectNode, predicates, below)

RECURSIVE AndPredicatePass(_)
AndPredicatePass(tree) ==
    IF IsSelect(tree) THEN Chain(BreakAnd(tree.arg), AndPredicatePass(Kid(tree)))
    ELSE WithKids(tree, [i \in DOMAIN tree.kids |-> AndPredicatePass(tree.kids[i])])

-----------------------------------------------------------------------------
(* CrossProductPass: products of more than two become products of products.*)

LeftDeep(kids) == FoldLeft(LAMBDA l, r : Node("cross", Null, <<l, r>>), kids[1], Tail(kids))

RECURSIVE CrossProductPass(_)
CrossProductPass(tree) ==
    IF tree.op = "cross" THEN LeftDeep(tree.kids)
    ELSE WithKids(tree, [i \in DOMAIN tree.kids |-> CrossProductPass(tree.kids[i])])

-----------------------------------------------------------------------------
(* PushDownSelectionsPass: selections go below other selections, and below *)
(* a product into each operand that has all the tables they refer to.      *)

ShouldSwapWithChild_AnyOuter(node, query) == IsSelect(Kid(node))

\* Only joins go below the selection that makes an outer join.
ShouldSwapWithChild(node, query) ==
    /\ IsSelect(Kid(node))
    /\ node.arg.kind = "join" \/ Kid(node).arg.id \notin query.outer

RECURSIVE PushDown(_, _)
\* pushDownNodeRec_
PushDown(node, query) ==
    LET child == Kid(node)
        Fits(kid) == TablesOf(node.arg) \subseteq TablesBelow(kid)
    IN  IF ShouldSwapWithChild(node, query)
        THEN WithKids(child, <<PushDown(WithKids(node, child.kids), query)>>)
        ELSE IF child.op = "cross" /\ \E i \in DOMAIN child.kids : Fits(child.kids[i])
        THEN WithKids(child, [i \in DOMAIN child.kids |->
                 IF Fits(child.kids[i]) THEN PushDown(SelectNode(node.arg, child.kids[i]), query)
                 ELSE child.kids[i]])
        ELSE node

IsPushed(node, id) == IsSelect(node) /\ node.arg.id = id /\ node.pushed

RECURSIVE PushAll(_, _), PushBelow(_, _, _)
\* processNodeRec: selections are pushed once; where one has gone, what took
\* its place is processed again, and then what is below it.
PushAll(tree, query) ==
    IF ~IsSelect(tree)
    THEN WithKids(tree, [i \in DOMAIN tree.kids |-> PushAll(tree.kids[i], query)])
    ELSE IF tree.pushed THEN tree
    ELSE LET id      == tree.arg.id
             newRoot == PushDown([tree EXCEPT !.pushed = TRUE], query)
             kept    == SelectSeq(Nodes(newRoot), LAMBDA n : IsPushed(n, id)) # <<>>
             again   == IF IsPushed(newRoot, id) THEN newRoot ELSE PushAll(newRoot, query)
         IN  IF kept THEN PushBelow(again, id, query) ELSE again

\* processChildren of the selection with this id.
PushBelow(tree, id, query) ==
    WithKids(tree, [i \in DOMAIN tree.kids |->
        IF IsPushed(tree, id) THEN PushAll(tree.kids[i], query)
        ELSE PushBelow(tree.kids[i], id, query)])

\* The pass ends with clear_(): marks mean nothing to anyone else.
PushDownSelectionsPass(tree, query) == IF HasWhere(query) THEN PushAll(tree, query) ELSE tree

-----------------------------------------------------------------------------
(* ImplicitJoinsPass: a join predicate right above a product is a join.    *)

IsImplicitJoin(node) == IsSelect(node) /\ node.arg.kind = "join" /\ Kid(node).op = "cross"

RECURSIVE ImplicitJoinsPass(_, _)
ImplicitJoinsPass(tree, query) ==
    LET below(node) == [i \in DOMAIN node.kids |-> ImplicitJoinsPass(node.kids[i], query)]
    IN  IF IsImplicitJoin(tree)
        THEN Node("join", [predicate |-> tree.arg, outer |-> tree.arg.id \in query.outer,
                           algorithm |-> IF tree.arg.type = "eq" THEN "hash" ELSE "nested_loop",
                           column |-> Star],
                  below(Kid(tree)))
        ELSE WithKids(tree, below(tree))

\* LogicalPlanFactory: the passes, in order.
LogicalPasses(query) ==
    CASE query.kind = "select" -> <<"and", "cross_product", "push_down", "implicit_joins">>
      [] query.kind = "delete" -> <<"and">>
      [] query.kind = "update" -> <<>>

LogicalPass(pass, tree, query) ==
    CASE pass = "and"            -> AndPredicatePass(tree)
      [] pass = "cross_product"  -> IF Len(query.from) < 3 THEN tree ELSE CrossProductPass(tree)
      [] pass = "push_down"      -> PushDownSelectionsPass(tree, query)
      [] pass = "implicit_joins" ->
            IF Len(query.from) < 2 THEN tree ELSE ImplicitJoinsPass(tree, query)
=============================================================================
