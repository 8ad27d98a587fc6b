--------------------------- MODULE SelectBuilder ----------------------------
(***************************************************************************)
(* lf.query.SelectBuilder, its context and its cached plan (src/lib/query, *)
(* select_builder.js, base_builder.js, select_context.js), for queries     *)
(*     select(v).from(t).where(v.gte(..)).orderBy(v, ..).limit(..)         *)
(* on one column of one table.  The predicate is always a placeholder,     *)
(* bound by the value at one index of an array; limit() gets a number or a *)
(* placeholder for another.  How the rows are reached is in Queries.       *)
(*                                                                         *)
(* A predicate is an object: what is bound to it is kept outside of the    *)
(* builders, which may have been given the same one.                       *)
(***************************************************************************)
EXTENDS Naturals, Sequences, SequencesExt, TLC

CONSTANT Nil

NewQuery == [from |-> FALSE, where |-> {}, order |-> Nil,
             limit |-> Nil, limitBinder |-> FALSE]

\* Not in the code: "bound" has what was bound to each predicate through
\* this builder, or when it was copied for it, "late" that the query got a
\* clause after its plan, and "early" that the plan was made while the limit
\* was not bound.
NewBuilder == [query |-> NewQuery, whereAlreadyCalled |-> FALSE, plan |-> Nil,
               bound |-> [p \in {} |-> Nil], late |-> FALSE, early |-> FALSE]

-----------------------------------------------------------------------------
(* The clauses.  A call that would throw has no effect and is not made.    *)

Clause(b, query) == [b EXCEPT !.query = query, !.late = @ \/ b.plan # Nil]

\* A clone may call from() again, for a second table: it does not here.
CanFrom(b) == ~b.query.from
From(b) == Clause(b, [b.query EXCEPT !.from = TRUE])

CanWhere(b) == b.query.from /\ ~b.whereAlreadyCalled

\* where and augmentWhereClause_: a clone, which may call where() once more
\* than its original, has the conjunction of both.
Where(b, p) ==
    [Clause(b, [b.query EXCEPT !.where = @ \cup {p}])
        EXCEPT !.whereAlreadyCalled = TRUE,
               !.bound = [q \in DOMAIN @ \cup {p} |->
                             IF q = p THEN Nil ELSE @[q]]]

\* A limit of 0 counts as none (select_builder.js:302).
CanLimit(b) == b.query.limit \in {Nil, 0} /\ ~b.query.limitBinder

Limit(b, n) == IF b.query.limit = Nil THEN Clause(b, [b.query EXCEPT !.limit = n])
               ELSE [b EXCEPT !.query.limit = n]

LimitBinder(b) ==
    IF b.query.limit = Nil THEN Clause(b, [b.query EXCEPT !.limitBinder = TRUE])
    ELSE [b EXCEPT !.query.limitBinder = TRUE]

\* orderBy; a second one would order rows that are alike already.
CanOrderBy(b) == b.query.from /\ b.query.order = Nil
OrderBy(b, order) == Clause(b, [b.query EXCEPT !.order = order])

\* SelectContext.bind, but for the predicates it binds.
Bind(b, n, v) == [b EXCEPT !.query.limit = IF b.query.limitBinder THEN n ELSE @,
                           !.bound = [p \in DOMAIN @ |-> v]]

Clone_SharesPredicates(b, copy, given) ==
    [NewBuilder EXCEPT !.query = b.query, !.bound = b.bound]

\* clone: a new builder, with a copy of the predicate, if any, to which the
\* same is bound, and no plan.
Clone(b, copy, given) ==
    LET copies == IF b.query.where = {} THEN {} ELSE {copy}
    IN  [NewBuilder EXCEPT
            !.query = [b.query EXCEPT !.where = copies],
            !.bound = [c \in copies |-> given]]

-----------------------------------------------------------------------------
(* The plan: which steps it has.  It is made once, at the first need.      *)

\* generateNodes_ of the plan's generator.
MakePlan(query) == [where |-> query.where, order |-> query.order,
                    limited |-> query.limit # Nil]

\* getPlan_ does not throw: a table to read, and no placeholder among the
\* predicates that the cost estimator looks at.
Plannable(b, value) ==
    b.plan # Nil \/ (b.query.from /\ \A p \in b.query.where : value[p] # Nil)

GetPlan(b) == IF b.plan # Nil THEN b
              ELSE [b EXCEPT !.plan  = MakePlan(b.query),
                             !.early = b.query.limitBinder /\ b.query.limit = Nil]

\* assertExecPreconditions
Executable(b) == b.query.from /\ ~(b.query.limitBinder /\ b.query.limit = Nil)

\* A select step throws on a placeholder (value_predicate.js:138).
Fails(plan, value) == \E p \in plan.where : value[p] = Nil

\* The steps of the plan on the rows of the table, in the order of row ids.
Selected(plan, value, rows) ==
    LET selected == SelectSeq(rows, LAMBDA v : \A p \in plan.where : v >= value[p])
    IN  CASE plan.order = Nil   -> selected
          [] plan.order = "ASC" -> SortSeq(selected, <)
          [] OTHER              -> SortSeq(selected, >)

Run(plan, limit, value, rows) ==
    LET selected == Selected(plan, [p \in plan.where |-> value[p]], rows)
    IN  IF plan.limited /\ limit < Len(selected) THEN SubSeq(selected, 1, limit)
                                                 ELSE selected
=============================================================================
