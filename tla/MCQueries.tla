------------------------------ MODULE MCQueries -----------------------------
(***************************************************************************)
(* Queries on two tables, each of which may be named twice, and contents   *)
(* of these tables.  Table a has a primary key and indices on x and on x   *)
(* with y, the latter descending; b has an index on a column that may be   *)
(* null.                                                                   *)
(***************************************************************************)
EXTENDS Queries

\* Operators here, as TLC keeps functions made by @@ as they were.
MCBaseOf == [t \in {"a", "b", "c", "d"} |-> IF t \in {"a", "c"} THEN "a" ELSE "b"]

MCColumnNames == [t \in {"a", "b"} |-> IF t = "a" THEN {"id", "x", "y"} ELSE {"x", "z"}]

MCIndices ==
    [t \in {"a", "b"} |->
        IF t = "a"
        THEN <<[name |-> "pk", unique |-> TRUE, columns |-> <<"id">>, orders |-> <<"ASC">>],
               [name |-> "ix", unique |-> FALSE, columns |-> <<"x">>, orders |-> <<"ASC">>],
               [name |-> "ixy", unique |-> FALSE, columns |-> <<"x", "y">>, orders |-> <<"ASC", "DESC">>]>>
        ELSE <<[name |-> "iz", unique |-> FALSE, columns |-> <<"z">>, orders |-> <<"DESC">>]>>]

A(id, x, y) == [id |-> id, x |-> x, y |-> y]
B(x, z) == [x |-> x, z |-> z]

Contents(a, b) == [t \in {"a", "b"} |-> IF t = "a" THEN a ELSE b]

MCDatabases ==
    {Contents(<<A(1, 2, 1), A(3, 1, 2), A(2, 2, 3)>>, <<B(2, 3), B(1, 2)>>),
     Contents(<<A(2, 1, 3), A(1, 3, 3)>>, <<B(1, 1), B(3, 3), B(1, 3)>>),
     Contents(<<A(1, 3, 2)>>, <<>>),
     Contents(<<A(3, 1, 1), A(2, 2, 1), A(1, 3, 2)>>, <<B(3, Null), B(2, 1), B(1, Null)>>)}

-----------------------------------------------------------------------------

ax == Column("a", "x")
ay == Column("a", "y")
ai == Column("a", "id")
bx == Column("b", "x")
bz == Column("b", "z")
cx == Column("c", "x")
ci == Column("c", "id")
dx == Column("d", "x")
dz == Column("d", "z")

\* A constant, or the parameter with this number.
Value(id, column, type, value) == ValuePredicate(id, column, type, <<value>>, <<0>>)
Param(id, column, type, n) == ValuePredicate(id, column, type, <<Unset>>, <<n>>)
Among2(id, column, v, w) == ValuePredicate(id, column, "in", <<v, w>>, <<0, 0>>)
Between(id, column, v, w) == ValuePredicate(id, column, "between", <<v, w>>, <<0, 0>>)
And2(id, p, q) == CombinedPredicate(id, "AND", <<p, q>>)
And3(id, p, q, r) == CombinedPredicate(id, "AND", <<p, q, r>>)
Or2(id, p, q) == CombinedPredicate(id, "OR", <<p, q>>)
Not(p) == SetComplement(p, TRUE)

Asc(column) == [column |-> column, order |-> "ASC"]
Desc(column) == [column |-> column, order |-> "DESC"]

Base(name, from, where) ==
    [name |-> name, kind |-> "select", columns |-> <<>>, from |-> from, where |-> where, outer |-> {},
     orderBy |-> <<>>, groupBy |-> <<>>, limit |-> Null, skip |-> Null, limitParam |-> 0, skipParam |-> 0,
     set |-> Nothing, bindings |-> <<<<>>>>]

Bindings(q, values) == [q EXCEPT !.bindings = values]
Ordered(q, orderBy) == [q EXCEPT !.orderBy = orderBy]
Cut(q, skip, limit) == [q EXCEPT !.skip = skip, !.limit = limit]
Selecting(q, columns) == [q EXCEPT !.columns = columns]
Outer(q, ids) == [q EXCEPT !.outer = ids]
By(q, groupBy) == [q EXCEPT !.groupBy = groupBy]

OnA(name, where) == Base(name, <<"a">>, where)
OnB(name, where) == Base(name, <<"b">>, where)

\* Selections of one table.
Selections ==
    {OnA("all", NoPredicate),
     OnA("eq", Value(1, ax, "eq", 2)),
     OnA("and", And2(1, Value(2, ax, "gte", 2), Value(3, ay, "lt", 3))),
     OnA("and3", And3(1, Value(2, ax, "gte", 1), Value(3, ai, "lte", 2), Value(4, ay, "neq", 3))),
     OnA("in", Among2(1, ax, 1, 2)),
     OnA("not_in", Not(Among2(1, ax, 1, 2))),
     OnA("not_between", Not(Between(1, ax, 2, 2))),
     OnA("not_gt", Not(And2(1, Value(2, ax, "gt", 1), Value(3, ai, "gt", 1)))),
     OnA("or", Or2(1, Value(2, ax, "eq", 1), Value(3, ax, "eq", 3))),
     OnA("multi_or", Or2(1, Value(2, ax, "eq", 2), Value(3, ai, "eq", 1))),
     OnA("or_and", And2(1, Or2(2, Value(3, ax, "eq", 2), Value(4, ai, "eq", 1)), Value(5, ay, "gt", 1))),
     OnA("part", Value(1, ay, "eq", 3)),
     OnA("null", Value(1, ax, "eq", Null)),
     OnB("z_lt", Value(1, bz, "lt", 3)),
     OnB("z_null", Value(1, bz, "eq", Null)),
     OnB("z_not", Not(Value(1, bz, "gt", 1)))}

\* Order, skip and limit.
Orderings ==
    {Ordered(OnA("by_x", NoPredicate), <<Asc(ax)>>),
     Ordered(OnA("by_xy", NoPredicate), <<Desc(ax), Asc(ay)>>),
     Ordered(OnA("by_xy_mixed", NoPredicate), <<Asc(ax), Asc(ay)>>),
     Ordered(OnA("by_id_gt", Value(1, ai, "gt", 1)), <<Desc(ai)>>),
     Ordered(OnA("by_y_gt", Value(1, ax, "gt", 1)), <<Asc(ay)>>),
     Cut(OnA("limit", Value(1, ax, "gte", 2)), 1, 1),
     Cut(OnA("limit_rest", And2(1, Value(2, ax, "gte", 1), Value(3, ay, "gt", 1))), Null, 1),
     Cut(Ordered(OnA("limit_by", Value(1, ay, "gt", 1)), <<Desc(ax)>>), 1, 1),
     Cut(Ordered(OnA("limit_by_y", Value(1, ax, "gte", 1)), <<Desc(ay)>>), Null, 2),
     Cut(OnA("limit_or", Or2(1, Value(2, ax, "eq", 2), Value(3, ai, "eq", 1))), Null, 1),
     Ordered(OnB("by_z", NoPredicate), <<Asc(bz)>>)}

\* Joins, inner and outer.
OnAB(name, where) == Base(name, <<"a", "b">>, where)
Joined == JoinPredicate(1, ax, bx, "eq")
JoinedZ == JoinPredicate(1, ax, bz, "eq")

Joinings ==
    {OnAB("cross", NoPredicate),
     OnAB("join", Joined),
     OnAB("join_z", JoinedZ),
     OnAB("join_lt", JoinPredicate(1, ax, bx, "lt")),
     OnAB("join_and", And3(5, Joined, Value(2, ay, "gt", 1), Value(3, bz, "lt", 3))),
     OnAB("join_or", And2(5, Joined, Or2(2, Value(3, ax, "eq", 2), Value(4, ai, "eq", 1)))),
     Outer(OnAB("outer", Joined), {1}),
     Outer(OnAB("outer_lt", JoinPredicate(1, ax, bx, "lt")), {1}),
     Outer(OnAB("outer_right", And2(5, Joined, Value(2, bz, "gt", 1))), {1}),
     Outer(OnAB("outer_left", And2(5, Joined, Value(2, ax, "gt", 1))), {1}),
     Base("self", <<"a", "c">>, And2(5, JoinPredicate(1, ax, ci, "eq"), Value(2, cx, "gt", 1))),
     Base("three", <<"a", "b", "c">>, And3(5, Joined, JoinPredicate(2, bx, ci, "eq"), Value(3, ay, "lt", 3))),
     Outer(Base("outer_three", <<"a", "b", "c">>, And2(5, Joined, JoinPredicate(2, bx, ci, "eq"))), {1, 2}),
     Cut(Ordered(OnAB("join_by", Joined), <<Asc(bz), Desc(ai)>>), 1, 2)}

\* Aggregates and groups.
Aggregates ==
    {Selecting(OnA("count", NoPredicate), <<Aggregate("COUNT", Star)>>),
     Selecting(OnA("count_eq", Value(1, ax, "eq", 2)), <<Aggregate("COUNT", Star)>>),
     Selecting(OnB("counts", NoPredicate), <<Aggregate("COUNT", bz), Aggregate("MIN", bz), Aggregate("AVG", bx)>>),
     Selecting(OnA("distinct", NoPredicate), <<Aggregate("DISTINCT", ay)>>),
     Ordered(Selecting(OnA("distinct_by", NoPredicate), <<Aggregate("DISTINCT", ay)>>), <<Asc(ay)>>),
     Selecting(OnA("sum_distinct", NoPredicate), <<Aggregate("SUM", Aggregate("DISTINCT", ay))>>),
     By(Selecting(OnA("group", NoPredicate), <<ay, Aggregate("MAX", ax)>>), <<ay>>),
     Ordered(By(Selecting(OnA("group_by", NoPredicate), <<ay, Aggregate("COUNT", ax)>>), <<ay>>), <<Desc(Aggregate("COUNT", ax))>>),
     Cut(By(Selecting(OnA("group_limit", Value(1, ax, "gte", 1)), <<ay, Aggregate("SUM", ax)>>), <<ay>>), Null, 1),
     Cut(Selecting(OnA("count_limit", Value(1, ax, "gte", 2)), <<Aggregate("COUNT", ax)>>), Null, 1)}

\* Parameters, and what changes tables.
Others ==
    {Bindings(OnA("param", Param(1, ax, "eq", 1)), <<<<2>>, <<1>>>>),
     Bindings(OnA("params", And2(1, Param(2, ax, "gte", 1), Param(3, ai, "lte", 2))), <<<<2, 1>>, <<1, 3>>>>),
     Bindings([OnA("limit_param", Value(1, ax, "gte", 1)) EXCEPT !.limitParam = 1], <<<<1>>, <<2>>>>),
     [OnA("delete", And2(1, Value(2, ax, "gte", 2), Value(3, ay, "lt", 3))) EXCEPT !.kind = "delete"],
     [OnA("update", And2(1, Value(2, ax, "gte", 2), Value(3, ay, "lt", 3))) EXCEPT
         !.kind = "update", !.set = [c \in {"y"} |-> 3]]}

\* Queries that the code is known to answer otherwise, see Excepted.
Exceptions ==
    {Base("nulls", <<"b", "d">>, JoinPredicate(1, bz, dz, "eq")),
     OnA("in_in", And2(1, Among2(2, ax, 1, 2), Among2(3, ay, 1, 3))),
     By(Selecting(OnA("group_plain", NoPredicate), <<ay>>), <<ay>>),
     Ordered(Selecting(OnA("count_by", NoPredicate), <<Aggregate("COUNT", Star)>>), <<Asc(ax)>>),
     Selecting(OnA("distincts", NoPredicate), <<Aggregate("SUM", Aggregate("DISTINCT", ay)), Aggregate("MIN", Aggregate("DISTINCT", ay))>>),
     Base("or_alias", <<"a", "c">>, And2(5, JoinPredicate(1, ax, cx, "lt"), Or2(2, Value(3, cx, "eq", 2), Value(4, ci, "eq", 1)))),
     Outer(Base("or_outer", <<"b", "a">>, And2(5, JoinPredicate(1, bx, ax, "eq"), Or2(2, Value(3, ax, "eq", 2), Value(4, ai, "eq", 1)))), {1}),
     Outer(OnAB("outer_const", And2(5, Joined, JoinPredicate(2, bx, bz, "lt"))), {1})}

MCBuilders == Selections \cup Orderings \cup Joinings \cup Aggregates \cup Others \cup Exceptions
=============================================================================
