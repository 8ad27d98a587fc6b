------------------------------ MODULE MCIndex -------------------------------
(* Values for the constants of Index.                                      *)
EXTENDS Index

CONSTANT Deep   \* also trees of several columns with long runs of one value?

Entries(keys) == [i \in DOMAIN keys |-> [key |-> keys[i], row |-> i]]

Evens(n) == [i \in 1..n |-> <<2 * i>>]

\* Keys of two columns: every value of the first with the same ones of the second.
Pairs(firsts, seconds) ==
    FlattenSeq([i \in DOMAIN firsts |-> [j \in DOMAIN seconds |-> <<firsts[i], seconds[j]>>]])

Growth(unique, orders, entries) == [unique |-> unique, orders |-> orders, entries |-> entries]

MCGrowths ==
    {Growth(TRUE, <<"ASC">>, Entries(Evens(n))) : n \in {0, 5, 13, 16, 17}} \cup
    {Growth(TRUE, <<"DESC">>, Entries(Evens(n))) : n \in {12, 14, 17}} \cup
    {Growth(FALSE, <<"ASC">>, Entries(Evens(7) \o Reverse(Evens(12)))),
     Growth(TRUE, <<"ASC", "DESC">>, Entries(Pairs(<<Null, 1, 2>>, <<1, Null, 2, 3>>)))} \cup
    (IF Deep THEN {Growth(TRUE, <<"ASC", "ASC">>, Entries(Pairs(<<1, 2>>, <<1, 2, 3, 4, 5, 6, 7, 8>>)))}
     ELSE {})

MCKeys == {<<k>> : k \in {Null, 1, 2, 3, 5} \cup {2 * i : i \in 3..17}} \cup
          {<<k, l>> : k \in {Null, 1, 2}, l \in {1, 2, Null}}

MCNewRows == {101}

R(from, to) == MakeRange(from, to, FALSE, FALSE)

Asks(ranges, reverse, limit, skip) ==
    [all |-> FALSE, ranges |-> ranges, reverse |-> reverse, limit |-> limit, skip |-> skip]

MCQueries ==
    {[AllRows EXCEPT !.reverse = r, !.limit = l, !.skip = s] :
         r \in BOOLEAN, l \in {NoLimit, 3}, s \in {0, 2}} \cup
    {Asks(<<<<All>>>>, TRUE, 3, 1), Asks(<<<<All>>>>, FALSE, NoLimit, 20),
     Asks(<<<<UpperBound(9, TRUE)>>, <<LowerBound(12, TRUE)>>>>, FALSE, NoLimit, 0),
     Asks(<<<<UpperBound(8, TRUE)>>, <<LowerBound(12, TRUE)>>>>, FALSE, 4, 3),
     Asks(<<<<LowerBound(16, FALSE)>>, <<MakeRange(4, 10, TRUE, TRUE)>>>>, TRUE, 5, 1),
     Asks(<<<<MakeRange(4, 12, TRUE, FALSE)>>>>, FALSE, NoLimit, 0),
     Asks(<<<<MakeRange(6, 18, TRUE, TRUE)>>>>, TRUE, 2, 1),
     Asks(<<<<Only(4)>>, <<Only(7)>>, <<Only(20)>>>>, FALSE, NoLimit, 0),
     Asks(<<<<UpperBound(1, TRUE), All>>>>, FALSE, NoLimit, 0),
     Asks(<<<<Only(1), LowerBound(2, FALSE)>>>>, FALSE, NoLimit, 0),
     Asks(<<<<LowerBound(1, FALSE), Only(2)>>>>, TRUE, 2, 1),
     Asks(<<<<All, All>>>>, FALSE, 5, 2),
     Asks(<<<<All, MakeRange(1, 3, TRUE, FALSE)>>>>, FALSE, 3, 1),
     Asks(<<<<LowerBound(1, TRUE), Only(2)>>>>, FALSE, NoLimit, 0)}
=============================================================================
