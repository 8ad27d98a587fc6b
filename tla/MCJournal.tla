----------------------------- MODULE MCJournal -----------------------------
(***************************************************************************)
(* A table with a primary key, a unique nullable column, an indexed        *)
(* nullable column that is not unique, and the index of row ids.           *)
(***************************************************************************)
EXTENDS Journal

MCIndex == <<"rowId", "pk", "uq", "ix">>
MCUnique == {"pk", "uq"}

\* Keys of each value in "pk", "uq" and "ix"; the last two values have the
\* same keys and differ in a column without an index.
Columns == [a1 |-> <<1, NullKey, NullKey>>,
            a2 |-> <<1, 7, 5>>,
            b1 |-> <<2, 7, 5>>,
            b2 |-> <<2, NullKey, NullKey>>,
            b3 |-> <<2, NullKey, NullKey>>]

MCValue == DOMAIN Columns

MCKeyOf ==
    [rowId |-> [r \in RowId \X Value |-> r[1]],
     pk    |-> [r \in RowId \X Value |-> Columns[r[2]][1]],
     uq    |-> [r \in RowId \X Value |-> Columns[r[2]][2]],
     ix    |-> [r \in RowId \X Value |-> Columns[r[2]][3]]]
=============================================================================
