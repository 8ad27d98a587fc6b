--------------------------- MODULE MCConstraints ---------------------------
(***************************************************************************)
(* Schemas and rows for Constraints.tla.                                   *)
(***************************************************************************)
EXTENDS Constraints

FK(child, column, parent, ref, action, timing) ==
    [child |-> child, column |-> column, parent |-> parent, ref |-> ref,
     action |-> action, timing |-> timing]

\* Rows of "g" depend on "p" by two columns and by way of "c"; "r" holds on to
\* rows of "c", and "f" to rows of "p" until the end of the transaction.
MCForeignKeys ==
    <<FK("c", "p", "p", "id", "CASCADE", "IMMEDIATE"),
      FK("g", "p", "p", "id", "CASCADE", "IMMEDIATE"),
      FK("g", "q", "p", "id", "CASCADE", "IMMEDIATE"),
      FK("g", "c", "c", "id", "CASCADE", "IMMEDIATE"),
      FK("r", "c", "c", "id", "RESTRICT", "IMMEDIATE"),
      FK("f", "p", "p", "id", "RESTRICT", "DEFERRABLE")>>

MCTableOf == <<"p", "p", "c", "g", "r", "f">>

MCValuesOf ==
    <<[id : {1, 2}], [id : {1, 2}],
      [id : {5}, p : {1, 2, NullKey}],
      [id : {6}, p : {1, 2}, q : {1, 2}, c : {5, NullKey}],
      [id : {9}, c : {5}],
      [id : {9}, p : {1, 2}]>>

MCPrimaryKey == [t \in Table |-> "id"]

MCUniques == [t \in Table |-> {"id"}]

MCNotNullable == [t \in Table |-> IF t = "g" THEN {"id", "c"} ELSE {"id"}]

\* Rows of "c" refer to a column of "p" that is unique but not its primary
\* key; a replaced row of "p" may have another key in it.
ReplaceForeignKeys == <<FK("c", "p", "p", "u", "CASCADE", "IMMEDIATE")>>

ReplaceTableOf == <<"p", "p", "c">>

ReplaceValuesOf ==
    <<[id : {1, 2}, u : {7, 8}], [id : {1, 2}, u : {7, 8}],
      [id : {5}, p : {7, 8}]>>

ReplaceUniques == [t \in Table |-> IF t = "p" THEN {"id", "u"} ELSE {"id"}]

IdNotNullable == [t \in Table |-> {"id"}]
=============================================================================
