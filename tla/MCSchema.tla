------------------------------ MODULE MCSchema ------------------------------
(***************************************************************************)
(* Declarations for StatementScope.tla: three tables with columns and a    *)
(* fourth that may be created, and calls that give unique columns, foreign   *)
(* keys of both actions and timings, to other tables, in loops, in chains, *)
(* to the same table and twice of the same column, and calls that fail.    *)
(***************************************************************************)
EXTENDS StatementScope

WithColumns == AddColumn(AddColumn(NewTable, "a", "INTEGER"), "b", "INTEGER")

MCDeclared == [t \in {"t1", "t2", "t3"} |-> WithColumns]

Column(t, c, type) ==
    [op |-> "addColumn", table |-> t, name |-> c, type |-> type]
PrimaryKey(t, columns, autoIncrement) ==
    [op |-> "addPrimaryKey", table |-> t, columns |-> columns, autoIncrement |-> autoIncrement]
Unique(t, name, columns) ==
    [op |-> "addUnique", table |-> t, name |-> name, columns |-> columns]
Nullable(t, columns) ==
    [op |-> "addNullable", table |-> t, columns |-> columns]
Indexed(t, name, columns, unique) ==
    [op |-> "addIndex", table |-> t, name |-> name, columns |-> columns, unique |-> unique]
Key(t, name, c, parent, ref, action, timing) ==
    [op |-> "addForeignKey", table |-> t,
     fk |-> [name |-> name, child |-> t, column |-> c, parent |-> parent, ref |-> ref,
             action |-> action, timing |-> timing]]

MCDeclarations ==
    {PrimaryKey("t1", <<"a">>, TRUE), PrimaryKey("t1", <<"a", "b">>, FALSE),
     PrimaryKey("t1", <<"a", "b">>, TRUE), Nullable("t1", <<"a">>),
     Unique("t1", "u", <<"a">>), Indexed("t1", "pk", <<"b">>, FALSE),
     Indexed("t1", "i", <<"a">>, FALSE), Indexed("t1", "j", <<"b">>, TRUE),
     Unique("t1", "w", <<"b">>),
     Key("t1", "f", "b", "t2", "a", "RESTRICT", "IMMEDIATE"),
     Key("t1", "g", "b", "t1", "a", "CASCADE", "IMMEDIATE"),
     Unique("t2", "u", <<"a">>), Unique("t2", "v", <<"b">>), Unique("t2", "w", <<"a", "b">>),
     Column("t2", "o", "OBJECT"),
     Key("t2", "f", "b", "t1", "a", "CASCADE", "IMMEDIATE"),
     Key("t2", "g", "b", "t3", "a", "RESTRICT", "DEFERRABLE"),
     Key("t2", "h", "o", "t1", "a", "RESTRICT", "IMMEDIATE"),
     Key("t2", "k", "a", "t1", "a", "CASCADE", "DEFERRABLE"),
     Key("t3", "h", "b", "t4", "a", "RESTRICT", "IMMEDIATE"),
     PrimaryKey("t3", <<"a">>, FALSE),
     Column("t4", "a", "STRING"), PrimaryKey("t4", <<"a">>, FALSE),
     Key("t3", "f", "a", "t2", "a", "RESTRICT", "IMMEDIATE"),
     Key("t3", "g", "a", "t2", "b", "CASCADE", "IMMEDIATE")}
=============================================================================
