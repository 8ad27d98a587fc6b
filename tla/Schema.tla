------------------------------- MODULE Schema -------------------------------
(***************************************************************************)
(* lf.schema.Builder (src/lib/schema/builder.js): a program declares       *)
(* tables, finalizes the schema, connects, and runs statements.  The       *)
(* foreign keys of a finalized schema are what lf.schema.Info              *)
(* (src/lib/schema/info.js) tells the constraint checker and the scopes of *)
(* statements (src/lib/query/*_context.js), which are the tables that a    *)
(* task locks.                                                             *)
(*                                                                         *)
(* The program keeps the table builders that createTable() gave it, and    *)
(* may catch what a call throws and go on.  Calls that throw and change    *)
(* nothing are no steps.  A table that refers to itself is in its own      *)
(* scope; a map of sets is a function, and names stand for tables.         *)
(***************************************************************************)
EXTENDS TableBuilder, FiniteSetsExt

CONSTANTS
    Tables,       \* the names of tables
    Declared,     \* the table builders at the beginning, before any key
    Declarations, \* the calls that the program may make of table builders
    MaxCalls,     \* bound on those that it does make
    MaxConnects,  \* bound on the calls of connect()
    Nil

ASSUME SchemaBounds ==
    /\ MaxCalls \in Nat /\ MaxConnects \in Nat
    /\ DOMAIN Declared \subseteq Tables
    /\ \A d \in Declarations : d.table \in Tables

VARIABLES
    builders,   \* the TableBuilder objects, by name
    schema,     \* schema_, once it is finalized
    info,       \* the foreign keys that lf.schema.Info was made from
    connecting, \* connectInProgress_
    db,         \* db_: "none", "opening", "open" or "closed"
    calls,      \* of table builders and createTable(), so far
    connects,   \* calls of connect() that have reached the database
    misnamed,   \* tables whose addPrimaryKey() has thrown, and not been repeated
    late        \* foreign keys added after the schema was finalized

vars == <<builders, schema, info, connecting, db, calls, connects, misnamed, late>>

-----------------------------------------------------------------------------
(* Finalizing.                                                             *)

Existing == DOMAIN builders

Keys(t) == ToSet(builders[t].fks)

\* checkForeignKeyValidity_, with the checks of getSchema() in it.
ForeignKeysValid(t) ==
    \A fk \in Keys(t) :
        /\ fk.parent \in Existing
        /\ GivesTable(builders[fk.parent]) /\ GivesTable(builders[t])
        /\ fk.ref \in DOMAIN builders[fk.parent].columns
        /\ builders[fk.parent].columns[fk.ref] = builders[t].columns[fk.column]
        /\ fk.ref \in builders[fk.parent].uniqueColumns

ForeignKeyChained_SameTable(t) ==
    \E fk \in Keys(t) : \E other \in Keys(fk.parent) :
        other.column = fk.ref /\ fk.parent = t

\* checkForeignKeyChain_ throws.
ForeignKeyChained(t) ==
    \E fk \in Keys(t) : \E other \in Keys(fk.parent) : other.column = fk.ref

\* The edges of a GraphNode_: the tables that refer to this one.
Edges(t) == {child \in Existing : \E fk \in Keys(child) : fk.parent = t}

\* checkCycleUtil_: depth first, and a table on the stack that is not the
\* one being examined closes a loop.
RECURSIVE CheckCycleUtil(_, _)
CheckCycleUtil(t, search) ==
    LET entered == [search EXCEPT !.visited = @ \cup {t}, !.onStack = @ \cup {t}]
        Follow(child, s) ==
            IF child \notin s.visited THEN CheckCycleUtil(child, s)
            ELSE [s EXCEPT !.loop = @ \/ (child \in s.onStack /\ child # t)]
        done == IF t \in search.visited THEN search
                ELSE FoldSet(Follow, entered, Edges(t))
    IN  [done EXCEPT !.onStack = @ \ {t}]

\* checkFkCycle_ throws.
HasFkCycle ==
    FoldSet(CheckCycleUtil, [visited |-> {}, onStack |-> {}, loop |-> FALSE], Existing).loop

\* finalize_ does not throw.
Finalizes ==
    /\ \A t \in Existing : ForeignKeysValid(t) /\ GivesTable(builders[t])
    /\ ~ \E t \in Existing : ForeignKeyChained(t)
    /\ ~HasFkCycle

Finalized == [t \in Existing |-> TableOf(builders[t])]

-----------------------------------------------------------------------------
(* Actions.                                                                *)

Call(d, b) ==
    /\ calls < MaxCalls
    /\ b # builders[d.table]
    /\ builders' = [builders EXCEPT ![d.table] = b]
    /\ calls' = calls + 1
    /\ UNCHANGED <<schema, info, connecting, db, connects>>

\* Once the schema is finalized, calls of its table builders still succeed.
\* Of what they change, only the foreign keys are read again.
Calls(op) ==
    {d \in Declarations : /\ d.op = op /\ d.table \in Existing
                          /\ schema = Nil \/ op = "addForeignKey"}

CreateTable(t) ==
    /\ calls < MaxCalls
    /\ t \notin Existing /\ schema = Nil
    /\ builders' = With(builders, t, NewTable)
    /\ calls' = calls + 1
    /\ UNCHANGED <<schema, info, connecting, db, connects, misnamed, late>>

CallAddColumn(d) ==
    /\ Call(d, AddColumn(builders[d.table], d.name, d.type))
    /\ UNCHANGED <<misnamed, late>>

CallAddPrimaryKey(d) ==
    LET then == builders[d.table]
        now  == AddPrimaryKey(then, d.columns, d.autoIncrement)
    IN  /\ Call(d, now)
        /\ misnamed' = IF now.indices = then.indices THEN misnamed \cup {d.table}
                       ELSE misnamed \ {d.table}
        /\ UNCHANGED late

CallAddForeignKey(d) ==
    /\ Call(d, AddForeignKey(builders[d.table], d.fk))
    /\ late' = (late \/ schema # Nil)
    /\ UNCHANGED misnamed

CallAddUnique(d) ==
    /\ Call(d, AddUnique(builders[d.table], d.name, d.columns))
    /\ UNCHANGED <<misnamed, late>>

CallAddNullable(d) ==
    /\ Call(d, AddNullable(builders[d.table], d.columns))
    /\ UNCHANGED <<misnamed, late>>

CallAddIndex(d) ==
    /\ Call(d, AddIndex(builders[d.table], d.name, d.columns, d.unique))
    /\ UNCHANGED <<misnamed, late>>

\* getSchema() of the builder.
GetSchema ==
    /\ schema = Nil /\ Finalizes
    /\ schema' = Finalized
    /\ UNCHANGED <<builders, info, connecting, db, calls, connects, misnamed, late>>

\* connect(), which finalizes the schema when there is no database yet.  If
\* that throws, connectInProgress_ is set and never reset.
Connect ==
    /\ ~connecting /\ db # "open"
    /\ connects < MaxConnects
    /\ connects' = connects + 1
    /\ connecting' = TRUE
    /\ \/ /\ db = "none" /\ schema = Nil /\ ~Finalizes
          /\ UNCHANGED <<schema, db>>
       \/ /\ db = "none" /\ (schema # Nil \/ Finalizes)
          /\ schema' = IF schema = Nil THEN Finalized ELSE schema
          /\ db' = "opening"
       \/ /\ db = "closed"
          /\ db' = "opening"
          /\ UNCHANGED schema
    /\ UNCHANGED <<builders, info, calls, misnamed, late>>

\* The promise of Database.init settles; failed, the database is closed.
InitSettles ==
    /\ db = "opening"
    /\ db' \in {"open", "closed"}
    /\ connecting' = FALSE
    /\ UNCHANGED <<builders, schema, info, calls, connects, misnamed, late>>

CloseDatabase ==
    /\ db = "open"
    /\ db' = "closed"
    /\ UNCHANGED <<builders, schema, info, connecting, calls, connects, misnamed, late>>

\* The first insert, update or deletion: DatabaseSchema.info() makes the one
\* Info there will be.
FirstStatement ==
    /\ db = "open" /\ info = Nil
    /\ info' = [t \in DOMAIN schema |-> builders[t].fks]
    /\ UNCHANGED <<builders, schema, connecting, db, calls, connects, misnamed, late>>

Init ==
    /\ builders = Declared
    /\ schema = Nil
    /\ info = Nil
    /\ connecting = FALSE
    /\ db = "none"
    /\ calls = 0
    /\ connects = 0
    /\ misnamed = {}
    /\ late = FALSE

Next ==
    \/ \E t \in Tables : CreateTable(t)
    \/ \E d \in Calls("addColumn")     : CallAddColumn(d)
    \/ \E d \in Calls("addPrimaryKey") : CallAddPrimaryKey(d)
    \/ \E d \in Calls("addForeignKey") : CallAddForeignKey(d)
    \/ \E d \in Calls("addUnique")     : CallAddUnique(d)
    \/ \E d \in Calls("addNullable")   : CallAddNullable(d)
    \/ \E d \in Calls("addIndex")      : CallAddIndex(d)
    \/ GetSchema
    \/ Connect
    \/ InitSettles
    \/ CloseDatabase
    \/ FirstStatement

Spec == Init /\ [][Next]_vars
=============================================================================
