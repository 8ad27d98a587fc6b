--------------------------- MODULE StatementScope ---------------------------
(***************************************************************************)
(* The tables that statements lock, and those that they read and write     *)
(* (src/lib/query/insert_context.js, update_context.js, delete_context.js  *)
(* against src/lib/cache/journal.js and constraint_checker.js), for every  *)
(* schema that lf.schema.Builder accepts.  What it accepts has to be what  *)
(* the checker of foreign keys, Constraints.tla, takes for granted.        *)
(***************************************************************************)
EXTENDS Schema

-----------------------------------------------------------------------------
(* lf.schema.Info.                                                         *)

InSchema == DOMAIN schema

InfoKeys(t) == ToSet(info[t])

Parents(t) == {fk.parent : fk \in InfoKeys(t)}

Children(t) == {child \in InSchema : \E fk \in InfoKeys(child) : fk.parent = t}

CascadeChildren(t) ==
    {child \in InSchema : \E fk \in InfoKeys(child) : fk.parent = t /\ fk.action = "CASCADE"}

\* colParent_ has one table for a column, that of its last foreign key.
ParentsByColumns(t, columns) ==
    LET Of(c) == SelectSeq(info[t], LAMBDA fk : fk.column = c)
    IN  {Last(Of(c)).parent : c \in {c \in columns : Of(c) # <<>>}}

ChildrenByColumns(t, columns) ==
    {child \in InSchema : \E fk \in InfoKeys(child) : fk.parent = t /\ fk.ref \in columns}

-----------------------------------------------------------------------------
(* getScope of the contexts.                                               *)

InsertScope(t, allowReplace) ==
    {t} \cup Parents(t) \cup (IF allowReplace THEN Children(t) ELSE {})

UpdateScope(t, columns) ==
    {t} \cup ParentsByColumns(t, columns) \cup ChildrenByColumns(t, columns)

ExpandTableScope_ChildrenOnly(t) == Children(t)

\* expandTableScope_
RECURSIVE ExpandTableScope(_)
ExpandTableScope(t) ==
    Children(t) \cup UNION {ExpandTableScope(child) : child \in CascadeChildren(t)}

DeleteScope(t) == {t} \cup ExpandTableScope(t)

-----------------------------------------------------------------------------
\* The pairs of a relation between tables, and those that follow.
Closure(pairs) ==
    FoldSet(LAMBDA t, ps : ps \cup {<<p[1], q[2]>> : p \in {p \in ps : p[2] = t},
                                                   q \in {q \in ps : q[1] = t}},
            pairs, InSchema)

Cascades ==
    Closure(UNION {{<<t, child>> : child \in CascadeChildren(t)} : t \in InSchema})

(* What statements read and write: the indices that the journal and the    *)
(* constraint checker look into, the checks at the commit included.        *)

ReferringKeys(t) == {fk \in UNION {InfoKeys(child) : child \in InSchema} : fk.parent = t}

\* checkReferredKeys_
Referred(t, columns) == {fk.parent : fk \in {k \in InfoKeys(t) : k.column \in columns}}

\* checkReferringKeys_
Restricted(t, columns) ==
    {fk.child : fk \in {k \in ReferringKeys(t) : k.ref \in columns /\ k.action = "RESTRICT"}}

InsertTouches(t) == {t} \cup Referred(t, DOMAIN schema[t].columns)

\* insertOrReplace of rows that are there.
ReplaceTouches(t) == InsertTouches(t) \cup Restricted(t, DOMAIN schema[t].columns)

\* updateByCascade_ changes rows of a child, whose deferred keys
\* checkDeferredConstraints checks.
UpdateTouches(t, columns) ==
    LET cascaded == {fk \in ReferringKeys(t) : fk.ref \in columns /\ fk.action = "CASCADE"}
        deferred == {k \in UNION {InfoKeys(fk.child) : fk \in cascaded} :
                        k.timing = "DEFERRABLE" /\ \E fk \in cascaded :
                            fk.child = k.child /\ fk.column = k.column}
    IN  {t} \cup Referred(t, columns) \cup Restricted(t, columns)
            \cup {fk.child : fk \in cascaded} \cup {k.parent : k \in deferred}

\* detectCascadeDeletion, and the check of every table it reaches.
DeleteTouches(t) ==
    LET deleted == {t} \cup {child \in InSchema : <<t, child>> \in Cascades}
    IN  deleted \cup UNION {Restricted(d, DOMAIN schema[d].columns) : d \in deleted}

-----------------------------------------------------------------------------
(* Properties.                                                             *)

\* The foreign keys of the schema's tables are still those that were
\* checked.
Checked == schema # Nil /\ ~late

HasUniqueIndex(t, columns) ==
    \E name \in DOMAIN schema[t].indices :
        schema[t].indices[name] = [columns |-> columns, unique |-> TRUE]

\* A foreign key refers to a column of its own type with a unique index, and
\* has an index of its column by its name, unique if and only if the column
\* was declared unique before or after: the checker looks up both without
\* asking whether they exist.  A unique index that addIndex() adds declares
\* nothing, so that the key's index stays one with many rows for a key.
KeysAreIndexed ==
    \A t \in InSchema : \A fk \in Keys(t) :
        /\ fk.parent \in InSchema
        /\ fk.ref \in DOMAIN schema[fk.parent].columns
        /\ schema[fk.parent].columns[fk.ref] = schema[t].columns[fk.column]
        /\ HasUniqueIndex(fk.parent, <<fk.ref>>)
        /\ fk.name \in DOMAIN schema[t].indices
        /\ schema[t].indices[fk.name] =
              [columns |-> <<fk.column>>, unique |-> fk.column \in schema[t].unique]

\* A column that is referred to refers to none, so that a cascading update
\* goes one step only.
NoChains ==
    \A t \in InSchema : \A fk \in Keys(t) :
        \A other \in Keys(fk.parent) : other.column # fk.ref

\* No table refers to itself through others.
NoLoops ==
    LET refers == {p \in InSchema \X InSchema :
                     p[1] # p[2] /\ \E fk \in Keys(p[1]) : fk.parent = p[2]}
    IN  \A t \in InSchema : <<t, t>> \notin Closure(refers)

\* A primary key has a unique index of not nullable columns that refer
\* nowhere.  The exception is a table whose addPrimaryKey() threw: if the
\* program goes on, an index of the name it had chosen, added before or
\* after and not unique, is the primary key.
PrimaryKeysHold ==
    \A t \in InSchema \ misnamed :
        LET pk == schema[t].pk
        IN  pk # <<>> =>
                /\ HasUniqueIndex(t, pk)
                /\ ToSet(pk) \subseteq schema[t].notNullable
                /\ \A fk \in Keys(t) : fk.column \notin ToSet(pk)

\* In whatever order a program calls, and with failed calls in between, the
\* foreign keys of a schema that the builder accepts are those the constraint
\* checker works on, and so are the primary keys of tables whose
\* addPrimaryKey() has not thrown; of the others see PrimaryKeysHold.  It is
\* about finalize_, and about the calls of table builders that have to keep
\* columns, indices and keys in step.
SchemaIsSound == Checked => KeysAreIndexed /\ NoChains /\ NoLoops /\ PrimaryKeysHold

\* A column with two foreign keys: colParent_ knows one parent only, and the
\* deferred check of a key whose column a cascade has changed looks into a
\* table that the update did not ask for.
OneKeyPerColumn ==
    \A t \in InSchema : \A j, k \in DOMAIN info[t] :
        j # k => info[t][j].column # info[t][k].column

\* A table that cascades to itself: the expansion of the scope does not end,
\* and the deletion throws for want of stack.
RunsAway(t) ==
    \E s \in InSchema : <<s, s>> \in Cascades /\ (s = t \/ <<t, s>> \in Cascades)

\* A statement looks into no table, and changes none, that is not in its
\* scope and so locked by its task: the checks and cascades of foreign keys
\* go no further than the contexts foresee.  See OneKeyPerColumn and
\* RunsAway for the exceptions.
ScopesCoverAccess ==
    (Checked /\ info # Nil) => (OneKeyPerColumn =>
        \A t \in InSchema :
            /\ InsertTouches(t) \subseteq InsertScope(t, FALSE)
            /\ ReplaceTouches(t) \subseteq InsertScope(t, TRUE)
            /\ \A columns \in SUBSET DOMAIN schema[t].columns :
                  UpdateTouches(t, columns) \subseteq UpdateScope(t, columns)
            /\ RunsAway(t) \/ DeleteTouches(t) \subseteq DeleteScope(t))
=============================================================================
