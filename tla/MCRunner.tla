------------------------------ MODULE MCRunner ------------------------------
(***************************************************************************)
(* Workloads for Runner.tla: three tables, a pool of tasks to choose from  *)
(* and the observed queries.  A workload is a set of tasks, each scheduled *)
(* once, in any order and at any time; "o-w" is the observer task of w.    *)
(***************************************************************************)
EXTENDS Runner

MCTable == {"t1", "t2", "t3"}

OnlyT1   == <<[tables |-> {"t1"}, query |-> Nil]>>
OnlyT2   == <<[tables |-> {"t2"}, query |-> Nil]>>
OnlyT3   == <<[tables |-> {"t3"}, query |-> Nil]>>
OneByOne == OnlyT1 \o OnlyT2

\* One observed query joins two tables, the other selects from the second;
\* nobody observes the third.
Q1 == [tables |-> {"t1", "t2"}, query |-> "q1"]
Q2 == [tables |-> {"t2"}, query |-> "q2"]

\* Updates of one table and of two, a transaction on two, external changes
\* of one table, queries on two tables and one that is an observed query.
Pool ==
    [u1  |-> [kind |-> "update",      plans |-> OnlyT1,   observer |-> "o-u1"],
     u2  |-> [kind |-> "update",      plans |-> OnlyT2,   observer |-> "o-u2"],
     u12 |-> [kind |-> "update",      plans |-> OneByOne, observer |-> "o-u12"],
     x   |-> [kind |-> "transaction", plans |-> OneByOne, observer |-> "o-x"],
     e1  |-> [kind |-> "external",    plans |-> OnlyT1,   observer |-> "o-e1"],
     e2  |-> [kind |-> "external",    plans |-> OnlyT2,   observer |-> "o-e2"],
     u3  |-> [kind |-> "update",      plans |-> OnlyT3],
     u13 |-> [kind |-> "update",      plans |-> OnlyT1 \o OnlyT3, observer |-> "o-u13"],
     e3  |-> [kind |-> "external",    plans |-> OnlyT3],
     im  |-> [kind |-> "import",      plans |-> <<>>],
     ex  |-> [kind |-> "export",      plans |-> <<>>],
     r2  |-> [kind |-> "query",       plans |-> OnlyT2],
     r13 |-> [kind |-> "query",       plans |-> OnlyT1 \o OnlyT3],
     r12 |-> [kind |-> "query",       plans |-> OneByOne],
     rq  |-> [kind |-> "query",       plans |-> <<Q2>>]]

Changing == {t \in DOMAIN Pool : "observer" \in DOMAIN Pool[t]}

\* The tasks of a workload, their observer tasks included.
With(tasks) == tasks \cup {Pool[t].observer : t \in tasks \cap Changing}

MCKind == [t \in Task |-> IF t \in DOMAIN Pool THEN Pool[t].kind ELSE "observer"]

MCPlans == [t \in Task \cap DOMAIN Pool |-> Pool[t].plans]

MCObserverOf == [t \in Task \cap Changing |-> Pool[t].observer]

JoinAndSingle == <<Q1, Q2>>

\* u1 deletes all rows of its table: an import may follow it.
MCEmpties == {"u1"}

CoreTasks   == {"u12", "x", "r12", "rq"}
ImportTasks == {"im", "ex", "u1", "e1", "e2"}
UnseenTasks == {"e3", "u3", "u13", "r13"}
TwiceTasks  == {"u12", "e1", "r2", "u2"}

MCWorkloads    == {CoreTasks, ImportTasks, UnseenTasks}
TwiceWorkloads == {TwiceTasks}

MCTask    == With(UNION MCWorkloads)
TwiceTask == With(TwiceTasks)
=============================================================================
