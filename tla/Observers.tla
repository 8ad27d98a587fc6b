----------------------------- MODULE Observers ------------------------------
(***************************************************************************)
(* lf.ObserverRegistry (src/lib/observer_registry.js) with the diffs it    *)
(* tells its observers, the builders of the observed queries and the tasks *)
(* that compute them.  A user builds, binds, copies, executes and observes *)
(* select queries while writes change their table.                         *)
(*                                                                         *)
(* Tasks run one at a time, observer tasks before queries: this is what    *)
(* the Runner leaves of them on a table that is being written.  A task     *)
(* that waits has the plans, and for a query of the user a copy of its     *)
(* context; for an observed query it has the context itself.               *)
(*                                                                         *)
(* The table is the sequence of the values of one column in its rows.      *)
(***************************************************************************)
EXTENDS SelectBuilder, FiniteSets, FiniteSetsExt

CONSTANTS
    Builder,     \* the builders a program may have
    Handler,     \* the callbacks it may register
    Tables,      \* the contents its writes leave behind
    Limits,      \* the numbers given to limit() or bound for it
    Values,      \* the values bound for the predicates
    MaxCalls,    \* bound: how often the user calls a builder
    MaxPending   \* bound: how many tasks wait

VARIABLES
    builder,     \* each SelectBuilder, or Nil
    value,       \* what is bound to each predicate object, or Nil
    contents,    \* the rows of the table
    entries,     \* ObserverRegistry.entries_, in the order of registration
    pending,     \* the tasks that wait, the next one first
    untold,      \* not in the code: the observed queries of which a write has
                 \* not told, or not with their results
    calls        \* bounds the exploration

vars == <<builder, value, contents, entries, pending, untold, calls>>

\* Predicates: one made for each builder, the copy each gets if it is a clone
\* and one that the program keeps and may give to both.
Own(b)  == <<"own", b>>
Copy(b) == <<"copy", b>>
Kept    == <<"kept">>
Predicate == {Own(b) : b \in Builder} \cup {Copy(b) : b \in Builder} \cup {Kept}

\* What a query, a plan and a builder may be.
Order == {Nil, "ASC", "DESC"}

QueryState == [from : BOOLEAN, where : SUBSET Predicate, order : Order,
               limit : Limits \cup {Nil}, limitBinder : BOOLEAN]

PlanState == [where : SUBSET Predicate, order : Order, limited : BOOLEAN]

Bindings == UNION {[where -> Values \cup {Nil}] : where \in SUBSET Predicate}

BuilderState == [query : QueryState, whereAlreadyCalled : BOOLEAN,
                 plan : PlanState \cup {Nil}, bound : Bindings,
                 late : BOOLEAN, early : BOOLEAN]

ASSUME ObserversAssumption ==
    /\ Limits # {} /\ Nil \notin Limits
    /\ Values # {} /\ Nil \notin Values /\ Values \subseteq Nat
    /\ Nil \notin PlanState /\ Nil \notin BuilderState

Built == {b \in Builder : builder[b] # Nil}

Observed == {entries[i].builder : i \in DOMAIN entries}

Init ==
    /\ builder  = [b \in Builder |-> Nil]
    /\ value    = [p \in Predicate |-> Nil]
    /\ contents \in Tables
    /\ entries  = <<>>
    /\ pending  = <<>>
    /\ untold   = {}
    /\ calls    = 0

Calls == calls < MaxCalls /\ calls' = calls + 1

-----------------------------------------------------------------------------
(* Building a query.                                                       *)

Builds(b, new) == /\ Calls
                  /\ builder' = [builder EXCEPT ![b] = new]
                  /\ UNCHANGED <<contents, entries, pending, untold>>

NewSelect(b) == /\ b \notin Built
                /\ Builds(b, NewBuilder)
                /\ UNCHANGED value

\* What is bound to a conjunction of predicates: they ask for no less than
\* the largest value.
Conjunction(where) ==
    LET given == {value[p] : p \in where}
    IN  IF Nil \in given THEN Nil ELSE Max(given)

CloneBuilder(b, c) ==
    /\ b \in Built /\ c \notin Built
    /\ LET where == builder[b].query.where IN
       /\ Builds(c, Clone(builder[b], Copy(c), Conjunction(where)))
       /\ value' = IF where = {} THEN value
                   ELSE [value EXCEPT ![Copy(c)] = Conjunction(where)]

CallFrom(b) == /\ b \in Built /\ CanFrom(builder[b])
               /\ Builds(b, From(builder[b]))
               /\ UNCHANGED value

\* A clone is not given the predicate its original has: the copy has its id.
CallWhere(b) ==
    /\ b \in Built /\ CanWhere(builder[b])
    /\ \E p \in {Own(b), Kept} :
          /\ p = Kept => Copy(b) \notin builder[b].query.where
          /\ Builds(b, Where(builder[b], p))
    /\ UNCHANGED value

CallLimit(b) ==
    /\ b \in Built /\ CanLimit(builder[b])
    /\ \/ \E n \in Limits : Builds(b, Limit(builder[b], n))
       \/ Builds(b, LimitBinder(builder[b]))
    /\ UNCHANGED value

CallOrderBy(b) == /\ b \in Built /\ CanOrderBy(builder[b])
                  /\ Builds(b, OrderBy(builder[b], "DESC"))
                  /\ UNCHANGED value

\* bind: the limit in the context, the value in every predicate it refers to.
CallBind(b) ==
    /\ b \in Built
    /\ \E n \in Limits, v \in Values :
          /\ Builds(b, Bind(builder[b], n, v))
          /\ value' = [p \in Predicate |->
                          IF p \in builder[b].query.where THEN v ELSE value[p]]

\* explain needs the plan, and nothing that exec() insists on.
Explain(b) == /\ b \in Built /\ Plannable(builder[b], value)
              /\ Builds(b, GetPlan(builder[b]))
              /\ UNCHANGED value

-----------------------------------------------------------------------------
(* lf.DiffCalculator (src/lib/diff_calculator.js): the change records that *)
(* tell the observers of a query how the array they share has changed.     *)
(* Results are sequences of rows as the query projects them.  Places are   *)
(* counted from 1.                                                         *)

\* The elements of s at a set of places.
At(s, places) ==
    FoldLeftDomain(LAMBDA seq, i : IF i \in places THEN Append(seq, s[i]) ELSE seq,
                   <<>>, s)

\* goog.math.longestCommonSubsequence, as the places of its elements in the
\* old and in the new results: some common subsequence, and none is longer.
LongestCommon(old, new) ==
    LET common == {c \in (SUBSET DOMAIN old) \X (SUBSET DOMAIN new) :
                      /\ Cardinality(c[1]) = Cardinality(c[2])
                      /\ At(old, c[1]) = At(new, c[2])}
        longest == Max({Cardinality(c[1]) : c \in common})
    IN  CHOOSE c \in common : Cardinality(c[1]) = longest

\* createChangeRecord_
ChangeRecord(index, removed, addedCount) ==
    [index |-> index, removed |-> removed, addedCount |-> addedCount]

\* applyDiff: first the deletions, then the additions; the records of the
\* former have places in the old results, those of the latter in the new.
ApplyDiff(observable, old, new) ==
    LET common == LongestCommon(old, new)
        Delete(diff, i) ==
            IF i \in common[1] THEN [diff EXCEPT !.kept = @ + 1]
            ELSE [diff EXCEPT !.array   = RemoveAt(@, diff.kept + 1),
                              !.records = Append(@, ChangeRecord(
                                  i, <<diff.array[diff.kept + 1]>>, 0))]
        Add(diff, i) ==
            IF i \in common[2] THEN diff
            ELSE [diff EXCEPT !.array   = InsertAt(@, i, new[i]),
                              !.records = Append(@, ChangeRecord(i, <<>>, 1))]
    IN  FoldLeftDomain(Add,
            FoldLeftDomain(Delete,
                [array |-> observable, kept |-> 0, records |-> <<>>], old),
            new)

-----------------------------------------------------------------------------
(* Tasks.                                                                  *)

\* Whether the answer to b's query should be what was asked: it was planned
\* as it is, and nobody else was given its predicate.
Sound(b) ==
    /\ ~builder[b].late /\ ~builder[b].early
    /\ \A c \in Built : Kept \in builder[b].query.where \cap builder[c].query.where => b = c

Asked(b) == [query |-> builder[b].query, bound |-> builder[b].bound, sound |-> Sound(b)]

\* getTaskItem: the plan, and a clone of the context with its predicates.
TaskItem(b) ==
    [kind |-> "select", builder |-> b, plan |-> GetPlan(builder[b]).plan,
     limit |-> builder[b].query.limit,
     value |-> [p \in builder[b].query.where |-> value[p]],
     asked |-> Asked(b)]

\* exec: scheduled if no precondition throws.
Exec(b) ==
    /\ Calls /\ Len(pending) < MaxPending
    /\ b \in Built /\ Executable(builder[b]) /\ Plannable(builder[b], value)
    /\ builder' = [builder EXCEPT ![b] = GetPlan(@)]
    /\ pending' = Append(pending, TaskItem(b))
    /\ UNCHANGED <<value, contents, entries, untold>>

\* DiffCalculator.applyDiff on the entry of an observed query.
Diff(e, results) ==
    ApplyDiff(e.observable, IF e.lastResults = Nil THEN <<>> ELSE e.lastResults, results)

EntryUpdated_KeepsLast(e, results) == [e EXCEPT !.observable = Diff(e, results).array]

\* Entry_.updateResults.  The observers are called with the records.
EntryUpdated(e, results) ==
    [e EXCEPT !.observable = Diff(e, results).array, !.lastResults = results]

\* updateResultsForQuery for each query that has results.
UpdateResults(results) ==
    entries' = [i \in DOMAIN entries |->
                   IF entries[i].builder \notin DOMAIN results THEN entries[i]
                   ELSE EntryUpdated(entries[i], results[entries[i].builder])]

\* The user's query: its results go to the observers of the context it was
\* cloned from.  A predicate without a value makes the task fail.
RunSelect ==
    /\ pending # <<>> /\ pending[1].kind = "select"
    /\ LET t == pending[1] IN
       IF Fails(t.plan, t.value) THEN UNCHANGED <<entries, untold>>
       ELSE /\ UpdateResults([b \in {t.builder} |-> Run(t.plan, t.limit, t.value, contents)])
            /\ untold' = untold \ {t.builder}
    /\ pending' = Tail(pending)
    /\ UNCHANGED <<builder, value, contents, calls>>

\* An ObserverQueryTask computes all its queries, or fails with one of them.
RunObservers ==
    /\ pending # <<>> /\ pending[1].kind = "observer"
    /\ LET queries == ToSet(pending[1].builders)
           results(b) == Run(builder[b].plan, builder[b].query.limit, value, contents)
       IN  IF \E b \in queries : Fails(builder[b].plan, value)
           THEN untold' = untold \cup queries /\ UNCHANGED entries
           ELSE untold' = untold \ queries /\ UpdateResults([b \in queries |-> results(b)])
    /\ pending' = Tail(pending)
    /\ UNCHANGED <<builder, value, contents, calls>>

ItemsFor_First(order) == IF order = <<>> THEN <<>> ELSE <<Head(order)>>

\* getTaskItemsForTables: every observed query reads the one table.
ItemsFor(order) == order

\* A task has written the table.  It plans the observed queries and schedules
\* an observer task before the queries that wait; if a plan cannot be made it
\* throws, and the caller is told that the write has failed.
Write ==
    /\ Len(pending) < MaxPending
    /\ contents' \in Tables
    /\ LET order == [i \in DOMAIN entries |-> entries[i].builder]
           bad   == {i \in DOMAIN order : ~Plannable(builder[order[i]], value)}
           first == {order[i] : i \in {j \in DOMAIN order : \A k \in bad : j < k}}
           task  == [kind |-> "observer", builders |-> ItemsFor(order)]
           ahead == {i \in DOMAIN pending : pending[i].kind = "observer"}
       IN  /\ builder' = [b \in Builder |-> IF b \in first THEN GetPlan(builder[b])
                                                          ELSE builder[b]]
           /\ untold' = IF bad # {} THEN untold \cup ToSet(order) ELSE untold
           /\ pending' = IF bad # {} \/ order = <<>> THEN pending
                         ELSE InsertAt(pending, Cardinality(ahead) + 1, task)
    /\ UNCHANGED <<value, entries, calls>>

-----------------------------------------------------------------------------
(* The registry.                                                           *)

\* addObserver
Observe(b, h) ==
    /\ Calls /\ b \in Built
    /\ IF b \in Observed
       THEN \E i \in DOMAIN entries :
               /\ entries[i].builder = b /\ h \notin entries[i].observers
               /\ entries' = [entries EXCEPT ![i].observers = @ \cup {h}]
       ELSE entries' = Append(entries, [builder |-> b, observers |-> {h},
                                        observable |-> <<>>, lastResults |-> Nil])
    /\ UNCHANGED <<builder, value, contents, pending, untold>>

\* removeObserver
Unobserve(b, h) ==
    /\ Calls
    /\ \E i \in DOMAIN entries :
          /\ entries[i].builder = b /\ h \in entries[i].observers
          /\ entries' = IF entries[i].observers = {h} THEN RemoveAt(entries, i)
                        ELSE [entries EXCEPT ![i].observers = @ \ {h}]
    /\ UNCHANGED <<builder, value, contents, pending, untold>>

Next ==
    \/ RunSelect \/ RunObservers \/ Write
    \/ \E b \in Builder :
          \/ NewSelect(b) \/ CallFrom(b) \/ CallWhere(b) \/ CallLimit(b)
          \/ CallOrderBy(b) \/ CallBind(b) \/ Explain(b) \/ Exec(b)
          \/ \E c \in Builder : CloneBuilder(b, c)
          \/ \E h \in Handler : Observe(b, h) \/ Unobserve(b, h)

Spec == Init /\ [][Next]_vars

-----------------------------------------------------------------------------

Answer(asked) == Run(MakePlan(asked.query), asked.query.limit, asked.bound, contents)

(* Whatever is bound, cloned, observed or planned in the meantime, a query *)
(* that waits gives what its builder said when exec() was called, and an   *)
(* observed query what its builder says now.  Not so for a query planned   *)
(* before its last clause or with its limit unbound, or with a predicate   *)
(* that another builder has too.                                           *)
TasksAnswerTheirQuery ==
    \A i \in DOMAIN pending :
       IF pending[i].kind = "select"
       THEN LET t == pending[i] IN
            t.asked.sound =>
               /\ ~Fails(t.plan, t.asked.bound)
               /\ Run(t.plan, t.limit, t.value, contents) = Answer(t.asked)
       ELSE \A b \in ToSet(pending[i].builders) :
            Sound(b) =>
               /\ ~Fails(builder[b].plan, builder[b].bound)
               /\ Run(builder[b].plan, builder[b].query.limit, value, contents)
                     = Answer(Asked(b))

\* What the records say: take away the old elements at the places of the
\* deletions, all at once, and put the additions at theirs, in order.
Describes(records, before, after) ==
    LET deletions == {k \in DOMAIN records : records[k].addedCount = 0}
        additions == DOMAIN records \ deletions
        gone == {records[k].index : k \in deletions}
        new  == {records[k].index : k \in additions}
    IN  /\ gone \subseteq DOMAIN before /\ new \subseteq DOMAIN after
        /\ \A k \in deletions : records[k].removed = <<before[records[k].index]>>
        /\ At(before, DOMAIN before \ gone) = At(after, DOMAIN after \ new)

(* The shared array always has the last results, and the records given to  *)
(* the handlers say how it came from what it was, so that one who keeps a  *)
(* copy can follow; there are none if and only if nothing has changed.     *)
HandlersCanFollow ==
    [][\A i \in DOMAIN entries, j \in DOMAIN entries' :
          LET e == entries[i]
              f == entries'[j]
              records == Diff(e, f.lastResults).records
          IN  (e.builder = f.builder /\ e.observers = f.observers /\ e # f) =>
                 /\ f.observable = f.lastResults
                 /\ Describes(records, e.observable, f.observable)
                 /\ records = <<>> <=> e.observable = f.observable]_vars

(* When nothing waits, results an observer has are those of the table as   *)
(* it is, for some values bound: no write is missed and none overtaken.    *)
(* Not so after a write while some observed query could not be planned or  *)
(* run, before the query is run once more: then no observer of the table   *)
(* is told.                                                                *)
ObserversHearOfWrites ==
    pending = <<>> =>
       \A i \in DOMAIN entries :
          LET b == entries[i].builder IN
          entries[i].lastResults # Nil /\ b \notin untold =>
             \E n \in Limits, v \in Values :
                entries[i].lastResults =
                   Run(builder[b].plan, n, [p \in Predicate |-> v], contents)
=============================================================================
