--------------------------- MODULE ObserversProofs ---------------------------
(***************************************************************************)
(* Proofs about the observed queries of Observers.tla, for any number of   *)
(* builders and handlers, any contents of the table and any values bound.  *)
(***************************************************************************)
EXTENDS Observers, SequenceTheorems, FiniteSetTheorems, TLAPS

\* The builder b is the only one that was given the kept predicate.
KeptAlone(b) == \A c \in Built : Kept \in builder[c].query.where => b = c

TypeInv ==
    /\ pending \in Seq(ToSet(pending))
    /\ entries \in Seq(ToSet(entries))

\* The predicates a builder has: the copy it was made with, and one it was
\* given; the kept one is given to no builder that has a copy.
WhereInv(b) ==
    LET where == builder[b].query.where IN
    /\ where \subseteq {Own(b), Copy(b), Kept}
    /\ builder[b].bound \in [where -> Values \cup {Nil}]
    /\ Own(b) \in where \/ Kept \in where => builder[b].whereAlreadyCalled
    /\ Kept \in where => where = {Kept}

\* A plan is that of the query unless a clause came after it, or the limit.
PlanOK(s) ==
    LET query == s.query
        plan  == s.plan
    IN  plan # Nil =>
           /\ plan.where \subseteq query.where
           /\ plan.limited => query.limit # Nil
           /\ ~s.late => plan.where = query.where /\ plan.order = query.order
           /\ ~s.late /\ ~s.early => /\ query.limit # Nil => plan.limited
                                     /\ query.limit = Nil => ~query.limitBinder

\* A predicate that one builder only refers to has what was bound through it.
BoundInv(b) ==
    LET where == builder[b].query.where IN
    /\ \A p \in where \ {Kept} : value[p] = builder[b].bound[p]
    /\ Kept \in where /\ KeptAlone(b) => value[Kept] = builder[b].bound[Kept]
    /\ {Own(b), Copy(b)} \subseteq where /\ value[Own(b)] # Nil => value[Own(b)] = value[Copy(b)]
    /\ builder[b].plan # Nil => \A p \in builder[b].plan.where : value[p] # Nil

\* Nothing is bound to a predicate that was given to no builder.
FreshInv ==
    /\ \A b \in Builder : (b \in Built => Own(b) \notin builder[b].query.where)
                          => value[Own(b)] = Nil
    /\ (\E b \in Built : Kept \in builder[b].query.where) \/ value[Kept] = Nil

BuilderInv ==
    /\ builder \in [Builder -> BuilderState \cup {Nil}]
    /\ value \in [Predicate -> Values \cup {Nil}]
    /\ \A b \in Built : WhereInv(b) /\ PlanOK(builder[b]) /\ BoundInv(b)
    /\ FreshInv

\* A waiting query has the plan and the bindings it was asked with.
SelectOK(t) ==
    /\ t.builder \in Built
    /\ t.plan # Nil /\ t.plan = builder[t.builder].plan
    /\ t.plan.limited => t.limit \in Limits
    /\ t.plan.where \subseteq Predicate
    /\ \E v \in Values : \A p \in t.plan.where : t.value[p] = v
    /\ t.asked.sound =>
          /\ t.plan = MakePlan(t.asked.query)
          /\ t.limit = t.asked.query.limit
          /\ \A p \in t.plan.where : t.value[p] = t.asked.bound[p]

\* The queries of an observer task have plans.
QueriesOK(t) ==
    \A b \in ToSet(t.builders) : b \in Built /\ builder[b].plan # Nil

PendingInv == \A t \in ToSet(pending) : IF t.kind = "select" THEN SelectOK(t) ELSE QueriesOK(t)

EntryInv(e) ==
    /\ e = [builder |-> e.builder, observers |-> e.observers,
            observable |-> e.observable, lastResults |-> e.lastResults]
    /\ e.builder \in Built
    /\ e.lastResults # Nil => builder[e.builder].plan # Nil

Awaited(b) == \E t \in ToSet(pending) : t.kind # "select" /\ b \in ToSet(t.builders)

Current(e) ==
    \E n \in Limits, v \in Values :
       e.lastResults = Run(builder[e.builder].plan, n, [p \in Predicate |-> v], contents)

HearInv ==
    \A e \in ToSet(entries) :
       e.lastResults # Nil /\ e.builder \notin untold =>
          Awaited(e.builder) \/ Current(e)

WaitInv == TypeInv /\ PendingInv /\ (\A e \in ToSet(entries) : EntryInv(e)) /\ HearInv

IInv == BuilderInv /\ WaitInv

-----------------------------------------------------------------------------
(* Sequences, by the set of their elements.                                *)

(* A sequence is one of its own elements.                                  *)
LEMMA OwnElements ==
    ASSUME NEW S, NEW s \in Seq(S)
    PROVE  /\ s \in Seq(ToSet(s))
           /\ \A x : x \in ToSet(s) <=> \E i \in 1..Len(s) : s[i] = x
           /\ Len(s) \in Nat /\ DOMAIN s = 1..Len(s)
<1>1. Len(s) \in Nat /\ DOMAIN s = 1..Len(s) /\ s \in [1..Len(s) -> S]
  BY LenProperties
<1>2. \A x : x \in ToSet(s) <=> \E i \in 1..Len(s) : s[i] = x
  BY <1>1 DEF ToSet
<1>3. s \in [1..Len(s) -> ToSet(s)]
  BY <1>1, <1>2
<1>4. QED
  BY <1>1, <1>2, <1>3, SeqDef

(* Appending an element to a sequence.                                     *)
LEMMA AppendElements ==
    ASSUME NEW s, s \in Seq(ToSet(s)), NEW e
    PROVE  /\ Append(s, e) \in Seq(ToSet(Append(s, e)))
           /\ ToSet(Append(s, e)) = ToSet(s) \cup {e}
<1> DEFINE S == ToSet(s) \cup {e}
           r == Append(s, e)
<1>1. s \in Seq(S) /\ e \in S
  BY ONLY s \in Seq(ToSet(s)), SeqDef, LenProperties
<1> HIDE DEF S
<1>2. /\ r \in Seq(S) /\ Len(r) = Len(s) + 1
      /\ \A i \in 1..Len(s) : r[i] = s[i]
      /\ r[Len(s) + 1] = e
  BY <1>1, AppendProperties
<1> HIDE DEF r
<1>3. \A x : x \in ToSet(r) <=> \E i \in 1..Len(r) : r[i] = x
  BY <1>2, OwnElements
<1>4. Len(s) \in Nat /\ \A x : x \in ToSet(s) <=> \E i \in 1..Len(s) : s[i] = x
  BY OwnElements
<1>5. ToSet(r) = ToSet(s) \cup {e}
  <2>1. ASSUME NEW x \in ToSet(r)
        PROVE  x \in ToSet(s) \/ x = e
    <3>1. PICK i \in 1..(Len(s) + 1) : r[i] = x
      BY <1>2, <1>3
    <3>2. i \in 1..Len(s) \/ i = Len(s) + 1
      BY <1>4
    <3>3. QED
      BY <1>2, <1>4, <3>1, <3>2
  <2>2. ASSUME NEW x \in ToSet(s)
        PROVE  x \in ToSet(r)
    <3>1. PICK i \in 1..Len(s) : s[i] = x
      BY <1>4
    <3>2. i \in 1..Len(r)
      BY <1>2, <1>4
    <3>3. QED
      BY <1>2, <1>3, <3>1, <3>2
  <2>3. e \in ToSet(r)
    <3>1. Len(s) + 1 \in 1..Len(r)
      BY <1>2, <1>4
    <3>2. QED
      BY <1>2, <1>3, <3>1
  <2>4. QED
    BY <2>1, <2>2, <2>3
<1>6. r \in Seq(ToSet(r))
  BY <1>2, OwnElements
<1>7. QED
  BY <1>5, <1>6 DEF r

(* Taking the first element from a sequence.                               *)
LEMMA TailElements ==
    ASSUME NEW s, s \in Seq(ToSet(s)), s # <<>>
    PROVE  /\ Tail(s) \in Seq(ToSet(Tail(s)))
           /\ ToSet(s) = {s[1]} \cup ToSet(Tail(s))
<1> DEFINE r == Tail(s)
<1>1. /\ r \in Seq(ToSet(s)) /\ Len(r) = Len(s) - 1
      /\ \A i \in 1..Len(r) : r[i] = s[i + 1]
  BY HeadTailProperties
<1> HIDE DEF r
<1>2. \A x : x \in ToSet(r) <=> \E i \in 1..Len(r) : r[i] = x
  BY <1>1, OwnElements
<1>3. Len(s) \in Nat /\ \A x : x \in ToSet(s) <=> \E i \in 1..Len(s) : s[i] = x
  BY OwnElements
<1>4. Len(s) # 0
  BY EmptySeq
<1>5. r \in Seq(ToSet(r))
  BY <1>1, OwnElements
<1>6. ASSUME NEW x \in ToSet(s), x # s[1]
      PROVE  x \in ToSet(r)
  <2>1. PICK i \in 1..Len(s) : s[i] = x
    BY <1>3
  <2>2. i # 1
    BY <2>1, <1>6
  <2>3. i - 1 \in 1..Len(r) /\ (i - 1) + 1 = i
    BY <1>1, <1>3, <2>2
  <2>4. QED
    BY <1>1, <1>2, <2>1, <2>3
<1>7. ASSUME NEW x \in ToSet(r)
      PROVE  x \in ToSet(s)
  <2>1. PICK i \in 1..Len(r) : r[i] = x
    BY <1>2
  <2>2. i + 1 \in 1..Len(s)
    BY <1>1, <1>3
  <2>3. QED
    BY <1>1, <1>3, <2>1, <2>2
<1>8. s[1] \in ToSet(s)
  BY <1>3, <1>4
<1>9. QED
  BY <1>5, <1>6, <1>7, <1>8 DEF r

(* Removing an element from a sequence.                                    *)
LEMMA RemoveElements ==
    ASSUME NEW s, s \in Seq(ToSet(s)), NEW i \in DOMAIN s
    PROVE  /\ RemoveAt(s, i) \in Seq(ToSet(RemoveAt(s, i)))
           /\ ToSet(RemoveAt(s, i)) \subseteq ToSet(s)
<1>1. Len(s) \in Nat /\ DOMAIN s = 1..Len(s)
  BY OwnElements
<1>2. /\ SubSeq(s, 1, i - 1) \in Seq(ToSet(s))
      /\ SubSeq(s, i + 1, Len(s)) \in Seq(ToSet(s))
  BY <1>1, SubSeqProperties
<1>3. RemoveAt(s, i) \in Seq(ToSet(s))
  BY <1>2, ConcatProperties DEF RemoveAt
<1> DEFINE r == RemoveAt(s, i)
<1>4. r \in Seq(ToSet(s))
  BY <1>3
<1> HIDE DEF r
<1>5. r \in Seq(ToSet(r)) /\ \A x : x \in ToSet(r) => \E j \in 1..Len(r) : r[j] = x
  BY <1>4, OwnElements
<1>6. \A j \in 1..Len(r) : r[j] \in ToSet(s)
  BY <1>4, ElementOfSeq
<1>7. QED
  BY <1>5, <1>6 DEF r

(* Functions of the first numbers are sequences.                           *)
LEMMA FunctionsAreSequences ==
    ASSUME NEW n \in Nat, NEW T
    PROVE  [1..n -> T] \subseteq Seq(T)
BY SeqDef

(* Inserting an element into a sequence.                                   *)
LEMMA InsertElements ==
    ASSUME NEW s, s \in Seq(ToSet(s)), NEW k \in 1..(Len(s) + 1), NEW e
    PROVE  /\ InsertAt(s, k, e) \in Seq(ToSet(InsertAt(s, k, e)))
           /\ ToSet(InsertAt(s, k, e)) = ToSet(s) \cup {e}
<1> DEFINE S == ToSet(s) \cup {e}
           low == SubSeq(s, 1, k - 1)
           high == SubSeq(s, k, Len(s))
           r == InsertAt(s, k, e)
<1>1. /\ Len(s) \in Nat
      /\ \A x : x \in ToSet(s) <=> \E i \in 1..Len(s) : s[i] = x
  BY OwnElements
<1>2. /\ low \in Seq(S) /\ Len(low) = k - 1
      /\ \A i \in 1..(k - 1) : low[i] = s[i]
  <2>1. \A i \in 1..(k - 1) : s[i] \in S
    BY <1>1
  <2>2. (k - 1) - 1 + 1 = k - 1 /\ k - 1 \in Nat
    BY <1>1
  <2>3. \A i \in 1..(k - 1) : 1 + i - 1 = i
    OBVIOUS
  <2> HIDE DEF S
  <2>4. QED
    BY <2>1, <2>2, <2>3, SubSeqProperties
<1>3. /\ high \in Seq(S) /\ Len(high) = Len(s) - k + 1
      /\ \A i \in 1..(Len(s) - k + 1) : high[i] = s[k + i - 1]
  <2>1. \A i \in k..Len(s) : s[i] \in S
    BY <1>1
  <2>2. k \in Int /\ Len(s) \in Int
    BY <1>1
  <2>3. IF k <= Len(s) THEN TRUE ELSE Len(s) - k + 1 = 0
    BY <1>1
  <2> HIDE DEF S
  <2>4. QED
    BY <2>1, <2>2, <2>3, SubSeqProperties
<1>4. <<e>> \in Seq(S) /\ Len(<<e>>) = 1 /\ <<e>>[1] = e
  OBVIOUS
<1> HIDE DEF S
<1>5. /\ low \o <<e>> \in Seq(S) /\ Len(low \o <<e>>) = k
      /\ \A i \in 1..k : (low \o <<e>>)[i] = IF i = k THEN e ELSE s[i]
  <2>1. (k - 1) + 1 = k /\ k \in Nat
    BY <1>1
  <2>2. /\ low \o <<e>> \in Seq(S) /\ Len(low \o <<e>>) = k
        /\ \A i \in 1..k : (low \o <<e>>)[i] =
              IF i <= k - 1 THEN low[i] ELSE <<e>>[i - (k - 1)]
    BY <1>2, <1>4, <2>1, ConcatProperties
  <2>3. \A i \in 1..k : IF i = k THEN i - (k - 1) = 1 /\ ~(i <= k - 1)
                                  ELSE i <= k - 1 /\ i \in 1..(k - 1)
    BY <2>1
  <2> HIDE DEF low
  <2>4. QED
    BY <1>2, <1>4, <2>2, <2>3
<1>6. /\ r \in Seq(S) /\ Len(r) = Len(s) + 1
      /\ \A i \in 1..(Len(s) + 1) : r[i] =
            IF i < k THEN s[i] ELSE IF i = k THEN e ELSE s[i - 1]
  <2>1. k + (Len(s) - k + 1) = Len(s) + 1
    BY <1>1
  <2>2. r = (low \o <<e>>) \o high
    BY DEF InsertAt
  <2>3. \A i \in 1..(Len(s) + 1) :
           /\ i < k => i <= k /\ i \in 1..k /\ i # k
           /\ i = k => i <= k /\ i \in 1..k
           /\ i > k => /\ ~(i <= k) /\ i - k \in 1..(Len(s) - k + 1)
                       /\ k + (i - k) - 1 = i - 1 /\ ~(i < k) /\ i # k
    BY <1>1
  <2> DEFINE front == low \o <<e>>
  <2>4. front \in Seq(S) /\ Len(front) = k
    BY <1>5
  <2>5. \A i \in 1..k : front[i] = IF i = k THEN e ELSE s[i]
    BY <1>5
  <2> HIDE DEF front, low, high, r
  <2>6. /\ r \in Seq(S) /\ Len(r) = Len(s) + 1
        /\ \A i \in 1..(Len(s) + 1) : r[i] =
              IF i <= k THEN front[i] ELSE high[i - k]
    BY <1>3, <2>1, <2>2, <2>4, ConcatProperties DEF front
  <2>7. \A i \in 1..(Len(s) + 1) : r[i] =
            IF i < k THEN s[i] ELSE IF i = k THEN e ELSE s[i - 1]
    <3> SUFFICES ASSUME NEW i \in 1..(Len(s) + 1)
                 PROVE  r[i] = IF i < k THEN s[i] ELSE IF i = k THEN e ELSE s[i - 1]
      OBVIOUS
    <3>1. CASE i < k
      BY <2>3, <2>5, <2>6, <3>1
    <3>2. CASE i = k
      BY <2>3, <2>5, <2>6, <3>2
    <3>3. CASE i > k
      BY <1>3, <2>3, <2>6, <3>3
    <3>4. QED
      BY <1>1, <3>1, <3>2, <3>3
  <2>8. QED
    BY <2>6, <2>7
<1> HIDE DEF r
<1>7. /\ \A x : x \in ToSet(r) <=> \E i \in 1..(Len(s) + 1) : r[i] = x
      /\ r \in Seq(ToSet(r))
  BY <1>6, OwnElements
<1>8. ASSUME NEW x \in ToSet(r)
      PROVE  x \in ToSet(s) \/ x = e
  <2>1. PICK i \in 1..(Len(s) + 1) : r[i] = x
    BY <1>7
  <2>2. i < k => i \in 1..Len(s)
    BY <1>1
  <2>3. i > k => i - 1 \in 1..Len(s) /\ ~(i < k) /\ i # k
    BY <1>1
  <2>4. i < k \/ i = k \/ i > k
    BY <1>1
  <2>5. QED
    BY <1>1, <1>6, <2>1, <2>2, <2>3, <2>4
<1>9. ASSUME NEW x \in ToSet(s)
      PROVE  x \in ToSet(r)
  <2>1. PICK i \in 1..Len(s) : s[i] = x
    BY <1>1
  <2>2. CASE i < k
    <3>1. i \in 1..(Len(s) + 1)
      BY <1>1
    <3>2. QED
      BY <1>6, <1>7, <2>1, <2>2, <3>1
  <2>3. CASE i >= k
    <3>1. i + 1 \in 1..(Len(s) + 1) /\ ~(i + 1 < k) /\ i + 1 # k /\ (i + 1) - 1 = i
      BY <1>1, <2>3
    <3>2. QED
      BY <1>6, <1>7, <2>1, <3>1
  <2>4. QED
    BY <1>1, <2>2, <2>3
<1>10. e \in ToSet(r)
  <2>1. k \in 1..(Len(s) + 1) /\ ~(k < k)
    BY <1>1
  <2>2. QED
    BY <1>6, <1>7, <2>1
<1>11. QED
  BY <1>7, <1>8, <1>9, <1>10 DEF r

-----------------------------------------------------------------------------
(* What the calls on a builder do to it.                                   *)

(* The predicates of builders, their copies and the kept one differ.       *)
LEMMA PredicatesDiffer ==
    /\ Kept \in Predicate
    /\ \A b \in Builder : Own(b) \in Predicate /\ Copy(b) \in Predicate
    /\ \A b, c \in Builder :
          /\ Own(b) # Copy(c) /\ Own(b) # Kept /\ Copy(b) # Kept
          /\ Own(b) = Own(c) => b = c
          /\ Copy(b) = Copy(c) => b = c
BY DEF Predicate, Own, Copy, Kept

(* The fields of a builder.                                                *)
LEMMA BuilderFields ==
    ASSUME NEW s \in BuilderState
    PROVE  /\ s.query \in QueryState /\ s.plan \in PlanState \cup {Nil}
           /\ s.query.where \in SUBSET Predicate /\ s.query.limit \in Limits \cup {Nil}
           /\ s.bound \in Bindings
           /\ s.late \in BOOLEAN /\ s.early \in BOOLEAN /\ s.whereAlreadyCalled \in BOOLEAN
BY DEF BuilderState, QueryState

(* The plan of a query.                                                    *)
LEMMA PlanMade ==
    ASSUME NEW query \in QueryState
    PROVE  /\ MakePlan(query) \in PlanState /\ MakePlan(query) # Nil
           /\ MakePlan(query).where = query.where
           /\ MakePlan(query).order = query.order
           /\ MakePlan(query).limited <=> query.limit # Nil
<1>1. MakePlan(query) \in PlanState
  BY DEF MakePlan, QueryState, PlanState
<1>2. QED
  BY <1>1, ObserversAssumption DEF MakePlan

(* A clause leaves a plan that was made before as it is, and then is late. *)
LEMMA ClauseOK ==
    ASSUME NEW s \in BuilderState, PlanOK(s), NEW query \in QueryState,
           s.query.where \subseteq query.where,
           s.query.limit # Nil => query.limit # Nil
    PROVE  /\ Clause(s, query) \in BuilderState /\ PlanOK(Clause(s, query))
           /\ Clause(s, query).query = query
           /\ Clause(s, query).plan = s.plan
           /\ Clause(s, query).bound = s.bound
           /\ Clause(s, query).whereAlreadyCalled = s.whereAlreadyCalled
<1> DEFINE t == Clause(s, query)
<1>1. /\ t.query = query /\ t.plan = s.plan /\ t.bound = s.bound
      /\ t.whereAlreadyCalled = s.whereAlreadyCalled /\ t.early = s.early
      /\ t.late = (s.late \/ s.plan # Nil)
  BY DEF Clause, BuilderState
<1>2. t \in BuilderState
  <2>1. (s.late \/ s.plan # Nil) \in BOOLEAN
    OBVIOUS
  <2>2. QED
    BY <2>1 DEF Clause, BuilderState
<1>3. PlanOK(t)
  <2>1. s.plan # Nil => t.late
    BY <1>1
  <2> HIDE DEF t
  <2>2. QED
    BY <1>1, <2>1 DEF PlanOK
<1>4. QED
  BY <1>1, <1>2, <1>3

(* A plan is made once, of the query as it is.                             *)
LEMMA GetPlanOK ==
    ASSUME NEW s \in BuilderState, PlanOK(s)
    PROVE  /\ GetPlan(s) \in BuilderState /\ PlanOK(GetPlan(s)) /\ GetPlan(s).plan # Nil
           /\ GetPlan(s).query = s.query /\ GetPlan(s).bound = s.bound
           /\ GetPlan(s).whereAlreadyCalled = s.whereAlreadyCalled
           /\ GetPlan(s).late = s.late
           /\ s.plan # Nil => GetPlan(s) = s
           /\ s.plan = Nil => /\ GetPlan(s).plan = MakePlan(s.query)
                              /\ GetPlan(s).early = (s.query.limitBinder /\ s.query.limit = Nil)
<1>1. CASE s.plan # Nil
  BY <1>1 DEF GetPlan
<1>2. CASE s.plan = Nil
  <2> DEFINE t == GetPlan(s)
             plan == MakePlan(s.query)
  <2>1. /\ t.query = s.query /\ t.plan = plan /\ t.bound = s.bound /\ t.late = s.late
        /\ t.whereAlreadyCalled = s.whereAlreadyCalled
        /\ t.early = (s.query.limitBinder /\ s.query.limit = Nil)
    BY <1>2 DEF GetPlan, BuilderState
  <2>2. /\ s.query \in QueryState /\ plan \in PlanState /\ plan # Nil
        /\ plan.where = s.query.where /\ plan.order = s.query.order
        /\ plan.limited <=> s.query.limit # Nil
    BY PlanMade, BuilderFields
  <2>3. t \in BuilderState
    <3>1. (s.query.limitBinder /\ s.query.limit = Nil) \in BOOLEAN
      OBVIOUS
    <3>2. plan \in PlanState \cup {Nil}
      BY <2>2
    <3> HIDE DEF plan
    <3>3. QED
      BY <1>2, <3>1, <3>2 DEF GetPlan, BuilderState, plan
  <2>4. PlanOK(t)
    <3> HIDE DEF t, plan
    <3>1. QED
      BY <2>1, <2>2 DEF PlanOK
  <2>5. QED
    BY <1>2, <2>1, <2>2, <2>3, <2>4
<1>3. QED
  BY <1>1, <1>2

-----------------------------------------------------------------------------
(* What the calls do to the invariant of the builders.                     *)

\* A call took a builder from s to t: it asks for the same, and was perhaps
\* given a plan.
Extends(s, t) ==
    /\ t \in BuilderState /\ PlanOK(t)
    /\ t.query.where = s.query.where /\ t.bound = s.bound
    /\ t.whereAlreadyCalled = s.whereAlreadyCalled
    /\ t.plan = s.plan \/ (s.plan = Nil /\ \A p \in t.plan.where : value[p] # Nil)

PlansStay ==
    \A b \in Built : b \in Built' /\ (builder[b].plan # Nil => builder'[b].plan = builder[b].plan)

(* Calls that extend builders leave to what is bound its meaning.          *)
LEMMA ExtendedOK ==
    ASSUME BuilderInv, builder' \in [Builder -> BuilderState \cup {Nil}], value' = value,
           \A b \in Builder : IF b \in Built THEN Extends(builder[b], builder'[b])
                                             ELSE builder'[b] = builder[b]
    PROVE  BuilderInv' /\ PlansStay /\ Built' = Built
<1>1. \A b \in Builder : b \in Built <=> builder[b] # Nil
  BY DEF Built
<1>2. Built' = Built
  <2>1. \A b \in Builder : b \in Built' <=> builder'[b] # Nil
    BY DEF Built
  <2>2. \A b \in Built : builder'[b] # Nil
    BY ObserversAssumption DEF Extends, Built
  <2>3. Built \subseteq Builder /\ Built' \subseteq Builder
    BY DEF Built
  <2>4. QED
    BY <1>1, <2>1, <2>2, <2>3
<1>3. PlansStay
  BY <1>2 DEF PlansStay, Extends, Built
<1>4. \A b \in Built : builder'[b].query.where = builder[b].query.where
  BY DEF Extends, Built
<1>5. ASSUME NEW b \in Built
      PROVE  WhereInv(b)' /\ PlanOK(builder'[b]) /\ BoundInv(b)'
  <2> DEFINE s == builder[b]
             t == builder'[b]
  <2>1. Extends(s, t) /\ WhereInv(b) /\ BoundInv(b)
    BY DEF Built, BuilderInv
  <2>2. WhereInv(b)'
    BY <2>1 DEF WhereInv, Extends
  <2>3. KeptAlone(b)' => KeptAlone(b)
    BY <1>2, <1>4 DEF KeptAlone
  <2>4. BoundInv(b)'
    <3>1. t.plan # Nil => \A p \in t.plan.where : value[p] # Nil
      BY <2>1 DEF Extends, BoundInv
    <3>2. t.query.where = s.query.where /\ t.bound = s.bound
      BY <2>1 DEF Extends
    <3>3. QED
      BY <2>1, <2>3, <3>1, <3>2 DEF BoundInv
  <2>5. QED
    BY <2>1, <2>2, <2>4 DEF Extends
<1>6. FreshInv'
  <2>1. FreshInv
    BY DEF BuilderInv
  <2>2. ASSUME NEW b \in Builder, b \in Built' => Own(b) \notin builder'[b].query.where
        PROVE  value'[Own(b)] = Nil
    BY <1>2, <1>4, <2>1, <2>2 DEF FreshInv
  <2>3. (\E b \in Built' : Kept \in builder'[b].query.where) \/ value'[Kept] = Nil
    BY <1>2, <1>4, <2>1 DEF FreshInv
  <2>4. QED
    BY <2>2, <2>3 DEF FreshInv
<1>7. QED
  BY <1>2, <1>3, <1>5, <1>6 DEF BuilderInv

(* The same for a call that concerns one builder.                          *)
LEMMA OneExtended ==
    ASSUME BuilderInv, NEW b \in Built, NEW t, Extends(builder[b], t),
           builder' = [builder EXCEPT ![b] = t], value' = value
    PROVE  BuilderInv' /\ PlansStay /\ Built' = Built
<1>1. builder \in [Builder -> BuilderState \cup {Nil}] /\ b \in Builder /\ t \in BuilderState
  BY DEF BuilderInv, Built, Extends
<1>2. builder' \in [Builder -> BuilderState \cup {Nil}]
  BY <1>1
<1>3. \A c \in Builder : builder'[c] = IF c = b THEN t ELSE builder[c]
  BY <1>1
<1>4. \A c \in Built : c # b => Extends(builder[c], builder[c])
  BY ObserversAssumption DEF Extends, BuilderInv, Built
<1>5. QED
  BY <1>2, <1>3, <1>4, ExtendedOK

(* What is known of a builder.                                             *)
LEMMA BuiltOne ==
    ASSUME BuilderInv, NEW b \in Built
    PROVE  /\ b \in Builder /\ builder[b] \in BuilderState
           /\ WhereInv(b) /\ PlanOK(builder[b]) /\ BoundInv(b)
BY DEF BuilderInv, Built

(* The clauses that refer to no predicate.                                 *)
LEMMA ClauseExtends ==
    ASSUME BuilderInv, NEW b \in Built, NEW query \in QueryState,
           query.where = builder[b].query.where,
           builder[b].query.limit # Nil => query.limit # Nil
    PROVE  Extends(builder[b], Clause(builder[b], query))
BY BuiltOne, ClauseOK DEF Extends

(* from().                                                                 *)
LEMMA CallFromOK ==
    ASSUME BuilderInv, NEW b \in Builder, CallFrom(b)
    PROVE  BuilderInv' /\ PlansStay
<1> DEFINE query == [builder[b].query EXCEPT !.from = TRUE]
<1>1. b \in Built /\ builder' = [builder EXCEPT ![b] = Clause(builder[b], query)] /\ value' = value
  BY DEF CallFrom, Builds, From
<1>2. /\ query \in QueryState /\ query.where = builder[b].query.where
      /\ query.limit = builder[b].query.limit
  <2>1. builder[b] \in BuilderState
    BY <1>1, BuiltOne
  <2>2. builder[b].query \in QueryState
    BY ONLY <2>1, BuilderFields
  <2>3. QED
    BY ONLY <2>2 DEF QueryState
<1> HIDE DEF query
<1>3. QED
  BY <1>1, <1>2, ClauseExtends, OneExtended

(* orderBy().                                                              *)
LEMMA CallOrderByOK ==
    ASSUME BuilderInv, NEW b \in Builder, CallOrderBy(b)
    PROVE  BuilderInv' /\ PlansStay
<1> DEFINE query == [builder[b].query EXCEPT !.order = "DESC"]
<1>1. b \in Built /\ builder' = [builder EXCEPT ![b] = Clause(builder[b], query)] /\ value' = value
  BY DEF CallOrderBy, Builds, OrderBy
<1>2. /\ query \in QueryState /\ query.where = builder[b].query.where
      /\ query.limit = builder[b].query.limit
  <2>1. builder[b] \in BuilderState
    BY <1>1, BuiltOne
  <2>2. builder[b].query \in QueryState
    BY ONLY <2>1, BuilderFields
  <2>3. QED
    BY ONLY <2>2 DEF QueryState, Order
<1> HIDE DEF query
<1>3. QED
  BY <1>1, <1>2, ClauseExtends, OneExtended

(* limit(): a limit may replace the limit 0 after the query was planned.   *)
LEMMA CallLimitOK ==
    ASSUME BuilderInv, NEW b \in Builder, CallLimit(b)
    PROVE  BuilderInv' /\ PlansStay
<1> DEFINE s == builder[b]
<1>1. b \in Built /\ value' = value
  BY DEF CallLimit
<1>2. s \in BuilderState /\ PlanOK(s) /\ s.query \in QueryState
  BY <1>1, BuiltOne, BuilderFields
<1>3. ASSUME NEW n \in Limits, Builds(b, Limit(s, n))
      PROVE  BuilderInv' /\ PlansStay
  <2> DEFINE query == [s.query EXCEPT !.limit = n]
  <2>1. query \in QueryState /\ query.where = s.query.where /\ query.limit = n
    BY <1>2 DEF QueryState
  <2>2. n # Nil
    BY ObserversAssumption
  <2>3. CASE s.query.limit = Nil
    <3>1. builder' = [builder EXCEPT ![b] = Clause(s, query)]
      BY <1>3, <2>3 DEF Builds, Limit
    <3> HIDE DEF query
    <3>2. QED
      BY <1>1, <2>1, <2>2, <3>1, ClauseExtends, OneExtended
  <2>4. CASE s.query.limit # Nil
    <3> DEFINE t == [s EXCEPT !.query.limit = n]
    <3>1. builder' = [builder EXCEPT ![b] = t]
      BY <1>3, <2>4 DEF Builds, Limit
    <3>2. /\ t \in BuilderState /\ t.query = query /\ t.bound = s.bound /\ t.plan = s.plan
          /\ t.late = s.late /\ t.early = s.early /\ t.whereAlreadyCalled = s.whereAlreadyCalled
      BY <1>2, <2>1 DEF BuilderState
    <3>3. query.order = s.query.order
      BY <1>2 DEF QueryState
    <3> HIDE DEF query, t
    <3>4. PlanOK(t)
      BY <1>2, <2>1, <2>2, <2>4, <3>2, <3>3 DEF PlanOK
    <3>5. Extends(s, t)
      BY <2>1, <3>2, <3>4 DEF Extends
    <3>6. QED
      BY <1>1, <3>1, <3>5, OneExtended
  <2>5. QED
    BY <2>3, <2>4
<1>4. ASSUME Builds(b, LimitBinder(s))
      PROVE  BuilderInv' /\ PlansStay
  <2> DEFINE query == [s.query EXCEPT !.limitBinder = TRUE]
  <2>1. /\ query \in QueryState /\ query.where = s.query.where /\ query.limit = s.query.limit
        /\ query.order = s.query.order
    BY <1>2 DEF QueryState
  <2>2. CASE s.query.limit = Nil
    <3>1. builder' = [builder EXCEPT ![b] = Clause(s, query)]
      BY <1>4, <2>2 DEF Builds, LimitBinder
    <3> HIDE DEF query
    <3>2. QED
      BY <1>1, <2>1, <3>1, ClauseExtends, OneExtended
  <2>3. CASE s.query.limit # Nil
    <3> DEFINE t == [s EXCEPT !.query.limitBinder = TRUE]
    <3>1. builder' = [builder EXCEPT ![b] = t]
      BY <1>4, <2>3 DEF Builds, LimitBinder
    <3>2. /\ t \in BuilderState /\ t.query = query /\ t.bound = s.bound /\ t.plan = s.plan
          /\ t.late = s.late /\ t.early = s.early /\ t.whereAlreadyCalled = s.whereAlreadyCalled
      BY <1>2, <2>1 DEF BuilderState
    <3> HIDE DEF query, t
    <3>3. PlanOK(t)
      BY <1>2, <2>1, <2>3, <3>2 DEF PlanOK
    <3>4. Extends(s, t)
      BY <2>1, <3>2, <3>3 DEF Extends
    <3>5. QED
      BY <1>1, <3>1, <3>4, OneExtended
  <2>4. QED
    BY <2>2, <2>3
<1>5. QED
  BY <1>3, <1>4 DEF CallLimit

(* A query is planned when all of its predicates have values.              *)
LEMMA PlannedExtends ==
    ASSUME BuilderInv, NEW b \in Built, Plannable(builder[b], value)
    PROVE  Extends(builder[b], GetPlan(builder[b])) /\ GetPlan(builder[b]).plan # Nil
<1> DEFINE s == builder[b]
           t == GetPlan(s)
<1>1. s \in BuilderState /\ PlanOK(s) /\ s.query \in QueryState
  BY BuiltOne, BuilderFields
<1>2. /\ t \in BuilderState /\ PlanOK(t) /\ t.plan # Nil
      /\ t.query = s.query /\ t.bound = s.bound /\ t.whereAlreadyCalled = s.whereAlreadyCalled
  BY <1>1, GetPlanOK
<1>3. CASE s.plan # Nil
  BY <1>1, <1>2, <1>3, GetPlanOK DEF Extends
<1>4. CASE s.plan = Nil
  <2>1. t.plan.where = s.query.where
    BY <1>1, <1>4, GetPlanOK, PlanMade
  <2>2. \A p \in s.query.where : value[p] # Nil
    BY <1>4 DEF Plannable
  <2>3. QED
    BY <1>2, <1>4, <2>1, <2>2 DEF Extends
<1>5. QED
  BY <1>2, <1>3, <1>4

(* A builder whose query is planned.                                       *)
LEMMA PlannedOneOK ==
    ASSUME BuilderInv, NEW b \in Built, Plannable(builder[b], value),
           builder' = [builder EXCEPT ![b] = GetPlan(builder[b])], value' = value
    PROVE  BuilderInv' /\ PlansStay /\ Built' = Built
BY PlannedExtends, OneExtended

(* A builder that is made, or copied.                                      *)
LEMMA AnotherBuilder ==
    ASSUME BuilderInv, NEW c \in Builder \ Built, NEW t \in BuilderState, t.plan = Nil,
           builder' = [builder EXCEPT ![c] = t],
           t.query.where \subseteq {Copy(c)},
           t.bound \in [t.query.where -> Values \cup {Nil}],
           value' \in [Predicate -> Values \cup {Nil}],
           \A p \in Predicate \ {Copy(c)} : value'[p] = value[p],
           \A p \in t.query.where : value'[p] = t.bound[p]
    PROVE  BuilderInv' /\ PlansStay
<1>1. builder' \in [Builder -> BuilderState \cup {Nil}]
  BY DEF BuilderInv
<1>2. \A b \in Builder : builder'[b] = IF b = c THEN t ELSE builder[b]
  BY DEF BuilderInv
<1>3. Built' = Built \cup {c} /\ Built \subseteq Builder /\ c \notin Built
  BY <1>2, ObserversAssumption DEF Built
<1>4. PlansStay
  BY <1>2, <1>3 DEF PlansStay
<1>5. ASSUME NEW b \in Built
      PROVE  WhereInv(b)' /\ PlanOK(builder'[b]) /\ BoundInv(b)'
  <2>1. /\ b \in Builder /\ b # c /\ builder'[b] = builder[b]
        /\ WhereInv(b) /\ PlanOK(builder[b]) /\ BoundInv(b)
    BY <1>2, <1>3, BuiltOne
  <2>2. \A p \in builder[b].query.where : p \in Predicate \ {Copy(c)}
    BY <2>1, PredicatesDiffer DEF WhereInv
  <2>3. \A p \in builder[b].query.where : value'[p] = value[p]
    BY <2>2
  <2>4. WhereInv(b)'
    BY <2>1 DEF WhereInv
  <2>5. KeptAlone(b)' => KeptAlone(b)
    BY <1>2, <1>3 DEF KeptAlone
  <2>6. builder[b].plan # Nil => builder[b].plan.where \subseteq builder[b].query.where
    BY <2>1 DEF PlanOK
  <2>7. BoundInv(b)'
    BY <2>1, <2>3, <2>5, <2>6 DEF BoundInv
  <2>8. QED
    BY <2>1, <2>4, <2>7
<1>6. WhereInv(c)' /\ PlanOK(builder'[c]) /\ BoundInv(c)'
  <2>1. builder'[c] = t /\ Own(c) # Copy(c) /\ Kept # Copy(c)
    BY <1>2, PredicatesDiffer
  <2>2. WhereInv(c)'
    BY <2>1 DEF WhereInv
  <2>3. PlanOK(t)
    BY DEF PlanOK
  <2>4. BoundInv(c)'
    BY <2>1 DEF BoundInv
  <2>5. QED
    BY <2>1, <2>2, <2>3, <2>4
<1>7. FreshInv'
  <2>1. FreshInv
    BY DEF BuilderInv
  <2>2. ASSUME NEW b \in Builder, b \in Built' => Own(b) \notin builder'[b].query.where
        PROVE  value'[Own(b)] = Nil
    <3>1. value'[Own(b)] = value[Own(b)]
      BY PredicatesDiffer
    <3>2. b \in Built => Own(b) \notin builder[b].query.where
      BY <1>2, <1>3, <2>2
    <3>3. QED
      BY <2>1, <3>1, <3>2 DEF FreshInv
  <2>3. value'[Kept] = value[Kept]
    BY PredicatesDiffer
  <2>4. (\E b \in Built' : Kept \in builder'[b].query.where) \/ value'[Kept] = Nil
    BY <1>2, <1>3, <2>1, <2>3 DEF FreshInv
  <2>5. QED
    BY <2>2, <2>4 DEF FreshInv
<1>8. QED
  BY <1>1, <1>3, <1>4, <1>5, <1>6, <1>7 DEF BuilderInv

(* A builder that is made asks for nothing.                                *)
LEMMA NewSelectOK ==
    ASSUME BuilderInv, NEW b \in Builder, NewSelect(b)
    PROVE  BuilderInv' /\ PlansStay
<1>1. /\ b \in Builder \ Built /\ builder' = [builder EXCEPT ![b] = NewBuilder]
      /\ value' = value
  BY DEF NewSelect, Builds
<1>2. NewBuilder.bound \in [{} -> Values \cup {Nil}]
  BY DEF NewBuilder
<1>3. NewBuilder.bound \in Bindings
  BY <1>2 DEF Bindings
<1>4. NewQuery \in QueryState /\ NewQuery.where = {}
  BY DEF NewQuery, QueryState, Order
<1>5. /\ NewBuilder \in BuilderState /\ NewBuilder.plan = Nil
      /\ NewBuilder.query.where = {}
  BY <1>3, <1>4 DEF NewBuilder, BuilderState
<1>6. value \in [Predicate -> Values \cup {Nil}]
  BY DEF BuilderInv
<1> HIDE DEF NewBuilder
<1>7. QED
  BY <1>1, <1>2, <1>5, <1>6, AnotherBuilder

(* The largest of no more than three numbers is one of them.               *)
LEMMA LargestOfThree ==
    ASSUME NEW a \in Nat, NEW b \in Nat, NEW c \in Nat,
           NEW S \in SUBSET {a, b, c}, S # {}
    PROVE  Max(S) \in S
<1>1. \E x \in S : \A y \in S : x >= y
  <2>1. PICK x \in S : TRUE
    OBVIOUS
  <2>2. CASE \A y \in S : x >= y
    BY <2>2
  <2>3. CASE ~\A y \in S : x >= y
    <3>1. PICK y \in S : y > x
      BY <2>3
    <3>2. CASE \A z \in S : y >= z
      BY <3>2
    <3>3. CASE ~\A z \in S : y >= z
      <4>1. PICK z \in S : z > y
        BY <3>3
      <4>2. \A w \in S : w = x \/ w = y \/ w = z
        BY <3>1, <4>1
      <4>3. \A w \in S : z >= w
        BY <3>1, <4>1, <4>2
      <4>4. QED
        BY <4>3
    <3>4. QED
      BY <3>2, <3>3
  <2>4. QED
    BY <2>2, <2>3
<1>2. QED
  BY <1>1 DEF Max

(* What is bound to the conjunction of a builder's predicates is bound to  *)
(* one of them.                                                            *)
LEMMA ConjunctionType ==
    ASSUME BuilderInv, NEW b \in Built, builder[b].query.where # {}
    PROVE  Conjunction(builder[b].query.where) \in Values \cup {Nil}
<1> DEFINE where == builder[b].query.where
           given == {value[p] : p \in where}
<1>1. CASE Nil \in given
  BY <1>1 DEF Conjunction
<1>2. CASE Nil \notin given
  <2>1. b \in Builder /\ where \subseteq {Own(b), Copy(b), Kept}
    BY BuiltOne DEF WhereInv
  <2>2. /\ value \in [Predicate -> Values \cup {Nil}]
        /\ Own(b) \in Predicate /\ Copy(b) \in Predicate /\ Kept \in Predicate
    BY <2>1, PredicatesDiffer DEF BuilderInv
  <2> DEFINE num(p) == IF value[p] = Nil THEN 0 ELSE value[p]
  <2>3. num(Own(b)) \in Nat /\ num(Copy(b)) \in Nat /\ num(Kept) \in Nat
    BY <2>2, ObserversAssumption
  <2>4. given \subseteq {num(Own(b)), num(Copy(b)), num(Kept)}
    BY <1>2, <2>1
  <2>5. given # {}
    OBVIOUS
  <2> HIDE DEF num, given
  <2>6. Max(given) \in given
    <3>1. PICK i, j, k : i = num(Own(b)) /\ j = num(Copy(b)) /\ k = num(Kept)
      OBVIOUS
    <3>2. i \in Nat /\ j \in Nat /\ k \in Nat /\ given \in SUBSET {i, j, k}
      BY ONLY <2>3, <2>4, <3>1
    <3>3. QED
      BY ONLY <2>5, <3>2, LargestOfThree
  <2>7. given \subseteq Values \cup {Nil}
    BY <2>1, <2>2 DEF given
  <2>8. QED
    BY <1>2, <2>6, <2>7 DEF Conjunction, given
<1>3. QED
  BY <1>1, <1>2

(* A copy of a builder has what its predicates were bound to.              *)
LEMMA CloneBuilderOK ==
    ASSUME BuilderInv, NEW b \in Builder, NEW c \in Builder, CloneBuilder(b, c)
    PROVE  BuilderInv' /\ PlansStay
<1> DEFINE s == builder[b]
           where == s.query.where
           given == Conjunction(where)
           copies == IF where = {} THEN {} ELSE {Copy(c)}
           t == Clone(s, Copy(c), given)
           query == [s.query EXCEPT !.where = copies]
           bound == [p \in copies |-> given]
<1>1. /\ b \in Built /\ c \in Builder \ Built /\ builder' = [builder EXCEPT ![c] = t]
      /\ value' = IF where = {} THEN value ELSE [value EXCEPT ![Copy(c)] = given]
  BY DEF CloneBuilder, Builds
<1>2. s \in BuilderState /\ s.query \in QueryState
  BY <1>1, BuiltOne, BuilderFields
<1>3. copies \in SUBSET {Copy(c)} /\ Copy(c) \in Predicate
  BY PredicatesDiffer
<1>4. where # {} => given \in Values \cup {Nil}
  BY <1>1, ConjunctionType
<1>5. bound \in [copies -> Values \cup {Nil}]
  BY <1>4
<1>6. bound \in Bindings
  <2>1. copies \in SUBSET Predicate
    BY <1>3
  <2> HIDE DEF bound, copies
  <2>2. QED
    BY <1>5, <2>1 DEF Bindings
<1>7. query \in QueryState /\ query.where = copies
  BY <1>2, <1>3 DEF QueryState
<1>8. /\ t.query = query /\ t.bound = bound /\ t.plan = Nil
      /\ t \in BuilderState
  <2>1. t = [NewBuilder EXCEPT !.query = query, !.bound = bound]
    BY DEF Clone
  <2> HIDE DEF t, query, bound
  <2>2. t = [query |-> query, whereAlreadyCalled |-> FALSE, plan |-> Nil,
             bound |-> bound, late |-> FALSE, early |-> FALSE]
    BY <2>1 DEF NewBuilder
  <2>3. QED
    BY <1>6, <1>7, <2>2 DEF BuilderState
<1>9. value \in [Predicate -> Values \cup {Nil}]
  BY DEF BuilderInv
<1>10. /\ value' \in [Predicate -> Values \cup {Nil}]
       /\ \A p \in Predicate \ {Copy(c)} : value'[p] = value[p]
  BY <1>1, <1>4, <1>9
<1>11. \A p \in copies : value'[p] = bound[p]
  BY <1>1, <1>3, <1>9
<1> HIDE DEF t, query, bound, copies, given
<1>12. QED
  BY <1>1, <1>3, <1>5, <1>7, <1>8, <1>10, <1>11, AnotherBuilder

(* A predicate is given to a builder that has none of its kind, so nothing *)
(* is bound to it unless it is the kept one and others have it.            *)
LEMMA CallWhereOK ==
    ASSUME BuilderInv, NEW b \in Builder, CallWhere(b)
    PROVE  BuilderInv' /\ PlansStay
<1> DEFINE s == builder[b]
<1>1. /\ b \in Built /\ CanWhere(s) /\ value' = value
  BY DEF CallWhere
<1>2. PICK p \in {Own(b), Kept} : /\ p = Kept => Copy(b) \notin s.query.where
                                  /\ Builds(b, Where(s, p))
  BY DEF CallWhere
<1> DEFINE query == [s.query EXCEPT !.where = @ \cup {p}]
           where == s.query.where \cup {p}
           bound == [q \in where |-> IF q = p THEN Nil ELSE s.bound[q]]
           late == Clause(s, query)
           t == Where(s, p)
<1>3. /\ s \in BuilderState /\ s.query \in QueryState /\ s.query.where \in SUBSET Predicate
      /\ WhereInv(b) /\ PlanOK(s) /\ BoundInv(b)
  BY <1>1, BuiltOne, BuilderFields
<1>4. p \in Predicate /\ p \notin s.query.where
  BY <1>1, <1>3, PredicatesDiffer DEF WhereInv, CanWhere
<1>5. query \in QueryState /\ query.where = where /\ query.limit = s.query.limit
  BY <1>3, <1>4 DEF QueryState
<1>6. s.bound \in [s.query.where -> Values \cup {Nil}]
  BY <1>3 DEF WhereInv
<1>7. /\ bound \in [where -> Values \cup {Nil}] /\ bound \in Bindings
  <2>1. bound \in [where -> Values \cup {Nil}]
    BY <1>6
  <2>2. where \in SUBSET Predicate
    BY <1>3, <1>4
  <2> HIDE DEF bound, where
  <2>3. QED
    BY <2>1, <2>2 DEF Bindings
<1>8. /\ late \in BuilderState /\ PlanOK(late) /\ late.query = query /\ late.plan = s.plan
      /\ late.bound = s.bound
  <2> HIDE DEF query
  <2>1. QED
    BY <1>3, <1>5, ClauseOK
<1>9. /\ t \in BuilderState /\ t.query = query /\ t.plan = s.plan /\ t.bound = bound
      /\ t.whereAlreadyCalled = TRUE /\ t.late = late.late /\ t.early = late.early
  <2>1. DOMAIN late.bound \cup {p} = where
    BY <1>6, <1>8
  <2>2. t = [late EXCEPT !.whereAlreadyCalled = TRUE, !.bound = bound]
    BY <1>8, <2>1 DEF Where
  <2> HIDE DEF t, late, bound, query
  <2>3. QED
    BY <1>7, <1>8, <2>2 DEF BuilderState
<1>10. PlanOK(t)
  <2> HIDE DEF t, late, bound, query
  <2>1. QED
    BY <1>8, <1>9 DEF PlanOK
<1>11. builder' = [builder EXCEPT ![b] = t]
  BY <1>2 DEF Builds
<1> HIDE DEF t, late
<1>12. /\ builder' \in [Builder -> BuilderState \cup {Nil}]
       /\ \A c \in Builder : builder'[c] = IF c = b THEN t ELSE builder[c]
  BY <1>9, <1>11 DEF BuilderInv
<1>13. Built' = Built /\ Built \subseteq Builder
  BY <1>1, <1>9, <1>12, ObserversAssumption DEF Built
<1>14. PlansStay
  BY <1>9, <1>12, <1>13 DEF PlansStay
<1>15. \A c \in Builder : c \in Built => builder[c].query.where \subseteq builder'[c].query.where
  <2>1. ASSUME NEW c \in Builder
        PROVE  builder[c].query.where \subseteq builder'[c].query.where
    <3>1. CASE c = b
      <4>1. builder'[c].query.where = where
        BY <1>5, <1>9, <1>12, <3>1
      <4>2. QED
        BY ONLY <3>1, <4>1
    <3>2. CASE c # b
      BY ONLY <1>12, <3>2
    <3>3. QED
      BY ONLY <3>1, <3>2
  <2>2. QED
    BY ONLY <2>1
<1>16. FreshInv
  BY DEF BuilderInv
<1>17. \A c \in Built : KeptAlone(c)' => KeptAlone(c)
  BY <1>13, <1>15 DEF KeptAlone
<1>18. WhereInv(b)'
  <2>1. /\ builder'[b] = t /\ t.query.where = where /\ t.bound = bound
        /\ t.whereAlreadyCalled
    BY <1>5, <1>9, <1>12
  <2>2. s.query.where \subseteq {Copy(b)}
    BY <1>1, <1>3 DEF WhereInv, CanWhere
  <2>3. where \subseteq {Own(b), Copy(b), Kept}
    BY <2>2
  <2>4. Kept \in where => where = {Kept}
    BY <1>2, <2>2, PredicatesDiffer
  <2> HIDE DEF where, bound
  <2>5. QED
    BY <1>7, <2>1, <2>3, <2>4 DEF WhereInv
<1>19. BoundInv(b)'
  <2>1. builder'[b] = t /\ t.query.where = where /\ t.bound = bound
    BY <1>5, <1>9, <1>12
  <2>2. ASSUME NEW q \in where \ {Kept}
        PROVE  value[q] = bound[q]
    <3>1. CASE q = p
      <4>1. p = Own(b) /\ value[Own(b)] = Nil
        BY <1>4, <1>16, <2>2, <3>1 DEF FreshInv
      <4>2. QED
        BY <3>1, <4>1
    <3>2. CASE q # p
      BY <1>3, <2>2, <3>2 DEF BoundInv
    <3>3. QED
      BY <3>1, <3>2
  <2>3. ASSUME Kept \in where, KeptAlone(b)'
        PROVE  value[Kept] = bound[Kept]
    <3>1. CASE p = Kept
      <4>1. \A c \in Built : Kept \notin builder[c].query.where
        BY <1>4, <1>12, <1>13, <2>3, <3>1 DEF KeptAlone
      <4>2. value[Kept] = Nil
        BY <1>16, <4>1 DEF FreshInv
      <4>3. QED
        BY <3>1, <4>2
    <3>2. CASE p # Kept
      BY <1>1, <1>3, <1>17, <2>3, <3>2 DEF BoundInv
    <3>3. QED
      BY <3>1, <3>2
  <2>4. ASSUME {Own(b), Copy(b)} \subseteq where, value[Own(b)] # Nil
        PROVE  value[Own(b)] = value[Copy(b)]
    <3>1. Own(b) \in s.query.where
      BY <1>16, <2>4 DEF FreshInv
    <3>2. Copy(b) # p
      BY PredicatesDiffer
    <3>3. QED
      BY <1>3, <2>4, <3>1, <3>2 DEF BoundInv
  <2>5. t.plan # Nil => \A q \in t.plan.where : value[q] # Nil
    BY <1>3, <1>9 DEF BoundInv
  <2> HIDE DEF where, bound
  <2>6. QED
    BY <1>1, <2>1, <2>2, <2>3, <2>4, <2>5 DEF BoundInv
<1>20. ASSUME NEW c \in Built, c # b
       PROVE  WhereInv(c)' /\ PlanOK(builder'[c]) /\ BoundInv(c)'
  <2>1. /\ builder'[c] = builder[c] /\ WhereInv(c) /\ PlanOK(builder[c]) /\ BoundInv(c)
    BY <1>12, <1>13, <1>20, BuiltOne
  <2>2. QED
    BY <1>1, <1>17, <2>1 DEF WhereInv, BoundInv
<1>21. FreshInv'
  <2>1. ASSUME NEW c \in Builder, c \in Built' => Own(c) \notin builder'[c].query.where
        PROVE  value'[Own(c)] = Nil
    BY <1>1, <1>13, <1>15, <1>16, <2>1 DEF FreshInv
  <2>2. (\E c \in Built' : Kept \in builder'[c].query.where) \/ value'[Kept] = Nil
    BY <1>1, <1>13, <1>15, <1>16 DEF FreshInv
  <2>3. QED
    BY <2>1, <2>2 DEF FreshInv
<1>22. value' \in [Predicate -> Values \cup {Nil}]
  BY <1>1 DEF BuilderInv
<1>23. QED
  BY <1>10, <1>12, <1>13, <1>14, <1>18, <1>19, <1>20, <1>21, <1>22 DEF BuilderInv

(* What is bound reaches every predicate the builder refers to, and those  *)
(* of other builders only if it is the kept one.                           *)
LEMMA CallBindOK ==
    ASSUME BuilderInv, NEW b \in Builder, CallBind(b)
    PROVE  BuilderInv' /\ PlansStay
<1> DEFINE s == builder[b]
           where == s.query.where
<1>1. b \in Built
  BY DEF CallBind
<1>2. PICK n \in Limits, v \in Values :
         /\ Builds(b, Bind(s, n, v))
         /\ value' = [p \in Predicate |-> IF p \in where THEN v ELSE value[p]]
  BY DEF CallBind
<1> DEFINE limit == IF s.query.limitBinder THEN n ELSE s.query.limit
           query == [s.query EXCEPT !.limit = limit]
           bound == [p \in where |-> v]
           t == Bind(s, n, v)
<1>3. /\ s \in BuilderState /\ s.query \in QueryState /\ where \in SUBSET Predicate
      /\ WhereInv(b) /\ PlanOK(s) /\ BoundInv(b)
  BY <1>1, BuiltOne, BuilderFields
<1>4. n # Nil /\ v # Nil
  BY ObserversAssumption
<1>5. /\ query \in QueryState /\ query.where = where /\ query.limit = limit
      /\ query.order = s.query.order /\ query.limitBinder = s.query.limitBinder
  BY <1>3 DEF QueryState
<1>6. bound \in [where -> Values \cup {Nil}] /\ bound \in Bindings
  <2>1. bound \in [where -> Values \cup {Nil}]
    OBVIOUS
  <2> HIDE DEF bound, where
  <2>2. QED
    BY <1>3, <2>1 DEF Bindings
<1>7. DOMAIN s.bound = where
  BY <1>3 DEF WhereInv
<1>8. /\ t.query = query /\ t.plan = s.plan /\ t.bound = bound /\ t.late = s.late
      /\ t.early = s.early /\ t.whereAlreadyCalled = s.whereAlreadyCalled
      /\ t \in BuilderState
  <2>1. t = [s EXCEPT !.query = query, !.bound = bound]
    BY <1>3, <1>7 DEF Bind, BuilderState
  <2> HIDE DEF t, query, bound
  <2>2. QED
    BY <1>3, <1>5, <1>6, <2>1 DEF BuilderState
<1>9. builder' = [builder EXCEPT ![b] = t]
  BY <1>2 DEF Builds
<1> HIDE DEF t, query
<1>10. PlanOK(t)
  BY <1>3, <1>4, <1>5, <1>8 DEF PlanOK
<1>11. /\ builder' \in [Builder -> BuilderState \cup {Nil}]
       /\ \A c \in Builder : builder'[c] = IF c = b THEN t ELSE builder[c]
  BY <1>8, <1>9 DEF BuilderInv
<1>12. Built' = Built /\ Built \subseteq Builder
  BY <1>1, <1>8, <1>11, ObserversAssumption DEF Built
<1>13. PlansStay
  BY <1>8, <1>11, <1>12 DEF PlansStay
<1>14. \A c \in Built : builder'[c].query.where = builder[c].query.where
  BY <1>5, <1>8, <1>11, <1>12
<1>15. \A c \in Built : KeptAlone(c)' => KeptAlone(c)
  BY <1>12, <1>14 DEF KeptAlone
<1>16. /\ value' \in [Predicate -> Values \cup {Nil}]
       /\ \A p \in where : value'[p] = v
       /\ \A p \in Predicate \ where : value'[p] = value[p]
  BY <1>2, <1>3 DEF BuilderInv
<1>17. \A p \in Predicate : value[p] # Nil => value'[p] # Nil
  BY <1>4, <1>16
<1>18. WhereInv(b)'
  BY <1>3, <1>5, <1>6, <1>8, <1>11 DEF WhereInv
<1>19. BoundInv(b)'
  <2>1. builder'[b] = t /\ t.query.where = where /\ t.bound = bound /\ t.plan = s.plan
    BY <1>5, <1>8, <1>11
  <2>2. t.plan # Nil => \A p \in t.plan.where : value'[p] # Nil
    BY <1>3, <1>4, <1>16, <2>1 DEF PlanOK
  <2>3. \A p \in where : value'[p] = v /\ bound[p] = v
    BY <1>16
  <2> HIDE DEF where, bound
  <2>4. QED
    BY <2>1, <2>2, <2>3 DEF BoundInv
<1>20. ASSUME NEW c \in Built, c # b
       PROVE  WhereInv(c)' /\ PlanOK(builder'[c]) /\ BoundInv(c)'
  <2>1. /\ builder'[c] = builder[c] /\ WhereInv(c) /\ PlanOK(builder[c]) /\ BoundInv(c)
        /\ c \in Builder /\ builder[c].query.where \in SUBSET Predicate
    BY <1>11, <1>12, <1>20, BuiltOne, BuilderFields
  <2>2. WhereInv(c)'
    BY <2>1 DEF WhereInv
  <2>3. \A p \in builder[c].query.where : p # Kept => p \notin where
    BY <1>3, <1>12, <1>20, <2>1, PredicatesDiffer DEF WhereInv
  <2>4. \A p \in builder[c].query.where : p # Kept => value'[p] = value[p]
    BY <1>16, <2>1, <2>3
  <2>5. Kept \in builder[c].query.where /\ KeptAlone(c)' => value'[Kept] = value[Kept]
    <3>1. Kept \in where => ~KeptAlone(c)
      BY <1>1, <1>20 DEF KeptAlone
    <3>2. QED
      BY <1>15, <1>16, <3>1, PredicatesDiffer
  <2>6. builder[c].plan # Nil => \A p \in builder[c].plan.where : value'[p] # Nil
    BY <1>17, <2>1 DEF BoundInv, PlanOK
  <2>7. Own(c) # Kept /\ Copy(c) # Kept
    BY <2>1, PredicatesDiffer
  <2>8. BoundInv(c)'
    <3> HIDE DEF where
    <3>1. \A p \in builder[c].query.where \ {Kept} : value'[p] = builder[c].bound[p]
      BY <2>1, <2>4 DEF BoundInv
    <3>2. Kept \in builder[c].query.where /\ KeptAlone(c)' => value'[Kept] = builder[c].bound[Kept]
      BY <1>15, <2>1, <2>5 DEF BoundInv
    <3>3. {Own(c), Copy(c)} \subseteq builder[c].query.where /\ value'[Own(c)] # Nil =>
             value'[Own(c)] = value'[Copy(c)]
      BY <2>1, <2>4, <2>7 DEF BoundInv
    <3>4. QED
      BY <2>1, <2>6, <3>1, <3>2, <3>3 DEF BoundInv
  <2>9. QED
    BY <2>1, <2>2, <2>8
<1>21. FreshInv'
  <2>1. FreshInv
    BY DEF BuilderInv
  <2>2. ASSUME NEW c \in Builder, c \in Built' => Own(c) \notin builder'[c].query.where
        PROVE  value'[Own(c)] = Nil
    <3>1. value[Own(c)] = Nil
      BY <1>12, <1>14, <2>1, <2>2 DEF FreshInv
    <3>2. Own(c) \in Predicate \ where
      BY <1>1, <1>3, <1>12, <1>14, <2>2, PredicatesDiffer DEF WhereInv
    <3>3. QED
      BY <1>16, <3>1, <3>2
  <2>3. (\E c \in Built' : Kept \in builder'[c].query.where) \/ value'[Kept] = Nil
    BY <1>1, <1>12, <1>14, <1>16, <2>1, PredicatesDiffer DEF FreshInv
  <2>4. QED
    BY <2>2, <2>3 DEF FreshInv
<1>22. QED
  BY <1>10, <1>11, <1>12, <1>13, <1>16, <1>18, <1>19, <1>20, <1>21 DEF BuilderInv

-----------------------------------------------------------------------------
(* What waits.                                                             *)

(* A plan looks at the predicates it has, and at the limit if it has one.  *)
LEMMA RunSame ==
    ASSUME NEW plan, NEW l, NEW m, NEW u, NEW v, NEW rows,
           plan.limited => l = m,
           \A p \in plan.where : u[p] = v[p]
    PROVE  Run(plan, l, u, rows) = Run(plan, m, v, rows)
<1>1. [p \in plan.where |-> u[p]] = [p \in plan.where |-> v[p]]
  OBVIOUS
<1> DEFINE w == [p \in plan.where |-> u[p]]
<1>2. /\ Run(plan, l, u, rows) = IF plan.limited /\ l < Len(Selected(plan, w, rows))
                                 THEN SubSeq(Selected(plan, w, rows), 1, l)
                                 ELSE Selected(plan, w, rows)
      /\ Run(plan, m, v, rows) = IF plan.limited /\ m < Len(Selected(plan, w, rows))
                                 THEN SubSeq(Selected(plan, w, rows), 1, m)
                                 ELSE Selected(plan, w, rows)
  BY <1>1 DEF Run
<1> HIDE DEF w
<1>3. QED
  BY <1>2

(* The values of some predicates of a query were bound at the same time.   *)
LEMMA BoundTogether ==
    ASSUME BuilderInv, NEW b \in Built, NEW W \in SUBSET builder[b].query.where,
           \A p \in W : value[p] # Nil
    PROVE  /\ W \subseteq Predicate
           /\ \E v \in Values : \A p \in W : value[p] = v
<1>1. /\ b \in Builder /\ WhereInv(b) /\ BoundInv(b)
      /\ builder[b].query.where \in SUBSET Predicate
  BY BuiltOne, BuilderFields
<1>2. \A p \in W : value[p] \in Values
  BY <1>1 DEF BuilderInv
<1>3. CASE Kept \in W
  BY <1>1, <1>2, <1>3 DEF WhereInv
<1>4. CASE Kept \notin W /\ Own(b) \in W
  BY <1>1, <1>2, <1>4 DEF WhereInv, BoundInv
<1>5. CASE Kept \notin W /\ Own(b) \notin W
  <2>1. W \subseteq {Copy(b)}
    BY <1>1, <1>5 DEF WhereInv
  <2>2. W = {} \/ W = {Copy(b)}
    BY ONLY <2>1
  <2>3. ASSUME W = {}
        PROVE  \E v \in Values : \A p \in W : value[p] = v
    BY ONLY <2>3, ObserversAssumption
  <2>4. ASSUME W = {Copy(b)}
        PROVE  \E v \in Values : \A p \in W : value[p] = v
    <3>1. Copy(b) \in W
      BY ONLY <2>4
    <3>2. value[Copy(b)] \in Values
      BY ONLY <1>2, <3>1
    <3>3. QED
      BY ONLY <2>4, <3>2
  <2>5. QED
    BY <1>1, <2>2, <2>3, <2>4
<1>6. QED
  BY <1>1, <1>3, <1>4, <1>5

(* A sound query has the plan of what it says, and what was bound.         *)
LEMMA SoundQuery ==
    ASSUME BuilderInv, NEW b \in Built, Sound(b)
    PROVE  /\ \A p \in builder[b].query.where : value[p] = builder[b].bound[p]
           /\ builder[b].plan # Nil => builder[b].plan = MakePlan(builder[b].query)
<1> DEFINE s == builder[b]
<1>1. /\ s \in BuilderState /\ BoundInv(b) /\ PlanOK(s) /\ s.query \in QueryState
      /\ s.plan \in PlanState \cup {Nil}
  BY BuiltOne, BuilderFields
<1>2. ~s.late /\ ~s.early
  BY DEF Sound
<1>3. Kept \in s.query.where => KeptAlone(b)
  BY DEF Sound, KeptAlone
<1>4. \A p \in s.query.where : value[p] = s.bound[p]
  BY <1>1, <1>3 DEF BoundInv
<1>5. ASSUME s.plan # Nil
      PROVE  s.plan = MakePlan(s.query)
  <2>1. /\ s.plan.where = s.query.where /\ s.plan.order = s.query.order
        /\ s.plan.limited <=> s.query.limit # Nil
    BY <1>1, <1>2, <1>5 DEF PlanOK
  <2>2. s.plan \in PlanState
    BY <1>1, <1>5
  <2>3. s.plan.limited = (s.query.limit # Nil)
    BY <2>1, <2>2 DEF PlanState
  <2>4. s.plan = [where |-> s.plan.where, order |-> s.plan.order, limited |-> s.plan.limited]
    BY <2>2 DEF PlanState
  <2>5. QED
    BY <2>1, <2>3, <2>4 DEF MakePlan
<1>6. QED
  BY <1>4, <1>5

(* What waits is not concerned by what else is asked of the builders.      *)
LEMMA SelectStays ==
    ASSUME PlansStay, NEW t, SelectOK(t)
    PROVE  SelectOK(t)'
BY DEF PlansStay, SelectOK

(* The same for an observer task.                                          *)
LEMMA QueriesStay ==
    ASSUME PlansStay, NEW t, QueriesOK(t)
    PROVE  QueriesOK(t)'
BY DEF PlansStay, QueriesOK

(* The same for the entry of an observed query.                            *)
LEMMA EntryStays ==
    ASSUME PlansStay, NEW e, EntryInv(e)
    PROVE  EntryInv(e)'
BY DEF PlansStay, EntryInv

(* Results stay those of the table until it is written.                    *)
LEMMA CurrentStays ==
    ASSUME PlansStay, contents' = contents,
           NEW e, EntryInv(e), e.lastResults # Nil, Current(e)
    PROVE  Current(e)'
<1>1. builder'[e.builder].plan = builder[e.builder].plan
  BY DEF EntryInv, PlansStay
<1>2. QED
  BY <1>1 DEF Current

(* The same for every task that waits.                                     *)
LEMMA PendingStays ==
    ASSUME PlansStay, PendingInv, NEW t \in ToSet(pending)
    PROVE  IF t.kind = "select" THEN SelectOK(t)' ELSE QueriesOK(t)'
BY SelectStays, QueriesStay DEF PendingInv

(* Calls that build queries leave alone what waits and what was told.      *)
LEMMA WaitStays ==
    ASSUME WaitInv, PlansStay, UNCHANGED <<contents, entries, pending, untold>>
    PROVE  WaitInv'
<1>1. TypeInv'
  BY DEF WaitInv, TypeInv
<1>2. PendingInv'
  BY PendingStays DEF WaitInv, PendingInv
<1>3. \A e \in ToSet(entries') : EntryInv(e)'
  BY EntryStays DEF WaitInv
<1>4. HearInv'
  <2> SUFFICES ASSUME NEW e \in ToSet(entries), e.lastResults # Nil, e.builder \notin untold
               PROVE  Awaited(e.builder)' \/ Current(e)'
    BY DEF HearInv
  <2>1. Awaited(e.builder) \/ Current(e)
    BY DEF HearInv, WaitInv
  <2>2. Awaited(e.builder) => Awaited(e.builder)'
    BY DEF Awaited
  <2>3. EntryInv(e)
    BY DEF WaitInv
  <2>4. QED
    BY <2>1, <2>2, <2>3, CurrentStays
<1>5. QED
  BY <1>1, <1>2, <1>3, <1>4 DEF WaitInv

(* A query of the user takes its plan and what is bound with it.           *)
LEMMA TaskItemOK ==
    ASSUME BuilderInv, NEW b \in Built, Plannable(builder[b], value),
           Executable(builder[b]), PlansStay,
           builder' = [builder EXCEPT ![b] = GetPlan(builder[b])],
           NEW t, t = TaskItem(b)
    PROVE  t.kind = "select" /\ SelectOK(t)'
<1> DEFINE s == builder[b]
           p == GetPlan(s).plan
<1>1. s \in BuilderState /\ PlanOK(s) /\ s.query \in QueryState /\ b \in Builder
  BY BuiltOne, BuilderFields
<1>2. Extends(s, GetPlan(s)) /\ p # Nil
  BY PlannedExtends
<1>3. /\ t.kind = "select" /\ t.builder = b /\ t.plan = p /\ t.limit = s.query.limit
      /\ t.value = [q \in s.query.where |-> value[q]]
      /\ t.asked = Asked(b)
  BY DEF TaskItem
<1>4. t.asked.query = s.query /\ t.asked.bound = s.bound /\ t.asked.sound = Sound(b)
  BY <1>3 DEF Asked
<1>5. b \in Built' /\ p = builder'[b].plan
  BY <1>1 DEF BuilderInv, PlansStay
<1>6. GetPlan(s) \in BuilderState /\ PlanOK(GetPlan(s)) /\ GetPlan(s).query = s.query
  BY <1>1, GetPlanOK
<1>7. p.where \in SUBSET s.query.where
  BY <1>2, <1>6 DEF PlanOK
<1>8. p.limited => s.query.limit \in Limits
  BY <1>1, <1>2, <1>6, BuilderFields DEF PlanOK
<1>9. \A q \in p.where : value[q] # Nil
  BY <1>2 DEF Extends, BoundInv, BuilderInv, Built
<1>10. p.where \subseteq Predicate /\ \E v \in Values : \A q \in p.where : value[q] = v
  BY <1>7, <1>9, BoundTogether
<1>11. \A q \in p.where : t.value[q] = value[q]
  BY <1>3, <1>7
<1>12. ASSUME Sound(b)
       PROVE  p = MakePlan(s.query) /\ \A q \in p.where : value[q] = s.bound[q]
  <2>1. p = MakePlan(s.query)
    BY <1>1, <1>12, SoundQuery, GetPlanOK
  <2>2. QED
    BY <1>7, <1>12, <2>1, SoundQuery
<1> HIDE DEF p
<1>13. SelectOK(t)'
  BY <1>2, <1>3, <1>4, <1>5, <1>8, <1>10, <1>11, <1>12 DEF SelectOK
<1>14. QED
  BY <1>3, <1>13

(* exec().                                                                 *)
LEMMA ExecOK ==
    ASSUME BuilderInv, WaitInv, NEW b \in Builder, Exec(b)
    PROVE  BuilderInv' /\ WaitInv'
<1> PICK t : t = TaskItem(b)
  OBVIOUS
<1>1. /\ b \in Built /\ Executable(builder[b]) /\ Plannable(builder[b], value)
      /\ builder' = [builder EXCEPT ![b] = GetPlan(builder[b])]
      /\ pending' = Append(pending, t)
      /\ value' = value /\ contents' = contents /\ entries' = entries /\ untold' = untold
  BY DEF Exec
<1>2. BuilderInv' /\ PlansStay
  BY <1>1, PlannedOneOK
<1>3. t.kind = "select" /\ SelectOK(t)'
  BY <1>1, <1>2, TaskItemOK
<1>4. pending' \in Seq(ToSet(pending')) /\ ToSet(pending') = ToSet(pending) \cup {t}
  BY <1>1, AppendElements DEF WaitInv, TypeInv
<1>5. TypeInv'
  BY <1>1, <1>4 DEF WaitInv, TypeInv
<1>6. PendingInv'
  <2> SUFFICES ASSUME NEW u \in ToSet(pending')
               PROVE  IF u.kind = "select" THEN SelectOK(u)' ELSE QueriesOK(u)'
    BY DEF PendingInv
  <2>1. CASE u = t
    BY <1>3, <2>1
  <2>2. CASE u \in ToSet(pending)
    BY <1>2, <2>2, PendingStays DEF WaitInv
  <2>3. QED
    BY <1>4, <2>1, <2>2
<1>7. \A e \in ToSet(entries') : EntryInv(e)'
  BY <1>1, <1>2, EntryStays DEF WaitInv
<1>8. HearInv'
  <2> SUFFICES ASSUME NEW e \in ToSet(entries), e.lastResults # Nil, e.builder \notin untold
               PROVE  Awaited(e.builder)' \/ Current(e)'
    BY <1>1 DEF HearInv
  <2>1. Awaited(e.builder) \/ Current(e)
    BY DEF HearInv, WaitInv
  <2>2. Awaited(e.builder) => Awaited(e.builder)'
    BY <1>4 DEF Awaited
  <2>3. EntryInv(e)
    BY DEF WaitInv
  <2>4. QED
    BY <1>1, <1>2, <2>1, <2>2, <2>3, CurrentStays
<1>9. QED
  BY <1>2, <1>5, <1>6, <1>7, <1>8 DEF WaitInv

(* What updateResultsForQuery does to the entries.                         *)
LEMMA UpdatedEntries ==
    ASSUME WaitInv, NEW results, UpdateResults(results),
           builder' = builder
    PROVE  /\ entries' \in Seq(ToSet(entries'))
           /\ \A f \in ToSet(entries') :
                 \E e \in ToSet(entries) :
                    /\ f.builder = e.builder
                    /\ f = [builder |-> f.builder, observers |-> f.observers,
                            observable |-> f.observable, lastResults |-> f.lastResults]
                    /\ IF e.builder \in DOMAIN results THEN f.lastResults = results[e.builder]
                                                       ELSE f = e
<1>1. entries' = [i \in DOMAIN entries |->
                     IF entries[i].builder \notin DOMAIN results THEN entries[i]
                     ELSE EntryUpdated(entries[i], results[entries[i].builder])]
  BY DEF UpdateResults
<1>2. entries \in Seq(ToSet(entries))
  BY DEF WaitInv, TypeInv
<1>3. entries' \in [DOMAIN entries -> {entries'[i] : i \in DOMAIN entries}]
  BY <1>1
<1>4. /\ entries' \in Seq(ToSet(entries'))
      /\ \A x : x \in ToSet(entries') <=> \E i \in DOMAIN entries : entries'[i] = x
  <2>1. Len(entries) \in Nat /\ DOMAIN entries = 1..Len(entries)
    BY <1>2, OwnElements
  <2> DEFINE T == {entries'[i] : i \in DOMAIN entries}
  <2>2. entries' \in [1..Len(entries) -> T]
    BY <1>3, <2>1
  <2> HIDE DEF T
  <2>3. entries' \in Seq(T)
    BY <2>1, <2>2, FunctionsAreSequences, Zenon
  <2>4. entries' \in Seq(ToSet(entries'))
    BY <2>3, OwnElements
  <2>5. \A x : x \in ToSet(entries') <=> \E i \in 1..Len(entries) : entries'[i] = x
    BY <2>2 DEF ToSet
  <2>6. QED
    BY <2>1, <2>4, <2>5
<1>5. ASSUME NEW f \in ToSet(entries')
      PROVE  \E e \in ToSet(entries) :
                    /\ f.builder = e.builder
                    /\ f = [builder |-> f.builder, observers |-> f.observers,
                            observable |-> f.observable, lastResults |-> f.lastResults]
                    /\ IF e.builder \in DOMAIN results THEN f.lastResults = results[e.builder]
                                                       ELSE f = e
  <2>1. PICK i \in DOMAIN entries : entries'[i] = f
    BY <1>4
  <2> DEFINE e == entries[i]
  <2>2. e \in ToSet(entries)
    BY DEF ToSet
  <2>3. e = [builder |-> e.builder, observers |-> e.observers,
             observable |-> e.observable, lastResults |-> e.lastResults]
    BY <2>2 DEF WaitInv, EntryInv
  <2>4. CASE e.builder \notin DOMAIN results
    <3>1. f = e
      BY <1>1, <2>1, <2>4
    <3>2. QED
      BY <2>2, <2>3, <2>4, <3>1
  <2>5. CASE e.builder \in DOMAIN results
    <3>1. f = EntryUpdated(e, results[e.builder])
      BY <1>1, <2>1, <2>5
    <3> DEFINE array == Diff(e, results[e.builder]).array
               last == results[e.builder]
    <3>2. f = [e EXCEPT !.observable = array, !.lastResults = last]
      BY <3>1 DEF EntryUpdated
    <3> HIDE DEF array, last, e
    <3>3. f = [builder |-> e.builder, observers |-> e.observers,
               observable |-> array, lastResults |-> last]
      BY <2>3, <3>2
    <3>4. /\ f.builder = e.builder /\ f.lastResults = last
          /\ f = [builder |-> f.builder, observers |-> f.observers,
                  observable |-> f.observable, lastResults |-> f.lastResults]
      BY <3>3
    <3>5. QED
      BY <2>2, <2>5, <3>4 DEF last
  <2>6. QED
    BY <2>4, <2>5
<1>6. QED
  BY <1>4, <1>5

(* The first task leaves the queue, and has given results to its queries   *)
(* or told none.                                                           *)
LEMMA FirstDone ==
    ASSUME BuilderInv, WaitInv, pending # <<>>, pending' = Tail(pending),
           UNCHANGED <<builder, value, contents>>,
           NEW results, NEW queries, DOMAIN results = queries,
           pending[1].kind # "select" => ToSet(pending[1].builders) = queries,
           \/ entries' = entries /\ untold' = untold /\ pending[1].kind = "select"
           \/ entries' = entries /\ untold' = untold \cup queries
           \/ UpdateResults(results) /\ untold' = untold \ queries,
           \A b \in queries : b \in Built /\ builder[b].plan # Nil,
           \A b \in queries : \E n \in Limits, v \in Values :
              results[b] = Run(builder[b].plan, n, [p \in Predicate |-> v], contents)
    PROVE  BuilderInv' /\ WaitInv'
<1>1. BuilderInv'
  BY DEF BuilderInv, FreshInv, Built, WhereInv, BoundInv, KeptAlone
<1>2. PlansStay
  BY DEF PlansStay, Built
<1>3. /\ pending' \in Seq(ToSet(pending'))
      /\ ToSet(pending) = {pending[1]} \cup ToSet(pending')
  BY TailElements DEF WaitInv, TypeInv
<1>4. PendingInv'
  BY <1>2, <1>3, PendingStays DEF WaitInv, PendingInv
<1>5. ASSUME NEW e \in ToSet(entries), Awaited(e.builder)
      PROVE  \/ Awaited(e.builder)'
             \/ pending[1].kind # "select" /\ e.builder \in queries
  BY <1>3, <1>5 DEF Awaited
<1>6. ASSUME NEW e \in ToSet(entries), e.lastResults # Nil, e.builder \notin untold,
             e.builder \in queries => pending[1].kind = "select"
      PROVE  Awaited(e.builder)' \/ Current(e)'
  <2>1. Awaited(e.builder) \/ Current(e)
    BY <1>6 DEF HearInv, WaitInv
  <2>2. EntryInv(e)
    BY DEF WaitInv
  <2>3. QED
    BY <1>2, <1>5, <1>6, <2>1, <2>2, CurrentStays
<1>7. CASE entries' = entries
  <2>1. TypeInv'
    BY <1>3, <1>7 DEF WaitInv, TypeInv
  <2>2. \A e \in ToSet(entries') : EntryInv(e)'
    BY <1>2, <1>7, EntryStays DEF WaitInv
  <2>3. HearInv'
    <3> SUFFICES ASSUME NEW e \in ToSet(entries), e.lastResults # Nil, e.builder \notin untold'
                 PROVE  Awaited(e.builder)' \/ Current(e)'
      BY <1>7 DEF HearInv
    <3>1. CASE untold' = untold /\ pending[1].kind = "select"
      BY <1>6, <3>1
    <3>2. CASE untold' = untold \cup queries
      BY <1>6, <3>2
    <3>3. CASE UpdateResults(results) /\ untold' = untold \ queries
      <4>1. PICK d \in ToSet(entries) :
               /\ e.builder = d.builder
               /\ IF d.builder \in queries THEN e.lastResults = results[d.builder] ELSE e = d
        BY <1>7, <3>3, UpdatedEntries
      <4>2. CASE e.builder \in queries
        BY <4>1, <4>2 DEF Current
      <4>3. CASE e.builder \notin queries
        BY <1>6, <3>3, <4>3
      <4>4. QED
        BY <4>2, <4>3
    <3>4. QED
      BY <3>1, <3>2, <3>3
  <2>4. QED
    BY <1>1, <1>4, <2>1, <2>2, <2>3 DEF WaitInv
<1>8. CASE UpdateResults(results) /\ untold' = untold \ queries
  <2>1. /\ entries' \in Seq(ToSet(entries'))
        /\ \A f \in ToSet(entries') :
              \E e \in ToSet(entries) :
                 /\ f.builder = e.builder
                 /\ f = [builder |-> f.builder, observers |-> f.observers,
                         observable |-> f.observable, lastResults |-> f.lastResults]
                 /\ IF e.builder \in queries THEN f.lastResults = results[e.builder]
                                             ELSE f = e
    BY <1>8, UpdatedEntries
  <2>2. TypeInv'
    BY <1>3, <2>1 DEF WaitInv, TypeInv
  <2>3. ASSUME NEW f \in ToSet(entries')
        PROVE  /\ EntryInv(f)'
               /\ f.lastResults # Nil /\ f.builder \notin untold' =>
                     Awaited(f.builder)' \/ Current(f)'
    <3>1. PICK e \in ToSet(entries) :
             /\ f.builder = e.builder
             /\ f = [builder |-> f.builder, observers |-> f.observers,
                     observable |-> f.observable, lastResults |-> f.lastResults]
             /\ IF e.builder \in queries THEN f.lastResults = results[e.builder]
                                         ELSE f = e
      BY <2>1
    <3>2. EntryInv(e)
      BY DEF WaitInv
    <3>3. CASE e.builder \in queries
      <4>1. EntryInv(f)'
        BY <1>2, <3>1, <3>2, <3>3 DEF EntryInv, PlansStay
      <4>2. Current(f)'
        BY <3>1, <3>3 DEF Current
      <4>3. QED
        BY <4>1, <4>2
    <3>4. CASE e.builder \notin queries
      <4>1. f = e /\ EntryInv(f)'
        BY <1>2, <3>1, <3>2, <3>4, EntryStays
      <4>2. QED
        BY <1>6, <1>8, <3>4, <4>1
    <3>5. QED
      BY <3>3, <3>4
  <2>4. HearInv'
    BY <2>3 DEF HearInv
  <2>5. QED
    BY <1>1, <1>4, <2>2, <2>3, <2>4 DEF WaitInv
<1>9. QED
  BY <1>7, <1>8

(* A query of the user is computed.                                        *)
LEMMA RunSelectOK ==
    ASSUME BuilderInv, WaitInv, RunSelect
    PROVE  BuilderInv' /\ WaitInv'
<1> DEFINE t == pending[1]
           results == [b \in {t.builder} |-> Run(t.plan, t.limit, t.value, contents)]
<1>1. /\ pending # <<>> /\ t.kind = "select" /\ pending' = Tail(pending)
      /\ UNCHANGED <<builder, value, contents>>
      /\ \/ UNCHANGED <<entries, untold>>
         \/ UpdateResults(results) /\ untold' = untold \ {t.builder}
  BY DEF RunSelect
<1>2. t \in ToSet(pending)
  BY <1>1, TailElements DEF WaitInv, TypeInv
<1>3. SelectOK(t)
  BY <1>1, <1>2 DEF WaitInv, PendingInv
<1>4. \E n \in Limits, v \in Values :
         Run(t.plan, t.limit, t.value, contents) =
            Run(t.plan, n, [p \in Predicate |-> v], contents)
  <2>1. PICK n \in Limits : t.plan.limited => n = t.limit
    BY <1>3, ObserversAssumption DEF SelectOK
  <2>2. PICK v \in Values : \A p \in t.plan.where : t.value[p] = v
    BY <1>3 DEF SelectOK
  <2>3. t.plan.where \subseteq Predicate
    BY <1>3 DEF SelectOK
  <2>4. \A p \in t.plan.where : t.value[p] = [q \in Predicate |-> v][p]
    BY <2>2, <2>3
  <2>5. Run(t.plan, t.limit, t.value, contents) =
           Run(t.plan, n, [p \in Predicate |-> v], contents)
    BY <2>1, <2>4, RunSame
  <2>6. QED
    BY <2>5
<1>5. t.builder \in Built /\ builder[t.builder].plan = t.plan /\ t.plan # Nil
  BY <1>3 DEF SelectOK
<1>6. /\ DOMAIN results = {t.builder}
      /\ results[t.builder] = Run(t.plan, t.limit, t.value, contents)
  OBVIOUS
<1>7. \A b \in {t.builder} : \E n \in Limits, v \in Values :
         results[b] = Run(builder[b].plan, n, [p \in Predicate |-> v], contents)
  BY <1>4, <1>5, <1>6
<1>8. PICK r : r = results
  OBVIOUS
<1> HIDE DEF results
<1>9. QED
  BY <1>1, <1>5, <1>6, <1>7, <1>8, FirstDone

(* An observer task is computed.                                           *)
LEMMA RunObserversOK ==
    ASSUME BuilderInv, WaitInv, RunObservers
    PROVE  BuilderInv' /\ WaitInv'
<1> DEFINE t == pending[1]
           queries == ToSet(t.builders)
           result(b) == Run(builder[b].plan, builder[b].query.limit, value, contents)
           results == [b \in queries |-> result(b)]
<1>1. /\ pending # <<>> /\ t.kind = "observer" /\ pending' = Tail(pending)
      /\ UNCHANGED <<builder, value, contents>>
      /\ \/ untold' = untold \cup queries /\ UNCHANGED entries
         \/ UpdateResults(results) /\ untold' = untold \ queries
  BY DEF RunObservers
<1>2. t \in ToSet(pending)
  BY <1>1, TailElements DEF WaitInv, TypeInv
<1>3. \A b \in queries : b \in Built /\ builder[b].plan # Nil
  BY <1>1, <1>2 DEF WaitInv, PendingInv, QueriesOK
<1>4. ASSUME NEW b \in queries
      PROVE  \E n \in Limits, v \in Values :
                result(b) = Run(builder[b].plan, n, [p \in Predicate |-> v], contents)
  <2> DEFINE plan == builder[b].plan
             query == builder[b].query
  <2>1. /\ b \in Built /\ plan # Nil /\ PlanOK(builder[b]) /\ BoundInv(b)
        /\ builder[b] \in BuilderState
    BY <1>3, BuiltOne
  <2>2. plan.where \in SUBSET query.where /\ \A p \in plan.where : value[p] # Nil
    BY <2>1 DEF PlanOK, BoundInv
  <2>3. plan.where \subseteq Predicate /\ \E v \in Values : \A p \in plan.where : value[p] = v
    BY <2>1, <2>2, BoundTogether
  <2>4. PICK v \in Values : \A p \in plan.where : value[p] = v
    BY <2>3
  <2>5. plan.limited => query.limit \in Limits
    BY <2>1, BuilderFields DEF PlanOK
  <2>6. PICK n \in Limits : plan.limited => n = query.limit
    BY <2>5, ObserversAssumption
  <2>7. \A p \in plan.where : value[p] = [q \in Predicate |-> v][p]
    BY <2>3, <2>4
  <2> HIDE DEF plan, query
  <2>8. Run(plan, query.limit, value, contents) = Run(plan, n, [p \in Predicate |-> v], contents)
    BY <2>6, <2>7, RunSame
  <2>9. QED
    BY <2>8 DEF plan, query
<1>5. DOMAIN results = queries /\ \A b \in queries : results[b] = result(b)
  OBVIOUS
<1>6. \A b \in queries : \E n \in Limits, v \in Values :
         results[b] = Run(builder[b].plan, n, [p \in Predicate |-> v], contents)
  BY <1>4, <1>5
<1> HIDE DEF results
<1>7. QED
  BY <1>1, <1>3, <1>5, <1>6, FirstDone

(* A write plans the observed queries up to the first that has no plan.    *)
LEMMA WriteOK ==
    ASSUME BuilderInv, WaitInv, Write
    PROVE  BuilderInv' /\ WaitInv'
<1> DEFINE order == [i \in DOMAIN entries |-> entries[i].builder]
           bad == {i \in DOMAIN order : ~Plannable(builder[order[i]], value)}
           first == {order[i] : i \in {j \in DOMAIN order : \A k \in bad : j < k}}
           ahead == {i \in DOMAIN pending : pending[i].kind = "observer"}
<1> PICK t : t = [kind |-> "observer", builders |-> ItemsFor(order)]
  OBVIOUS
<1>1. /\ builder' = [b \in Builder |-> IF b \in first THEN GetPlan(builder[b]) ELSE builder[b]]
      /\ untold' = IF bad # {} THEN untold \cup ToSet(order) ELSE untold
      /\ pending' = IF bad # {} \/ order = <<>> THEN pending
                    ELSE InsertAt(pending, Cardinality(ahead) + 1, t)
      /\ value' = value /\ entries' = entries
  BY DEF Write
<1>2. /\ entries \in Seq(ToSet(entries)) /\ Len(entries) \in Nat
      /\ DOMAIN entries = 1..Len(entries) /\ DOMAIN order = DOMAIN entries
      /\ \A i \in DOMAIN entries : entries[i] \in ToSet(entries)
  BY OwnElements DEF WaitInv, TypeInv
<1>3. \A b : b \in ToSet(order) <=> \E e \in ToSet(entries) : e.builder = b
  BY DEF ToSet
<1>4. \A b \in ToSet(order) : b \in Built
  BY <1>3 DEF WaitInv, EntryInv
<1>5. first \subseteq ToSet(order) /\ \A b \in first : Plannable(builder[b], value)
  <2>1. ASSUME NEW i \in DOMAIN order, \A k \in bad : i < k
        PROVE  Plannable(builder[order[i]], value)
    <3>1. i \notin bad
      BY <1>2, <2>1
    <3>2. QED
      BY <3>1
  <2>2. first \subseteq ToSet(order)
    BY DEF ToSet
  <2>3. QED
    BY <2>1, <2>2
<1>6. bad = {} => first = ToSet(order)
  BY DEF ToSet
<1>7. (\A b \in ToSet(order) : b \in Builder) /\ DOMAIN order = DOMAIN entries
  BY <1>4 DEF Built
<1> HIDE DEF bad, first, ahead
<1>8. \A b \in Builder : IF b \in Built THEN Extends(builder[b], builder'[b])
                                        ELSE builder'[b] = builder[b]
  <2> SUFFICES ASSUME NEW b \in Builder
               PROVE  IF b \in Built THEN Extends(builder[b], builder'[b])
                                     ELSE builder'[b] = builder[b]
    OBVIOUS
  <2>1. CASE b \in first
    <3>1. b \in Built /\ Plannable(builder[b], value) /\ builder'[b] = GetPlan(builder[b])
      BY <1>1, <1>4, <1>5, <2>1
    <3>2. QED
      BY <3>1, PlannedExtends
  <2>2. CASE b \notin first
    <3>1. builder'[b] = builder[b]
      BY <1>1, <2>2
    <3>2. b \in Built => Extends(builder[b], builder[b])
      BY BuiltOne DEF Extends
    <3>3. QED
      BY <3>1, <3>2
  <2>3. QED
    BY <2>1, <2>2
<1>9. builder' \in [Builder -> BuilderState \cup {Nil}]
  <2>1. \A b \in Builder : builder'[b] \in BuilderState \cup {Nil}
    BY <1>8 DEF Extends, BuilderInv, Built
  <2>2. QED
    BY <1>1, <2>1
<1>10. BuilderInv' /\ PlansStay /\ Built' = Built
  BY <1>1, <1>8, <1>9, ExtendedOK
<1>11. \A e \in ToSet(entries') : EntryInv(e)'
  BY <1>1, <1>10, EntryStays DEF WaitInv
<1>12. CASE bad # {} \/ order = <<>>
  <2>1. pending' = pending
    BY <1>1, <1>12
  <2>2. TypeInv' /\ PendingInv'
    BY <1>1, <1>10, <2>1, PendingStays DEF WaitInv, TypeInv, PendingInv
  <2>3. HearInv'
    <3> SUFFICES ASSUME NEW e \in ToSet(entries), e.builder \notin untold'
                 PROVE  FALSE
      BY <1>1 DEF HearInv
    <3>1. e.builder \in ToSet(order)
      BY <1>3
    <3>2. CASE bad # {}
      BY <1>1, <3>1, <3>2
    <3>3. CASE order = <<>>
      BY <3>1, <3>3 DEF ToSet
    <3>4. QED
      BY <1>12, <3>2, <3>3
  <2>4. QED
    BY <1>10, <1>11, <2>2, <2>3 DEF WaitInv
<1>13. CASE bad = {} /\ order # <<>>
  <2>1. /\ pending \in Seq(ToSet(pending)) /\ Len(pending) \in Nat
        /\ DOMAIN pending = 1..Len(pending)
    BY OwnElements DEF WaitInv, TypeInv
  <2>2. Cardinality(ahead) + 1 \in 1..(Len(pending) + 1)
    <3>1. IsFiniteSet(1..Len(pending)) /\ Cardinality(1..Len(pending)) = Len(pending)
      <4> DEFINE n == Len(pending)
      <4>1. n \in Nat
        BY <2>1
      <4> HIDE DEF n
      <4>2. n \in Int /\ 1 \in Int
        BY <4>1
      <4>3. /\ IsFiniteSet(1..n)
            /\ Cardinality(1..n) = IF 1 > n THEN 0 ELSE n - 1 + 1
        BY <4>2, FS_Interval
      <4>4. Cardinality(1..n) = n
        BY <4>1, <4>3
      <4>5. QED
        BY <4>3, <4>4 DEF n
    <3>2. ahead \subseteq 1..Len(pending)
      BY <2>1 DEF ahead
    <3>3. IsFiniteSet(ahead) /\ Cardinality(ahead) <= Len(pending)
      BY <3>1, <3>2, FS_Subset
    <3>4. Cardinality(ahead) \in Nat
      BY <3>3, FS_CardinalityType
    <3>5. QED
      BY <2>1, <3>3, <3>4
  <2>3. /\ pending' \in Seq(ToSet(pending'))
        /\ ToSet(pending') = ToSet(pending) \cup {t}
    <3>1. pending' = InsertAt(pending, Cardinality(ahead) + 1, t)
      BY <1>1, <1>13
    <3>2. QED
      BY <2>1, <2>2, <3>1, InsertElements
  <2>4. t.kind = "observer" /\ ToSet(t.builders) = ToSet(order)
    BY DEF ItemsFor
  <2> HIDE DEF order
  <2>5. TypeInv'
    BY <1>1, <2>3 DEF WaitInv, TypeInv
  <2>6. QueriesOK(t)'
    <3>1. ASSUME NEW b \in ToSet(order)
          PROVE  b \in Built' /\ builder'[b].plan # Nil
      BY <1>1, <1>4, <1>5, <1>6, <1>7, <1>10, <1>13, <3>1, PlannedExtends
    <3>2. QED
      BY <2>4, <3>1 DEF QueriesOK
  <2>7. PendingInv'
    <3> SUFFICES ASSUME NEW u \in ToSet(pending')
                 PROVE  IF u.kind = "select" THEN SelectOK(u)' ELSE QueriesOK(u)'
      BY DEF PendingInv
    <3>1. CASE u = t
      BY <2>4, <2>6, <3>1
    <3>2. CASE u \in ToSet(pending)
      BY <1>10, <3>2, PendingStays DEF WaitInv
    <3>3. QED
      BY <2>3, <3>1, <3>2
  <2>8. HearInv'
    <3> SUFFICES ASSUME NEW e \in ToSet(entries)
                 PROVE  Awaited(e.builder)'
      BY <1>1 DEF HearInv
    <3>1. e.builder \in ToSet(order)
      BY <1>3
    <3>2. QED
      BY <2>3, <2>4, <3>1 DEF Awaited
  <2>9. QED
    BY <1>10, <1>11, <2>5, <2>7, <2>8 DEF WaitInv
<1>14. QED
  BY <1>12, <1>13

(* Entries come without results, and whatever is done to those that stay   *)
(* leaves their queries and results as they are.                           *)
LEMMA EntriesOK ==
    ASSUME BuilderInv, WaitInv, UNCHANGED <<builder, value, contents, pending, untold>>,
           entries' \in Seq(ToSet(entries')),
           \A f \in ToSet(entries') :
              /\ f = [builder |-> f.builder, observers |-> f.observers,
                      observable |-> f.observable, lastResults |-> f.lastResults]
              /\ \/ f.builder \in Built /\ f.lastResults = Nil
                 \/ \E e \in ToSet(entries) :
                       f.builder = e.builder /\ f.lastResults = e.lastResults
    PROVE  BuilderInv' /\ WaitInv'
<1>1. BuilderInv'
  BY DEF BuilderInv, FreshInv, Built, WhereInv, BoundInv, KeptAlone
<1>2. PlansStay /\ Built' = Built
  BY DEF PlansStay, Built
<1>3. TypeInv' /\ PendingInv'
  BY <1>2, PendingStays DEF WaitInv, TypeInv, PendingInv
<1>4. ASSUME NEW f \in ToSet(entries')
      PROVE  /\ EntryInv(f)'
             /\ f.lastResults # Nil /\ f.builder \notin untold' =>
                   Awaited(f.builder)' \/ Current(f)'
  <2>1. CASE f.builder \in Built /\ f.lastResults = Nil
    BY <1>2, <2>1 DEF EntryInv
  <2>2. CASE \E e \in ToSet(entries) : f.builder = e.builder /\ f.lastResults = e.lastResults
    <3>1. PICK e \in ToSet(entries) : f.builder = e.builder /\ f.lastResults = e.lastResults
      BY <2>2
    <3>2. EntryInv(e) /\ (e.lastResults # Nil /\ e.builder \notin untold =>
                             Awaited(e.builder) \/ Current(e))
      BY DEF WaitInv, HearInv
    <3>3. EntryInv(f)'
      BY <1>2, <3>1, <3>2 DEF EntryInv
    <3>4. Awaited(e.builder) => Awaited(f.builder)'
      BY <3>1 DEF Awaited
    <3>5. Current(e) => Current(f)'
      BY <3>1 DEF Current
    <3>6. QED
      BY <3>1, <3>2, <3>3, <3>4, <3>5
  <2>3. QED
    BY <2>1, <2>2
<1>5. HearInv'
  BY <1>4 DEF HearInv
<1>6. QED
  BY <1>1, <1>3, <1>4, <1>5 DEF WaitInv

(* An entry whose observers change.                                        *)
LEMMA ObservedEntry ==
    ASSUME WaitInv, NEW i \in DOMAIN entries, NEW observers,
           entries' = [entries EXCEPT ![i].observers = observers]
    PROVE  /\ entries' \in Seq(ToSet(entries'))
           /\ \A f \in ToSet(entries') :
                 /\ f = [builder |-> f.builder, observers |-> f.observers,
                         observable |-> f.observable, lastResults |-> f.lastResults]
                 /\ \E e \in ToSet(entries) :
                       f.builder = e.builder /\ f.lastResults = e.lastResults
<1>1. entries \in Seq(ToSet(entries))
  BY DEF WaitInv, TypeInv
<1> DEFINE e == entries[i]
           g == [e EXCEPT !.observers = observers]
<1>2. entries' = [entries EXCEPT ![i] = g]
  OBVIOUS
<1>3. \A j \in DOMAIN entries : entries[j] \in ToSet(entries)
  BY DEF ToSet
<1>4. \A j \in DOMAIN entries : EntryInv(entries[j])
  BY <1>3 DEF WaitInv
<1>5. /\ g = [builder |-> g.builder, observers |-> g.observers,
              observable |-> g.observable, lastResults |-> g.lastResults]
      /\ g.builder = e.builder /\ g.lastResults = e.lastResults
  <2>1. e = [builder |-> e.builder, observers |-> e.observers,
             observable |-> e.observable, lastResults |-> e.lastResults]
    BY <1>4 DEF EntryInv
  <2> HIDE DEF e
  <2>2. QED
    BY <2>1
<1> HIDE DEF g
<1>6. /\ entries' \in [DOMAIN entries -> ToSet(entries) \cup {g}]
      /\ \A j \in DOMAIN entries : entries'[j] = IF j = i THEN g ELSE entries[j]
  <2>1. entries \in [DOMAIN entries -> ToSet(entries)]
    BY <1>1, OwnElements, LenProperties
  <2>2. QED
    BY <1>2, <2>1
<1>7. /\ entries' \in Seq(ToSet(entries'))
      /\ \A x : x \in ToSet(entries') <=> \E j \in DOMAIN entries : entries'[j] = x
  <2>1. Len(entries) \in Nat /\ DOMAIN entries = 1..Len(entries)
    BY <1>1, OwnElements
  <2> DEFINE T == ToSet(entries) \cup {g}
  <2>2. entries' \in [1..Len(entries) -> T]
    BY <1>6, <2>1
  <2> HIDE DEF T
  <2>3. entries' \in Seq(T)
    BY <2>1, <2>2, FunctionsAreSequences, Zenon
  <2>4. entries' \in Seq(ToSet(entries'))
    BY <2>3, OwnElements
  <2>5. \A x : x \in ToSet(entries') <=> \E k \in 1..Len(entries) : entries'[k] = x
    BY <2>2 DEF ToSet
  <2>6. QED
    BY <2>1, <2>4, <2>5
<1>8. \A j \in DOMAIN entries :
         LET d == entries[j] IN
         d = [builder |-> d.builder, observers |-> d.observers,
              observable |-> d.observable, lastResults |-> d.lastResults]
  BY <1>4 DEF EntryInv
<1>9. ASSUME NEW f \in ToSet(entries')
      PROVE  /\ f = [builder |-> f.builder, observers |-> f.observers,
                     observable |-> f.observable, lastResults |-> f.lastResults]
             /\ \E d \in ToSet(entries) :
                   f.builder = d.builder /\ f.lastResults = d.lastResults
  <2>1. PICK j \in DOMAIN entries : entries'[j] = f
    BY <1>7
  <2>2. CASE j = i
    BY <1>3, <1>5, <1>6, <2>1, <2>2
  <2>3. CASE j # i
    <3>1. f = entries[j]
      BY <1>6, <2>1, <2>3
    <3>2. QED
      BY <1>3, <1>8, <3>1
  <2>4. QED
    BY <2>2, <2>3
<1>10. QED
  BY <1>7, <1>9

(* addObserver.                                                            *)
LEMMA ObserveOK ==
    ASSUME BuilderInv, WaitInv, NEW b \in Builder, NEW h \in Handler, Observe(b, h)
    PROVE  BuilderInv' /\ WaitInv'
<1>1. b \in Built /\ UNCHANGED <<builder, value, contents, pending, untold>>
  BY DEF Observe
<1>2. CASE b \in Observed
  <2>1. PICK i \in DOMAIN entries : entries' = [entries EXCEPT ![i].observers = @ \cup {h}]
    BY <1>2 DEF Observe
  <2>2. entries' = [entries EXCEPT ![i].observers = entries[i].observers \cup {h}]
    BY <2>1
  <2>3. PICK observers : observers = entries[i].observers \cup {h}
    OBVIOUS
  <2>4. entries' = [entries EXCEPT ![i].observers = observers]
    BY <2>2, <2>3
  <2>5. QED
    BY <1>1, <2>4, ObservedEntry, EntriesOK
<1>3. CASE b \notin Observed
  <2> DEFINE e == [builder |-> b, observers |-> {h}, observable |-> <<>>, lastResults |-> Nil]
  <2>1. entries' = Append(entries, e)
    BY <1>3 DEF Observe
  <2>2. /\ entries' \in Seq(ToSet(entries'))
        /\ ToSet(entries') = ToSet(entries) \cup {e}
    BY <2>1, AppendElements DEF WaitInv, TypeInv
  <2>3. \A f \in ToSet(entries') :
           /\ f = [builder |-> f.builder, observers |-> f.observers,
                   observable |-> f.observable, lastResults |-> f.lastResults]
           /\ \/ f.builder \in Built /\ f.lastResults = Nil
              \/ f \in ToSet(entries)
    BY <1>1, <2>2 DEF WaitInv, EntryInv
  <2>4. QED
    BY <1>1, <2>2, <2>3, EntriesOK
<1>4. QED
  BY <1>2, <1>3

(* removeObserver.                                                         *)
LEMMA UnobserveOK ==
    ASSUME BuilderInv, WaitInv, NEW b \in Builder, NEW h \in Handler, Unobserve(b, h)
    PROVE  BuilderInv' /\ WaitInv'
<1>1. UNCHANGED <<builder, value, contents, pending, untold>>
  BY DEF Unobserve
<1>2. PICK i \in DOMAIN entries :
         entries' = IF entries[i].observers = {h} THEN RemoveAt(entries, i)
                    ELSE [entries EXCEPT ![i].observers = @ \ {h}]
  BY DEF Unobserve
<1>3. CASE entries[i].observers = {h}
  <2>1. entries' = RemoveAt(entries, i)
    BY <1>2, <1>3
  <2>2. /\ entries' \in Seq(ToSet(entries'))
        /\ ToSet(entries') \subseteq ToSet(entries)
    BY <2>1, RemoveElements DEF WaitInv, TypeInv
  <2>3. \A f \in ToSet(entries') :
           f = [builder |-> f.builder, observers |-> f.observers,
                observable |-> f.observable, lastResults |-> f.lastResults]
    BY <2>2 DEF WaitInv, EntryInv
  <2>4. QED
    BY <1>1, <2>2, <2>3, EntriesOK
<1>4. CASE entries[i].observers # {h}
  <2>1. PICK observers : observers = entries[i].observers \ {h}
    OBVIOUS
  <2>2. entries' = [entries EXCEPT ![i].observers = observers]
    BY <1>2, <1>4, <2>1
  <2>3. QED
    BY <1>1, <2>2, ObservedEntry, EntriesOK
<1>5. QED
  BY <1>3, <1>4

-----------------------------------------------------------------------------
(* The invariant, and what follows from it.                                *)

(* The invariant holds initially.                                          *)
LEMMA InitIInv == Init => BuilderInv /\ WaitInv
<1> SUFFICES ASSUME Init
             PROVE  BuilderInv /\ WaitInv
  OBVIOUS
<1>1. Built = {}
  BY DEF Init, Built
<1>2. BuilderInv
  BY <1>1, PredicatesDiffer DEF Init, BuilderInv, FreshInv
<1>3. ToSet(<<>>) = {} /\ <<>> \in Seq({})
  BY DEF ToSet
<1>4. WaitInv
  BY <1>3 DEF Init, WaitInv, TypeInv, PendingInv, HearInv
<1>5. QED
  BY <1>2, <1>4

(* Every step keeps the invariant.                                         *)
LEMMA NextIInv ==
    ASSUME BuilderInv, WaitInv, [Next]_vars
    PROVE  BuilderInv' /\ WaitInv'
<1>1. CASE RunSelect
  BY <1>1, RunSelectOK
<1>2. CASE RunObservers
  BY <1>2, RunObserversOK
<1>3. CASE Write
  BY <1>3, WriteOK
<1>4. ASSUME NEW b \in Builder, Exec(b)
      PROVE  BuilderInv' /\ WaitInv'
  BY <1>4, ExecOK
<1>5. ASSUME NEW b \in Builder, NEW h \in Handler, Observe(b, h) \/ Unobserve(b, h)
      PROVE  BuilderInv' /\ WaitInv'
  BY <1>5, ObserveOK, UnobserveOK
<1>6. ASSUME NEW b \in Builder,
             \/ NewSelect(b) \/ CallFrom(b) \/ CallWhere(b) \/ CallLimit(b)
             \/ CallOrderBy(b) \/ CallBind(b) \/ Explain(b)
             \/ \E c \in Builder : CloneBuilder(b, c)
      PROVE  BuilderInv' /\ WaitInv'
  <2>1. UNCHANGED <<contents, entries, pending, untold>>
    BY <1>6 DEF NewSelect, CallFrom, CallWhere, CallLimit, CallOrderBy, CallBind, Explain,
                CloneBuilder, Builds
  <2>2. BuilderInv' /\ PlansStay
    <3>1. CASE NewSelect(b)
      BY <3>1, NewSelectOK
    <3>2. CASE CallFrom(b)
      BY <3>2, CallFromOK
    <3>3. CASE CallWhere(b)
      BY <3>3, CallWhereOK
    <3>4. CASE CallLimit(b)
      BY <3>4, CallLimitOK
    <3>5. CASE CallOrderBy(b)
      BY <3>5, CallOrderByOK
    <3>6. CASE CallBind(b)
      BY <3>6, CallBindOK
    <3>7. CASE Explain(b)
      BY <3>7, PlannedOneOK DEF Explain, Builds
    <3>8. CASE \E c \in Builder : CloneBuilder(b, c)
      BY <3>8, CloneBuilderOK
    <3>9. QED
      BY <1>6, <3>1, <3>2, <3>3, <3>4, <3>5, <3>6, <3>7, <3>8
  <2>3. QED
    BY <2>1, <2>2, WaitStays
<1>7. CASE UNCHANGED vars
  <2>1. UNCHANGED <<builder, value, contents, entries, pending, untold>>
    BY <1>7 DEF vars
  <2>2. BuilderInv' /\ PlansStay
    BY <2>1 DEF BuilderInv, FreshInv, Built, WhereInv, BoundInv, KeptAlone, PlansStay
  <2>3. QED
    BY <2>1, <2>2, WaitStays
<1>8. QED
  BY <1>1, <1>2, <1>3, <1>4, <1>5, <1>6, <1>7 DEF Next

(* Builders and the predicates they refer to, the plans they have and what *)
(* waits to be computed keep in step, whatever is called and written.      *)
THEOREM ObserversInvariant == Spec => []IInv
<1>1. Init => BuilderInv /\ WaitInv
  BY InitIInv
<1>2. BuilderInv /\ WaitInv /\ [Next]_vars => BuilderInv' /\ WaitInv'
  BY NextIInv
<1>3. QED
  BY <1>1, <1>2, PTL DEF Spec, IInv

(* A query that waits gives what was asked for when it was scheduled, and  *)
(* an observed one what its builder says: a plan is of use as long as the  *)
(* query is as it was planned, and a predicate is bound by the builder it  *)
(* belongs to.                                                             *)
THEOREM TasksAnswerTheirQueryHolds == Spec => []TasksAnswerTheirQuery
<1>1. IInv => TasksAnswerTheirQuery
  <2> SUFFICES ASSUME IInv, NEW i \in DOMAIN pending
               PROVE  IF pending[i].kind = "select"
                      THEN LET t == pending[i] IN
                           t.asked.sound =>
                              /\ ~Fails(t.plan, t.asked.bound)
                              /\ Run(t.plan, t.limit, t.value, contents) = Answer(t.asked)
                      ELSE \A b \in ToSet(pending[i].builders) :
                           Sound(b) =>
                              /\ ~Fails(builder[b].plan, builder[b].bound)
                              /\ Run(builder[b].plan, builder[b].query.limit, value, contents)
                                    = Answer(Asked(b))
    BY DEF TasksAnswerTheirQuery
  <2> DEFINE t == pending[i]
  <2>1. t \in ToSet(pending)
    BY DEF ToSet
  <2>2. CASE t.kind = "select"
    <3> SUFFICES ASSUME t.asked.sound
                 PROVE  /\ ~Fails(t.plan, t.asked.bound)
                        /\ Run(t.plan, t.limit, t.value, contents) = Answer(t.asked)
      BY <2>2
    <3>1. SelectOK(t)
      BY <2>1, <2>2 DEF IInv, WaitInv, PendingInv
    <3>2. /\ t.plan = MakePlan(t.asked.query) /\ t.limit = t.asked.query.limit
          /\ \A p \in t.plan.where : t.value[p] = t.asked.bound[p]
      BY <3>1 DEF SelectOK
    <3>3. \A p \in t.plan.where : t.value[p] # Nil
      BY <3>1, ObserversAssumption DEF SelectOK
    <3>4. ~Fails(t.plan, t.asked.bound)
      BY <3>2, <3>3 DEF Fails
    <3>5. Run(t.plan, t.limit, t.value, contents) =
             Run(t.plan, t.asked.query.limit, t.asked.bound, contents)
      BY <3>2, RunSame
    <3>6. QED
      BY <3>2, <3>4, <3>5 DEF Answer
  <2>3. CASE t.kind # "select"
    <3> SUFFICES ASSUME NEW b \in ToSet(t.builders), Sound(b)
                 PROVE  /\ ~Fails(builder[b].plan, builder[b].bound)
                        /\ Run(builder[b].plan, builder[b].query.limit, value, contents)
                              = Answer(Asked(b))
      BY <2>3
    <3> DEFINE plan == builder[b].plan
               query == builder[b].query
               bound == builder[b].bound
    <3>1. BuilderInv /\ b \in Built /\ plan # Nil
      BY <2>1, <2>3 DEF IInv, WaitInv, PendingInv, QueriesOK
    <3>2. plan = MakePlan(query) /\ \A p \in query.where : value[p] = bound[p]
      BY <3>1, SoundQuery
    <3>3. plan.where \subseteq query.where /\ \A p \in plan.where : value[p] # Nil
      BY <3>1, BuiltOne DEF PlanOK, BoundInv
    <3>4. /\ Asked(b).query = query /\ Asked(b).bound = bound
      BY DEF Asked
    <3> HIDE DEF plan, query, bound
    <3>5. ~Fails(plan, bound)
      BY <3>2, <3>3 DEF Fails
    <3>6. Run(plan, query.limit, value, contents) = Run(plan, query.limit, bound, contents)
      BY <3>2, <3>3, RunSame
    <3>7. Run(plan, query.limit, value, contents) = Answer(Asked(b))
      BY <3>2, <3>4, <3>6 DEF Answer
    <3>8. QED
      BY <3>5, <3>7 DEF plan, query, bound
  <2>4. QED
    BY <2>2, <2>3
<1>2. QED
  BY <1>1, ObserversInvariant, PTL

(* When nothing waits, observers have results of the table as it is, but   *)
(* for queries whose observers a write could not tell.                     *)
THEOREM ObserversHearOfWritesHolds == Spec => []ObserversHearOfWrites
<1>1. IInv => ObserversHearOfWrites
  <2> SUFFICES ASSUME IInv, pending = <<>>, NEW i \in DOMAIN entries,
                      entries[i].lastResults # Nil, entries[i].builder \notin untold
               PROVE  \E n \in Limits, v \in Values :
                         entries[i].lastResults =
                            Run(builder[entries[i].builder].plan, n,
                                [p \in Predicate |-> v], contents)
    BY DEF ObserversHearOfWrites
  <2>1. entries[i] \in ToSet(entries) /\ ToSet(pending) = {}
    BY DEF ToSet
  <2>2. ~Awaited(entries[i].builder)
    BY <2>1 DEF Awaited
  <2>3. Current(entries[i])
    BY <2>1, <2>2 DEF IInv, WaitInv, HearInv
  <2>4. QED
    BY <2>3 DEF Current
<1>2. QED
  BY <1>1, ObserversInvariant, PTL

=============================================================================
