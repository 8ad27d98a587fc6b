-------------------------- MODULE FirebaseProofs ---------------------------
(***************************************************************************)
(* Proofs about Firebase.tla for any finite set of tables, any clients,    *)
(* row ids and bounds, in three parts.                                     *)
(*                                                                         *)
(* AlwaysTyped, for any number of writers: each step is first restated by  *)
(* what it leaves (the operators Is...), without EXCEPT and CHOOSE, and    *)
(* StepOf is their disjunction.  All that follows is about StepOf.         *)
(*                                                                         *)
(* ReadersSeeForward, with one writer: what waits in a reader's tasks is   *)
(* no older than its cache, and later tasks no older than earlier ones     *)
(* (SeenInv), because the values of a row grow with the versions of the    *)
(* server (ValueInv).  All this in the tables in which no task overtook    *)
(* an earlier one: those are Free.                                         *)
(*                                                                         *)
(* ClientsHaveVersions, with one writer, by the invariant Together: the    *)
(* revision of a row tells in which version it changed last (VersionInv),  *)
(* so that a query from a revision on brings a reader to the version that  *)
(* it sees (ReaderInv), and the tasks that wait bring its cache there      *)
(* (TaskInv).  A writer's tables are what it sees, the version with its    *)
(* own updates laid over it; the revision it counts is the one of that     *)
(* view, so that it takes nothing of what it hears, until an update is     *)
(* refused (WritersInv, LoadInv).  Its cache is that view where nothing    *)
(* was overtaken.  Elsewhere it may be older, and a transaction may write  *)
(* a row that it has removed before: it writes it into the same table,     *)
(* for no row id that the writer knows of is in two tables (OwnInv).       *)
(***************************************************************************)
EXTENDS FirebaseInvariant, FiniteSetTheorems, FunctionTheorems, SequenceTheorems,
        WellFoundedInduction, TLAPS

-----------------------------------------------------------------------------
(* Numbers and sequences.                                                  *)

\* A set of natural numbers that is not empty has a least element.
LEMMA LeastNat ==
    ASSUME NEW T \in SUBSET Nat, T # {}
    PROVE  \E x \in T : \A y \in T : x <= y
<1> DEFINE R == OpToRel(<, Nat)
<1>1. IsWellFoundedOn(R, Nat) BY NatLessThanWellFounded
<1>2. \E x \in T : \A y \in T : ~ (<<y, x>> \in R)
  <2> HIDE DEF R
  <2> QED BY <1>1, WFMin
<1>3. \A x, y \in Nat : x < y => <<x, y>> \in R
  BY DEF OpToRel
<1>4. PICK x \in T : \A y \in T : ~ (<<y, x>> \in R) BY <1>2
<1>5. ASSUME NEW y \in T PROVE x <= y
  <2>1. ~(y < x) BY <1>3, <1>4
  <2> QED BY <2>1
<1> QED BY <1>5

\* So what holds of 0, and of n + 1 whenever of n, holds of every number.
LEMMA Induction ==
    ASSUME NEW S, 0 \in S, \A n \in Nat : n \in S => n + 1 \in S
    PROVE  \A n \in Nat : n \in S
<1> SUFFICES ASSUME NEW n \in Nat, n \notin S PROVE FALSE OBVIOUS
<1> DEFINE T == Nat \ S
<1>0. T \in SUBSET Nat /\ T # {} OBVIOUS
<1>1. PICK x \in T : \A y \in T : x <= y
  <2> HIDE DEF T
  <2> QED BY <1>0, LeastNat
<1>2. x # 0 BY <1>1
<1>3. x - 1 \in Nat /\ x - 1 \notin T BY <1>1, <1>2
<1>4. x - 1 \in S BY <1>3
<1> QED BY <1>4, <1>1, <1>2

\* A set of numbers that is bounded has a greatest element, and Max is it.
LEMMA MaxIs ==
    ASSUME NEW S, S # {}, NEW b \in Nat, S \subseteq 0 .. b
    PROVE  Max(S) \in S /\ \A y \in S : Max(S) >= y
<1> DEFINE T == {n \in Nat : b - n \in S}
<1>0. T \in SUBSET Nat /\ T # {}
  <2>1. PICK y \in S : TRUE OBVIOUS
  <2>2. b - y \in Nat /\ b - (b - y) = y BY <2>1
  <2> QED BY <2>1, <2>2
<1>1. PICK n \in T : \A m \in T : n <= m
  <2> HIDE DEF T
  <2> QED BY <1>0, LeastNat
<1>2. b - n \in S /\ \A y \in S : b - n >= y
  <2>1. ASSUME NEW y \in S PROVE b - n >= y
    <3>1. b - y \in Nat /\ b - (b - y) = y BY <2>1
    <3>2. b - y \in T BY <3>1
    <3> QED BY <1>1, <3>1, <3>2
  <2> QED BY <2>1, <1>1
<1> QED BY <1>2 DEF Max

\* SetToSeq lists the members of a finite set, each once.
LEMMA SetToSeqIs ==
    ASSUME NEW S, IsFiniteSet(S)
    PROVE  /\ SetToSeq(S) \in Seq(S)
           /\ Range(SetToSeq(S)) = S
           /\ \A i, j \in DOMAIN SetToSeq(S) : SetToSeq(S)[i] = SetToSeq(S)[j] => i = j
<1> DEFINE n == Cardinality(S)
           f == SetToSeq(S)
<1>1. n \in Nat /\ ExistsBijection(1 .. n, S) BY FS_CardinalityType
<1>2. PICK g \in Bijection(1 .. n, S) : TRUE BY <1>1, Fun_ExistsBij
<1>3. g \in [1 .. n -> S] /\ IsInjective(g)
  BY <1>2 DEF Bijection, Injection
<1>4. f \in [1 .. n -> S] /\ IsInjective(f)
  BY <1>3 DEF SetToSeq
<1>5. f \in Injection(1 .. n, S) BY <1>4 DEF Injection
<1>6. IsFiniteSet(1 .. n) /\ Cardinality(1 .. n) = n
  BY <1>1, FS_Interval
<1>7. f \in Surjection(1 .. n, S)
  <2> HIDE DEF f
  <2> QED BY <1>5, <1>6, FS_Injection
<1>8. Range(f) = S
  <2> HIDE DEF f
  <2> QED BY <1>7, Fun_SurjectionProperties
<1> QED BY <1>1, <1>4, <1>8 DEF IsInjective

-----------------------------------------------------------------------------
(* Functions and sequences.                                                *)

\* Functions from some members of a set to another.
LEMMA PartialIs ==
    ASSUME NEW S, NEW T, NEW f
    PROVE  f \in UNION {[xs -> T] : xs \in SUBSET S}
           <=> /\ DOMAIN f \subseteq S
               /\ f = [x \in DOMAIN f |-> f[x]]
               /\ \A x \in DOMAIN f : f[x] \in T
<1>1. ASSUME f \in UNION {[xs -> T] : xs \in SUBSET S}
      PROVE  DOMAIN f \subseteq S /\ f = [x \in DOMAIN f |-> f[x]]
             /\ \A x \in DOMAIN f : f[x] \in T
  <2>1. PICK xs \in SUBSET S : f \in [xs -> T] BY <1>1
  <2> QED BY <2>1
<1>2. ASSUME DOMAIN f \subseteq S, f = [x \in DOMAIN f |-> f[x]], \A x \in DOMAIN f : f[x] \in T
      PROVE  f \in UNION {[xs -> T] : xs \in SUBSET S}
  <2>1. f \in [DOMAIN f -> T] BY <1>2
  <2> QED BY <2>1, <1>2
<1> QED BY <1>1, <1>2

\* A sequence without one of its members.
LEMMA RemoveAtIs ==
    ASSUME NEW X, NEW s \in Seq(X), NEW i \in 1 .. Len(s)
    PROVE  /\ RemoveAt(s, i) \in Seq(X)
           /\ Len(RemoveAt(s, i)) = Len(s) - 1
           /\ \A j \in 1 .. Len(s) - 1 :
                 RemoveAt(s, i)[j] = IF j < i THEN s[j] ELSE s[j + 1]
<1> DEFINE a == SubSeq(s, 1, i - 1)
           b == SubSeq(s, i + 1, Len(s))
<1>1. a \in Seq(X) /\ Len(a) = i - 1 /\ \A j \in 1 .. i - 1 : a[j] = s[j]
  BY SubSeqProperties
<1>2. b \in Seq(X) /\ Len(b) = Len(s) - i /\ \A j \in 1 .. Len(s) - i : b[j] = s[i + j]
  <2>1. CASE i = Len(s) BY <2>1
  <2>2. CASE i # Len(s) BY <2>2
  <2> QED BY <2>1, <2>2
<1>3. RemoveAt(s, i) = a \o b BY DEF RemoveAt
<1> HIDE DEF a, b
<1>4. a \o b \in Seq(X) /\ Len(a \o b) = Len(s) - 1
  <2>1. a \o b \in Seq(X) /\ Len(a \o b) = Len(a) + Len(b)
    BY <1>1, <1>2, ConcatProperties
  <2>2. Len(s) \in Nat /\ i \in Int OBVIOUS
  <2> QED BY <2>1, <2>2, <1>1, <1>2
<1>5. ASSUME NEW j \in 1 .. Len(s) - 1
      PROVE  (a \o b)[j] = IF j < i THEN s[j] ELSE s[j + 1]
  <2>1. (a \o b)[j] = IF j <= Len(a) THEN a[j] ELSE b[j - Len(a)]
    <3>1. Len(a \o b) = Len(a) + Len(b) BY <1>1, <1>2, ConcatProperties
    <3>2. j \in 1 .. Len(a) + Len(b) BY <1>4, <3>1
    <3> QED BY <1>1, <1>2, <3>2, ConcatProperties
  <2>2. CASE j < i BY <2>1, <2>2, <1>1
  <2>3. CASE ~(j < i)
    <3>1. PICK m : m = j - Len(a) OBVIOUS
    <3>2. m \in 1 .. Len(s) - i /\ i + m = j + 1 /\ ~(j <= Len(a)) BY <1>1, <2>3, <3>1
    <3>3. b[m] = s[i + m] BY ONLY <3>2, <1>2
    <3> QED BY ONLY <2>1, <2>3, <3>1, <3>2, <3>3
  <2> QED BY <2>2, <2>3
<1> QED BY <1>3, <1>4, <1>5

LEMMA RemovedAt ==
    ASSUME NEW X, NEW s \in Seq(X), NEW i \in 1 .. Len(s)
    PROVE  Without(RemoveAt(s, i), s, i)
<1>0. RemoveAt(s, i) \in Seq(X) /\ Len(RemoveAt(s, i)) = Len(s) - 1 BY RemoveAtIs
<1>5. DOMAIN RemoveAt(s, i) = 1 .. Len(s) - 1 BY <1>0
<1>1. \A j \in 1 .. Len(s) - 1 :
         RemoveAt(s, i)[j] = IF j < i THEN s[j] ELSE s[j + 1]
  BY RemoveAtIs
<1>2. ASSUME NEW k \in 1 .. Len(s), k # i
      PROVE  \E j \in 1 .. Len(s) - 1 : Before(j, i) = k
  <2>1. CASE k < i
    <3>1. k \in 1 .. Len(s) - 1 BY <2>1
    <3> QED BY <3>1, <2>1 DEF Before
  <2>2. CASE k > i
    <3>1. k - 1 \in 1 .. Len(s) - 1 /\ ~(k - 1 < i) /\ k - 1 + 1 = k BY <2>2
    <3> QED BY <3>1 DEF Before
  <2> QED BY <2>1, <2>2, <1>2
<1>3. ASSUME NEW j \in 1 .. Len(s) - 1
      PROVE  RemoveAt(s, i)[j] = s[Before(j, i)] /\ Before(j, i) \in 1 .. Len(s) /\ Before(j, i) # i
  BY <1>1 DEF Before
<1>4. \A j, k \in 1 .. Len(s) - 1 : j < k => Before(j, i) < Before(k, i)
  BY DEF Before
<1> QED BY ONLY <1>0, <1>5, <1>2, <1>3, <1>4 DEF Without

-----------------------------------------------------------------------------
(* Rows.                                                                   *)

LEMMA TableRowsIs ==
    ASSUME NEW f
    PROVE  f \in TableRows <=> /\ DOMAIN f \subseteq Id
                               /\ f = [x \in DOMAIN f |-> f[x]]
                               /\ \A x \in DOMAIN f : f[x] \in Nat
BY PartialIs DEF TableRows

LEMMA ServerRowsIs ==
    ASSUME NEW f
    PROVE  f \in ServerRows <=> /\ DOMAIN f \subseteq Id
                                /\ f = [x \in DOMAIN f |-> f[x]]
                                /\ \A x \in DOMAIN f : f[x] \in Row
BY PartialIs DEF ServerRows

LEMMA NewRowsIs ==
    ASSUME NEW f
    PROVE  f \in NewRows <=> /\ DOMAIN f \subseteq Id
                             /\ f = [x \in DOMAIN f |-> f[x]]
                             /\ \A x \in DOMAIN f : f[x] \in [table : Tables, value : Nat]
BY PartialIs DEF NewRows

LEMMA TaskIs ==
    ASSUME NEW f
    PROVE  f \in Task <=> /\ DOMAIN f \subseteq Tables
                          /\ f = [x \in DOMAIN f |-> f[x]]
                          /\ \A x \in DOMAIN f : f[x] \in Diff
BY PartialIs DEF Task

LEMMA BeforeIs ==
    ASSUME NEW f
    PROVE  f \in UNION {[ts -> TableRows] : ts \in SUBSET Tables}
           <=> /\ DOMAIN f \subseteq Tables
               /\ f = [x \in DOMAIN f |-> f[x]]
               /\ \A x \in DOMAIN f : f[x] \in TableRows
BY PartialIs

LEMMA NoneIs == None \in TableRows /\ DOMAIN None = {}
BY TableRowsIs DEF None

LEMMA RowsOfIs ==
    ASSUME NEW rows, NEW t
    PROVE  IsRowsOf(RowsOf(rows, t), rows, t)
BY DEF RowsOf, IsRowsOf

LEMMA RowsOfTyped ==
    ASSUME NEW rows, NEW t, rows \in ServerRows \/ rows \in NewRows
    PROVE  RowsOf(rows, t) \in TableRows
<1>1. DOMAIN rows \subseteq Id /\ \A id \in DOMAIN rows : rows[id].value \in Nat
  BY ServerRowsIs, NewRowsIs DEF Row
<1> PICK f : f = RowsOf(rows, t) OBVIOUS
<1>3. IsRowsOf(f, rows, t) BY RowsOfIs
<1>4. DOMAIN f \subseteq Id /\ \A id \in DOMAIN f : f[id] \in Nat
  BY <1>1, <1>3 DEF IsRowsOf
<1>5. f \in TableRows BY <1>3, <1>4, TableRowsIs DEF IsRowsOf
<1> QED BY <1>5

LEMMA ChangedIs ==
    ASSUME NEW f, NEW g, NEW gone
    PROVE  IsChanged(Changed(f, g, gone), f, g, gone)
BY DEF Changed, IsChanged

LEMMA ChangedTyped ==
    ASSUME NEW f \in TableRows, NEW g \in TableRows, NEW gone
    PROVE  Changed(f, g, gone) \in TableRows
<1> PICK h : h = Changed(f, g, gone) OBVIOUS
<1>0. /\ DOMAIN h = (DOMAIN f \ gone) \cup DOMAIN g
      /\ \A x \in DOMAIN g : h[x] = g[x]
      /\ \A x \in DOMAIN f \ (gone \cup DOMAIN g) : h[x] = f[x]
      /\ h = [x \in DOMAIN h |-> h[x]]
  <2>1. IsChanged(h, f, g, gone) BY ChangedIs
  <2> QED BY ONLY <2>1 DEF IsChanged
<1>1. /\ DOMAIN f \subseteq Id /\ \A x \in DOMAIN f : f[x] \in Nat
      /\ DOMAIN g \subseteq Id /\ \A x \in DOMAIN g : g[x] \in Nat
  BY TableRowsIs
<1>2. h = [x \in DOMAIN h |-> h[x]] /\ DOMAIN h \subseteq Id BY <1>0, <1>1
<1>3. ASSUME NEW x \in DOMAIN h PROVE h[x] \in Nat
  <2>1. CASE x \in DOMAIN g BY <2>1, <1>1, <1>0
  <2>2. CASE x \notin DOMAIN g BY <2>2, <1>1, <1>3, <1>0
  <2> QED BY <2>1, <2>2
<1>4. h \in TableRows BY <1>2, <1>3, TableRowsIs
<1> QED BY <1>4

-----------------------------------------------------------------------------
(* Versions and views.                                                     *)

LEMMA UpdateFields ==
    ASSUME NEW u \in Update
    PROVE  /\ u.rev \in Nat /\ u.put \in NewRows /\ u.gone \in SUBSET Id
           /\ u.tables \in SUBSET Tables
           /\ u.before \in UNION {[ts -> TableRows] : ts \in SUBSET Tables}
           /\ u.answer \in {"none", "accepted", "refused", "failed"} /\ u.version \in Nat
           /\ DOMAIN u.put \subseteq Id
           /\ \A id \in DOMAIN u.put : u.put[id].table \in Tables /\ u.put[id].value \in Nat
BY NewRowsIs DEF Update

LEMMA VersionFields ==
    ASSUME NEW version \in Version
    PROVE  /\ version.rev \in Nat /\ version.rows \in ServerRows
           /\ DOMAIN version.rows \subseteq Id
           /\ \A id \in DOMAIN version.rows :
                 version.rows[id].rev \in Nat /\ version.rows[id].table \in Tables
                 /\ version.rows[id].value \in Nat
           /\ version = [rev |-> version.rev, rows |-> version.rows]
BY ServerRowsIs DEF Version, Row

\* Two functions that are the same everywhere.
LEMMA SameEverywhere ==
    ASSUME NEW f, NEW g, f = [x \in DOMAIN f |-> f[x]], g = [x \in DOMAIN g |-> g[x]],
           \A x : SameAt(f, g, x)
    PROVE  f = g
<1>1. DOMAIN f = DOMAIN g BY DEF SameAt
<1>2. \A x \in DOMAIN f : f[x] = g[x] BY DEF SameAt
<1> QED BY <1>1, <1>2

LEMMA VersionsEqual ==
    ASSUME NEW v \in Version, NEW w \in Version, v.rev = w.rev,
           \A id : SameAt(v.rows, w.rows, id)
    PROVE  v = w
<1>1. v.rows = w.rows
  <2>1. v.rows = [x \in DOMAIN v.rows |-> v.rows[x]] /\ w.rows = [x \in DOMAIN w.rows |-> w.rows[x]]
    BY VersionFields, ServerRowsIs
  <2> QED BY <2>1, SameEverywhere
<1> QED BY <1>1, VersionFields

\* A version with an update laid over it.
LEMMA OverlaidIs ==
    ASSUME NEW version \in Version, NEW u \in Update
    PROVE  /\ Overlaid(version, u) \in Version
           /\ Overlaid(version, u).rev = u.rev
           /\ DOMAIN Overlaid(version, u).rows = (DOMAIN version.rows \ u.gone) \cup DOMAIN u.put
           /\ \A id \in DOMAIN u.put :
                 Overlaid(version, u).rows[id] =
                    [rev |-> u.rev, table |-> u.put[id].table, value |-> u.put[id].value]
           /\ \A id : id \notin Ids(u) => SameAt(Overlaid(version, u).rows, version.rows, id)
           /\ DOMAIN u.put \cap u.gone = {} => HasUpdate(Overlaid(version, u), u)
<1>1. PICK g : g = [id \in DOMAIN u.put |->
                      [rev |-> u.rev, table |-> u.put[id].table, value |-> u.put[id].value]]
  OBVIOUS
<1>2. DOMAIN g = DOMAIN u.put /\ \A id \in DOMAIN u.put :
         g[id] = [rev |-> u.rev, table |-> u.put[id].table, value |-> u.put[id].value]
  BY <1>1
<1>6. PICK rows : rows = Changed(version.rows, g, u.gone) OBVIOUS
<1>3. /\ DOMAIN rows = (DOMAIN version.rows \ u.gone) \cup DOMAIN g
      /\ \A x \in DOMAIN g : rows[x] = g[x]
      /\ \A x \in DOMAIN version.rows \ (u.gone \cup DOMAIN g) : rows[x] = version.rows[x]
      /\ rows = [x \in DOMAIN rows |-> rows[x]]
  <2>1. IsChanged(rows, version.rows, g, u.gone) BY <1>6, ChangedIs
  <2> QED BY ONLY <2>1 DEF IsChanged
<1>7. Overlaid(version, u) = [rev |-> u.rev, rows |-> rows] BY <1>1, <1>6 DEF Overlaid
<1>4. rows \in ServerRows
  <2>1. DOMAIN rows \subseteq Id BY <1>2, <1>3, UpdateFields, VersionFields
  <2>2. ASSUME NEW x \in DOMAIN rows PROVE rows[x] \in Row
    <3>1. CASE x \in DOMAIN g
      <4>1. rows[x] = [rev |-> u.rev, table |-> u.put[x].table, value |-> u.put[x].value]
        BY <3>1, <1>2, <1>3
      <4>2. u.rev \in Nat /\ u.put[x].table \in Tables /\ u.put[x].value \in Nat
        BY <3>1, <1>2, UpdateFields
      <4> QED BY <4>1, <4>2 DEF Row
    <3>2. CASE x \notin DOMAIN g
      <4>1. version.rows[x] \in Row BY <3>2, <2>2, <1>3, VersionFields, ServerRowsIs
      <4> QED BY <4>1, <3>2, <2>2, <1>3
    <3> QED BY <3>1, <3>2
  <2> QED BY <2>1, <2>2, <1>3, ServerRowsIs
<1>5. Overlaid(version, u) \in Version BY <1>7, <1>4, UpdateFields DEF Version
<1>8. Overlaid(version, u).rev = u.rev /\ Overlaid(version, u).rows = rows BY <1>7
<1>9. \A id : id \notin Ids(u) => SameAt(rows, version.rows, id)
  BY <1>2, <1>3 DEF Ids, SameAt
<1>10. DOMAIN u.put \cap u.gone = {} => HasUpdate(Overlaid(version, u), u)
  BY <1>8, <1>2, <1>3 DEF HasUpdate
<1> QED BY <1>5, <1>8, <1>2, <1>3, <1>9, <1>10

\* The view is the last of these.
LEMMA ViewIsLaid ==
    ASSUME NEW X, NEW pending \in Seq(X), NEW version
    PROVE  \E laid : LaidBy(laid, version, pending) /\ View(version, pending) = laid[Len(pending)]
<1> DEFINE Step(x, n) == IF pending[n].answer = "failed" THEN x ELSE Overlaid(x, pending[n])
           Eq(n, f) == f = [i \in 0 .. n |-> IF i = 0 THEN version
                                             ELSE IF pending[i].answer = "failed" THEN f[i - 1]
                                             ELSE Overlaid(f[i - 1], pending[i])]
           S == {n \in Nat : \E f : Eq(n, f)}
<1>1. 0 \in S
  <2>1. Eq(0, [i \in 0 .. 0 |-> version]) OBVIOUS
  <2> QED BY <2>1
<1>2. ASSUME NEW n \in Nat, n \in S PROVE n + 1 \in S
  <2>1. PICK f : Eq(n, f) BY <1>2
  <2> DEFINE last == Step(f[n], n + 1)
             g == [i \in 0 .. n + 1 |-> IF i = n + 1 THEN last ELSE f[i]]
  <2>2. ASSUME NEW i \in 0 .. n + 1
        PROVE  g[i] = IF i = 0 THEN version ELSE Step(g[i - 1], i)
    <3> HIDE DEF last
    <3>1. CASE i = n + 1
      <4>1. g[i] = last BY <3>1
      <4>2. i # 0 /\ i - 1 = n /\ n \in 0 .. n + 1 /\ n # n + 1 BY <3>1
      <4>3. g[i - 1] = f[n] BY <4>2
      <4> HIDE DEF g, Step
      <4> QED BY <3>1, <4>1, <4>2, <4>3 DEF last
    <3>2. CASE i # n + 1
      <4>1. i \in 0 .. n BY <3>2
      <4>2. f[i] = IF i = 0 THEN version ELSE Step(f[i - 1], i) BY <2>1, <4>1
      <4>3. CASE i = 0
        <5> HIDE DEF Step
        <5> QED BY <4>2, <4>3, <4>1
      <4>4. CASE i # 0
        <5>1. i - 1 \in 0 .. n + 1 /\ i - 1 # n + 1 BY <4>1, <4>4
        <5>2. g[i - 1] = f[i - 1] /\ g[i] = f[i] BY <5>1, <3>2
        <5> HIDE DEF g, Step
        <5> QED BY <5>2, <4>2, <4>4
      <4> QED BY <4>3, <4>4
    <3> QED BY <3>1, <3>2
  <2>3. Eq(n + 1, g)
    <3> HIDE DEF last
    <3>1. g = [i \in 0 .. n + 1 |-> g[i]] OBVIOUS
    <3> HIDE DEF g
    <3> QED BY <2>2, <3>1
  <2> HIDE DEF g, Eq
  <2> QED BY <2>3
<1>3. \A n \in Nat : n \in S
  <2> HIDE DEF S
  <2> QED BY <1>1, <1>2, Induction
<1>4. Len(pending) \in Nat OBVIOUS
<1> DEFINE laid == CHOOSE f : Eq(Len(pending), f)
<1>5. Eq(Len(pending), laid)
  <2> HIDE DEF Eq
  <2>1. \E f : Eq(Len(pending), f) BY <1>3, <1>4
  <2> QED BY <2>1
<1>6. View(version, pending) = laid[Len(pending)] BY DEF View
<1> HIDE DEF laid
<1>7. \A n \in 0 .. Len(pending) :
         laid[n] = IF n = 0 THEN version ELSE Step(laid[n - 1], n)
  BY <1>5
<1>8. laid[0] = version BY <1>7, <1>4
<1>9. \A n \in 1 .. Len(pending) : laid[n] = Step(laid[n - 1], n)
  <2> TAKE n \in 1 .. Len(pending)
  <2>1. n \in 0 .. Len(pending) /\ n # 0 BY <1>4
  <2> HIDE DEF Step
  <2> QED BY <2>1, <1>7
<1> QED BY <1>6, <1>8, <1>9 DEF LaidBy

\* What an update made of its rows stays when others are laid over it.
LEMMA UpdateStays ==
    ASSUME NEW v \in Version, NEW w \in Version, NEW u \in Update, HasUpdate(v, u),
           \A id \in Ids(u) : SameAt(w.rows, v.rows, id)
    PROVE  HasUpdate(w, u)
BY DEF HasUpdate, Ids, SameAt

LEMMA LaidOver ==
    ASSUME NEW version \in Version, NEW q \in Seq(Update), Apart(q),
           NEW m \in 1 .. Len(q), NEW v, IsLaid(v, version, q, m - 1),
           q[m].answer # "failed"
    PROVE  IsLaid(Overlaid(v, q[m]), version, q, m)
<1>0. m \in Nat /\ m >= 1 /\ m \in DOMAIN q /\ q[m] \in Update OBVIOUS
<1>1. v \in Version BY DEF IsLaid
<1>2. PICK w : w = Overlaid(v, q[m]) OBVIOUS
<1>3. DOMAIN q[m].put \cap q[m].gone = {} BY <1>0 DEF Apart
<1>4. /\ w \in Version /\ w.rev = q[m].rev /\ HasUpdate(w, q[m])
      /\ \A id : id \notin Ids(q[m]) => SameAt(w.rows, v.rows, id)
  BY <1>0, <1>1, <1>2, <1>3, OverlaidIs
<1>5. ASSUME NEW i \in 1 .. m, q[i].answer # "failed" PROVE HasUpdate(w, q[i])
  <2>1. CASE i = m BY <2>1, <1>4
  <2>2. CASE i # m
    <3>1. i \in 1 .. m - 1 /\ i \in DOMAIN q /\ q[i] \in Update BY <2>2, <1>0
    <3>2. HasUpdate(v, q[i]) BY <3>1, <1>5 DEF IsLaid
    <3>3. Ids(q[i]) \cap Ids(q[m]) = {} BY <3>1, <1>0, <2>2 DEF Apart
    <3>4. \A id \in Ids(q[i]) : SameAt(w.rows, v.rows, id) BY <3>3, <1>4
    <3> QED BY <3>1, <3>2, <3>4, <1>1, <1>4, UpdateStays
  <2> QED BY <2>1, <2>2
<1>6. ASSUME NEW id, \A i \in 1 .. m : q[i].answer # "failed" => id \notin Ids(q[i])
      PROVE  SameAt(w.rows, version.rows, id)
  <2>1. m \in 1 .. m /\ \A i \in 1 .. m - 1 : i \in 1 .. m BY <1>0
  <2>2. SameAt(w.rows, v.rows, id) BY <2>1, <1>6, <1>4
  <2>3. SameAt(v.rows, version.rows, id) BY <2>1, <1>6 DEF IsLaid
  <2> QED BY <2>2, <2>3 DEF SameAt
<1>7. ASSUME NEW n \in 1 .. m, \A j \in n + 1 .. m : q[j].answer = "failed"
      PROVE  w.rev = q[n].rev
  <2>1. n = m
    <3>1. n # m => m \in n + 1 .. m BY <1>0
    <3> QED BY <3>1, <1>7
  <2> QED BY <2>1, <1>4
<1>8. ~ \A n \in 1 .. m : q[n].answer = "failed" BY <1>0
<1> QED BY <1>2, <1>4, <1>5, <1>6, <1>7, <1>8 DEF IsLaid

LEMMA LaidFailed ==
    ASSUME NEW version \in Version, NEW q \in Seq(Update),
           NEW m \in 1 .. Len(q), NEW v, IsLaid(v, version, q, m - 1),
           q[m].answer = "failed"
    PROVE  IsLaid(v, version, q, m)
<1>0. m \in Nat /\ m >= 1 /\ \A i \in 1 .. m : i # m => i \in 1 .. m - 1 OBVIOUS
<1>1. ASSUME NEW i \in 1 .. m, q[i].answer # "failed" PROVE i \in 1 .. m - 1
  BY <1>0, <1>1
<1>2. v \in Version BY DEF IsLaid
<1>3. \A i \in 1 .. m : q[i].answer # "failed" => HasUpdate(v, q[i])
  BY <1>1 DEF IsLaid
<1>4. ASSUME NEW id, \A i \in 1 .. m : q[i].answer # "failed" => id \notin Ids(q[i])
      PROVE  SameAt(v.rows, version.rows, id)
  <2>1. \A i \in 1 .. m - 1 : i \in 1 .. m BY <1>0
  <2> QED BY <2>1, <1>4 DEF IsLaid
<1>5. ASSUME NEW n \in 1 .. m, q[n].answer # "failed",
             \A j \in n + 1 .. m : q[j].answer = "failed"
      PROVE  v.rev = q[n].rev
  <2>1. n \in 1 .. m - 1 BY <1>1, <1>5
  <2>2. \A j \in n + 1 .. m - 1 : j \in n + 1 .. m BY <1>0, <2>1
  <2> QED BY <2>1, <2>2, <1>5 DEF IsLaid
<1>6. ASSUME \A n \in 1 .. m : q[n].answer = "failed" PROVE v = version
  <2>1. \A i \in 1 .. m - 1 : i \in 1 .. m BY <1>0
  <2> QED BY <2>1, <1>6 DEF IsLaid
<1> QED BY <1>2, <1>3, <1>4, <1>5, <1>6 DEF IsLaid

\* What a client sees: each of its updates whole, and nothing else than the version.
LEMMA ViewIs ==
    ASSUME NEW version \in Version, NEW q \in Seq(Update), Apart(q)
    PROVE  IsView(View(version, q), version, q)
<1>1. PICK laid : LaidBy(laid, version, q) /\ View(version, q) = laid[Len(q)]
  BY ViewIsLaid
<1> DEFINE S == {m \in Nat : m <= Len(q) => IsLaid(laid[m], version, q, m)}
<1>2. 0 \in S
  <2>1. laid[0] = version BY <1>1 DEF LaidBy
  <2>2. 1 .. 0 = {} OBVIOUS
  <2>3. IsLaid(version, version, q, 0) BY <2>2 DEF IsLaid, SameAt
  <2> QED BY <2>1, <2>3
<1>3. ASSUME NEW n \in Nat, n \in S PROVE n + 1 \in S
  <2> SUFFICES ASSUME n + 1 <= Len(q) PROVE IsLaid(laid[n + 1], version, q, n + 1)
    OBVIOUS
  <2>1. n + 1 \in 1 .. Len(q) /\ n + 1 - 1 = n /\ n <= Len(q) OBVIOUS
  <2>2. IsLaid(laid[n], version, q, n + 1 - 1) BY <1>3, <2>1
  <2>3. laid[n + 1] = IF q[n + 1].answer = "failed" THEN laid[n + 1 - 1]
                      ELSE Overlaid(laid[n + 1 - 1], q[n + 1])
    BY <1>1, <2>1 DEF LaidBy
  <2>4. PICK m \in 1 .. Len(q) : m = n + 1 BY <2>1
  <2>5. CASE q[m].answer = "failed"
    <3>1. laid[m] = laid[n] BY <2>1, <2>3, <2>4, <2>5
    <3>2. IsLaid(laid[n], version, q, m - 1) BY <2>2, <2>4
    <3>3. IsLaid(laid[n], version, q, m) BY <3>2, <2>5, LaidFailed
    <3> QED BY <3>1, <3>3, <2>4
  <2>6. CASE q[m].answer # "failed"
    <3>1. laid[m] = Overlaid(laid[n], q[m]) BY <2>1, <2>3, <2>4, <2>6
    <3>2. IsLaid(laid[n], version, q, m - 1) BY <2>2, <2>4
    <3>3. IsLaid(Overlaid(laid[n], q[m]), version, q, m) BY <3>2, <2>6, LaidOver
    <3> QED BY <3>1, <3>3, <2>4
  <2> QED BY <2>5, <2>6
<1>4. \A n \in Nat : n \in S
  <2> HIDE DEF S
  <2> QED BY <1>2, <1>3, Induction
<1>5. Len(q) \in Nat OBVIOUS
<1>6. IsLaid(laid[Len(q)], version, q, Len(q)) BY <1>4, <1>5
<1> QED BY <1>1, <1>6 DEF IsView

\* A view is a version, whatever the updates.
LEMMA ViewTyped ==
    ASSUME NEW version \in Version, NEW q \in Seq(Update)
    PROVE  View(version, q) \in Version
<1>1. PICK laid : LaidBy(laid, version, q) /\ View(version, q) = laid[Len(q)]
  BY ViewIsLaid
<1> DEFINE S == {m \in Nat : m <= Len(q) => laid[m] \in Version}
<1>2. 0 \in S BY <1>1 DEF LaidBy
<1>3. ASSUME NEW n \in Nat, n \in S PROVE n + 1 \in S
  <2> SUFFICES ASSUME n + 1 <= Len(q) PROVE laid[n + 1] \in Version OBVIOUS
  <2>1. n + 1 \in 1 .. Len(q) /\ n + 1 - 1 = n /\ n <= Len(q) /\ q[n + 1] \in Update OBVIOUS
  <2>2. laid[n] \in Version BY <1>3, <2>1
  <2>3. laid[n + 1] = IF q[n + 1].answer = "failed" THEN laid[n]
                      ELSE Overlaid(laid[n], q[n + 1])
    BY <1>1, <2>1 DEF LaidBy
  <2>4. Overlaid(laid[n], q[n + 1]) \in Version BY <2>1, <2>2, OverlaidIs
  <2> QED BY <2>2, <2>3, <2>4
<1>4. \A n \in Nat : n \in S
  <2> HIDE DEF S
  <2> QED BY <1>2, <1>3, Induction
<1>5. Len(q) \in Nat OBVIOUS
<1> QED BY <1>1, <1>4, <1>5

\* Without updates the client sees the version.
LEMMA ViewOfNone ==
    ASSUME NEW version
    PROVE  View(version, <<>>) = version
<1>1. <<>> \in Seq({}) /\ Len(<<>>) = 0 OBVIOUS
<1>2. PICK laid : LaidBy(laid, version, <<>>) /\ View(version, <<>>) = laid[Len(<<>>)]
  BY <1>1, ViewIsLaid
<1> QED BY <1>1, <1>2 DEF LaidBy

\* One more update.
LEMMA ViewOfMore ==
    ASSUME NEW version \in Version, NEW q \in Seq(Update), NEW u \in Update,
           u.answer # "failed"
    PROVE  View(version, Append(q, u)) = Overlaid(View(version, q), u)
<1>1. PICK p : p = Append(q, u) OBVIOUS
<1>2. p \in Seq(Update) /\ Len(p) = Len(q) + 1 /\ Len(q) \in Nat
      /\ p[Len(p)] = u /\ \A i \in 1 .. Len(q) : p[i] = q[i]
  BY <1>1
<1>3. PICK laid : LaidBy(laid, version, p) /\ View(version, p) = laid[Len(p)]
  BY <1>2, ViewIsLaid
<1>4. Len(p) \in 1 .. Len(p) /\ Len(p) - 1 = Len(q) BY <1>2
<1>5. View(version, p) = Overlaid(laid[Len(q)], u) BY <1>2, <1>3, <1>4 DEF LaidBy
<1>6. PICK laid2 : LaidBy(laid2, version, q) /\ View(version, q) = laid2[Len(q)]
  BY ViewIsLaid
<1> DEFINE S == {m \in Nat : m <= Len(q) => laid[m] = laid2[m]}
<1>7. 0 \in S BY <1>3, <1>6 DEF LaidBy
<1>8. ASSUME NEW n \in Nat, n \in S PROVE n + 1 \in S
  <2> SUFFICES ASSUME n + 1 <= Len(q) PROVE laid[n + 1] = laid2[n + 1] OBVIOUS
  <2>1. n + 1 \in 1 .. Len(q) /\ n + 1 \in 1 .. Len(p) /\ n + 1 - 1 = n /\ n <= Len(q)
    BY <1>2
  <2>2. p[n + 1] = q[n + 1] BY <1>2, <2>1
  <2>3. laid[n] = laid2[n] BY <1>8, <2>1
  <2>4. laid[n + 1] = IF p[n + 1].answer = "failed" THEN laid[n]
                      ELSE Overlaid(laid[n], p[n + 1])
    BY <1>3, <2>1 DEF LaidBy
  <2>5. laid2[n + 1] = IF q[n + 1].answer = "failed" THEN laid2[n]
                       ELSE Overlaid(laid2[n], q[n + 1])
    BY <1>6, <2>1 DEF LaidBy
  <2> QED BY <2>2, <2>3, <2>4, <2>5
<1>9. \A n \in Nat : n \in S
  <2> HIDE DEF S
  <2> QED BY <1>7, <1>8, Induction
<1>10. laid[Len(q)] = laid2[Len(q)] BY <1>9, <1>2
<1> QED BY <1>1, <1>5, <1>6, <1>10

\* The rows of an update under way are the same in all views with it.
LEMMA UpdateFixes ==
    ASSUME NEW v \in Version, NEW w \in Version, NEW u \in Update,
           HasUpdate(v, u), HasUpdate(w, u), NEW id \in Ids(u)
    PROVE  SameAt(v.rows, w.rows, id)
BY DEF HasUpdate, Ids, SameAt

\* The views of two versions that differ only in rows of the updates.
LEMMA ViewsEqual ==
    ASSUME NEW v1 \in Version, NEW v2 \in Version, NEW q \in Seq(Update), Apart(q),
           \A id : (\A i \in DOMAIN q : q[i].answer # "failed" => id \notin Ids(q[i]))
                      => SameAt(v1.rows, v2.rows, id),
           (\A i \in DOMAIN q : q[i].answer = "failed") => v1 = v2,
           NEW n \in 0 .. Len(q), \A i \in n + 1 .. Len(q) : q[i].answer = "failed",
           n > 0 => q[n].answer # "failed"
    PROVE  View(v1, q) = View(v2, q)
<1>0. Len(q) \in Nat /\ DOMAIN q = 1 .. Len(q) OBVIOUS
<1>1. PICK w1 : w1 = View(v1, q) OBVIOUS
<1>2. PICK w2 : w2 = View(v2, q) OBVIOUS
<1>3. IsView(w1, v1, q) BY <1>1, ViewIs
<1>4. IsView(w2, v2, q) BY <1>2, ViewIs
<1>5. w1 \in Version /\ w2 \in Version BY <1>3, <1>4 DEF IsView, IsLaid
<1>6. CASE n = 0
  <2>1. \A i \in DOMAIN q : q[i].answer = "failed" BY <1>6, <1>0
  <2> QED BY <2>1, <1>1, <1>2
<1>7. CASE n # 0
  <2>1. n \in 1 .. Len(q) BY <1>7
  <2>2. w1.rev = q[n].rev BY <2>1, <1>3 DEF IsView, IsLaid
  <2>3. w2.rev = q[n].rev BY <2>1, <1>4 DEF IsView, IsLaid
  <2>4. ASSUME NEW id PROVE SameAt(w1.rows, w2.rows, id)
    <3>1. CASE \E i \in DOMAIN q : q[i].answer # "failed" /\ id \in Ids(q[i])
      <4>1. PICK i \in DOMAIN q : q[i].answer # "failed" /\ id \in Ids(q[i]) BY <3>1
      <4>2. i \in 1 .. Len(q) /\ q[i] \in Update BY <1>0
      <4>3. HasUpdate(w1, q[i]) BY <4>1, <4>2, <1>3 DEF IsView, IsLaid
      <4>4. HasUpdate(w2, q[i]) BY <4>1, <4>2, <1>4 DEF IsView, IsLaid
      <4> QED BY <4>1, <4>2, <4>3, <4>4, <1>5, UpdateFixes
    <3>2. CASE \A i \in DOMAIN q : q[i].answer # "failed" => id \notin Ids(q[i])
      <4>1. SameAt(v1.rows, v2.rows, id) BY <3>2
      <4>2. \A i \in 1 .. Len(q) : q[i].answer # "failed" => id \notin Ids(q[i])
        BY <3>2, <1>0
      <4>3. SameAt(w1.rows, v1.rows, id) BY <4>2, <1>3 DEF IsView, IsLaid
      <4>4. SameAt(w2.rows, v2.rows, id) BY <4>2, <1>4 DEF IsView, IsLaid
      <4> QED BY <4>1, <4>3, <4>4 DEF SameAt
    <3> QED BY <3>1, <3>2
  <2> QED BY <2>2, <2>3, <2>4, <1>5, <1>1, <1>2, VersionsEqual
<1> QED BY <1>6, <1>7

-----------------------------------------------------------------------------
(* The handlers.                                                           *)

LEMMA StoreFields ==
    ASSUME NEW k \in Store
    PROVE  /\ k.revision \in Int /\ k.startAt \in Int
           /\ k.tables \in [Tables -> TableRows] /\ k.removedRows \in [Tables -> SUBSET Id]
           /\ k.tasks \in Seq(Task)
           /\ k = [revision |-> k.revision, tables |-> k.tables,
                   removedRows |-> k.removedRows, startAt |-> k.startAt, tasks |-> k.tasks]
BY DEF Store

LEMMA OnRemovedIs ==
    ASSUME NEW k \in Store, NEW before \in Version, NEW after \in Version
    PROVE  IsRemoved(onRemoved_(k, before, after), k, before, after)
<1>1. PICK r : r = [t \in Tables |->
            k.removedRows[t] \cup {id \in DOMAIN before.rows \ DOMAIN after.rows :
                                      before.rows[id].table = t}]
  OBVIOUS
<1>2. onRemoved_(k, before, after) = [k EXCEPT !.removedRows = r] BY <1>1 DEF onRemoved_
<1>3. \A t \in Tables : \A id :
          id \in r[t]
          <=> \/ id \in k.removedRows[t]
              \/ id \in DOMAIN before.rows /\ id \notin DOMAIN after.rows
                 /\ before.rows[id].table = t
  BY <1>1
<1>4. r \in [Tables -> SUBSET Id]
  <2>1. r = [t \in Tables |-> r[t]] BY <1>1
  <2>2. ASSUME NEW t \in Tables, NEW id \in r[t] PROVE id \in Id
    BY <2>2, <1>3, StoreFields, VersionFields
  <2>3. \A t \in Tables : r[t] \subseteq Id BY <2>2
  <2> QED BY <2>1, <2>3
<1>5. PICK h : h = [k EXCEPT !.removedRows = r] OBVIOUS
<1>6. /\ h \in Store /\ h.removedRows = r
      /\ h.revision = k.revision /\ h.startAt = k.startAt /\ h.tables = k.tables
      /\ h.tasks = k.tasks
  BY <1>4, <1>5 DEF Store
<1> QED BY <1>2, <1>3, <1>5, <1>6 DEF IsRemoved

LEMMA ResultIs ==
    ASSUME NEW k, NEW view \in Version, NEW r, r = Result(k, view)
    PROVE  /\ r.rev = IF view.rev >= k.startAt THEN view.rev ELSE 0
           /\ r.rows \in ServerRows
           /\ \A id : id \in DOMAIN r.rows
                      <=> id \in DOMAIN view.rows /\ view.rows[id].rev >= k.startAt
           /\ \A id : id \in DOMAIN r.rows => r.rows[id] = view.rows[id]
<1>1. PICK rows : rows = [id \in {i \in DOMAIN view.rows : view.rows[i].rev >= k.startAt} |->
                             view.rows[id]]
  OBVIOUS
<1>2. r = [rev |-> IF view.rev >= k.startAt THEN view.rev ELSE 0, rows |-> rows]
  BY <1>1 DEF Result
<1>3. /\ \A id : id \in DOMAIN rows
                 <=> id \in DOMAIN view.rows /\ view.rows[id].rev >= k.startAt
      /\ \A id : id \in DOMAIN rows => rows[id] = view.rows[id]
      /\ rows = [id \in DOMAIN rows |-> rows[id]]
  BY <1>1
<1>4. rows \in ServerRows
  <2>1. DOMAIN view.rows \subseteq Id /\ \A id \in DOMAIN view.rows : view.rows[id] \in Row
    BY VersionFields, ServerRowsIs
  <2>2. DOMAIN rows \subseteq Id /\ \A id \in DOMAIN rows : rows[id] \in Row
    BY <2>1, <1>3
  <2> QED BY <2>2, <1>3, ServerRowsIs
<1> QED BY <1>2, <1>3, <1>4

LEMMA DiffIs ==
    ASSUME NEW k \in Store, NEW view \in Version, NEW t \in Tables
    PROVE  IsDiff(generateDiff_(k, Result(k, view).rows, t), k, view, t)
<1>1. PICK r : r = Result(k, view) OBVIOUS
<1>2. /\ r.rows \in ServerRows
      /\ \A id : id \in DOMAIN r.rows
                 <=> id \in DOMAIN view.rows /\ view.rows[id].rev >= k.startAt
      /\ \A id : id \in DOMAIN r.rows => r.rows[id] = view.rows[id]
  BY <1>1, ResultIs
<1>3. PICK gone : gone = UNION {k.removedRows[u] : u \in Tables} OBVIOUS
<1>4. PICK rows : rows = Restrict(r.rows, DOMAIN r.rows \ gone) OBVIOUS
<1>5. /\ \A id : id \in DOMAIN rows <=> id \in DOMAIN r.rows /\ id \notin gone
      /\ \A id : id \in DOMAIN rows => rows[id] = r.rows[id]
      /\ rows = [id \in DOMAIN rows |-> rows[id]]
  BY <1>4 DEF Restrict
<1>6. rows \in ServerRows
  <2>1. DOMAIN r.rows \subseteq Id /\ \A id \in DOMAIN r.rows : r.rows[id] \in Row
    BY <1>2, ServerRowsIs
  <2>2. DOMAIN rows \subseteq Id /\ \A id \in DOMAIN rows : rows[id] \in Row
    BY <2>1, <1>5
  <2> QED BY <2>2, <1>5, ServerRowsIs
<1>7. PICK put : put = RowsOf(rows, t) OBVIOUS
<1>8. put \in TableRows BY <1>6, <1>7, RowsOfTyped
<1>9. IsRowsOf(put, rows, t) BY <1>7, RowsOfIs
<1>10. PICK deleted : deleted = k.removedRows[t] \cap DOMAIN k.tables[t] OBVIOUS
<1>11. generateDiff_(k, r.rows, t) = [deleted |-> deleted, put |-> put]
  BY <1>3, <1>4, <1>7, <1>10 DEF generateDiff_
<1>12. deleted \in SUBSET Id BY <1>10, StoreFields
<1>13. PICK d : d = [deleted |-> deleted, put |-> put] OBVIOUS
<1>14. d \in Diff /\ d.put = put /\ d.deleted = deleted BY <1>8, <1>12, <1>13 DEF Diff
<1>15. \A id : id \in gone <=> \E u \in Tables : id \in k.removedRows[u] BY <1>3
<1>16. ASSUME NEW id PROVE id \in DOMAIN put <=> Comes(k, view, t, id)
  <2>1. id \in DOMAIN put <=> id \in DOMAIN rows /\ rows[id].table = t BY <1>9 DEF IsRowsOf
  <2> QED BY <2>1, <1>2, <1>5, <1>15 DEF Comes
<1>17. ASSUME NEW id, id \in DOMAIN put PROVE put[id] = view.rows[id].value
  <2>1. id \in DOMAIN rows /\ put[id] = rows[id].value BY <1>9, <1>17 DEF IsRowsOf
  <2> QED BY <2>1, <1>2, <1>5
<1>18. \A id : id \in deleted <=> Goes(k, t, id) BY <1>10 DEF Goes
<1>19. IsDiff(d, k, view, t) BY <1>14, <1>16, <1>17, <1>18 DEF IsDiff
<1> QED BY <1>19, <1>11, <1>13, <1>1

LEMMA OnChangeNothing ==
    ASSUME NEW k \in Store, NEW view \in Version, ~Heeds(k, view)
    PROVE  onChange_(k, Result(k, view)) = k
<1>1. PICK r : r = Result(k, view) OBVIOUS
<1>2. r.rev = IF view.rev >= k.startAt THEN view.rev ELSE 0 BY <1>1, ResultIs
<1>3. r.rev \in {0, k.revision} BY <1>2 DEF Heeds
<1> QED BY <1>1, <1>3 DEF onChange_

LEMMA OnChangeIs ==
    ASSUME NEW k \in Store, NEW view \in Version, Heeds(k, view)
    PROVE  IsChange(onChange_(k, Result(k, view)), k, view)
<1>0. view.rev \in Nat BY VersionFields
<1>1. PICK r : r = Result(k, view) OBVIOUS
<1>2. r.rev = view.rev BY <1>1, ResultIs DEF Heeds
<1>3. r.rev \notin {0, k.revision} BY <1>2 DEF Heeds
<1>4. PICK all : all = [t \in Tables |-> generateDiff_(k, r.rows, t)] OBVIOUS
<1>5. DOMAIN all = Tables /\ \A t \in Tables : IsDiff(all[t], k, view, t)
  BY <1>1, <1>4, DiffIs
<1>6. PICK ts : ts = {t \in Tables : ~isEmpty(all[t])} OBVIOUS
<1>7. PICK diffs : diffs = Restrict(all, ts) OBVIOUS
<1>8. ts \subseteq Tables /\ \A t \in Tables : t \notin ts <=> isEmpty(all[t]) BY <1>6
<1>9. DOMAIN diffs = ts /\ (\A t \in ts : diffs[t] = all[t])
      /\ diffs = [t \in DOMAIN diffs |-> diffs[t]]
  BY <1>5, <1>7, <1>8 DEF Restrict
<1>10. PICK tables : tables = [t \in Tables |-> Changed(k.tables[t], all[t].put, all[t].deleted)]
  OBVIOUS
<1>11. PICK tasks : tasks = IF diffs = None THEN k.tasks ELSE Append(k.tasks, diffs) OBVIOUS
<1>12. PICK h : h = [revision |-> view.rev, tables |-> tables,
                     removedRows |-> [t \in Tables |-> {}], startAt |-> view.rev + 1,
                     tasks |-> tasks]
  OBVIOUS
<1>13. onChange_(k, r) = h
  <2>1. onChange_(k, r) = listen_([k EXCEPT !.revision = r.rev,
            !.tables = tables, !.tasks = tasks])
    BY <1>3, <1>4, <1>6, <1>7, <1>10, <1>11 DEF onChange_
  <2>2. PICK k2 : k2 = [k EXCEPT !.revision = r.rev, !.tables = tables, !.tasks = tasks]
    OBVIOUS
  <2>3. k2 = [revision |-> view.rev, tables |-> tables, removedRows |-> k.removedRows,
              startAt |-> k.startAt, tasks |-> tasks]
    BY <2>2, <1>2 DEF Store
  <2>4. listen_(k2) = h
    <3>1. k2.revision = view.rev BY <2>3
    <3>2. PICK none : none = [t \in Tables |-> {}] OBVIOUS
    <3>3. listen_(k2) = [k2 EXCEPT !.removedRows = none, !.startAt = view.rev + 1]
      BY <3>1, <3>2 DEF listen_
    <3>4. h = [revision |-> view.rev, tables |-> tables, removedRows |-> none,
               startAt |-> view.rev + 1, tasks |-> tasks]
      BY <1>12, <3>2
    <3> QED BY ONLY <2>3, <3>3, <3>4
  <2> QED BY <2>1, <2>2, <2>4
<1>14. \A t \in Tables : all[t] \in Diff /\ all[t].put \in TableRows /\ all[t].deleted \in SUBSET Id
  BY <1>5 DEF IsDiff, Diff
<1>15. diffs \in Task
  <2>1. DOMAIN diffs \subseteq Tables /\ \A t \in DOMAIN diffs : diffs[t] \in Diff
    BY <1>8, <1>9, <1>14
  <2> QED BY <2>1, <1>9, TaskIs
<1>16. \A t \in Tables : tables[t] = Changed(k.tables[t], all[t].put, all[t].deleted)
  BY <1>10
<1>17. tables \in [Tables -> TableRows]
  <2>1. \A t \in Tables : tables[t] \in TableRows
    <3> TAKE t \in Tables
    <3>1. k.tables[t] \in TableRows BY StoreFields
    <3>2. Changed(k.tables[t], all[t].put, all[t].deleted) \in TableRows
      BY <3>1, <1>14, ChangedTyped
    <3> QED BY <3>2, <1>16
  <2>2. tables = [t \in Tables |-> tables[t]] BY <1>10
  <2> QED BY <2>1, <2>2
<1>18. tasks \in Seq(Task) BY <1>11, <1>15, StoreFields
<1>19. h \in Store
  <2>1. [t \in Tables |-> {}] \in [Tables -> SUBSET Id] OBVIOUS
  <2> QED BY <2>1, <1>0, <1>12, <1>17, <1>18 DEF Store
<1>20. ASSUME NEW t \in Tables, NEW id PROVE RowAfter(h.tables[t], k, view, t, id)
  <2>1. IsChanged(tables[t], k.tables[t], all[t].put, all[t].deleted)
    BY <1>16, ChangedIs
  <2>2. IsDiff(all[t], k, view, t) BY <1>5
  <2>3. /\ id \in DOMAIN all[t].put <=> Comes(k, view, t, id)
        /\ id \in DOMAIN all[t].put => all[t].put[id] = view.rows[id].value
        /\ id \in all[t].deleted <=> Goes(k, t, id)
    BY ONLY <2>2 DEF IsDiff
  <2>4. /\ id \in DOMAIN tables[t] <=>
              id \in DOMAIN all[t].put \/ (id \in DOMAIN k.tables[t] /\ id \notin all[t].deleted)
        /\ id \in DOMAIN all[t].put => tables[t][id] = all[t].put[id]
        /\ id \in DOMAIN k.tables[t] /\ id \notin all[t].deleted /\ id \notin DOMAIN all[t].put
              => tables[t][id] = k.tables[t][id]
    BY ONLY <2>1 DEF IsChanged
  <2>5. h.tables = tables BY <1>12
  <2> QED BY ONLY <2>3, <2>4, <2>5 DEF RowAfter, SameAt
<1>21. ASSUME NEW t \in Tables, t \notin ts, NEW id
       PROVE  ~Comes(k, view, t, id) /\ ~Goes(k, t, id)
  <2>1. all[t].deleted = {} /\ DOMAIN all[t].put = {} BY <1>8, <1>21 DEF isEmpty
  <2>2. IsDiff(all[t], k, view, t) BY <1>5
  <2>3. /\ id \in DOMAIN all[t].put <=> Comes(k, view, t, id)
        /\ id \in all[t].deleted <=> Goes(k, t, id)
    BY ONLY <2>2 DEF IsDiff
  <2> QED BY <2>1, <2>3
<1>22. IsTaskFor(diffs, k, view)
  BY <1>5, <1>8, <1>9, <1>15, <1>21 DEF IsTaskFor
<1>23. \/ /\ h.tasks = k.tasks
          /\ \A t \in Tables : \A id : ~Comes(k, view, t, id) /\ ~Goes(k, t, id)
       \/ \E d : IsTaskFor(d, k, view) /\ h.tasks = Append(k.tasks, d)
  <2>0. h.tasks = tasks BY <1>12
  <2>1. CASE diffs = None
    <3>1. ts = {} BY <2>1, <1>9, NoneIs
    <3>2. \A t \in Tables : \A id : ~Comes(k, view, t, id) /\ ~Goes(k, t, id)
      BY <3>1, <1>21
    <3> QED BY <2>0, <2>1, <3>2, <1>11
  <2>2. CASE diffs # None
    <3>1. h.tasks = Append(k.tasks, diffs) BY <2>0, <2>2, <1>11
    <3> QED BY <3>1, <1>22
  <2> QED BY <2>1, <2>2
<1>24. /\ h.revision = view.rev /\ h.startAt = view.rev + 1
       /\ \A t \in Tables : h.removedRows[t] = {}
  BY <1>12
<1>25. IsChange(h, k, view) BY ONLY <1>19, <1>20, <1>23, <1>24 DEF IsChange
<1> QED BY <1>25, <1>13, <1>1

\* Handlers keep the type.
LEMMA OnChangeTyped ==
    ASSUME NEW k \in Store, NEW view \in Version
    PROVE  onChange_(k, Result(k, view)) \in Store
<1>1. CASE Heeds(k, view) BY <1>1, OnChangeIs DEF IsChange
<1>2. CASE ~Heeds(k, view) BY <1>2, OnChangeNothing
<1> QED BY <1>1, <1>2

\* The result of a query depends on where it starts.
LEMMA ResultSame ==
    ASSUME NEW k, NEW h, h.startAt = k.startAt, NEW view
    PROVE  Result(h, view) = Result(k, view)
BY DEF Result

LEMMA EventsIs ==
    ASSUME NEW k \in Store, NEW before \in Version, NEW after \in Version
    PROVE  \E h : /\ IsRemoved(h, k, before, after)
                  /\ Events(k, before, after) =
                        IF Result(k, before) = Result(k, after) THEN h
                        ELSE onChange_(h, Result(h, after))
<1>1. PICK h : h = onRemoved_(k, before, after) OBVIOUS
<1>2. IsRemoved(h, k, before, after) BY <1>1, OnRemovedIs
<1>3. Result(h, after) = Result(k, after) BY <1>2, ResultSame DEF IsRemoved
<1> QED BY <1>1, <1>2, <1>3 DEF Events

LEMMA EventsTyped ==
    ASSUME NEW k \in Store, NEW before \in Version, NEW after \in Version
    PROVE  Events(k, before, after) \in Store
<1>1. PICK h : /\ IsRemoved(h, k, before, after)
               /\ Events(k, before, after) =
                     IF Result(k, before) = Result(k, after) THEN h
                     ELSE onChange_(h, Result(h, after))
  BY EventsIs
<1>2. h \in Store BY <1>1 DEF IsRemoved
<1>3. onChange_(h, Result(h, after)) \in Store BY <1>2, OnChangeTyped
<1> QED BY <1>1, <1>2, <1>3

-----------------------------------------------------------------------------
(* What the steps do.                                                      *)

LEMMA WritersAreClients == Writers \subseteq Clients
BY FirebaseAssumption

\* What the type says of a client.
Typed(c) ==
    /\ status[c] \in {"closed", "loading", "ready"}
    /\ loaded[c] \subseteq Tables /\ listening[c] \in BOOLEAN /\ at[c] \in Nat
    /\ store[c] \in Store /\ cache[c] \in [Tables -> TableRows] /\ nextId[c] \in Nat
    /\ sent[c] \in Seq(Update) /\ missed[c] \in SUBSET (Tables \X Id)
    /\ begun[c] \in SUBSET SUBSET Tables /\ overtaken[c] \in SUBSET Tables

LEMMA ClientTyped ==
    ASSUME TypeInv, NEW c \in Clients
    PROVE  Typed(c)
BY DEF TypeInv, Typed

\* The variables of the clients are functions, before and after a step.
AreFunctions(s, l, li, a, st, ca, n, b, se, m, o) ==
    /\ s \in [Clients -> {"closed", "loading", "ready"}]
    /\ l \in [Clients -> SUBSET Tables]
    /\ li \in [Clients -> BOOLEAN]
    /\ a \in [Clients -> Nat]
    /\ st \in [Clients -> Store]
    /\ ca \in [Clients -> [Tables -> TableRows]]
    /\ n \in [Clients -> Nat]
    /\ b \in [Clients -> SUBSET SUBSET Tables]
    /\ se \in [Clients -> Seq(Update)]
    /\ m \in [Clients -> SUBSET (Tables \X Id)]
    /\ o \in [Clients -> SUBSET Tables]

ClientsTyped ==
    AreFunctions(status, loaded, listening, at, store, cache, nextId, begun, sent, missed,
                 overtaken)

\* The global variables.
Globals ==
    /\ server \in Seq(Version) /\ Len(server) >= 1
    /\ outOfStep \in BOOLEAN /\ updates \in Nat /\ crashes \in Nat

LEMMA TypeIs == TypeInv <=> Globals /\ ClientsTyped
BY DEF TypeInv, Globals, ClientsTyped, AreFunctions

\* Versions.
LEMMA VersionsTyped ==
    ASSUME Globals
    PROVE  /\ Len(server) \in Nat /\ DOMAIN server = 1 .. Len(server)
           /\ \A v \in 1 .. Len(server) : server[v] \in Version
           /\ Len(server) \in 1 .. Len(server)
           /\ Now = server[Len(server)] /\ Now \in Version
BY DEF Globals, Now

LEMMA HearIs ==
    ASSUME NEW c \in Clients, NEW k \in Store, NEW before \in Version, NEW after \in Version,
           Hear(c, k, before, after)
    PROVE  \E h : Told(c, k, before, after, h)
<1>1. PICK h : h = IF listening[c] THEN Events(k, before, after) ELSE k OBVIOUS
<1>2. h \in Store BY <1>1, EventsTyped
<1> QED BY <1>1, <1>2 DEF Hear, Told

\* Rows that are gone.
LEMMA GoneTyped ==
    ASSUME NEW tables, NEW version
    PROVE  /\ Gone(tables, version) \subseteq Tables \X Id
           /\ \A t \in Tables : \A id \in Id :
                 <<t, id>> \in Gone(tables, version)
                 <=> id \in DOMAIN tables[t] /\ id \notin DOMAIN RowsOf(version.rows, t)
BY DEF Gone, Id

-----------------------------------------------------------------------------
(* Each step, in terms of what it leaves.                                  *)

LEMMA NewStoreTyped ==
    ASSUME NEW r \in Nat \cup {-1}
    PROVE  /\ NewStore(r) \in Store
           /\ NewStore(r).revision = r /\ NewStore(r).tasks = <<>>
           /\ \A t \in Tables : NewStore(r).tables[t] = None /\ NewStore(r).removedRows[t] = {}
<1>1. NoRows \in [Tables -> TableRows] BY NoneIs DEF NoRows
<1>2. [t \in Tables |-> {}] \in [Tables -> SUBSET Id] OBVIOUS
<1>3. <<>> \in Seq(Task) OBVIOUS
<1>4. \A t \in Tables : NoRows[t] = None BY DEF NoRows
<1> QED BY <1>1, <1>2, <1>3, <1>4 DEF NewStore, Store

LEMMA ConnectIs ==
    ASSUME TypeInv, NEW c \in Clients, Connect(c)
    PROVE  IsConnect(c) /\ TypeInv'
<1>1. Globals /\ ClientsTyped BY TypeIs
<1>2. Now.rev \in Nat BY <1>1, VersionsTyped, VersionFields
<1>3. NewStore(Now.rev) \in Store BY <1>2, NewStoreTyped
<1>4. /\ status[c] = "closed"
      /\ status' = [status EXCEPT ![c] = "loading"]
      /\ loaded' = [loaded EXCEPT ![c] = {}]
      /\ store' = [store EXCEPT ![c] = NewStore(Now.rev)]
      /\ missed' = [missed EXCEPT ![c] = {}]
      /\ overtaken' = [overtaken EXCEPT ![c] = {}]
      /\ server' = server /\ listening' = listening /\ at' = at /\ cache' = cache
      /\ nextId' = nextId /\ sent' = sent /\ begun' = begun /\ outOfStep' = outOfStep
      /\ updates' = updates /\ crashes' = crashes
  BY DEF Connect, memory, writing
<1>5. ClientsTyped' BY <1>1, <1>3, <1>4 DEF ClientsTyped, AreFunctions
<1>6. Globals' BY <1>1, <1>4 DEF Globals
<1>7. TypeInv' BY <1>5, <1>6 DEF TypeInv, Globals, ClientsTyped, AreFunctions
<1>8. OthersStay(c) BY <1>1, <1>4 DEF OthersStay, ClientsTyped, AreFunctions
<1> QED BY <1>1, <1>4, <1>7, <1>8 DEF IsConnect, ServerStays, ClientsTyped, AreFunctions

LEMMA ReloadIs ==
    ASSUME TypeInv, NEW c \in Clients, NEW t \in Tables, reloadTable(c, t)
    PROVE  IsReload(c, t) /\ TypeInv'
<1>1. Globals /\ ClientsTyped BY TypeIs
<1>2. Now.rows \in ServerRows BY <1>1, VersionsTyped, VersionFields
<1>3. RowsOf(Now.rows, t) \in TableRows BY <1>2, RowsOfTyped
<1>4. PICK k : k = [store[c] EXCEPT !.tables[t] = RowsOf(Now.rows, t)] OBVIOUS
<1>5. store[c] \in Store /\ store[c].tables \in [Tables -> TableRows]
  BY <1>1, StoreFields DEF ClientsTyped, AreFunctions
<1>6. /\ k \in Store /\ k.tables[t] = RowsOf(Now.rows, t)
      /\ \A u \in Tables : u # t => k.tables[u] = store[c].tables[u]
      /\ k.revision = store[c].revision /\ k.removedRows = store[c].removedRows
      /\ k.tasks = store[c].tasks
  BY <1>3, <1>4, <1>5 DEF Store
<1>7. /\ status[c] = "loading" /\ t \notin loaded[c]
      /\ loaded' = [loaded EXCEPT ![c] = loaded[c] \cup {t}]
      /\ store' = [store EXCEPT ![c].tables[t] = RowsOf(Now.rows, t)]
      /\ server' = server /\ listening' = listening /\ at' = at /\ cache' = cache
      /\ nextId' = nextId /\ sent' = sent /\ outOfStep' = outOfStep /\ missed' = missed
      /\ begun' = begun /\ overtaken' = overtaken
      /\ updates' = updates /\ crashes' = crashes /\ status' = status
  BY <1>1 DEF reloadTable, memory, writing, history, ClientsTyped, AreFunctions
<1>8. store' = [store EXCEPT ![c] = k] BY <1>4, <1>7
<1>9. ClientsTyped'
  <2>1. k \in Store /\ loaded[c] \cup {t} \subseteq Tables
    BY <1>1, <1>6 DEF ClientsTyped, AreFunctions
  <2>2. /\ loaded' = [loaded EXCEPT ![c] = loaded[c] \cup {t}]
        /\ listening' = listening /\ at' = at /\ cache' = cache
        /\ nextId' = nextId /\ sent' = sent /\ missed' = missed
        /\ begun' = begun /\ overtaken' = overtaken /\ status' = status
    BY <1>7
  <2> QED BY <1>1, <1>8, <2>1, <2>2 DEF ClientsTyped, AreFunctions
<1>10. Globals' BY <1>1, <1>7 DEF Globals
<1>11. TypeInv' BY <1>9, <1>10 DEF TypeInv, Globals, ClientsTyped, AreFunctions
<1>12. OthersStay(c) BY <1>1, <1>7, <1>8 DEF OthersStay, ClientsTyped, AreFunctions
<1>13. store'[c] = k BY <1>1, <1>8 DEF ClientsTyped, AreFunctions
<1> QED BY <1>1, <1>6, <1>7, <1>11, <1>12, <1>13
        DEF IsReload, ServerStays, LocksStay, ClientsTyped, AreFunctions

LEMMA InitRowIdIs ==
    ASSUME NEW tables \in [Tables -> TableRows]
    PROVE  /\ initRowId_(tables) \in Nat /\ initRowId_(tables) >= 1
           /\ \A t \in Tables : \A id \in DOMAIN tables[t] : id < initRowId_(tables)
<1> DEFINE U == UNION {DOMAIN tables[t] : t \in Tables}
           S == {0} \cup U
<1>6. initRowId_(tables) = Max(S) + 1 BY DEF initRowId_
<1>1. \A y : y \in U <=> \E t \in Tables : y \in DOMAIN tables[t] OBVIOUS
<1> HIDE DEF U
<1>2. \A t \in Tables : DOMAIN tables[t] \subseteq Id BY TableRowsIs
<1>3. MaxRowId \in Nat BY FirebaseAssumption
<1>10. 0 \in S /\ \A y \in S : y # 0 => \E t \in Tables : y \in DOMAIN tables[t]
  BY <1>1
<1>11. \A t \in Tables : \A id \in DOMAIN tables[t] : id \in S BY <1>1
<1> HIDE DEF S
<1>4. S \subseteq 0 .. MaxRowId /\ S # {}
  <2>1. ASSUME NEW y \in S PROVE y \in 0 .. MaxRowId
    <3>1. CASE y = 0 BY <3>1, <1>3
    <3>2. CASE y # 0
      <4>1. PICK t \in Tables : y \in DOMAIN tables[t] BY <3>2, <2>1, <1>10
      <4> QED BY <4>1, <1>2, <1>3 DEF Id
    <3> QED BY <3>1, <3>2
  <2> QED BY <2>1, <1>10
<1>5. Max(S) \in S /\ \A y \in S : Max(S) >= y BY <1>3, <1>4, MaxIs
<1>7. Max(S) \in Nat
  <2>1. PICK x \in S : x = Max(S) BY <1>5
  <2>2. x \in 0 .. MaxRowId BY <2>1, <1>4
  <2> QED BY <2>1, <2>2, <1>3
<1>8. ASSUME NEW t \in Tables, NEW id \in DOMAIN tables[t] PROVE id \in S /\ id \in Nat
  <2>1. id \in S BY <1>11
  <2> QED BY <2>1, <1>3, <1>4
<1>9. ASSUME NEW t \in Tables, NEW id \in DOMAIN tables[t] PROVE id < Max(S) + 1
  <2>1. id \in S /\ id \in Nat BY <1>8
  <2>2. Max(S) >= id BY <2>1, <1>5
  <2> QED BY <2>1, <2>2, <1>7
<1> QED BY <1>6, <1>7, <1>9

LEMMA LoadedIs ==
    ASSUME TypeInv, NEW c \in Clients, Loaded(c)
    PROVE  IsLoaded(c) /\ TypeInv'
<1>1. Globals /\ ClientsTyped BY TypeIs
<1>2. store[c] \in Store /\ store[c].tables \in [Tables -> TableRows]
      /\ store[c].revision \in Nat \cup {-1}
  BY <1>1 DEF ClientsTyped, AreFunctions, Store
<1>3. PICK k : k = listen_(store[c]) OBVIOUS
<1>4. PICK none : none = [t \in Tables |-> {}] OBVIOUS
<1>5. none \in [Tables -> SUBSET Id] /\ \A t \in Tables : none[t] = {} BY <1>4
<1>6. k = [store[c] EXCEPT !.removedRows = none, !.startAt = store[c].revision + 1]
  BY <1>3, <1>4 DEF listen_
<1>7. /\ k \in Store /\ k.revision = store[c].revision /\ k.tables = store[c].tables
      /\ k.startAt = store[c].revision + 1 /\ k.tasks = store[c].tasks
      /\ k.removedRows = none
  <2>1. PICK s : s = store[c] OBVIOUS
  <2>2. s = [revision |-> s.revision, tables |-> s.tables, removedRows |-> s.removedRows,
             startAt |-> s.startAt, tasks |-> s.tasks]
    BY <1>2, <2>1, StoreFields
  <2>3. k = [revision |-> s.revision, tables |-> s.tables, removedRows |-> none,
             startAt |-> s.revision + 1, tasks |-> s.tasks]
    BY ONLY <2>1, <2>2, <1>6
  <2>4. s.tables \in [Tables -> TableRows] /\ s.tasks \in Seq(Task)
        /\ s.revision \in Nat \cup {-1} /\ s.revision + 1 \in Int
    BY <1>2, <2>1, StoreFields
  <2> QED BY <2>1, <2>3, <2>4, <1>5 DEF Store
<1>8. PICK n : n = initRowId_(store[c].tables) OBVIOUS
<1>9. n \in Nat /\ n >= 1 /\ \A t \in Tables : \A id \in DOMAIN store[c].tables[t] : id < n
  BY <1>2, <1>8, InitRowIdIs
<1>10. /\ status[c] = "loading" /\ loaded[c] = Tables
       /\ status' = [status EXCEPT ![c] = "ready"]
       /\ listening' = [listening EXCEPT ![c] = FALSE]
       /\ at' = [at EXCEPT ![c] = Len(server)]
       /\ store' = [store EXCEPT ![c] = k]
       /\ cache' = [cache EXCEPT ![c] = store[c].tables]
       /\ nextId' = [nextId EXCEPT ![c] = n]
       /\ server' = server /\ loaded' = loaded /\ sent' = sent /\ missed' = missed
       /\ begun' = begun /\ overtaken' = overtaken
       /\ outOfStep' = outOfStep /\ updates' = updates /\ crashes' = crashes
  BY <1>1, <1>3, <1>8 DEF Loaded, writing, history, ClientsTyped, AreFunctions
<1>11. Len(server) \in Nat BY <1>1, VersionsTyped
<1>12. ClientsTyped' BY <1>1, <1>2, <1>7, <1>9, <1>10, <1>11 DEF ClientsTyped, AreFunctions
<1>13. Globals' BY <1>1, <1>10 DEF Globals
<1>14. TypeInv' BY <1>12, <1>13 DEF TypeInv, Globals, ClientsTyped, AreFunctions
<1>15. OthersStay(c) BY <1>1, <1>10 DEF OthersStay, ClientsTyped, AreFunctions
<1>16. /\ status'[c] = "ready" /\ listening'[c] = FALSE /\ at'[c] = Len(server)
       /\ store'[c] = k /\ cache'[c] = store[c].tables /\ nextId'[c] = n
  BY <1>1, <1>10 DEF ClientsTyped, AreFunctions
<1> QED BY <1>5, <1>7, <1>9, <1>10, <1>14, <1>15, <1>16 DEF IsLoaded, ServerStays, LocksStay

LEMMA FirstDataIs ==
    ASSUME TypeInv, NEW c \in Clients, FirstData(c)
    PROVE  (\E view, k : IsFirstData(c, view, k)) /\ TypeInv'
<1>1. Globals /\ ClientsTyped BY TypeIs
<1>2. store[c] \in Store /\ sent[c] \in Seq(Update) /\ missed[c] \in SUBSET (Tables \X Id)
  BY <1>1 DEF ClientsTyped, AreFunctions
<1>3. Now \in Version /\ Len(server) \in Nat BY <1>1, VersionsTyped
<1>4. PICK view : view = View(Now, sent[c]) OBVIOUS
<1>5. view \in Version BY <1>2, <1>3, <1>4, ViewTyped
<1>6. PICK k : k = onChange_(store[c], Result(store[c], view)) OBVIOUS
<1>7. k \in Store BY <1>2, <1>5, <1>6, OnChangeTyped
<1>8. PICK m : m = missed[c] \cup Gone(k.tables, view) OBVIOUS
<1>9. m \in SUBSET (Tables \X Id) BY <1>2, <1>8, GoneTyped
<1>10. PICK b \in BOOLEAN : b = (k.startAt = store[c].startAt) OBVIOUS
<1>11. /\ status[c] = "ready" /\ ~listening[c]
       /\ at' = [at EXCEPT ![c] = Len(server)]
       /\ store' = [store EXCEPT ![c] = k]
       /\ listening' = [listening EXCEPT ![c] = b]
       /\ missed' = [missed EXCEPT ![c] = m]
       /\ server' = server /\ status' = status /\ loaded' = loaded /\ cache' = cache
       /\ nextId' = nextId /\ sent' = sent /\ begun' = begun /\ overtaken' = overtaken
       /\ outOfStep' = outOfStep /\ updates' = updates /\ crashes' = crashes
  BY <1>1, <1>4, <1>6, <1>8, <1>10 DEF FirstData, memory, writing, ClientsTyped, AreFunctions
<1>12. ClientsTyped' BY <1>1, <1>3, <1>7, <1>9, <1>10, <1>11 DEF ClientsTyped, AreFunctions
<1>13. Globals' BY <1>1, <1>11 DEF Globals
<1>14. TypeInv' BY <1>12, <1>13 DEF TypeInv, Globals, ClientsTyped, AreFunctions
<1>15. OthersStay(c) BY <1>1, <1>11 DEF OthersStay, ClientsTyped, AreFunctions
<1>16. /\ listening'[c] = b /\ at'[c] = Len(server) /\ store'[c] = k /\ missed'[c] = m
  BY <1>1, <1>11 DEF ClientsTyped, AreFunctions
<1>17. IsFirstData(c, view, k)
  BY <1>4, <1>5, <1>6, <1>7, <1>8, <1>10, <1>11, <1>15, <1>16 DEF IsFirstData, ServerStays, LocksStay
<1> QED BY <1>14, <1>17

LEMMA DeliverIs ==
    ASSUME TypeInv, NEW c \in Clients, at[c] \in 1 .. Len(server),
           NEW version \in at[c] + 1 .. Len(server), Deliver(c, version)
    PROVE  (\E before, after : IsDeliver(c, version, before, after)) /\ TypeInv'
<1>1. Globals /\ ClientsTyped BY TypeIs
<1>2. store[c] \in Store /\ sent[c] \in Seq(Update) /\ missed[c] \in SUBSET (Tables \X Id)
  BY <1>1 DEF ClientsTyped, AreFunctions
<1>3. Len(server) \in Nat /\ version \in 1 .. Len(server) /\ version \in Nat
  BY <1>1, VersionsTyped
<1>4. server[at[c]] \in Version /\ server[version] \in Version BY <1>1, <1>3, VersionsTyped
<1>5. PICK before : before = View(server[at[c]], sent[c]) OBVIOUS
<1>6. PICK after : after = View(server[version], sent[c]) OBVIOUS
<1>7. before \in Version /\ after \in Version BY <1>2, <1>4, <1>5, <1>6, ViewTyped
<1>8. Hear(c, store[c], before, after) BY <1>5, <1>6 DEF Deliver
<1>9. PICK h : Told(c, store[c], before, after, h) BY <1>2, <1>7, <1>8, HearIs
<1>10. PICK m : m = missed[c] \cup {r \in Gone(Contents(before.rows), after) :
                                        r[2] \in DOMAIN after.rows}
  OBVIOUS
<1>11. m \in SUBSET (Tables \X Id)
  <2>1. Gone(Contents(before.rows), after) \subseteq Tables \X Id BY GoneTyped
  <2> QED BY <1>2, <1>10, <2>1
<1>12. PICK b \in BOOLEAN : b = (listening[c] /\ h.startAt = store[c].startAt) OBVIOUS
<1>13. /\ h \in Store
       /\ h = IF listening[c] THEN Events(store[c], before, after) ELSE store[c]
       /\ store' = [store EXCEPT ![c] = h]
       /\ listening' = [listening EXCEPT ![c] = b]
  BY <1>9, <1>12 DEF Told
<1>14. /\ status[c] = "ready" /\ listening[c]
       /\ at' = [at EXCEPT ![c] = version]
       /\ missed' = [missed EXCEPT ![c] = m]
       /\ server' = server /\ status' = status /\ loaded' = loaded /\ cache' = cache
       /\ nextId' = nextId /\ sent' = sent /\ begun' = begun /\ overtaken' = overtaken
       /\ outOfStep' = outOfStep /\ updates' = updates /\ crashes' = crashes
  BY <1>1, <1>5, <1>6, <1>10 DEF Deliver, memory, writing, ClientsTyped, AreFunctions
<1>15. ClientsTyped' BY <1>1, <1>3, <1>11, <1>12, <1>13, <1>14 DEF ClientsTyped, AreFunctions
<1>16. Globals' BY <1>1, <1>14 DEF Globals
<1>17. TypeInv' BY <1>15, <1>16 DEF TypeInv, Globals, ClientsTyped, AreFunctions
<1>18. OthersStay(c) BY <1>1, <1>13, <1>14 DEF OthersStay, ClientsTyped, AreFunctions
<1>19. /\ listening'[c] = b /\ at'[c] = version /\ store'[c] = h /\ missed'[c] = m
  BY <1>1, <1>13, <1>14 DEF ClientsTyped, AreFunctions
<1>20. WasTold(c, store[c], before, after) BY <1>7, <1>12, <1>13, <1>19 DEF WasTold
<1>21. IsDeliver(c, version, before, after)
  BY <1>5, <1>6, <1>10, <1>14, <1>18, <1>19, <1>20 DEF IsDeliver, ServerStays, LocksStay
<1> QED BY <1>17, <1>21

LEMMA DiffFields ==
    ASSUME NEW diffs \in Task, NEW t \in DOMAIN diffs
    PROVE  t \in Tables /\ diffs[t].put \in TableRows /\ diffs[t].deleted \in SUBSET Id
BY TaskIs DEF Diff

LEMMA LockedIs ==
    ASSUME NEW c, sent[c] \in Seq(Update)
    PROVE  \A t : t \in Locked(c) <=> \/ \E s \in begun[c] : t \in s
                                      \/ \E j \in DOMAIN sent[c] : t \in sent[c][j].tables
BY DEF Locked, Range

LEMMA WaitingIs ==
    ASSUME NEW c, NEW n
    PROVE  \A t : t \in Waiting(c, n) <=> \E j \in 1 .. n : t \in DOMAIN store[c].tasks[j]
BY DEF Waiting, ScopeOf

LEMMA ExternalIs ==
    ASSUME TypeInv, NEW c \in Clients, NEW i \in DOMAIN store[c].tasks, ExternalChange(c, i)
    PROVE  IsExternal(c, i) /\ TypeInv'
<1>1. Globals /\ ClientsTyped BY TypeIs
<1>2. PICK k : k = store[c] OBVIOUS
<1>3. k \in Store /\ cache[c] \in [Tables -> TableRows] /\ sent[c] \in Seq(Update)
  BY <1>1, <1>2 DEF ClientsTyped, AreFunctions
<1>4. /\ k.revision \in Nat \cup {-1} /\ k.startAt \in Int
      /\ k.tables \in [Tables -> TableRows] /\ k.removedRows \in [Tables -> SUBSET Id]
      /\ k.tasks \in Seq(Task)
  BY <1>3 DEF Store
<1>5. i \in 1 .. Len(k.tasks) /\ k.tasks[i] \in Task BY <1>2, <1>4
<1>6. PICK diffs : diffs = k.tasks[i] OBVIOUS
<1>7. PICK tasks : tasks = RemoveAt(k.tasks, i) OBVIOUS
<1>8. tasks \in Seq(Task) BY <1>4, <1>5, <1>7, RemoveAtIs
<1>9. PICK h : h = [k EXCEPT !.tasks = tasks] OBVIOUS
<1>10. /\ h \in Store /\ h.tasks = tasks /\ h.tables = k.tables /\ h.revision = k.revision
       /\ h.removedRows = k.removedRows /\ h.startAt = k.startAt
  BY <1>3, <1>8, <1>9 DEF Store
<1>11. PICK ca : ca = [t \in Tables |-> IF t \in DOMAIN diffs
                        THEN Changed(cache[c][t], diffs[t].put, diffs[t].deleted)
                        ELSE cache[c][t]]
  OBVIOUS
<1>12. \A t \in Tables : Applied(ca[t], cache[c][t], diffs, t)
  BY <1>11, ChangedIs DEF Applied
<1>13. ca \in [Tables -> TableRows]
  <2>1. ASSUME NEW t \in Tables PROVE ca[t] \in TableRows
    <3>1. cache[c][t] \in TableRows BY <1>3
    <3>2. CASE t \in DOMAIN diffs
      <4>1. diffs[t].put \in TableRows BY <1>5, <1>6, <3>2, DiffFields
      <4>2. Changed(cache[c][t], diffs[t].put, diffs[t].deleted) \in TableRows
        BY <3>1, <4>1, ChangedTyped
      <4> QED BY <4>2, <3>2, <1>11
    <3>3. CASE t \notin DOMAIN diffs BY <3>1, <3>3, <1>11
    <3> QED BY <3>2, <3>3
  <2>2. ca = [t \in Tables |-> ca[t]] BY <1>11
  <2> QED BY <2>1, <2>2
<1>21. PICK late : late = overtaken[c] \cup (DOMAIN diffs \cap Waiting(c, i - 1)) OBVIOUS
<1>22. late \in SUBSET Tables
  <2>1. overtaken[c] \in SUBSET Tables BY <1>1 DEF ClientsTyped, AreFunctions
  <2>2. DOMAIN diffs \subseteq Tables BY <1>5, <1>6, TaskIs
  <2> QED BY <2>1, <2>2, <1>21
<1>14. /\ status[c] = "ready"
       /\ DOMAIN diffs \cap Locked(c) = {}
       /\ overtaken' = [overtaken EXCEPT ![c] = late]
       /\ begun' = begun
       /\ cache' = [cache EXCEPT ![c] = ca]
       /\ store' = [store EXCEPT ![c] = h]
       /\ server' = server /\ status' = status /\ loaded' = loaded
       /\ listening' = listening /\ at' = at
       /\ nextId' = nextId /\ sent' = sent /\ missed' = missed
       /\ outOfStep' = outOfStep /\ updates' = updates /\ crashes' = crashes
  BY <1>1, <1>2, <1>6, <1>7, <1>9, <1>11, <1>21
  DEF ExternalChange, connection, writing, ScopeOf, ClientsTyped, AreFunctions
<1>15. ClientsTyped' BY <1>1, <1>10, <1>13, <1>14, <1>22 DEF ClientsTyped, AreFunctions
<1>16. Globals' BY <1>1, <1>14 DEF Globals
<1>17. TypeInv' BY <1>15, <1>16 DEF TypeInv, Globals, ClientsTyped, AreFunctions
<1>18. OthersStay(c) BY <1>1, <1>14 DEF OthersStay, ClientsTyped, AreFunctions
<1>19. store'[c] = h /\ cache'[c] = ca
  BY <1>1, <1>14 DEF ClientsTyped, AreFunctions
<1>20. \A t \in DOMAIN diffs : \A j \in DOMAIN sent[c] : t \notin sent[c][j].tables
  BY <1>3, <1>14, LockedIs
<1>23. /\ overtaken'[c] = late /\ overtaken[c] \subseteq late
       /\ \A t \in DOMAIN diffs : t \notin late =>
             \A j \in 1 .. i - 1 : t \notin DOMAIN k.tasks[j]
  <2>1. overtaken'[c] = late BY <1>1, <1>14 DEF ClientsTyped, AreFunctions
  <2> QED BY <2>1, <1>2, <1>21, WaitingIs
<1> QED BY <1>2, <1>5, <1>6, <1>7, <1>10, <1>12, <1>14, <1>17, <1>18, <1>19, <1>20, <1>23
        DEF IsExternal, ServerStays

-----------------------------------------------------------------------------
(* Writing.                                                                *)

LEMMA KnownIdsIs ==
    ASSUME NEW c
    PROVE  \A id : id \in KnownIds(c) <=> \E t \in Tables : id \in DOMAIN cache[c][t]
BY DEF KnownIds

LEMMA CommitRows ==
    ASSUME TypeInv, NEW c \in Clients, NEW ins \in SUBSET Tables,
           NEW upd \in SUBSET KnownIds(c), NEW del \in SUBSET (KnownIds(c) \ upd),
           NEW v \in Nat, NEW order, NEW home, NEW new, NEW put, NEW tables,
           Finds(c, ins, upd, del, v, order, home, new, put, tables)
    PROVE  Len(order) \in Nat /\ Found(c, put, upd, tables, del, nextId[c] + Len(order), v)
<1> USE DEF Finds
<1>1. /\ nextId[c] \in Nat /\ cache[c] \in [Tables -> TableRows] /\ MaxRowId \in Nat
      /\ \A t \in Tables : cache[c][t] \in TableRows
  BY FirebaseAssumption DEF TypeInv
<1>2. IsFiniteSet(ins) BY FirebaseAssumption, FS_Subset
<1>3. order \in Seq(ins) /\ Range(order) = ins BY <1>2, SetToSeqIs
<1>4. Len(order) \in Nat /\ \A n \in 1 .. Len(order) : order[n] \in ins BY <1>3
<1>5. ASSUME NEW id \in KnownIds(c)
      PROVE  home[id] \in Tables /\ id \in DOMAIN cache[c][home[id]] /\ id \in Id
  <2>2. home[id] \in Tables /\ id \in DOMAIN cache[c][home[id]] OBVIOUS
  <2> QED BY <2>2, <1>1, TableRowsIs
<1> HIDE DEF Id
<1>6. DOMAIN new = nextId[c] .. nextId[c] + Len(order) - 1 OBVIOUS
<1>7. ASSUME NEW id \in DOMAIN new
      PROVE  /\ new[id].table \in ins /\ new[id].value = v
             /\ new[id] \in [table : Tables, value : Nat]
             /\ nextId[c] <= id /\ id < nextId[c] + Len(order) /\ id \in Id
  <2>1. id \in Int /\ nextId[c] <= id /\ id < nextId[c] + Len(order) BY <1>1, <1>4, <1>6
  <2>2. id - nextId[c] + 1 \in 1 .. Len(order) BY <2>1, <1>1, <1>4
  <2>3. new[id] = [table |-> order[id - nextId[c] + 1], value |-> v] OBVIOUS
  <2>4. order[id - nextId[c] + 1] \in ins BY <2>2, <1>4
  <2>5. id \in Id BY <2>1, <1>1, <1>4 DEF Id
  <2> QED BY <2>1, <2>3, <2>4, <2>5
<1>8. DOMAIN put = DOMAIN new \cup upd OBVIOUS
<1>9. ASSUME NEW id \in DOMAIN put
      PROVE  /\ id \in Id /\ put[id] \in [table : Tables, value : Nat]
             /\ put[id].table \in tables /\ put[id].value = v
             /\ \/ nextId[c] <= id /\ id < nextId[c] + Len(order)
                \/ id \in DOMAIN cache[c][put[id].table]
  <2>1. CASE id \in upd
    <3>1. put[id] = [table |-> home[id], value |-> v] BY <2>1
    <3>2. home[id] \in Tables /\ id \in DOMAIN cache[c][home[id]] /\ id \in Id
      BY <2>1, <1>5
    <3>3. home[id] \in tables BY <2>1
    <3> QED BY <3>1, <3>2, <3>3
  <2>2. CASE id \notin upd
    <3>1. id \in DOMAIN new /\ put[id] = new[id] BY <2>2, <1>8
    <3>2. ins \subseteq tables OBVIOUS
    <3> QED BY <3>1, <3>2, <1>7
  <2> QED BY <2>1, <2>2
<1>11. put \in NewRows BY <1>9, NewRowsIs
<1>12. tables \in SUBSET Tables
  BY <1>5
<1>13. del \in SUBSET Id BY <1>5
<1>14. ASSUME NEW id \in del
       PROVE  id \notin DOMAIN put \/ (nextId[c] <= id /\ id < nextId[c] + Len(order))
  <2>1. id \notin upd OBVIOUS
  <2> QED BY <2>1, <1>8, <1>7
<1>15. ASSUME NEW id \in del PROVE \E t \in tables : id \in DOMAIN cache[c][t]
  <2>1. home[id] \in tables OBVIOUS
  <2> QED BY <2>1, <1>5
<1>16. upd \in SUBSET Id BY <1>5
<1>17. \A id \in DOMAIN put : nextId[c] <= id \/ id \in upd BY <1>7, <1>8
<1> QED BY ONLY <1>1, <1>4, <1>9, <1>11, <1>12, <1>13, <1>14, <1>15, <1>16, <1>17 DEF Found

LEMMA CommitHasParts ==
    ASSUME TypeInv, NEW c \in Clients, NEW ins, NEW upd, NEW del, Commit(c, ins, upd, del)
    PROVE  \E order, home, new, put, tables, n, u, k :
              IsParts(c, ins, upd, del, order, home, new, put, tables, n, u, k)
<1> DEFINE order == SetToSeq(ins)
           home == [id \in KnownIds(c) |-> CHOOSE t \in Tables : id \in DOMAIN cache[c][t]]
           n == nextId[c] + Len(order)
           new == [id \in nextId[c] .. nextId[c] + Len(order) - 1 |->
                           [table |-> order[id - nextId[c] + 1], value |-> updates + 1]]
           put == [id \in DOMAIN new \cup upd |->
                           IF id \in upd THEN [table |-> CHOOSE t \in Tables : id \in DOMAIN cache[c][t],
                                               value |-> updates + 1]
                           ELSE new[id]]
           tables == ins \cup {CHOOSE t \in Tables : id \in DOMAIN cache[c][t] : id \in upd \cup del}
           u == [rev |-> store[c].revision + 1, put |-> put, gone |-> del, tables |-> tables,
                      before |-> [t \in tables |-> cache[c][t]], answer |-> "none",
                      version |-> 0]
           k == [store[c] EXCEPT !.revision = store[c].revision + 1,
                         !.tables = [t \in Tables |->
                                        Changed(store[c].tables[t], RowsOf(put, t), del)]]
<1>1. status[c] = "ready" /\ tables \in begun[c] BY DEF Commit
<1>2. begun' = [begun EXCEPT ![c] = begun[c] \ {tables}] BY DEF Commit, TypeInv
<1>11. overtaken' = [overtaken EXCEPT ![c] =
                        overtaken[c] \cup (tables \cap Waiting(c, Len(store[c].tasks)))]
  BY DEF Commit, TypeInv
<1>3. n <= MaxRowId + 1 BY DEF Commit
<1>4. nextId' = [nextId EXCEPT ![c] = n] BY DEF Commit, TypeInv
<1>5. cache' = [cache EXCEPT ![c] = [t \in Tables |-> Changed(cache[c][t], RowsOf(put, t), del)]]
  BY DEF Commit, TypeInv
<1>6. sent' = [sent EXCEPT ![c] = Append(sent[c], u)] BY DEF Commit, TypeInv
<1>7. Hear(c, k, View(server[at[c]], sent[c]), View(server[at[c]], sent'[c])) BY DEF Commit
<1>8. updates' = updates + 1
    /\ server' = server /\ status' = status /\ loaded' = loaded /\ at' = at
    /\ outOfStep' = outOfStep /\ crashes' = crashes
  BY DEF Commit
<1>12. missed' = [missed EXCEPT ![c] = missed[c] \cup
                     (Tables \X (upd \ DOMAIN View(server[at[c]], sent[c]).rows))]
  BY DEF Commit, TypeInv
<1>9. CommitParts(c, ins, upd, del, put, tables, n, u, k)
  <2> HIDE DEF n, put, tables, u, k
  <2> QED BY ONLY <1>1, <1>2, <1>3, <1>4, <1>5, <1>6, <1>7, <1>8, <1>11, <1>12
      DEF CommitParts
<1>10. IsParts(c, ins, upd, del, order, home, new, put, tables, n, u, k)
  BY ONLY <1>9 DEF IsParts
<1> HIDE DEF order, home, new, put, tables, n, u, k
<1> QED BY ONLY <1>10

LEMMA CommitIs ==
    ASSUME TypeInv, ClientInv, BegunInv, NEW c \in Clients, NEW ins \in SUBSET Tables,
           NEW upd \in SUBSET KnownIds(c), NEW del \in SUBSET (KnownIds(c) \ upd),
           Commit(c, ins, upd, del)
    PROVE  (\E u, k, before, after : IsCommit(c, u, k, before, after)) /\ TypeInv'
<1>1. Globals /\ ClientsTyped BY TypeIs
<1>2. PICK order, home, new, put, tables, n, u, k :
          IsParts(c, ins, upd, del, order, home, new, put, tables, n, u, k)
  BY CommitHasParts
<1>3. CommitParts(c, ins, upd, del, put, tables, n, u, k) BY <1>2 DEF IsParts
<1>4. /\ status[c] = "ready" /\ tables \in begun[c]
      /\ n <= MaxRowId + 1
  BY <1>3 DEF CommitParts
<1>5. nextId[c] >= 1 BY <1>4 DEF ClientInv, ClientOK
<1>6. /\ store[c] \in Store /\ cache[c] \in [Tables -> TableRows] /\ sent[c] \in Seq(Update)
      /\ updates \in Nat /\ nextId[c] \in Nat /\ at[c] \in 1 .. Len(server)
      /\ store[c].revision \in Nat \cup {-1} /\ store[c].tables \in [Tables -> TableRows]
      /\ store[c].removedRows \in [Tables -> SUBSET Id] /\ store[c].startAt \in Int
      /\ store[c].tasks \in Seq(Task)
  BY <1>1 DEF Globals, ClientsTyped, AreFunctions, ClientInv, ClientOK, Store
<1>7. order = SetToSeq(ins) /\ n = nextId[c] + Len(order) BY <1>2 DEF IsParts
<1>8. \A id \in KnownIds(c) :
         home[id] = (CHOOSE t \in Tables : id \in DOMAIN cache[c][t])
  BY <1>2 DEF IsParts
<1>9. \A id \in KnownIds(c) : home[id] \in Tables /\ id \in DOMAIN cache[c][home[id]]
  <2> TAKE id \in KnownIds(c)
  <2>1. \E t \in Tables : id \in DOMAIN cache[c][t] BY KnownIdsIs
  <2> QED BY <2>1, <1>8
<1>10. /\ DOMAIN new = nextId[c] .. nextId[c] + Len(order) - 1
       /\ \A id \in DOMAIN new :
             new[id] = [table |-> order[id - nextId[c] + 1], value |-> updates + 1]
  <2>1. new = [id \in nextId[c] .. nextId[c] + Len(order) - 1 |->
                 [table |-> order[id - nextId[c] + 1], value |-> updates + 1]]
    BY <1>2 DEF IsParts
  <2> QED BY ONLY <2>1
<1>11. /\ DOMAIN put = DOMAIN new \cup upd /\ put = [id \in DOMAIN put |-> put[id]]
       /\ \A id \in DOMAIN put :
             put[id] = IF id \in upd
                       THEN [table |-> CHOOSE t \in Tables : id \in DOMAIN cache[c][t],
                             value |-> updates + 1]
                       ELSE new[id]
  <2>1. put = [id \in DOMAIN new \cup upd |->
                 IF id \in upd THEN [table |-> CHOOSE t \in Tables : id \in DOMAIN cache[c][t],
                                     value |-> updates + 1]
                 ELSE new[id]]
    BY <1>2 DEF IsParts
  <2> QED BY ONLY <2>1
<1>12. \A id \in upd : put[id] = [table |-> home[id], value |-> updates + 1]
  <2> TAKE id \in upd
  <2>1. id \in KnownIds(c) /\ id \in DOMAIN put BY <1>11
  <2>2. put[id] = [table |-> CHOOSE t \in Tables : id \in DOMAIN cache[c][t],
                   value |-> updates + 1]
    BY <2>1, <1>11
  <2> QED BY <2>1, <2>2, <1>8
<1>13. \A id \in DOMAIN new \ upd : put[id] = new[id]
  <2> TAKE id \in DOMAIN new \ upd
  <2>1. id \in DOMAIN put /\ id \notin upd BY <1>11
  <2> QED BY <2>1, <1>11
<1>14. tables = ins \cup {CHOOSE t \in Tables : id \in DOMAIN cache[c][t] : id \in upd \cup del}
  BY <1>2 DEF IsParts
<1>15. /\ ins \subseteq tables
       /\ \A id \in upd \cup del :
             (CHOOSE t \in Tables : id \in DOMAIN cache[c][t]) \in tables
       /\ \A t \in tables : t \in ins
             \/ \E id \in upd \cup del : t = CHOOSE s \in Tables : id \in DOMAIN cache[c][s]
  BY ONLY <1>14
<1>16. upd \cup del \subseteq KnownIds(c) OBVIOUS
<1>17. \A id \in upd \cup del : home[id] \in tables BY <1>8, <1>15, <1>16
<1>18. \A t \in tables : t \in ins \/ \E id \in upd \cup del : t = home[id]
  BY <1>8, <1>15, <1>16
<1>19. PICK v \in Nat : v = updates + 1 BY <1>6
<1>20. Len(order) \in Nat /\ Found(c, put, upd, tables, del, n, v)
  <2>1. nextId[c] + Len(order) <= MaxRowId + 1 BY <1>4, <1>7
  <2>2. \A id \in DOMAIN new : new[id] = [table |-> order[id - nextId[c] + 1], value |-> v]
    BY <1>10, <1>19
  <2>3. \A id \in upd : put[id] = [table |-> home[id], value |-> v] BY <1>12, <1>19
  <2>4. Finds(c, ins, upd, del, v, order, home, new, put, tables)
    BY ONLY <2>1, <2>2, <2>3, <1>5, <1>7, <1>9, <1>10, <1>11, <1>13, <1>15, <1>17, <1>18
    DEF Finds
  <2>5. Found(c, put, upd, tables, del, nextId[c] + Len(order), v) /\ Len(order) \in Nat
    BY <2>4, CommitRows
  <2> QED BY <2>5, <1>7
<1>61. /\ put \in NewRows /\ tables \in SUBSET Tables /\ del \in SUBSET Id
       /\ \A id \in DOMAIN put : put[id].table \in tables /\ put[id].value = v
       /\ upd \in SUBSET Id /\ \A id \in DOMAIN put : nextId[c] <= id \/ id \in upd
  BY <1>20 DEF Found
<1>21. PICK before : before = [t \in tables |-> cache[c][t]] OBVIOUS
<1>22. DOMAIN before = tables /\ \A t \in tables : before[t] = cache[c][t] BY <1>21
<1>23. before \in UNION {[ts -> TableRows] : ts \in SUBSET Tables}
  <2>1. before = [t \in DOMAIN before |-> before[t]] BY <1>21
  <2>2. \A t \in DOMAIN before : before[t] \in TableRows BY <1>6, <1>61, <1>22
  <2> QED BY <2>1, <2>2, <1>61, <1>22, BeforeIs
<1>24. u = [rev |-> store[c].revision + 1, put |-> put, gone |-> del, tables |-> tables,
            before |-> before, answer |-> "none", version |-> 0]
  BY <1>2, <1>21 DEF IsParts
<1>25. /\ u.rev = store[c].revision + 1 /\ u.put = put /\ u.gone = del /\ u.tables = tables
       /\ u.before = before /\ u.answer = "none" /\ u.version = 0
  BY ONLY <1>24
<1>26. u.rev \in Nat BY <1>6, <1>25
<1>27. u \in Update BY ONLY <1>24, <1>25, <1>26, <1>61, <1>23 DEF Update
<1>28. UpdateOK(u) BY <1>61, <1>22, <1>25 DEF UpdateOK
<1>29. PICK after : after = [t \in Tables |-> Changed(store[c].tables[t], RowsOf(put, t), del)]
  OBVIOUS
<1>30. \A t \in Tables : RowsOf(put, t) \in TableRows BY <1>61, RowsOfTyped
<1>31. after \in [Tables -> TableRows]
  <2>1. ASSUME NEW t \in Tables PROVE after[t] \in TableRows
    <3>1. store[c].tables[t] \in TableRows BY <1>6
    <3>2. Changed(store[c].tables[t], RowsOf(put, t), del) \in TableRows
      BY <3>1, <1>30, ChangedTyped
    <3> QED BY <3>2, <1>29
  <2>2. after = [t \in Tables |-> after[t]] BY <1>29
  <2> QED BY <2>1, <2>2
<1>32. \A t \in Tables : AfterTx(after[t], store[c].tables[t], u, t)
  BY <1>25, <1>29, ChangedIs DEF AfterTx
<1>33. k = [store[c] EXCEPT !.revision = store[c].revision + 1, !.tables = after]
  BY <1>2, <1>29 DEF IsParts
<1>34. /\ k \in Store /\ k.revision = u.rev /\ k.removedRows = store[c].removedRows
       /\ k.startAt = store[c].startAt /\ k.tasks = store[c].tasks /\ k.tables = after
  <2>1. PICK s : s = store[c] OBVIOUS
  <2>2. s = [revision |-> s.revision, tables |-> s.tables, removedRows |-> s.removedRows,
             startAt |-> s.startAt, tasks |-> s.tasks]
    BY <1>6, <2>1, StoreFields
  <2>3. k = [revision |-> u.rev, tables |-> after, removedRows |-> s.removedRows,
             startAt |-> s.startAt, tasks |-> s.tasks]
    BY ONLY <2>1, <2>2, <1>33, <1>25
  <2> QED BY <2>1, <2>3, <1>6, <1>26, <1>31 DEF Store
<1>35. PICK ca : ca = [t \in Tables |-> Changed(cache[c][t], RowsOf(put, t), del)]
  OBVIOUS
<1>36. ca \in [Tables -> TableRows]
  <2>1. ASSUME NEW t \in Tables PROVE ca[t] \in TableRows
    <3>1. cache[c][t] \in TableRows BY <1>6
    <3>2. Changed(cache[c][t], RowsOf(put, t), del) \in TableRows
      BY <3>1, <1>30, ChangedTyped
    <3> QED BY <3>2, <1>35
  <2>2. ca = [t \in Tables |-> ca[t]] BY <1>35
  <2> QED BY <2>1, <2>2
<1>37. \A t \in Tables : AfterTx(ca[t], cache[c][t], u, t)
  BY <1>25, <1>35, ChangedIs DEF AfterTx
<1>38. Append(sent[c], u) \in Seq(Update) BY <1>6, <1>27
<1>62. PICK late : late = overtaken[c] \cup (tables \cap Waiting(c, Len(store[c].tasks)))
  OBVIOUS
<1>63. /\ late \in SUBSET Tables /\ begun[c] \in SUBSET SUBSET Tables
       /\ overtaken[c] \subseteq late
  <2>1. overtaken[c] \in SUBSET Tables /\ begun[c] \in SUBSET SUBSET Tables
    BY <1>1 DEF ClientsTyped, AreFunctions
  <2> QED BY <2>1, <1>61, <1>62
<1>64. begun[c] \ {tables} \in SUBSET SUBSET Tables BY <1>63
<1>41. PICK b4 : b4 = View(server[at[c]], sent[c]) OBVIOUS
<1>66. PICK gap : gap = missed[c] \cup (Tables \X (upd \ DOMAIN b4.rows)) OBVIOUS
<1>67. gap \in SUBSET (Tables \X Id) /\ missed[c] \subseteq gap
  <2>1. missed[c] \in SUBSET (Tables \X Id) BY <1>1 DEF ClientsTyped, AreFunctions
  <2> QED BY ONLY <2>1, <1>61, <1>66
<1>39. /\ nextId' = [nextId EXCEPT ![c] = n] /\ n \in Nat /\ n >= nextId[c]
       /\ begun' = [begun EXCEPT ![c] = begun[c] \ {tables}]
       /\ overtaken' = [overtaken EXCEPT ![c] = late]
       /\ cache' = [cache EXCEPT ![c] = ca]
       /\ sent' = [sent EXCEPT ![c] = Append(sent[c], u)]
       /\ updates' = updates + 1
       /\ server' = server /\ status' = status /\ loaded' = loaded /\ at' = at
       /\ missed' = [missed EXCEPT ![c] = gap]
       /\ outOfStep' = outOfStep /\ crashes' = crashes
  BY SMTT(20), <1>3, <1>6, <1>7, <1>20, <1>35, <1>62, <1>41, <1>66 DEF CommitParts
<1>40. /\ nextId'[c] = n /\ cache'[c] = ca /\ sent'[c] = Append(sent[c], u)
       /\ begun'[c] = begun[c] \ {tables} /\ overtaken'[c] = late
       /\ missed'[c] = gap
  BY <1>1, <1>39 DEF ClientsTyped, AreFunctions
<1>42. PICK aft : aft = View(server[at[c]], Append(sent[c], u)) OBVIOUS
<1>43. b4 \in Version /\ aft \in Version
  BY <1>1, <1>6, <1>38, <1>41, <1>42, ViewTyped, VersionsTyped
<1>44. Hear(c, k, b4, aft) BY <1>3, <1>40, <1>41, <1>42 DEF CommitParts
<1>45. PICK h : Told(c, k, b4, aft, h) BY <1>34, <1>43, <1>44, HearIs
<1>46. PICK b \in BOOLEAN : b = (listening[c] /\ h.startAt = k.startAt) OBVIOUS
<1>47. /\ h \in Store
       /\ h = IF listening[c] THEN Events(k, b4, aft) ELSE k
       /\ store' = [store EXCEPT ![c] = h]
       /\ listening' = [listening EXCEPT ![c] = b]
  BY <1>45, <1>46 DEF Told
<1>48. ClientsTyped' BY <1>1, <1>36, <1>38, <1>39, <1>47, <1>63, <1>64, <1>67 DEF ClientsTyped, AreFunctions
<1>49. Globals' BY <1>1, <1>39 DEF Globals
<1>50. TypeInv' BY <1>48, <1>49 DEF TypeInv, Globals, ClientsTyped, AreFunctions
<1>51. OthersStay(c) BY <1>1, <1>39, <1>47 DEF OthersStay, ClientsTyped, AreFunctions
<1>52. store'[c] = h /\ listening'[c] = b BY <1>1, <1>47 DEF ClientsTyped, AreFunctions
<1>53. WasTold(c, k, b4, aft) BY <1>43, <1>46, <1>47, <1>52 DEF WasTold
<1>54. FromCache(c, u, n) BY <1>20, <1>25 DEF FromCache, Found
<1>55. \A t \in u.tables :
          /\ \A j \in DOMAIN sent[c] : t \notin sent[c][j].tables
          /\ t \notin overtaken'[c] =>
                \A j \in DOMAIN store[c].tasks : t \notin DOMAIN store[c].tasks[j]
          /\ u.before[t] = cache[c][t]
  <2> TAKE t \in u.tables
  <2>1. t \in tables BY <1>25
  <2>2. \A j \in DOMAIN sent[c] : tables \cap sent[c][j].tables = {}
    BY <1>4 DEF BegunInv, BegunOK
  <2>3. ASSUME t \notin overtaken'[c], NEW j \in DOMAIN store[c].tasks
        PROVE  t \notin DOMAIN store[c].tasks[j]
    <3>1. t \notin Waiting(c, Len(store[c].tasks)) BY <2>1, <2>3, <1>40, <1>62
    <3>2. j \in 1 .. Len(store[c].tasks) BY <1>6
    <3> QED BY <3>1, <3>2, WaitingIs
  <2> QED BY <2>1, <2>2, <2>3, <1>22, <1>25
<1>65. /\ u.tables \in begun[c] /\ begun'[c] = begun[c] \ {u.tables}
       /\ overtaken[c] \subseteq overtaken'[c]
  BY <1>4, <1>25, <1>40, <1>63
<1>56. \A id \in DOMAIN u.put : u.put[id].value = updates + 1 BY <1>19, <1>61, <1>25
<1>57. FromCache(c, u, nextId'[c]) /\ nextId'[c] >= nextId[c] BY <1>54, <1>39, <1>40
<1>58. \A t \in Tables : AfterTx(cache'[c][t], cache[c][t], u, t) BY <1>37, <1>40
<1>59. \A t \in Tables : AfterTx(k.tables[t], store[c].tables[t], u, t) BY <1>32, <1>34
<1>68. WrittenAgain(u, nextId[c], b4, missed'[c])
  <2> SUFFICES ASSUME NEW id \in DOMAIN put, ~(nextId[c] <= id), id \notin DOMAIN b4.rows,
                      NEW t \in Tables
               PROVE  <<t, id>> \in gap
    BY <1>25, <1>40 DEF WrittenAgain
  <2>1. id \in upd BY <1>61
  <2> QED BY <2>1, <1>66
<1>60. IsCommit(c, u, k, b4, aft)
  BY ONLY <1>4, <1>25, <1>27, <1>28, <1>34, <1>39, <1>40, <1>41, <1>42, <1>51, <1>53, <1>55,
     <1>56, <1>57, <1>58, <1>59, <1>65, <1>67, <1>68 DEF IsCommit
<1> QED BY <1>50, <1>60

LEMMA AnsweredIs ==
    ASSUME NEW q \in Seq(Update), NEW i \in 1 .. Len(q), NEW u \in Update,
           SameUpdate(q[i], u), NEW q2, q2 = [q EXCEPT ![i] = u]
    PROVE  q2 \in Seq(Update) /\ Answered(q2, q, i, u.answer) /\ q2[i] = u
<1>1. q2 \in Seq(Update) /\ q2[i] = u /\ Len(q2) = Len(q) OBVIOUS
<1>2. \A j \in 1 .. Len(q) : j # i => q2[j] = q[j] OBVIOUS
<1> QED BY <1>1, <1>2 DEF Answered

LEMMA AcceptIs ==
    ASSUME TypeInv, NEW c \in Clients, NEW i \in DOMAIN sent[c], Accept(c, i)
    PROVE  IsAccept(c, i) /\ TypeInv'
<1>1. Globals /\ ClientsTyped BY TypeIs
<1>2. sent[c] \in Seq(Update) /\ i \in 1 .. Len(sent[c]) /\ sent[c][i] \in Update
  BY <1>1 DEF ClientsTyped, AreFunctions
<1>3. Now \in Version /\ Len(server) \in Nat /\ server \in Seq(Version)
  BY <1>1, VersionsTyped DEF Globals
<1>4. PICK w : w = Overlaid(Now, sent[c][i]) OBVIOUS
<1>5. w \in Version BY <1>2, <1>3, <1>4, OverlaidIs
<1>6. server' = Append(server, w) BY <1>4 DEF Accept
<1>7. server' \in Seq(Version) /\ Len(server') = Len(server) + 1 BY <1>3, <1>5, <1>6
<1>8. PICK n \in Nat : n = Len(server') BY <1>3, <1>7
<1>9. PICK u : u = [sent[c][i] EXCEPT !.answer = "accepted", !.version = n] OBVIOUS
<1>10. PICK q2 : q2 = [sent[c] EXCEPT ![i] = u] OBVIOUS
<1>11. q2 \in Seq(Update) /\ Answered(q2, sent[c], i, "accepted") /\ u.version = n
  <2>1. u \in Update /\ u.answer = "accepted" /\ u.version = n /\ SameUpdate(sent[c][i], u)
    BY <1>2, <1>9 DEF Update, SameUpdate
  <2> QED BY <2>1, <1>2, <1>10, AnsweredIs
<1>12. q2[i] = u BY <1>2, <1>10
<1>13. sent' = [sent EXCEPT ![c] = q2]
  <2>1. sent' = [sent EXCEPT ![c][i].answer = "accepted", ![c][i].version = n]
    BY <1>8 DEF Accept
  <2>2. sent \in [Clients -> Seq(Update)] BY <1>1 DEF ClientsTyped, AreFunctions
  <2> QED BY <2>1, <2>2, <1>9, <1>10
<1>14. /\ sent[c][i].answer = "none" /\ \A j \in 1 .. i - 1 : sent[c][j].answer # "none"
       /\ status' = status /\ loaded' = loaded /\ listening' = listening /\ at' = at
       /\ store' = store /\ cache' = cache /\ nextId' = nextId /\ missed' = missed
       /\ outOfStep' = outOfStep /\ updates' = updates /\ crashes' = crashes
       /\ begun' = begun /\ overtaken' = overtaken
  BY DEF Accept, connection, memory, history
<1>15. ClientsTyped' BY <1>1, <1>11, <1>13, <1>14 DEF ClientsTyped, AreFunctions
<1>16. Globals' BY <1>1, <1>3, <1>7, <1>14 DEF Globals
<1>17. TypeInv' BY <1>15, <1>16 DEF TypeInv, Globals, ClientsTyped, AreFunctions
<1>18. OthersStay(c) BY <1>1, <1>13, <1>14 DEF OthersStay, ClientsTyped, AreFunctions
<1>19. sent'[c] = q2 BY <1>1, <1>13 DEF ClientsTyped, AreFunctions
<1>20. IsAnswer(c, i, "accepted") BY <1>11, <1>14, <1>18, <1>19 DEF IsAnswer, Rest, LocksStay
<1> QED BY <1>4, <1>5, <1>6, <1>7, <1>8, <1>11, <1>12, <1>17, <1>19, <1>20 DEF IsAccept

LEMMA RefuseIs ==
    ASSUME TypeInv, NEW c \in Clients, NEW i \in DOMAIN sent[c], Refuse(c, i)
    PROVE  IsRefuse(c, i) /\ TypeInv'
<1>1. Globals /\ ClientsTyped BY TypeIs
<1>2. sent[c] \in Seq(Update) /\ i \in 1 .. Len(sent[c]) /\ sent[c][i] \in Update
  BY <1>1 DEF ClientsTyped, AreFunctions
<1>3. PICK n \in Nat : n = sent[c][i].version BY <1>2, UpdateFields
<1>4. PICK u : u = [sent[c][i] EXCEPT !.answer = "refused", !.version = n] OBVIOUS
<1>5. PICK q2 : q2 = [sent[c] EXCEPT ![i] = u] OBVIOUS
<1>6. q2 \in Seq(Update) /\ Answered(q2, sent[c], i, "refused")
  <2>1. u \in Update /\ u.answer = "refused" /\ SameUpdate(sent[c][i], u)
    BY <1>2, <1>4 DEF Update, SameUpdate
  <2> QED BY <2>1, <1>2, <1>5, AnsweredIs
<1>7. u = [sent[c][i] EXCEPT !.answer = "refused"] BY <1>2, <1>3, <1>4 DEF Update
<1>8. sent' = [sent EXCEPT ![c] = q2]
  <2>1. sent' = [sent EXCEPT ![c][i].answer = "refused"] BY DEF Refuse
  <2>2. sent \in [Clients -> Seq(Update)] BY <1>1 DEF ClientsTyped, AreFunctions
  <2> QED BY <2>1, <2>2, <1>7, <1>5
<1>9. /\ sent[c][i].answer = "none" /\ \A j \in 1 .. i - 1 : sent[c][j].answer # "none"
      /\ status' = status /\ loaded' = loaded /\ listening' = listening /\ at' = at
      /\ store' = store /\ cache' = cache /\ nextId' = nextId /\ missed' = missed
      /\ outOfStep' = outOfStep /\ updates' = updates /\ crashes' = crashes /\ server' = server
      /\ begun' = begun /\ overtaken' = overtaken
  BY DEF Refuse, connection, memory, history
<1>10. ClientsTyped' BY <1>1, <1>6, <1>8, <1>9 DEF ClientsTyped, AreFunctions
<1>11. Globals' BY <1>1, <1>9 DEF Globals
<1>12. TypeInv' BY <1>10, <1>11 DEF TypeInv, Globals, ClientsTyped, AreFunctions
<1>13. OthersStay(c) BY <1>1, <1>8, <1>9 DEF OthersStay, ClientsTyped, AreFunctions
<1>14. sent'[c] = q2 BY <1>1, <1>8 DEF ClientsTyped, AreFunctions
<1> QED BY <1>6, <1>9, <1>12, <1>13, <1>14 DEF IsRefuse, IsAnswer, Rest, LocksStay

LEMMA AcceptedIs ==
    ASSUME TypeInv, ClientInv, SentInv, NEW c \in Clients, NEW i \in DOMAIN sent[c],
           Accepted(c, i)
    PROVE  (\E before, after : IsAccepted(c, i, before, after)) /\ TypeInv'
<1>1. Globals /\ ClientsTyped BY TypeIs
<1>2. /\ sent[c] \in Seq(Update) /\ i \in 1 .. Len(sent[c]) /\ sent[c][i] \in Update
      /\ store[c] \in Store /\ at[c] \in 1 .. Len(server) /\ at[c] \in Nat
  BY <1>1 DEF ClientsTyped, AreFunctions, ClientInv, ClientOK
<1>3. Len(server) \in Nat /\ \A v \in 1 .. Len(server) : server[v] \in Version
  BY <1>1, VersionsTyped
<1>4. sent[c][i].answer = "accepted" BY DEF Accepted
<1>5. sent[c][i].version \in 1 .. Len(server) BY <1>4 DEF SentInv, SentOK
<1>6. PICK n : n = Max({at[c], sent[c][i].version}) OBVIOUS
<1>7. /\ n \in {at[c], sent[c][i].version} /\ n >= at[c] /\ n >= sent[c][i].version
      /\ n \in 1 .. Len(server)
  <2>1. {at[c], sent[c][i].version} \subseteq 0 .. Len(server) BY <1>2, <1>3, <1>5
  <2>2. {at[c], sent[c][i].version} # {} OBVIOUS
  <2>3. PICK S : S = {at[c], sent[c][i].version} OBVIOUS
  <2>4. Max(S) \in S /\ \A y \in S : Max(S) >= y BY <2>1, <2>2, <2>3, <1>3, MaxIs
  <2> QED BY <2>3, <2>4, <1>6, <1>2, <1>5
<1>8. PICK q2 : q2 = RemoveAt(sent[c], i) OBVIOUS
<1>9. q2 \in Seq(Update) BY <1>2, <1>8, RemoveAtIs
<1>10. /\ \A j \in 1 .. i - 1 : sent[c][j].answer = "failed"
       /\ at' = [at EXCEPT ![c] = n]
       /\ sent' = [sent EXCEPT ![c] = q2]
       /\ server' = server /\ status' = status /\ loaded' = loaded /\ cache' = cache
       /\ nextId' = nextId /\ missed' = missed
       /\ outOfStep' = outOfStep /\ updates' = updates /\ crashes' = crashes
       /\ begun' = begun /\ overtaken' = overtaken
  BY <1>1, <1>6, <1>8 DEF Accepted, IsNext, memory, history, ClientsTyped, AreFunctions
<1>11. at'[c] = n /\ sent'[c] = q2 BY <1>1, <1>10 DEF ClientsTyped, AreFunctions
<1>12. PICK before : before = View(server[at[c]], sent[c]) OBVIOUS
<1>13. PICK after : after = View(server[n], q2) OBVIOUS
<1>14. before \in Version /\ after \in Version
  BY <1>2, <1>3, <1>7, <1>9, <1>12, <1>13, ViewTyped
<1>15. Hear(c, store[c], before, after) BY <1>11, <1>12, <1>13 DEF Accepted
<1>16. PICK h : Told(c, store[c], before, after, h) BY <1>2, <1>14, <1>15, HearIs
<1>17. PICK b \in BOOLEAN : b = (listening[c] /\ h.startAt = store[c].startAt) OBVIOUS
<1>18. /\ h \in Store
       /\ h = IF listening[c] THEN Events(store[c], before, after) ELSE store[c]
       /\ store' = [store EXCEPT ![c] = h]
       /\ listening' = [listening EXCEPT ![c] = b]
  BY <1>16, <1>17 DEF Told
<1>19. n \in Nat BY <1>3, <1>7
<1>20. ClientsTyped' BY <1>1, <1>9, <1>10, <1>18, <1>19 DEF ClientsTyped, AreFunctions
<1>21. Globals' BY <1>1, <1>10 DEF Globals
<1>22. TypeInv' BY <1>20, <1>21 DEF TypeInv, Globals, ClientsTyped, AreFunctions
<1>23. OthersStay(c) BY <1>1, <1>10, <1>18 DEF OthersStay, ClientsTyped, AreFunctions
<1>24. store'[c] = h /\ listening'[c] = b BY <1>1, <1>18 DEF ClientsTyped, AreFunctions
<1>25. WasTold(c, store[c], before, after) BY <1>14, <1>17, <1>18, <1>24 DEF WasTold
<1>26. IsAccepted(c, i, before, after)
  BY <1>2, <1>4, <1>7, <1>8, <1>10, <1>11, <1>12, <1>13, <1>23, <1>25
  DEF IsAccepted, ServerStays, Rest, LocksStay
<1> QED BY <1>22, <1>26

LEMMA RefusedIs ==
    ASSUME TypeInv, ClientInv, NEW c \in Clients, NEW i \in DOMAIN sent[c], Refused(c, i)
    PROVE  (\E before, after, heard : IsRefused(c, i, before, after, heard)) /\ TypeInv'
<1>1. Globals /\ ClientsTyped BY TypeIs
<1>2. /\ sent[c] \in Seq(Update) /\ i \in 1 .. Len(sent[c]) /\ sent[c][i] \in Update
      /\ store[c] \in Store /\ at[c] \in 1 .. Len(server)
      /\ missed[c] \in SUBSET (Tables \X Id)
  BY <1>1 DEF ClientsTyped, AreFunctions, ClientInv, ClientOK
<1>3. Len(server) \in Nat /\ server[at[c]] \in Version BY <1>1, <1>2, VersionsTyped
<1>4. PICK n \in Nat : n = sent[c][i].version BY <1>2, UpdateFields
<1>5. PICK u : u = [sent[c][i] EXCEPT !.answer = "failed", !.version = n] OBVIOUS
<1>6. PICK q2 : q2 = [sent[c] EXCEPT ![i] = u] OBVIOUS
<1>7. q2 \in Seq(Update) /\ Answered(q2, sent[c], i, "failed")
  <2>1. u \in Update /\ u.answer = "failed" /\ SameUpdate(sent[c][i], u)
    BY <1>2, <1>5 DEF Update, SameUpdate
  <2> QED BY <2>1, <1>2, <1>6, AnsweredIs
<1>8. u = [sent[c][i] EXCEPT !.answer = "failed"] BY <1>2, <1>4, <1>5 DEF Update
<1>9. sent' = [sent EXCEPT ![c] = q2]
  <2>1. sent' = [sent EXCEPT ![c][i].answer = "failed"] BY DEF Refused
  <2>2. sent \in [Clients -> Seq(Update)] BY <1>1 DEF ClientsTyped, AreFunctions
  <2> QED BY <2>1, <2>2, <1>8, <1>6
<1>10. sent'[c] = q2 BY <1>1, <1>9 DEF ClientsTyped, AreFunctions
<1>11. PICK before : before = View(server[at[c]], sent[c]) OBVIOUS
<1>12. PICK after : after = View(server[at[c]], q2) OBVIOUS
<1>13. before \in Version /\ after \in Version
  BY <1>2, <1>3, <1>7, <1>11, <1>12, ViewTyped
<1>14. PICK heard : heard = IF listening[c] THEN Events(store[c], before, after) ELSE store[c]
  OBVIOUS
<1>15. heard \in Store BY <1>2, <1>13, <1>14, EventsTyped
<1>16. PICK k : k = [heard EXCEPT !.revision = sent[c][i].rev - 1] OBVIOUS
<1>17. sent[c][i].rev - 1 \in Nat \cup {-1} BY <1>2, UpdateFields
<1>18. /\ k \in Store /\ k.revision = sent[c][i].rev - 1 /\ k.tables = heard.tables
       /\ k.tasks = heard.tasks /\ k.removedRows = heard.removedRows
       /\ k.startAt = heard.startAt
  BY <1>15, <1>16, <1>17 DEF Store
<1>19. PICK b \in BOOLEAN : b = (listening[c] /\ heard.startAt = store[c].startAt) OBVIOUS
<1>20. PICK m : m = missed[c] \cup (Tables \X sent[c][i].gone) OBVIOUS
<1>21. m \in SUBSET (Tables \X Id) BY <1>2, <1>20, UpdateFields
<1>22. /\ store' = [store EXCEPT ![c] = k]
       /\ listening' = [listening EXCEPT ![c] = b]
  BY <1>1, <1>10, <1>11, <1>12, <1>14, <1>16, <1>19 DEF Refused, ClientsTyped, AreFunctions
<1>23. /\ sent[c][i].answer = "refused"
       /\ \A j \in 1 .. i - 1 : sent[c][j].answer = "failed"
       /\ outOfStep' = (outOfStep \/ i < Len(sent[c]))
       /\ missed' = [missed EXCEPT ![c] = m]
       /\ server' = server /\ status' = status /\ loaded' = loaded /\ cache' = cache
       /\ nextId' = nextId /\ at' = at
       /\ updates' = updates /\ crashes' = crashes
       /\ begun' = begun /\ overtaken' = overtaken
  BY <1>1, <1>20 DEF Refused, IsNext, memory, ClientsTyped, AreFunctions
<1>24. ClientsTyped' BY <1>1, <1>7, <1>9, <1>18, <1>21, <1>22, <1>23 DEF ClientsTyped, AreFunctions
<1>25. Globals' BY <1>1, <1>23 DEF Globals
<1>26. TypeInv' BY <1>24, <1>25 DEF TypeInv, Globals, ClientsTyped, AreFunctions
<1>27. OthersStay(c) BY <1>1, <1>9, <1>22, <1>23 DEF OthersStay, ClientsTyped, AreFunctions
<1>28. store'[c] = k /\ listening'[c] = b /\ missed'[c] = m
  BY <1>1, <1>22, <1>23 DEF ClientsTyped, AreFunctions
<1>29. IsRefused(c, i, before, after, heard)
  BY <1>7, <1>10, <1>11, <1>12, <1>13, <1>14, <1>15, <1>18, <1>19, <1>20, <1>23, <1>27, <1>28
  DEF IsRefused, Rest, LocksStay
<1> QED BY <1>26, <1>29

LEMMA ReloadedIs ==
    ASSUME TypeInv, ClientInv, SentInv, NEW c \in Clients, NEW i \in DOMAIN sent[c],
           Reloaded(c, i)
    PROVE  (\E view : IsReloaded(c, i, view)) /\ TypeInv'
<1>1. Globals /\ ClientsTyped BY TypeIs
<1>2. /\ sent[c] \in Seq(Update) /\ i \in 1 .. Len(sent[c]) /\ sent[c][i] \in Update
      /\ store[c] \in Store /\ at[c] \in 1 .. Len(server)
      /\ store[c].tables \in [Tables -> TableRows]
      /\ cache[c] \in [Tables -> TableRows] /\ UpdateOK(sent[c][i])
  BY <1>1 DEF ClientsTyped, AreFunctions, ClientInv, ClientOK, SentInv, SentOK, Store
<1>3. Now \in Version /\ server[at[c]] \in Version BY <1>1, <1>2, VersionsTyped
<1>4. PICK version : version = IF listening[c] THEN server[at[c]] ELSE Now OBVIOUS
<1>5. PICK view : view = View(version, sent[c]) OBVIOUS
<1>6. view \in Version BY <1>2, <1>3, <1>4, <1>5, ViewTyped
<1>7. PICK tables : tables = [t \in Tables |-> IF t \in sent[c][i].tables
                        THEN RowsOf(view.rows, t) ELSE store[c].tables[t]]
  OBVIOUS
<1>8. tables \in [Tables -> TableRows]
  <2>1. \A t \in Tables : RowsOf(view.rows, t) \in TableRows
    BY <1>6, VersionFields, RowsOfTyped
  <2> QED BY <2>1, <1>2, <1>7
<1>9. PICK ca : ca = [t \in Tables |-> IF t \in sent[c][i].tables
                        THEN sent[c][i].before[t] ELSE cache[c][t]]
  OBVIOUS
<1>10. ca \in [Tables -> TableRows]
  <2>1. \A t \in sent[c][i].tables : sent[c][i].before[t] \in TableRows
    BY <1>2, UpdateFields, BeforeIs DEF UpdateOK
  <2> QED BY <2>1, <1>2, <1>9
<1>11. PICK k : k = [store[c] EXCEPT !.tables = tables] OBVIOUS
<1>12. /\ k \in Store /\ k.tables = tables /\ k.revision = store[c].revision
       /\ k.tasks = store[c].tasks /\ k.removedRows = store[c].removedRows
       /\ k.startAt = store[c].startAt
  BY <1>2, <1>8, <1>11 DEF Store
<1>13. PICK q2 : q2 = RemoveAt(sent[c], i) OBVIOUS
<1>14. q2 \in Seq(Update) BY <1>2, <1>13, RemoveAtIs
<1>15. store' = [store EXCEPT ![c] = k]
  <2>1. store' = [store EXCEPT ![c].tables = tables]
    BY <1>4, <1>5, <1>7 DEF Reloaded
  <2>2. store \in [Clients -> Store] BY <1>1 DEF ClientsTyped, AreFunctions
  <2> QED BY <2>1, <2>2, <1>11
<1>16. /\ sent[c][i].answer = "failed"
       /\ cache' = [cache EXCEPT ![c] = ca]
       /\ sent' = [sent EXCEPT ![c] = q2]
       /\ server' = server /\ status' = status /\ loaded' = loaded /\ listening' = listening
       /\ nextId' = nextId /\ at' = at /\ missed' = missed
       /\ outOfStep' = outOfStep /\ updates' = updates /\ crashes' = crashes
       /\ begun' = begun /\ overtaken' = overtaken
  BY <1>1, <1>9, <1>13 DEF Reloaded, connection, history, ClientsTyped, AreFunctions
<1>17. ClientsTyped' BY <1>1, <1>10, <1>12, <1>14, <1>15, <1>16 DEF ClientsTyped, AreFunctions
<1>18. Globals' BY <1>1, <1>16 DEF Globals
<1>19. TypeInv' BY <1>17, <1>18 DEF TypeInv, Globals, ClientsTyped, AreFunctions
<1>20. OthersStay(c) BY <1>1, <1>15, <1>16 DEF OthersStay, ClientsTyped, AreFunctions
<1>21. store'[c] = k /\ cache'[c] = ca /\ sent'[c] = q2
  BY <1>1, <1>15, <1>16 DEF ClientsTyped, AreFunctions
<1>22. \A t \in Tables :
          /\ tables[t] = IF t \in sent[c][i].tables THEN RowsOf(view.rows, t)
                         ELSE store[c].tables[t]
          /\ ca[t] = IF t \in sent[c][i].tables THEN sent[c][i].before[t]
                     ELSE cache[c][t]
  BY <1>7, <1>9
<1>23. IsReloaded(c, i, view)
  BY <1>2, <1>4, <1>5, <1>12, <1>13, <1>16, <1>20, <1>21, <1>22
  DEF IsReloaded, ServerStays, Rest, LocksStay
<1> QED BY <1>19, <1>23

LEMMA CrashIs ==
    ASSUME TypeInv, NEW c \in Clients, Crash(c)
    PROVE  IsCrash(c) /\ TypeInv'
<1>1. Globals /\ ClientsTyped BY TypeIs
<1>2. NewStore(-1) \in Store /\ NoRows \in [Tables -> TableRows] /\ <<>> \in Seq(Update)
  BY NewStoreTyped, NoneIs DEF NoRows
<1>3. /\ status[c] # "closed"
      /\ status' = [status EXCEPT ![c] = "closed"]
      /\ listening' = [listening EXCEPT ![c] = FALSE]
      /\ begun' = [begun EXCEPT ![c] = {}]
      /\ overtaken' = overtaken
      /\ sent' = [sent EXCEPT ![c] = <<>>]
      /\ cache' = [cache EXCEPT ![c] = NoRows]
      /\ store' = [store EXCEPT ![c] = NewStore(-1)]
      /\ server' = server /\ loaded' = loaded /\ at' = at /\ nextId' = nextId
      /\ missed' = missed /\ outOfStep' = outOfStep /\ updates' = updates
      /\ crashes' = crashes + 1
  BY DEF Crash, history
<1>4. ClientsTyped' BY <1>1, <1>2, <1>3 DEF ClientsTyped, AreFunctions
<1>5. Globals' BY <1>1, <1>3 DEF Globals
<1>6. TypeInv' BY <1>4, <1>5 DEF TypeInv, Globals, ClientsTyped, AreFunctions
<1>7. OthersStay(c) BY <1>1, <1>3 DEF OthersStay, ClientsTyped, AreFunctions
<1> QED BY <1>1, <1>3, <1>6, <1>7 DEF IsCrash, ServerStays, ClientsTyped, AreFunctions

LEMMA BeginIs ==
    ASSUME TypeInv, NEW c \in Clients, NEW tables \in SUBSET Tables, Begin(c, tables)
    PROVE  IsBegin(c, tables) /\ TypeInv'
<1>1. Globals /\ ClientsTyped BY TypeIs
<1>2. PICK locks : locks = begun[c] \cup {tables} OBVIOUS
<1>3. locks \in SUBSET SUBSET Tables BY <1>1, <1>2 DEF ClientsTyped, AreFunctions
<1>4. /\ status[c] = "ready" /\ tables \cap Locked(c) = {}
      /\ begun' = [begun EXCEPT ![c] = locks]
      /\ server' = server /\ status' = status /\ loaded' = loaded /\ listening' = listening
      /\ at' = at /\ store' = store /\ cache' = cache /\ nextId' = nextId /\ sent' = sent
      /\ missed' = missed /\ overtaken' = overtaken /\ outOfStep' = outOfStep
      /\ updates' = updates /\ crashes' = crashes
  BY <1>1, <1>2 DEF Begin, connection, memory, history, ClientsTyped, AreFunctions
<1>5. ClientsTyped' BY <1>1, <1>3, <1>4 DEF ClientsTyped, AreFunctions
<1>6. Globals' BY <1>1, <1>4 DEF Globals
<1>7. TypeInv' BY <1>5, <1>6 DEF TypeInv, Globals, ClientsTyped, AreFunctions
<1>8. OthersStay(c) BY <1>1, <1>4 DEF OthersStay, ClientsTyped, AreFunctions
<1>9. Idle(c) BY <1>4, <1>8 DEF Idle, ServerStays
<1>10. begun'[c] = locks /\ sent[c] \in Seq(Update) BY <1>1, <1>4 DEF ClientsTyped, AreFunctions
<1> QED BY <1>2, <1>4, <1>7, <1>9, <1>10, LockedIs DEF IsBegin

LEMMA EndIs ==
    ASSUME TypeInv, NEW c \in Clients, NEW tables, End(c, tables)
    PROVE  IsEnd(c, tables) /\ TypeInv'
<1>1. Globals /\ ClientsTyped BY TypeIs
<1>2. PICK locks : locks = begun[c] \ {tables} OBVIOUS
<1>3. locks \in SUBSET SUBSET Tables BY <1>1, <1>2 DEF ClientsTyped, AreFunctions
<1>4. /\ begun' = [begun EXCEPT ![c] = locks]
      /\ server' = server /\ status' = status /\ loaded' = loaded /\ listening' = listening
      /\ at' = at /\ store' = store /\ cache' = cache /\ nextId' = nextId /\ sent' = sent
      /\ missed' = missed /\ overtaken' = overtaken /\ outOfStep' = outOfStep
      /\ updates' = updates /\ crashes' = crashes
  BY <1>1, <1>2 DEF End, connection, memory, history, ClientsTyped, AreFunctions
<1>5. ClientsTyped' BY <1>1, <1>3, <1>4 DEF ClientsTyped, AreFunctions
<1>6. Globals' BY <1>1, <1>4 DEF Globals
<1>7. TypeInv' BY <1>5, <1>6 DEF TypeInv, Globals, ClientsTyped, AreFunctions
<1>8. OthersStay(c) BY <1>1, <1>4 DEF OthersStay, ClientsTyped, AreFunctions
<1>9. Idle(c) BY <1>4, <1>8 DEF Idle, ServerStays
<1>10. begun'[c] = locks BY <1>1, <1>4 DEF ClientsTyped, AreFunctions
<1> QED BY <1>2, <1>7, <1>9, <1>10 DEF IsEnd

-----------------------------------------------------------------------------
(* Types, clients and updates.                                             *)

LEMMA NextIsStep ==
    ASSUME TypeInv, ClientInv, SentInv, BegunInv, Next
    PROVE  TypeInv' /\ \E c \in Clients : StepOf(c)
<1>1. ASSUME NEW c \in Clients, Connect(c) PROVE TypeInv' /\ StepOf(c)
  BY <1>1, ConnectIs DEF StepOf
<1>2. ASSUME NEW c \in Clients, Loaded(c) PROVE TypeInv' /\ StepOf(c)
  BY <1>2, LoadedIs DEF StepOf
<1>3. ASSUME NEW c \in Clients, Crash(c) PROVE TypeInv' /\ StepOf(c)
  BY <1>3, CrashIs DEF StepOf
<1>4. ASSUME NEW c \in Clients, NEW t \in Tables, reloadTable(c, t) PROVE TypeInv' /\ StepOf(c)
  BY <1>4, ReloadIs DEF StepOf
<1>5. ASSUME NEW c \in Clients, FirstData(c) PROVE TypeInv' /\ StepOf(c)
  BY <1>5, FirstDataIs DEF StepOf
<1>6. ASSUME NEW c \in Clients, NEW version \in at[c] + 1 .. Len(server), Deliver(c, version)
      PROVE  TypeInv' /\ StepOf(c)
  <2>1. at[c] \in 1 .. Len(server) BY DEF ClientInv, ClientOK
  <2> QED BY <2>1, <1>6, DeliverIs DEF StepOf
<1>7. ASSUME NEW c \in Clients, NEW i \in DOMAIN store[c].tasks, ExternalChange(c, i)
      PROVE  TypeInv' /\ StepOf(c)
  BY <1>7, ExternalIs DEF StepOf
<1>8. ASSUME NEW c \in Writers, Write(c) PROVE c \in Clients /\ TypeInv' /\ StepOf(c)
  <2>1. c \in Clients BY WritersAreClients
  <2>2. ASSUME NEW ins \in SUBSET Tables, NEW upd \in SUBSET KnownIds(c),
               NEW del \in SUBSET (KnownIds(c) \ upd), Commit(c, ins, upd, del)
        PROVE  TypeInv' /\ StepOf(c)
    BY <2>1, <2>2, CommitIs DEF StepOf
  <2>3. ASSUME NEW tables \in SUBSET Tables, Begin(c, tables) PROVE TypeInv' /\ StepOf(c)
    BY <2>1, <2>3, BeginIs DEF StepOf
  <2>4. ASSUME NEW tables, End(c, tables) PROVE TypeInv' /\ StepOf(c)
    BY <2>1, <2>4, EndIs DEF StepOf
  <2> QED BY <1>8, <2>1, <2>2, <2>3, <2>4 DEF Write
<1>9. ASSUME NEW c \in Writers, NEW i \in DOMAIN sent[c],
             Accept(c, i) \/ Refuse(c, i) \/ Accepted(c, i) \/ Refused(c, i) \/ Reloaded(c, i)
      PROVE  c \in Clients /\ TypeInv' /\ StepOf(c)
  <2>1. c \in Clients BY WritersAreClients
  <2>2. CASE Accept(c, i) BY <2>1, <2>2, AcceptIs DEF StepOf
  <2>3. CASE Refuse(c, i) BY <2>1, <2>3, RefuseIs DEF StepOf
  <2>4. CASE Accepted(c, i) BY <2>1, <2>4, AcceptedIs DEF StepOf
  <2>5. CASE Refused(c, i) BY <2>1, <2>5, RefusedIs DEF StepOf
  <2>6. CASE Reloaded(c, i) BY <2>1, <2>6, ReloadedIs DEF StepOf
  <2> QED BY <1>9, <2>2, <2>3, <2>4, <2>5, <2>6
<1> QED BY <1>1, <1>2, <1>3, <1>4, <1>5, <1>6, <1>7, <1>8, <1>9 DEF Next, Settle, CatchUp

\* The server only ever gets new versions.
ServerGrows ==
    /\ Len(server) \in Nat /\ Len(server') \in Nat /\ Len(server') >= Len(server)
    /\ \A v \in 1 .. Len(server) : server'[v] = server[v]

LEMMA StepGrows ==
    ASSUME TypeInv, NEW c \in Clients, StepOf(c)
    PROVE  ServerGrows /\ OthersStay(c)
<1>1. server \in Seq(Version) BY DEF TypeInv
<1> DEFINE Stays == server' = server /\ OthersStay(c)
<1>2. IsConnect(c) => Stays BY DEF IsConnect, ServerStays
<1>3. \A t \in Tables : IsReload(c, t) => Stays BY DEF IsReload, ServerStays
<1>4. IsLoaded(c) => Stays BY DEF IsLoaded, ServerStays
<1>5. IsCrash(c) => Stays BY DEF IsCrash, ServerStays
<1>6. \A view, k : IsFirstData(c, view, k) => Stays BY DEF IsFirstData, ServerStays
<1>7. \A version, b, a : IsDeliver(c, version, b, a) => Stays BY DEF IsDeliver, ServerStays
<1>8. \A i : IsExternal(c, i) => Stays BY DEF IsExternal, ServerStays
<1>9. \A u, k, b, a : IsCommit(c, u, k, b, a) => Stays BY DEF IsCommit
<1>18. \A tables : IsBegin(c, tables) \/ IsEnd(c, tables) => Stays
  BY DEF IsBegin, IsEnd, Idle, ServerStays
<1>10. \A i : IsRefuse(c, i) => Stays BY DEF IsRefuse, IsAnswer
<1>11. \A i, b, a : IsAccepted(c, i, b, a) => Stays BY DEF IsAccepted, ServerStays
<1>12. \A i, b, a, h : IsRefused(c, i, b, a, h) => Stays BY DEF IsRefused
<1>13. \A i, view : IsReloaded(c, i, view) => Stays BY DEF IsReloaded, ServerStays
<1>14. ASSUME NEW i, IsAccept(c, i)
       PROVE  OthersStay(c) /\ \E w \in Version : server' = Append(server, w)
  BY <1>14 DEF IsAccept, IsAnswer
<1>15. Stays \/ (OthersStay(c) /\ \E w \in Version : server' = Append(server, w))
  <2> HIDE DEF Stays
  <2> QED BY <1>2, <1>3, <1>4, <1>5, <1>6, <1>7, <1>8, <1>9, <1>10, <1>11, <1>12, <1>13, <1>14,
             <1>18
          DEF StepOf
<1>16. ASSUME server' = server PROVE ServerGrows BY <1>1, <1>16 DEF ServerGrows
<1>17. ASSUME NEW w \in Version, server' = Append(server, w) PROVE ServerGrows
  BY <1>1, <1>17 DEF ServerGrows
<1> QED BY <1>15, <1>16, <1>17

LEMMA SentAppended ==
    ASSUME NEW q \in Seq(Update), NEW n, SentOK(q, n), NEW u \in Update, UpdateOK(u),
           u.answer = "none", \A j \in DOMAIN q : q[j].tables \cap u.tables = {}
    PROVE  SentOK(Append(q, u), n)
<1>1. PICK p : p = Append(q, u) OBVIOUS
<1>2. /\ DOMAIN p = 1 .. Len(q) + 1 /\ Len(q) \in Nat /\ p[Len(q) + 1] = u
      /\ \A i \in 1 .. Len(q) : p[i] = q[i]
      /\ DOMAIN q = 1 .. Len(q)
  BY <1>1
<1>3. ASSUME NEW i \in DOMAIN p
      PROVE  UpdateOK(p[i]) /\ (p[i].answer = "accepted" => p[i].version \in 1 .. n)
  <2>1. CASE i = Len(q) + 1 BY <2>1, <1>2
  <2>2. CASE i # Len(q) + 1
    <3>1. i \in 1 .. Len(q) BY <2>2, <1>2
    <3> QED BY <3>1, <1>2 DEF SentOK
  <2> QED BY <2>1, <2>2
<1>4. ASSUME NEW i \in DOMAIN p, NEW j \in DOMAIN p, i < j
      PROVE  /\ p[j].answer # "none" => p[i].answer # "none"
             /\ p[j].answer = "failed" => p[i].answer = "failed"
             /\ p[i].tables \cap p[j].tables = {}
  <2>1. i \in 1 .. Len(q) BY <1>2, <1>4
  <2>2. CASE j = Len(q) + 1 BY <2>1, <2>2, <1>2
  <2>3. CASE j # Len(q) + 1
    <3>1. j \in 1 .. Len(q) BY <2>3, <1>2
    <3> QED BY <2>1, <3>1, <1>2, <1>4 DEF SentOK
  <2> QED BY <2>2, <2>3
<1>5. SentOK(p, n) BY <1>3, <1>4 DEF SentOK
<1> QED BY <1>1, <1>5

LEMMA SentRemoved ==
    ASSUME NEW q \in Seq(Update), NEW n, SentOK(q, n), NEW i \in 1 .. Len(q)
    PROVE  SentOK(RemoveAt(q, i), n)
<1>1. PICK p : p = RemoveAt(q, i) OBVIOUS
<1>2. /\ DOMAIN p = 1 .. Len(q) - 1 /\ Len(q) \in Nat
      /\ \A j \in 1 .. Len(q) - 1 : p[j] = q[Before(j, i)] /\ Before(j, i) \in 1 .. Len(q)
      /\ \A j, k \in 1 .. Len(q) - 1 : j < k => Before(j, i) < Before(k, i)
      /\ DOMAIN q = 1 .. Len(q)
  <2>1. Without(p, q, i) BY <1>1, RemovedAt
  <2>2. Len(q) \in Nat /\ DOMAIN q = 1 .. Len(q) OBVIOUS
  <2> QED BY ONLY <2>1, <2>2 DEF Without
<1>3. \A j \in DOMAIN p :
         UpdateOK(p[j]) /\ (p[j].answer = "accepted" => p[j].version \in 1 .. n)
  BY <1>2 DEF SentOK
<1>4. ASSUME NEW j \in DOMAIN p, NEW k \in DOMAIN p, j < k
      PROVE  /\ p[k].answer # "none" => p[j].answer # "none"
             /\ p[k].answer = "failed" => p[j].answer = "failed"
             /\ p[j].tables \cap p[k].tables = {}
  <2>1. Before(j, i) < Before(k, i) /\ Before(j, i) \in DOMAIN q /\ Before(k, i) \in DOMAIN q
    BY <1>2, <1>4
  <2> QED BY <2>1, <1>2 DEF SentOK
<1>5. SentOK(p, n) BY <1>3, <1>4 DEF SentOK
<1> QED BY <1>1, <1>5

LEMMA SentAnswered ==
    ASSUME NEW q \in Seq(Update), NEW q2 \in Seq(Update), NEW n, SentOK(q, n),
           NEW i, NEW answer, Answered(q2, q, i, answer),
           \/ /\ answer \in {"accepted", "refused"} /\ q[i].answer = "none"
              /\ \A j \in 1 .. i - 1 : q[j].answer # "none"
           \/ answer = "failed" /\ \A j \in 1 .. i - 1 : q[j].answer = "failed",
           answer = "accepted" => q2[i].version \in 1 .. n
    PROVE  SentOK(q2, n)
<1>1. /\ i \in 1 .. Len(q) /\ Len(q2) = Len(q) /\ DOMAIN q = 1 .. Len(q)
      /\ DOMAIN q2 = 1 .. Len(q) /\ Len(q) \in Nat
      /\ \A j \in 1 .. Len(q) : j # i => q2[j] = q[j]
      /\ q2[i].answer = answer /\ SameUpdate(q[i], q2[i])
  BY DEF Answered
<1>2. \A j \in 1 .. Len(q) : SameUpdate(q[j], q2[j]) BY <1>1 DEF SameUpdate
<1>3. ASSUME NEW j \in DOMAIN q2
      PROVE  UpdateOK(q2[j]) /\ (q2[j].answer = "accepted" => q2[j].version \in 1 .. n)
  <2>1. UpdateOK(q[j]) BY <1>1 DEF SentOK
  <2>2. UpdateOK(q2[j]) BY <2>1, <1>1, <1>2 DEF UpdateOK, SameUpdate
  <2>3. q2[j].answer = "accepted" => q2[j].version \in 1 .. n BY <1>1 DEF SentOK
  <2> QED BY <2>2, <2>3
<1>4. ASSUME NEW j \in DOMAIN q2, NEW k \in DOMAIN q2, j < k
      PROVE  /\ q2[k].answer # "none" => q2[j].answer # "none"
             /\ q2[k].answer = "failed" => q2[j].answer = "failed"
             /\ q2[j].tables \cap q2[k].tables = {}
  <2>1. /\ q[k].answer # "none" => q[j].answer # "none"
        /\ q[k].answer = "failed" => q[j].answer = "failed"
        /\ q[j].tables \cap q[k].tables = {}
    BY <1>1, <1>4 DEF SentOK
  <2>2. q2[j].tables \cap q2[k].tables = {} BY <2>1, <1>1, <1>2 DEF SameUpdate
  <2>3. CASE k = i
    <3>1. j \in 1 .. i - 1 /\ j # i BY <2>3, <1>1, <1>4
    <3>2. q2[j] = q[j] BY <3>1, <1>1
    <3> QED BY <3>1, <3>2, <2>2, <2>3, <1>1
  <2>4. CASE k # i
    <3>1. q2[k] = q[k] BY <2>4, <1>1
    <3>2. CASE j = i
      <4>1. q2[j].answer = answer BY <3>2, <1>1
      <4>2. q[k].answer # "none" => q[i].answer # "none" BY <2>1, <3>2
      <4>3. q[k].answer = "failed" => q[i].answer = "failed" BY <2>1, <3>2
      <4> QED BY <3>1, <4>1, <4>2, <4>3, <2>2
    <3>3. CASE j # i
      <4>1. q2[j] = q[j] BY <3>3, <1>1
      <4> QED BY <3>1, <4>1, <2>1, <2>2
    <3> QED BY <3>2, <3>3
  <2> QED BY <2>3, <2>4
<1>5. SentOK(q2, n) BY <1>3, <1>4 DEF SentOK
<1> QED BY <1>5

LEMMA SentWider ==
    ASSUME NEW q, NEW n \in Nat, NEW m \in Nat, m >= n, SentOK(q, n)
    PROVE  SentOK(q, m)
BY DEF SentOK

LEMMA SentStep ==
    ASSUME TypeInv, TypeInv', SentInv, NEW c \in Clients, StepOf(c)
    PROVE  SentInv'
<1>1. ServerGrows /\ OthersStay(c) BY StepGrows
<1>2. \A d \in Clients : SentOK(sent[d], Len(server)) BY DEF SentInv
<1>3. \A d \in Clients : SentOK(sent[d], Len(server')) BY <1>1, <1>2, SentWider DEF ServerGrows
<1>4. \A d \in Clients : d # c => SentOK(sent'[d], Len(server')) BY <1>1, <1>3 DEF OthersStay
<1>5. sent[c] \in Seq(Update) /\ sent'[c] \in Seq(Update) BY DEF TypeInv
<1>6. SentOK(sent'[c], Len(server'))
  <2>1. CASE sent'[c] = sent[c] BY <2>1, <1>3
  <2>2. ASSUME NEW u, NEW k, NEW b, NEW a, IsCommit(c, u, k, b, a)
        PROVE  SentOK(sent'[c], Len(server'))
    <3>1. /\ u \in Update /\ UpdateOK(u) /\ u.answer = "none" /\ sent'[c] = Append(sent[c], u)
          /\ \A t \in u.tables : \A j \in DOMAIN sent[c] : t \notin sent[c][j].tables
      BY <2>2 DEF IsCommit
    <3>2. \A j \in DOMAIN sent[c] : sent[c][j].tables \cap u.tables = {} BY <3>1
    <3>3. SentOK(Append(sent[c], u), Len(server')) BY <1>3, <1>5, <3>1, <3>2, SentAppended
    <3> QED BY <3>1, <3>3
  <2>3. ASSUME NEW i \in DOMAIN sent[c], IsAccept(c, i) PROVE SentOK(sent'[c], Len(server'))
    <3>1. IsAnswer(c, i, "accepted") /\ sent'[c][i].version = Len(server) + 1
          /\ Len(server') = Len(server) + 1 /\ Len(server) \in Nat
      BY <2>3 DEF IsAccept, TypeInv
    <3>2. /\ sent[c][i].answer = "none" /\ Answered(sent'[c], sent[c], i, "accepted")
          /\ \A j \in 1 .. i - 1 : sent[c][j].answer # "none"
      BY <3>1 DEF IsAnswer
    <3>3. sent'[c][i].version \in 1 .. Len(server') BY <3>1
    <3> QED BY <3>2, <3>3, <1>3, <1>5, SentAnswered
  <2>4. ASSUME NEW i \in DOMAIN sent[c], IsRefuse(c, i) PROVE SentOK(sent'[c], Len(server'))
    <3>1. /\ sent[c][i].answer = "none" /\ Answered(sent'[c], sent[c], i, "refused")
          /\ \A j \in 1 .. i - 1 : sent[c][j].answer # "none"
      BY <2>4 DEF IsAnswer, IsRefuse
    <3> QED BY <3>1, <1>3, <1>5, SentAnswered
  <2>5. ASSUME NEW i \in DOMAIN sent[c], NEW b, NEW a, NEW h, IsRefused(c, i, b, a, h)
        PROVE  SentOK(sent'[c], Len(server'))
    <3>1. /\ Answered(sent'[c], sent[c], i, "failed")
          /\ \A j \in 1 .. i - 1 : sent[c][j].answer = "failed"
      BY <2>5 DEF IsRefused
    <3> QED BY <3>1, <1>3, <1>5, SentAnswered
  <2>6. ASSUME NEW i \in 1 .. Len(sent[c]), sent'[c] = RemoveAt(sent[c], i)
        PROVE  SentOK(sent'[c], Len(server'))
    BY <2>6, <1>3, <1>5, SentRemoved
  <2>7. CASE sent'[c] = <<>> BY <2>7 DEF SentOK
  <2> QED BY <2>1, <2>2, <2>3, <2>4, <2>5, <2>6, <2>7
          DEF StepOf, IsConnect, IsReload, IsLoaded, IsCrash, IsFirstData, IsDeliver,
              IsExternal, IsAccepted, IsReloaded, IsBegin, IsEnd, Idle
<1> QED BY <1>4, <1>6 DEF SentInv, SentOK

LEMMA ClientStep ==
    ASSUME TypeInv, TypeInv', ClientInv, SentInv, NEW c \in Clients, StepOf(c)
    PROVE  ClientInv'
<1>1. ServerGrows /\ OthersStay(c) BY StepGrows
<1>2. \A d \in Clients : ClientOK(d) BY DEF ClientInv
<1>3. \A d \in Clients : at[d] \in 1 .. Len(server') BY <1>1, <1>2 DEF ServerGrows, ClientOK
<1>4. \A d \in Clients : d # c => ClientOK(d)' BY <1>1, <1>2, <1>3 DEF OthersStay, ClientOK
<1>5. Len(server) \in Nat /\ Len(server) \in 1 .. Len(server') /\ at[c] \in Nat
      /\ nextId[c] \in Nat /\ nextId'[c] \in Nat
  BY <1>1 DEF ServerGrows, TypeInv
<1>6. ClientOK(c) /\ at[c] \in 1 .. Len(server') BY <1>2, <1>3
<1>7. ASSUME IsConnect(c) PROVE ClientOK(c)'
  <2>1. Now.rev \in Nat BY VersionsTyped, VersionFields, TypeIs
  <2>2. NewStore(Now.rev).tasks = <<>> BY <2>1, NewStoreTyped
  <2> QED BY <1>6, <1>7, <2>2 DEF IsConnect, ClientOK
<1>8. ASSUME NEW t \in Tables, IsReload(c, t) PROVE ClientOK(c)'
  BY <1>6, <1>8 DEF IsReload, ClientOK, LocksStay
<1>9. ASSUME IsLoaded(c) PROVE ClientOK(c)'
  BY <1>5, <1>6, <1>9 DEF IsLoaded, ClientOK, LocksStay
<1>10. ASSUME IsCrash(c) PROVE ClientOK(c)'
  <2>1. NewStore(-1).tasks = <<>> BY NewStoreTyped
  <2> QED BY <1>6, <1>10, <2>1 DEF IsCrash, ClientOK
<1>11. ASSUME NEW view, NEW k, IsFirstData(c, view, k) PROVE ClientOK(c)'
  BY <1>5, <1>6, <1>11 DEF IsFirstData, ClientOK, LocksStay
<1>12. ASSUME NEW version \in at[c] + 1 .. Len(server), NEW b, NEW a, IsDeliver(c, version, b, a)
       PROVE  ClientOK(c)'
  <2>1. version \in 1 .. Len(server') BY <1>1, <1>5 DEF ServerGrows
  <2> QED BY <1>6, <1>12, <2>1 DEF IsDeliver, ClientOK, LocksStay
<1>13. ASSUME NEW i, IsExternal(c, i) PROVE ClientOK(c)'
  BY <1>6, <1>13 DEF IsExternal, ClientOK
<1>14. ASSUME NEW u, NEW k, NEW b, NEW a, IsCommit(c, u, k, b, a), c \in Writers
       PROVE ClientOK(c)'
  BY <1>5, <1>6, <1>14 DEF IsCommit, ClientOK
<1>15. ASSUME c \in Writers, NEW i \in DOMAIN sent[c],
              \/ IsAccept(c, i) \/ IsRefuse(c, i)
              \/ \E b, a : IsAccepted(c, i, b, a)
              \/ \E b, a, h : IsRefused(c, i, b, a, h)
              \/ \E view : IsReloaded(c, i, view)
       PROVE  ClientOK(c)'
  <2>1. status[c] = "ready"
    <3>1. sent[c] # <<>> BY <1>15
    <3> QED BY <3>1, <1>6 DEF ClientOK
  <2>2. sent[c][i].answer = "accepted" => sent[c][i].version \in 1 .. Len(server')
    <3>1. sent[c][i].answer = "accepted" => sent[c][i].version \in 1 .. Len(server) BY DEF SentInv, SentOK
    <3> QED BY <3>1, <1>1 DEF ServerGrows
  <2>3. CASE IsAccept(c, i)
    BY <1>6, <1>15, <2>1, <2>3 DEF IsAccept, IsAnswer, ClientOK, Rest, LocksStay
  <2>4. CASE IsRefuse(c, i)
    BY <1>6, <1>15, <2>1, <2>4 DEF IsRefuse, IsAnswer, ClientOK, Rest, LocksStay
  <2>5. ASSUME NEW b, NEW a, IsAccepted(c, i, b, a) PROVE ClientOK(c)'
    BY <1>6, <1>15, <2>1, <2>2, <2>5 DEF IsAccepted, ClientOK, Rest, LocksStay
  <2>6. ASSUME NEW b, NEW a, NEW h, IsRefused(c, i, b, a, h) PROVE ClientOK(c)'
    BY <1>6, <1>15, <2>1, <2>6 DEF IsRefused, ClientOK, Rest, LocksStay
  <2>7. ASSUME NEW view, IsReloaded(c, i, view) PROVE ClientOK(c)'
    BY <1>6, <1>15, <2>1, <2>7 DEF IsReloaded, ClientOK, Rest, LocksStay
  <2> QED BY <1>15, <2>3, <2>4, <2>5, <2>6, <2>7
<1>17. ASSUME NEW tables, IsBegin(c, tables) \/ IsEnd(c, tables) PROVE ClientOK(c)'
  BY <1>6, <1>17 DEF IsBegin, IsEnd, Idle, ClientOK
<1>16. ClientOK(c)'
  BY <1>17, <1>7, <1>8, <1>9, <1>10, <1>11, <1>12, <1>13, <1>14, <1>15 DEF StepOf
<1> QED BY <1>4, <1>16 DEF ClientInv

\* Locks stay apart when an update keeps those of its transaction.
LEMMA BegunAppended ==
    ASSUME NEW q \in Seq(Update), NEW u \in Update, NEW locks, BegunOK(locks, q),
           u.tables \in locks
    PROVE  BegunOK(locks \ {u.tables}, Append(q, u))
<1>1. PICK p : p = Append(q, u) OBVIOUS
<1>2. /\ DOMAIN p = 1 .. Len(q) + 1 /\ Len(q) \in Nat /\ p[Len(q) + 1] = u
      /\ \A i \in 1 .. Len(q) : p[i] = q[i]
      /\ DOMAIN q = 1 .. Len(q)
  BY <1>1
<1>3. ASSUME NEW s \in locks \ {u.tables}, NEW j \in DOMAIN p PROVE s \cap p[j].tables = {}
  <2>1. CASE j = Len(q) + 1
    <3>1. s \cap u.tables = {} BY DEF BegunOK
    <3> QED BY <3>1, <2>1, <1>2
  <2>2. CASE j # Len(q) + 1
    <3>1. j \in DOMAIN q /\ p[j] = q[j] BY <2>2, <1>2
    <3> QED BY <3>1 DEF BegunOK
  <2> QED BY <2>1, <2>2
<1> QED BY <1>1, <1>3 DEF BegunOK

LEMMA BegunRemoved ==
    ASSUME NEW q \in Seq(Update), NEW i \in 1 .. Len(q), NEW locks, BegunOK(locks, q)
    PROVE  BegunOK(locks, RemoveAt(q, i))
<1>1. PICK p : p = RemoveAt(q, i) OBVIOUS
<1>2. p \in Seq(Update) /\ Len(p) = Len(q) - 1 /\ \A j \in 1 .. Len(p) : p[j] = q[Before(j, i)]
  BY <1>1, RemoveAtIs DEF Before
<1>3. ASSUME NEW j \in DOMAIN p PROVE \E k \in DOMAIN q : p[j] = q[k]
  <2>1. j \in 1 .. Len(p) /\ p[j] = q[Before(j, i)] BY <1>2
  <2>2. Before(j, i) \in 1 .. Len(q) BY <2>1, <1>2 DEF Before
  <2> QED BY <2>1, <2>2
<1> QED BY <1>1, <1>3 DEF BegunOK

LEMMA BegunAnswered ==
    ASSUME NEW q \in Seq(Update), NEW i, NEW answer, NEW q2 \in Seq(Update),
           Answered(q2, q, i, answer), NEW locks, BegunOK(locks, q)
    PROVE  BegunOK(locks, q2)
<1>1. ASSUME NEW j \in DOMAIN q2 PROVE j \in DOMAIN q /\ q2[j].tables = q[j].tables
  <2>1. j \in 1 .. Len(q) BY DEF Answered
  <2>2. CASE j = i BY <2>1, <2>2 DEF Answered, SameUpdate
  <2>3. CASE j # i BY <2>1, <2>3 DEF Answered
  <2> QED BY <2>1, <2>2, <2>3
<1> QED BY <1>1 DEF BegunOK

LEMMA BegunStep ==
    ASSUME TypeInv, TypeInv', BegunInv, NEW c \in Clients, StepOf(c)
    PROVE  BegunInv'
<1>1. OthersStay(c) BY StepGrows
<1>2. \A d \in Clients : BegunOK(begun[d], sent[d]) BY DEF BegunInv
<1>3. \A d \in Clients : d # c => BegunOK(begun'[d], sent'[d]) BY <1>1, <1>2 DEF OthersStay
<1>4. sent[c] \in Seq(Update) /\ sent'[c] \in Seq(Update) BY DEF TypeInv
<1>5. BegunOK(begun'[c], sent'[c])
  <2>1. CASE sent'[c] = sent[c] /\ begun'[c] = begun[c] BY <2>1, <1>2
  <2>2. CASE begun'[c] = {} BY <2>2 DEF BegunOK
  <2>3. ASSUME NEW tables, IsBegin(c, tables) PROVE BegunOK(begun'[c], sent'[c])
    <3>1. begun'[c] = begun[c] \cup {tables} /\ sent'[c] = sent[c]
      BY <2>3 DEF IsBegin, Idle
    <3>6. \A t \in tables : \A r \in begun[c] : t \notin r
      BY <2>3 DEF IsBegin
    <3>7. \A t \in tables : \A m \in DOMAIN sent[c] : t \notin sent[c][m].tables
      BY <2>3 DEF IsBegin
    <3>4. ASSUME NEW r \in begun[c] PROVE tables \cap r = {} /\ r \cap tables = {}
      BY ONLY <3>6, <3>4
    <3>5. ASSUME NEW j \in DOMAIN sent[c] PROVE tables \cap sent[c][j].tables = {}
      BY ONLY <3>7, <3>5
    <3>2. /\ \A r \in begun[c] : tables \cap r = {} /\ r \cap tables = {}
          /\ \A j \in DOMAIN sent[c] : tables \cap sent[c][j].tables = {}
      BY ONLY <3>4, <3>5
    <3>3. BegunOK(begun[c], sent[c]) BY <1>2
    <3> QED BY ONLY <3>1, <3>2, <3>3 DEF BegunOK
  <2>4. ASSUME NEW tables, IsEnd(c, tables) PROVE BegunOK(begun'[c], sent'[c])
    BY <2>4, <1>2 DEF IsEnd, Idle, BegunOK
  <2>5. ASSUME NEW u, NEW k, NEW b, NEW a, IsCommit(c, u, k, b, a)
        PROVE  BegunOK(begun'[c], sent'[c])
    BY <2>5, <1>2, <1>4, BegunAppended DEF IsCommit
  <2>6. ASSUME NEW i \in DOMAIN sent[c],
               \/ IsAccept(c, i) \/ IsRefuse(c, i)
               \/ \E b, a, h : IsRefused(c, i, b, a, h)
        PROVE  BegunOK(begun'[c], sent'[c])
    <3>1. begun'[c] = begun[c] /\ \E answer : Answered(sent'[c], sent[c], i, answer)
      BY <2>6 DEF IsAccept, IsRefuse, IsAnswer, IsRefused, LocksStay
    <3> QED BY <3>1, <1>2, <1>4, BegunAnswered
  <2>7. ASSUME NEW i \in DOMAIN sent[c],
               (\E b, a : IsAccepted(c, i, b, a)) \/ (\E view : IsReloaded(c, i, view))
        PROVE  BegunOK(begun'[c], sent'[c])
    <3>1. begun'[c] = begun[c] /\ i \in 1 .. Len(sent[c]) /\ sent'[c] = RemoveAt(sent[c], i)
      BY <2>7 DEF IsAccepted, IsReloaded, LocksStay
    <3> QED BY <3>1, <1>2, <1>4, BegunRemoved
  <2> QED BY <2>1, <2>2, <2>3, <2>4, <2>5, <2>6, <2>7
          DEF StepOf, IsConnect, IsReload, IsLoaded, IsCrash, IsFirstData, IsDeliver,
              IsExternal, LocksStay
<1> QED BY <1>3, <1>5 DEF BegunInv

-----------------------------------------------------------------------------
(* These hold at first and always.                                         *)

LEMMA InitTyped == Init => Basics
<1> SUFFICES ASSUME Init PROVE Basics OBVIOUS
<1>1. PICK first : first = CHOOSE t \in Tables : TRUE OBVIOUS
<1>2. first \in Tables BY <1>1, FirebaseAssumption
<1>3. PICK row : row = [rev |-> 2, table |-> first, value |-> 0] OBVIOUS
<1>4. row \in Row BY <1>2, <1>3 DEF Row
<1>5. PICK rows : rows = Put(None, 1, row) OBVIOUS
<1>6. DOMAIN rows = {1} /\ rows[1] = row /\ rows = [x \in DOMAIN rows |-> rows[x]]
  BY <1>5, NoneIs DEF Put
<1>7. 1 \in Id BY FirebaseAssumption DEF Id
<1>8. rows \in ServerRows BY <1>4, <1>6, <1>7, ServerRowsIs
<1>9. server = <<[rev |-> 2, rows |-> rows]>> BY <1>1, <1>3, <1>5 DEF Init
<1>10. [rev |-> 2, rows |-> rows] \in Version BY <1>8 DEF Version
<1>11. server \in Seq(Version) /\ Len(server) = 1 BY <1>9, <1>10
<1>12. NewStore(-1) \in Store /\ NewStore(-1).tasks = <<>> BY NewStoreTyped
<1>13. NoRows \in [Tables -> TableRows] BY NoneIs DEF NoRows
<1>14. <<>> \in Seq(Update) OBVIOUS
<1>18. /\ status = [c \in Clients |-> "closed"] /\ loaded = [c \in Clients |-> {}]
       /\ listening = [c \in Clients |-> FALSE] /\ at = [c \in Clients |-> 1]
       /\ store = [c \in Clients |-> NewStore(-1)] /\ cache = [c \in Clients |-> NoRows]
       /\ nextId = [c \in Clients |-> 0] /\ sent = [c \in Clients |-> <<>>]
       /\ begun = [c \in Clients |-> {}]
       /\ missed = [c \in Clients |-> {}] /\ overtaken = [c \in Clients |-> {}]
       /\ outOfStep = FALSE /\ updates = 0 /\ crashes = 0
  BY DEF Init
<1>21. outOfStep = FALSE /\ updates = 0 /\ crashes = 0 BY ONLY <1>18
<1>22. outOfStep \in BOOLEAN BY ONLY <1>21
<1>23. Len(server) >= 1 /\ updates \in Nat /\ crashes \in Nat BY ONLY <1>11, <1>21
<1>19. Globals BY ONLY <1>11, <1>22, <1>23 DEF Globals
<1>20. ClientsTyped BY ONLY <1>12, <1>13, <1>14, <1>18 DEF ClientsTyped, AreFunctions
<1>15. TypeInv BY <1>19, <1>20, TypeIs
<1>16. ClientInv BY <1>11, <1>12 DEF Init, ClientInv, ClientOK
<1>17. SentInv BY DEF Init, SentInv, SentOK
<1>24. BegunInv BY DEF Init, BegunInv, BegunOK
<1> QED BY <1>15, <1>16, <1>17, <1>24 DEF Basics

LEMMA BasicsStep ==
    ASSUME Basics, Next
    PROVE  Basics' /\ \E c \in Clients : StepOf(c)
<1>1. TypeInv' /\ \E c \in Clients : StepOf(c) BY NextIsStep DEF Basics
<1>2. PICK c \in Clients : StepOf(c) BY <1>1
<1>3. ClientInv' BY <1>1, <1>2, ClientStep DEF Basics
<1>4. SentInv' BY <1>1, <1>2, SentStep DEF Basics
<1>5. BegunInv' BY <1>1, <1>2, BegunStep DEF Basics
<1> QED BY <1>1, <1>3, <1>4, <1>5 DEF Basics

LEMMA BasicsStay ==
    ASSUME Basics, UNCHANGED vars
    PROVE  Basics'
BY DEF Basics, TypeInv, ClientInv, ClientOK, SentInv, BegunInv, vars, connection, memory,
       writing, history

\* Always, whoever writes: the variables are what they are meant to be, only writers
\* have updates under way, which are answered in order and write different tables.
THEOREM AlwaysTyped == Spec => []Basics
<1>1. Basics /\ [Next]_vars => Basics' BY BasicsStep, BasicsStay
<1> QED BY <1>1, InitTyped, PTL DEF Spec

-----------------------------------------------------------------------------
(* Values grow.                                                            *)

LEMMA SentValues ==
    ASSUME NEW q \in Seq(Update), NEW i \in 1 .. Len(q), NEW id \in DOMAIN q[i].put
    PROVE  q[i].put[id].value \in Nat
BY UpdateFields

LEMMA ServerValues ==
    ASSUME NEW s \in Seq(Version), NEW v \in 1 .. Len(s), NEW id \in DOMAIN s[v].rows
    PROVE  s[v].rows[id].value \in Nat
BY VersionFields

LEMMA RisingHigher ==
    ASSUME NEW s \in Seq(Version), NEW n \in Nat, NEW m \in Nat, n <= m, Rising(s, n)
    PROVE  Rising(s, m)
BY ServerValues DEF Rising

LEMMA NewerHigher ==
    ASSUME NEW q \in Seq(Update), NEW s, NEW n \in Nat, NEW m \in Nat, n <= m, Newer(q, s, n)
    PROVE  Newer(q, s, m)
BY SentValues DEF Newer

LEMMA NewerAppended ==
    ASSUME NEW q \in Seq(Update), NEW s \in Seq(Version), NEW n \in Nat, Newer(q, s, n),
           Rising(s, n), NEW u \in Update, \A id \in DOMAIN u.put : u.put[id].value = n + 1
    PROVE  Newer(Append(q, u), s, n + 1)
<1>1. PICK p : p = Append(q, u) OBVIOUS
<1>2. /\ p \in Seq(Update) /\ Len(p) = Len(q) + 1 /\ Len(q) \in Nat /\ p[Len(q) + 1] = u
      /\ \A i \in 1 .. Len(q) : p[i] = q[i]
  BY <1>1
<1>3. ASSUME NEW i \in 1 .. Len(p), NEW id \in DOMAIN p[i].put PROVE p[i].put[id].value <= n + 1
  <2>1. CASE i = Len(q) + 1 BY <2>1, <1>2, <1>3
  <2>2. CASE i # Len(q) + 1
    <3>1. i \in 1 .. Len(q) BY <2>2, <1>2
    <3>2. q[i].put[id].value <= n /\ q[i].put[id].value \in Nat
      BY <3>1, <1>2, <1>3, SentValues DEF Newer
    <3> QED BY <3>1, <3>2, <1>2
  <2> QED BY <2>1, <2>2
<1>4. ASSUME NEW i \in 1 .. Len(p), NEW id \in DOMAIN p[i].put, p[i].answer = "none"
      PROVE  \A v \in 1 .. Len(s) : \A id2 \in DOMAIN s[v].rows :
                    s[v].rows[id2].value <= p[i].put[id].value
  <2>1. CASE i = Len(q) + 1
    <3>1. p[i].put[id].value = n + 1 BY <2>1, <1>2, <1>4
    <3>2. \A v \in 1 .. Len(s) : \A id2 \in DOMAIN s[v].rows :
             s[v].rows[id2].value <= n /\ s[v].rows[id2].value \in Nat
      BY ServerValues DEF Rising
    <3> QED BY <3>1, <3>2
  <2>2. CASE i # Len(q) + 1
    <3>1. i \in 1 .. Len(q) /\ p[i] = q[i] BY <2>2, <1>2
    <3> QED BY <3>1, <1>4 DEF Newer
  <2> QED BY <2>1, <2>2
<1>5. ASSUME NEW i \in 1 .. Len(p), NEW id \in DOMAIN p[i].put, p[i].answer = "none",
             NEW j \in i .. Len(p), NEW id2 \in DOMAIN p[j].put
      PROVE  p[i].put[id].value <= p[j].put[id2].value
  <2>1. i \in Int /\ j \in 1 .. Len(p) /\ i <= j BY <1>2
  <2>2. CASE i = Len(q) + 1
    <3>1. j = Len(q) + 1 BY <2>1, <2>2, <1>2
    <3> QED BY <3>1, <2>2, <1>2, <1>5
  <2>3. CASE i # Len(q) + 1
    <3>1. i \in 1 .. Len(q) /\ p[i] = q[i] BY <2>3, <1>2
    <3>2. CASE j = Len(q) + 1
      <4>1. p[j].put[id2].value = n + 1 BY <3>2, <1>2, <1>5
      <4>2. p[i].put[id].value <= n /\ p[i].put[id].value \in Nat
        BY <3>1, <1>5, SentValues DEF Newer
      <4> QED BY <4>1, <4>2
    <3>3. CASE j # Len(q) + 1
      <4>1. j \in i .. Len(q) /\ j \in 1 .. Len(q) /\ p[j] = q[j] BY <3>3, <2>1, <1>2
      <4> QED BY <3>1, <4>1, <1>5 DEF Newer
    <3> QED BY <3>2, <3>3
  <2> QED BY <2>2, <2>3
<1>6. Newer(p, s, n + 1) BY <1>3, <1>4, <1>5 DEF Newer
<1> QED BY <1>1, <1>6

LEMMA NewerRemoved ==
    ASSUME NEW q \in Seq(Update), NEW s, NEW n, Newer(q, s, n), NEW i \in 1 .. Len(q)
    PROVE  Newer(RemoveAt(q, i), s, n)
<1>1. PICK p : p = RemoveAt(q, i) OBVIOUS
<1>2. Without(p, q, i) BY <1>1, RemovedAt
<1>3. /\ Len(p) = Len(q) - 1 /\ Len(q) \in Nat
      /\ \A j \in 1 .. Len(p) : p[j] = q[Before(j, i)] /\ Before(j, i) \in 1 .. Len(q)
      /\ \A j, k \in 1 .. Len(p) : j < k => Before(j, i) < Before(k, i)
  BY <1>2 DEF Without
<1>4. ASSUME NEW j \in 1 .. Len(p), NEW k \in j .. Len(p)
      PROVE  k \in 1 .. Len(p) /\ Before(k, i) \in Before(j, i) .. Len(q)
  <2>1. k \in 1 .. Len(p) /\ (j = k \/ j < k) BY <1>3
  <2>2. CASE j = k BY <2>1, <2>2, <1>3
  <2>3. CASE j < k BY <2>1, <2>3, <1>3
  <2> QED BY <2>1, <2>2, <2>3
<1>5. ASSUME NEW j \in 1 .. Len(p), NEW id \in DOMAIN p[j].put
      PROVE  p[j].put[id].value <= n
  BY <1>3 DEF Newer
<1>6. ASSUME NEW j \in 1 .. Len(p), NEW id \in DOMAIN p[j].put, p[j].answer = "none"
      PROVE  \A v \in 1 .. Len(s) : \A id2 \in DOMAIN s[v].rows :
                    s[v].rows[id2].value <= p[j].put[id].value
  BY <1>3, <1>6 DEF Newer
<1>7. ASSUME NEW j \in 1 .. Len(p), NEW id \in DOMAIN p[j].put, p[j].answer = "none",
             NEW k \in j .. Len(p), NEW id2 \in DOMAIN p[k].put
      PROVE  p[j].put[id].value <= p[k].put[id2].value
  <2>1. PICK j2 : j2 = Before(j, i) OBVIOUS
  <2>2. PICK k2 : k2 = Before(k, i) OBVIOUS
  <2>3. p[j] = q[j2] /\ j2 \in 1 .. Len(q) BY ONLY <2>1, <1>3, j \in 1 .. Len(p)
  <2>4. p[k] = q[k2] /\ k2 \in j2 .. Len(q) BY <2>1, <2>2, <1>3, <1>4
  <2> QED BY ONLY <2>3, <2>4, <1>7, Newer(q, s, n) DEF Newer
<1>8. Newer(p, s, n) BY <1>5, <1>6, <1>7 DEF Newer
<1> QED BY <1>1, <1>8

LEMMA NewerAnswered ==
    ASSUME NEW q \in Seq(Update), NEW q2 \in Seq(Update), NEW s, NEW n, Newer(q, s, n),
           NEW i, NEW answer \in {"accepted", "refused", "failed"}, Answered(q2, q, i, answer)
    PROVE  Newer(q2, s, n)
<1>1. /\ Len(q2) = Len(q) /\ Len(q) \in Nat
      /\ \A j \in 1 .. Len(q) : j # i => q2[j] = q[j]
      /\ q2[i].answer = answer /\ SameUpdate(q[i], q2[i])
  BY DEF Answered
<1>2. \A j \in 1 .. Len(q) : q2[j].put = q[j].put /\ (q2[j].answer = "none" => q[j].answer = "none")
  BY <1>1 DEF SameUpdate
<1>3. \A j \in 1 .. Len(q) : \A k \in j .. Len(q) : k \in 1 .. Len(q) BY <1>1
<1> QED BY <1>1, <1>2, <1>3 DEF Newer

\* The server takes an update that was not answered.
LEMMA RisingAccepted ==
    ASSUME NEW s \in Seq(Version), Len(s) >= 1, NEW q \in Seq(Update), NEW n \in Nat,
           Rising(s, n), Newer(q, s, n), NEW i \in 1 .. Len(q), q[i].answer = "none"
    PROVE  /\ Rising(Append(s, Overlaid(s[Len(s)], q[i])), n)
           /\ \A j \in 1 .. Len(q) : q[j].answer = "none" /\ i < j =>
                 \A id \in DOMAIN q[j].put :
                 \A v \in 1 .. Len(s) + 1 :
                 \A id2 \in DOMAIN Append(s, Overlaid(s[Len(s)], q[i]))[v].rows :
                     Append(s, Overlaid(s[Len(s)], q[i]))[v].rows[id2].value <= q[j].put[id].value
<1>1. PICK w : w = Overlaid(s[Len(s)], q[i]) OBVIOUS
<1>2. PICK s2 : s2 = Append(s, w) OBVIOUS
<1>3. q[i] \in Update /\ Len(s) \in 1 .. Len(s) /\ s[Len(s)] \in Version /\ Len(s) \in Nat
  OBVIOUS
<1>4. /\ w \in Version
      /\ \A id \in DOMAIN w.rows :
            \/ id \in DOMAIN q[i].put /\ w.rows[id].value = q[i].put[id].value
            \/ id \in DOMAIN s[Len(s)].rows /\ w.rows[id] = s[Len(s)].rows[id]
               /\ id \notin DOMAIN q[i].put
  <2>1. /\ w \in Version
        /\ DOMAIN w.rows = (DOMAIN s[Len(s)].rows \ q[i].gone) \cup DOMAIN q[i].put
        /\ \A id \in DOMAIN q[i].put : w.rows[id] =
              [rev |-> q[i].rev, table |-> q[i].put[id].table, value |-> q[i].put[id].value]
        /\ \A id : id \notin Ids(q[i]) => SameAt(w.rows, s[Len(s)].rows, id)
    BY <1>1, <1>3, OverlaidIs
  <2>2. ASSUME NEW id \in DOMAIN w.rows, id \notin DOMAIN q[i].put
        PROVE  id \in DOMAIN s[Len(s)].rows /\ w.rows[id] = s[Len(s)].rows[id]
    <3>1. id \notin Ids(q[i]) BY <2>1, <2>2 DEF Ids
    <3>2. SameAt(w.rows, s[Len(s)].rows, id) BY <3>1, <2>1
    <3> QED BY <3>2, <2>2 DEF SameAt
  <2>3. ASSUME NEW id \in DOMAIN w.rows
        PROVE  \/ id \in DOMAIN q[i].put /\ w.rows[id].value = q[i].put[id].value
               \/ id \in DOMAIN s[Len(s)].rows /\ w.rows[id] = s[Len(s)].rows[id]
                  /\ id \notin DOMAIN q[i].put
    <3>1. CASE id \in DOMAIN q[i].put
      <4>1. w.rows[id] = [rev |-> q[i].rev, table |-> q[i].put[id].table, value |-> q[i].put[id].value]
        BY <3>1, <2>1
      <4>2. w.rows[id].value = q[i].put[id].value BY ONLY <4>1
      <4> QED BY <3>1, <4>2
    <3>2. CASE id \notin DOMAIN q[i].put BY <3>2, <2>2
    <3> QED BY <3>1, <3>2
  <2>4. w \in Version BY <2>1
  <2> QED BY <2>3, <2>4
<1>5. /\ s2 \in Seq(Version) /\ Len(s2) = Len(s) + 1 /\ s2[Len(s) + 1] = w
      /\ \A v \in 1 .. Len(s) : s2[v] = s[v]
  BY <1>2, <1>3, <1>4
<1>6. ASSUME NEW v \in 1 .. Len(s2), NEW id \in DOMAIN s2[v].rows
      PROVE  s2[v].rows[id].value <= n
  <2>1. CASE v = Len(s) + 1
    <3>1. CASE id \in DOMAIN q[i].put /\ w.rows[id].value = q[i].put[id].value
      BY <2>1, <3>1, <1>5 DEF Newer
    <3>2. CASE id \in DOMAIN s[Len(s)].rows /\ w.rows[id] = s[Len(s)].rows[id]
      BY <2>1, <3>2, <1>3, <1>5 DEF Rising
    <3> QED BY <3>1, <3>2, <2>1, <1>4, <1>5, <1>6
  <2>2. CASE v # Len(s) + 1
    <3>1. v \in 1 .. Len(s) BY <2>2, <1>3, <1>5
    <3> QED BY <3>1, <1>5, <1>6 DEF Rising
  <2> QED BY <2>1, <2>2
<1>7. ASSUME NEW v \in 1 .. Len(s2), NEW id \in DOMAIN s2[v].rows,
             NEW x \in v .. Len(s2), id \in DOMAIN s2[x].rows
      PROVE  s2[v].rows[id].value <= s2[x].rows[id].value
  <2>1. CASE v = Len(s) + 1
    <3>1. x = v BY <2>1, <1>3, <1>5
    <3>2. s2[v].rows[id].value \in Nat BY <1>5, <1>7, ServerValues
    <3> QED BY <3>1, <3>2
  <2>2. CASE v # Len(s) + 1
    <3>1. v \in 1 .. Len(s) /\ s2[v] = s[v] BY <2>2, <1>3, <1>5
    <3>2. CASE x = Len(s) + 1
      <4>1. CASE id \in DOMAIN q[i].put /\ w.rows[id].value = q[i].put[id].value
        BY <3>1, <3>2, <4>1, <1>5, <1>7 DEF Newer
      <4>2. CASE id \in DOMAIN s[Len(s)].rows /\ w.rows[id] = s[Len(s)].rows[id]
        <5>1. Len(s) \in v .. Len(s) BY <3>1, <1>3
        <5> QED BY <3>1, <3>2, <4>2, <5>1, <1>5, <1>7 DEF Rising
      <4> QED BY <4>1, <4>2, <3>2, <1>4, <1>5, <1>7
    <3>3. CASE x # Len(s) + 1
      <4>1. x \in v .. Len(s) /\ x \in 1 .. Len(s) /\ s2[x] = s[x] BY <3>1, <3>3, <1>3, <1>5
      <4> QED BY <3>1, <4>1, <1>7 DEF Rising
    <3> QED BY <3>2, <3>3
  <2> QED BY <2>1, <2>2
<1>8. Rising(s2, n) BY <1>6, <1>7 DEF Rising
<1>9. ASSUME NEW j \in 1 .. Len(q), q[j].answer = "none", i < j, NEW id \in DOMAIN q[j].put,
             NEW v \in 1 .. Len(s) + 1, NEW id2 \in DOMAIN s2[v].rows
      PROVE  s2[v].rows[id2].value <= q[j].put[id].value
  <2>1. CASE v = Len(s) + 1
    <3>1. CASE id2 \in DOMAIN q[i].put /\ w.rows[id2].value = q[i].put[id2].value
      <4>1. j \in i .. Len(q) BY <1>9
      <4> QED BY <4>1, <3>1, <2>1, <1>5, <1>9 DEF Newer
    <3>2. CASE id2 \in DOMAIN s[Len(s)].rows /\ w.rows[id2] = s[Len(s)].rows[id2]
      BY <3>2, <2>1, <1>3, <1>5, <1>9 DEF Newer
    <3> QED BY <3>1, <3>2, <2>1, <1>4, <1>5, <1>9
  <2>2. CASE v # Len(s) + 1
    <3>1. v \in 1 .. Len(s) /\ s2[v] = s[v] BY <2>2, <1>3, <1>5
    <3> QED BY <3>1, <1>9 DEF Newer
  <2> QED BY <2>1, <2>2
<1> QED BY <1>1, <1>2, <1>8, <1>9

LEMMA NewerOfNone ==
    ASSUME NEW s, NEW n
    PROVE  Newer(<<>>, s, n)
<1>1. Len(<<>>) = 0 OBVIOUS
<1> QED BY <1>1 DEF Newer

LEMMA NewerAccepted ==
    ASSUME NEW s \in Seq(Version), Len(s) >= 1, NEW q \in Seq(Update), NEW q2 \in Seq(Update),
           NEW n \in Nat, Rising(s, n), Newer(q, s, n), NEW i \in 1 .. Len(q),
           q[i].answer = "none", \A j \in 1 .. i - 1 : q[j].answer # "none",
           Answered(q2, q, i, "accepted"),
           NEW s2, s2 = Append(s, Overlaid(s[Len(s)], q[i]))
    PROVE  Rising(s2, n) /\ Newer(q2, s2, n)
<1>1. /\ Rising(s2, n)
      /\ \A j \in 1 .. Len(q) : q[j].answer = "none" /\ i < j =>
            \A id \in DOMAIN q[j].put : \A v \in 1 .. Len(s) + 1 : \A id2 \in DOMAIN s2[v].rows :
                s2[v].rows[id2].value <= q[j].put[id].value
  BY RisingAccepted
<1>2. Newer(q2, s, n) BY NewerAnswered
<1>3. Len(s2) = Len(s) + 1 OBVIOUS
<1>4. ASSUME NEW j \in 1 .. Len(q2), q2[j].answer = "none"
      PROVE  j \in 1 .. Len(q) /\ q[j] = q2[j] /\ i < j
  BY <1>4 DEF Answered
<1>5. ASSUME NEW j \in 1 .. Len(q2), NEW id \in DOMAIN q2[j].put, q2[j].answer = "none"
      PROVE  \A v \in 1 .. Len(s2) : \A id2 \in DOMAIN s2[v].rows :
                s2[v].rows[id2].value <= q2[j].put[id].value
  <2>1. j \in 1 .. Len(q) /\ q[j] = q2[j] /\ i < j BY <1>4, <1>5
  <2>2. q[j].answer = "none" /\ id \in DOMAIN q[j].put BY <2>1, <1>5
  <2>3. \A v \in 1 .. Len(s) + 1 : \A id2 \in DOMAIN s2[v].rows :
                s2[v].rows[id2].value <= q[j].put[id].value
    BY <2>1, <2>2, <1>1
  <2> QED BY <2>1, <2>3, <1>3
<1>6. Newer(q2, s2, n) BY <1>2, <1>5 DEF Newer
<1> QED BY <1>1, <1>6

\* Values grow with each step.
LEMMA ValueStep ==
    ASSUME OneWriter, TypeInv, TypeInv', ValueInv, NEW c \in Clients, StepOf(c)
    PROVE  ValueInv'
<1>1. Rising(server, updates) /\ \A d \in Writers : Newer(sent[d], server, updates)
  BY DEF ValueInv
<1>2. /\ server \in Seq(Version) /\ Len(server) >= 1 /\ updates \in Nat
      /\ \A d \in Writers : sent[d] \in Seq(Update) /\ sent'[d] \in Seq(Update)
      /\ sent[c] \in Seq(Update)
  BY WritersAreClients, ClientTyped DEF TypeInv, Typed
<1>3. OthersStay(c) BY StepGrows
<1>4. \A d \in Writers : d # c => sent'[d] = sent[d]
  BY <1>3, WritersAreClients DEF OthersStay
<1>5. DOMAIN sent[c] = 1 .. Len(sent[c]) BY <1>2
<1>6. ASSUME Rising(server', updates'), \A d \in Writers : Newer(sent'[d], server', updates')
      PROVE  ValueInv'
  BY <1>6 DEF ValueInv
<1>7. ASSUME server' = server, updates' = updates,
             c \in Writers => Newer(sent'[c], server, updates)
      PROVE  ValueInv'
  <2>1. \A d \in Writers : Newer(sent'[d], server, updates) BY <1>1, <1>4, <1>7
  <2> QED BY <1>1, <1>6, <1>7, <2>1
<1>8. ASSUME server' = server, updates' = updates, sent'[c] = sent[c] PROVE ValueInv'
  BY <1>1, <1>7, <1>8
<1>9. CASE IsConnect(c) BY <1>8, <1>9 DEF IsConnect, ServerStays
<1>10. ASSUME NEW t, IsReload(c, t) PROVE ValueInv' BY <1>8, <1>10 DEF IsReload, ServerStays
<1>11. CASE IsLoaded(c) BY <1>8, <1>11 DEF IsLoaded, ServerStays
<1>12. CASE IsCrash(c) BY <1>7, <1>12, NewerOfNone DEF IsCrash, ServerStays
<1>13. ASSUME NEW view, NEW k, IsFirstData(c, view, k) PROVE ValueInv'
  BY <1>8, <1>13 DEF IsFirstData, ServerStays
<1>14. ASSUME NEW v, NEW b, NEW a, IsDeliver(c, v, b, a) PROVE ValueInv'
  BY <1>8, <1>14 DEF IsDeliver, ServerStays
<1>15. ASSUME NEW i, IsExternal(c, i) PROVE ValueInv' BY <1>8, <1>15 DEF IsExternal, ServerStays
<1>16. ASSUME NEW u, NEW k, NEW b, NEW a, c \in Writers, IsCommit(c, u, k, b, a) PROVE ValueInv'
  <2>1. /\ server' = server /\ updates' = updates + 1 /\ u \in Update
        /\ sent'[c] = Append(sent[c], u)
        /\ \A id \in DOMAIN u.put : u.put[id].value = updates + 1
    BY <1>16 DEF IsCommit
  <2>2. Newer(sent'[c], server, updates + 1) BY <1>1, <1>2, <1>16, <2>1, NewerAppended
  <2>3. updates + 1 \in Nat /\ updates <= updates + 1 BY <1>2
  <2>4. Rising(server, updates + 1) BY <1>1, <1>2, <2>3, RisingHigher
  <2>5. \A d \in Writers : d # c => Newer(sent'[d], server, updates + 1)
    BY <1>1, <1>2, <1>4, <2>3, NewerHigher
  <2> QED BY <1>6, <2>1, <2>2, <2>4, <2>5
<1>17. ASSUME NEW i \in DOMAIN sent[c], c \in Writers, IsAccept(c, i) PROVE ValueInv'
  <2>1. /\ updates' = updates /\ sent[c][i].answer = "none"
        /\ \A j \in 1 .. i - 1 : sent[c][j].answer # "none"
        /\ Answered(sent'[c], sent[c], i, "accepted")
        /\ server' = Append(server, Overlaid(server[Len(server)], sent[c][i]))
    BY <1>17 DEF IsAccept, IsAnswer, Now
  <2>2. Rising(server', updates) /\ Newer(sent'[c], server', updates)
    BY <1>1, <1>2, <1>5, <1>17, <2>1, NewerAccepted
  <2>3. \A d \in Writers : d = c BY <1>17 DEF OneWriter
  <2> QED BY <1>6, <2>1, <2>2, <2>3
<1>18. ASSUME NEW i \in DOMAIN sent[c], c \in Writers, IsRefuse(c, i) PROVE ValueInv'
  BY <1>1, <1>2, <1>7, <1>18, NewerAnswered DEF IsRefuse, IsAnswer
<1>19. ASSUME NEW i \in DOMAIN sent[c], NEW b, NEW a, c \in Writers, IsAccepted(c, i, b, a)
       PROVE  ValueInv'
  BY <1>1, <1>2, <1>7, <1>19, NewerRemoved DEF IsAccepted, ServerStays
<1>20. ASSUME NEW i \in DOMAIN sent[c], NEW b, NEW a, NEW h, c \in Writers,
              IsRefused(c, i, b, a, h)
       PROVE  ValueInv'
  BY <1>1, <1>2, <1>7, <1>20, NewerAnswered DEF IsRefused
<1>21. ASSUME NEW i \in DOMAIN sent[c], NEW view, c \in Writers, IsReloaded(c, i, view)
       PROVE  ValueInv'
  BY <1>1, <1>2, <1>7, <1>21, NewerRemoved DEF IsReloaded, ServerStays
<1>22. ASSUME NEW tables, IsBegin(c, tables) \/ IsEnd(c, tables) PROVE ValueInv'
  BY <1>8, <1>22 DEF IsBegin, IsEnd, Idle, ServerStays
<1> QED
  BY <1>22, <1>9, <1>10, <1>11, <1>12, <1>13, <1>14, <1>15, <1>16, <1>17, <1>18, <1>19, <1>20, <1>21
  DEF StepOf

-----------------------------------------------------------------------------
(* What a reader has seen.                                                 *)

Extends(s2, s) ==
    /\ Len(s2) \in Nat /\ Len(s) \in Nat /\ Len(s2) >= Len(s)
    /\ \A v \in 1 .. Len(s) : s2[v] = s[v]

LEMMA HadLater ==
    ASSUME NEW s, NEW s2, Extends(s2, s), NEW n \in 0 .. Len(s), NEW m \in Nat, n <= m,
           NEW id, NEW value, Had(s, id, value, n)
    PROVE  Had(s2, id, value, m)
BY DEF Had, Extends

LEMMA HadRowsLater ==
    ASSUME NEW s, NEW s2, Extends(s2, s), NEW n \in 0 .. Len(s), NEW m \in Nat, n <= m,
           NEW rows, HadRows(s, n, rows)
    PROVE  HadRows(s2, m, rows)
BY HadLater DEF HadRows

LEMMA SeenLater ==
    ASSUME NEW s, NEW s2, Extends(s2, s), NEW n \in 0 .. Len(s), NEW m \in Nat, n <= m,
           NEW rows, NEW tasks, NEW free, HasSeen(free, s, n, rows, tasks)
    PROVE  HasSeen(free, s2, m, rows, tasks)
BY HadLater, HadRowsLater DEF HasSeen, HadTask

\* What was seen is not newer than what is there.
LEMMA HadBefore ==
    ASSUME NEW s \in Seq(Version), NEW u \in Nat, Rising(s, u), NEW n \in 1 .. Len(s),
           NEW id \in DOMAIN s[n].rows, NEW value, Had(s, id, value, n)
    PROVE  value <= s[n].rows[id].value /\ value \in Nat
<1>1. PICK v \in 1 .. n : id \in DOMAIN s[v].rows /\ s[v].rows[id].value = value BY DEF Had
<1>2. Len(s) \in Nat OBVIOUS
<1>3. v \in 1 .. Len(s) /\ n \in v .. Len(s) BY <1>1, <1>2
<1>4. s[v].rows[id].value <= s[n].rows[id].value BY <1>1, <1>3 DEF Rising
<1>5. s[v].rows[id].value \in Nat BY <1>1, <1>3, ServerValues
<1> QED BY <1>1, <1>4, <1>5

\* A task made from a version.
FromVersion(d, version) ==
    \A t \in DOMAIN d : \A id \in DOMAIN d[t].put :
        id \in DOMAIN version.rows /\ d[t].put[id] = version.rows[id].value

LEMMA SeenAppended ==
    ASSUME NEW s \in Seq(Version), NEW u \in Nat, Rising(s, u), NEW n \in 1 .. Len(s),
           NEW rows, NEW tasks \in Seq(Task), NEW free, HasSeen(free, s, n, rows, tasks),
           NEW d \in Task, FromVersion(d, s[n])
    PROVE  HasSeen(free, s, n, rows, Append(tasks, d))
<1>1. PICK p : p = Append(tasks, d) OBVIOUS
<1>2. /\ Len(p) = Len(tasks) + 1 /\ Len(tasks) \in Nat /\ p[Len(p)] = d
      /\ \A i \in 1 .. Len(tasks) : p[i] = tasks[i]
  BY <1>1
<1>3. ASSUME NEW t \in DOMAIN d, NEW id \in DOMAIN d[t].put
      PROVE  /\ Had(s, id, d[t].put[id], n) /\ d[t].put[id] \in Nat
             /\ \A value : Had(s, id, value, n) => value <= d[t].put[id]
  <2>1. id \in DOMAIN s[n].rows /\ d[t].put[id] = s[n].rows[id].value BY <1>3 DEF FromVersion
  <2>2. Had(s, id, d[t].put[id], n) BY <2>1 DEF Had
  <2>3. \A value : Had(s, id, value, n) => value <= s[n].rows[id].value /\ value \in Nat
    BY <2>1, HadBefore
  <2> QED BY <2>1, <2>2, <2>3
<1>4. ASSUME NEW t \in free PROVE HadRows(s, n, rows[t]) BY DEF HasSeen
<1>5. ASSUME NEW t \in free, NEW i \in 1 .. Len(p), t \in DOMAIN p[i],
             NEW id \in DOMAIN p[i][t].put
      PROVE  /\ Had(s, id, p[i][t].put[id], n)
             /\ id \in DOMAIN rows[t] => rows[t][id] <= p[i][t].put[id]
  <2>1. CASE i = Len(p)
    <3>1. t \in DOMAIN d /\ id \in DOMAIN d[t].put BY <2>1, <1>2, <1>5
    <3>2. id \in DOMAIN rows[t] => Had(s, id, rows[t][id], n) BY <1>4 DEF HadRows
    <3> QED BY <3>1, <3>2, <1>3, <2>1, <1>2
  <2>2. CASE i # Len(p)
    <3>1. i \in 1 .. Len(tasks) /\ p[i] = tasks[i] BY <2>2, <1>2
    <3>2. HadTask(s, n, rows, tasks, i, t) BY <3>1, <1>5 DEF HasSeen
    <3> QED BY <3>1, <3>2, <1>5 DEF HadTask
  <2> QED BY <2>1, <2>2
<1>6. ASSUME NEW t \in free, NEW i \in 1 .. Len(p), t \in DOMAIN p[i],
             NEW id \in DOMAIN p[i][t].put,
             NEW j \in i .. Len(p), t \in DOMAIN p[j], id \in DOMAIN p[j][t].put
      PROVE  p[i][t].put[id] <= p[j][t].put[id]
  <2>1. CASE j = Len(p)
    <3>1. Had(s, id, p[i][t].put[id], n) BY <1>5, <1>6
    <3> QED BY <3>1, <2>1, <1>2, <1>3, <1>6
  <2>2. CASE j # Len(p)
    <3>1. i \in 1 .. Len(tasks) /\ j \in i .. Len(tasks) /\ j \in 1 .. Len(tasks) BY <2>2, <1>2
    <3>2. p[i] = tasks[i] /\ p[j] = tasks[j] BY <3>1, <1>2
    <3>3. HadTask(s, n, rows, tasks, i, t) BY <3>1, <3>2, <1>6 DEF HasSeen
    <3> QED BY <3>1, <3>2, <3>3, <1>6 DEF HadTask
  <2> QED BY <2>1, <2>2
<1>7. HasSeen(free, s, n, rows, p) BY <1>4, <1>5, <1>6 DEF HasSeen, HadTask
<1> QED BY <1>1, <1>7

\* A task is run; those before it are about other tables, or about some in which it
\* overtakes them.
LEMMA SeenApplied ==
    ASSUME NEW s, NEW n, NEW rows, NEW new, NEW tasks \in Seq(Task),
           NEW free, HasSeen(free, s, n, rows, tasks), NEW i \in 1 .. Len(tasks),
           NEW free2 \in SUBSET free, \A t \in free2 : t \in DOMAIN tasks[i] =>
               \A j \in 1 .. i - 1 : t \notin DOMAIN tasks[j],
           \A t \in free2 : Applied(new[t], rows[t], tasks[i], t)
    PROVE  HasSeen(free2, s, n, new, RemoveAt(tasks, i))
<1>1. PICK p : p = RemoveAt(tasks, i) OBVIOUS
<1>2. Without(p, tasks, i) BY <1>1, RemovedAt
<1>3. /\ Len(p) = Len(tasks) - 1 /\ Len(tasks) \in Nat
      /\ \A j \in 1 .. Len(p) : p[j] = tasks[Before(j, i)] /\ Before(j, i) \in 1 .. Len(tasks)
                                /\ Before(j, i) # i
      /\ \A j, k \in 1 .. Len(p) : j < k => Before(j, i) < Before(k, i)
  BY <1>2 DEF Without
<1>4. ASSUME NEW t \in free2, NEW id \in DOMAIN new[t]
      PROVE  \/ /\ t \in DOMAIN tasks[i] /\ id \in DOMAIN tasks[i][t].put
                /\ new[t][id] = tasks[i][t].put[id]
             \/ id \in DOMAIN rows[t] /\ new[t][id] = rows[t][id]
  <2>1. CASE t \in DOMAIN tasks[i]
    <3>1. IsChanged(new[t], rows[t], tasks[i][t].put, tasks[i][t].deleted)
      BY <2>1 DEF Applied
    <3> QED BY <3>1, <2>1, <1>4 DEF IsChanged
  <2>2. CASE t \notin DOMAIN tasks[i] BY <2>2, <1>4 DEF Applied
  <2> QED BY <2>1, <2>2
<1>5. ASSUME NEW t \in free2 PROVE HadRows(s, n, new[t])
  <2>1. HadRows(s, n, rows[t]) BY DEF HasSeen
  <2>2. t \in DOMAIN tasks[i] => HadTask(s, n, rows, tasks, i, t) BY DEF HasSeen
  <2> QED BY <1>4, <2>1, <2>2 DEF HadRows, HadTask
<1>6. ASSUME NEW t \in free2, NEW j \in 1 .. Len(p), t \in DOMAIN p[j],
             NEW id \in DOMAIN p[j][t].put
      PROVE  /\ Had(s, id, p[j][t].put[id], n)
             /\ id \in DOMAIN new[t] => new[t][id] <= p[j][t].put[id]
  <2>1. PICK k \in 1 .. Len(tasks) : k = Before(j, i) /\ p[j] = tasks[k] /\ k # i BY <1>3
  <2>2. HadTask(s, n, rows, tasks, k, t) BY <2>1, <1>6 DEF HasSeen
  <2>3. Had(s, id, p[j][t].put[id], n) BY <2>1, <2>2, <1>6 DEF HadTask
  <2>4. ASSUME id \in DOMAIN new[t] PROVE new[t][id] <= p[j][t].put[id]
    <3>1. CASE t \in DOMAIN tasks[i] /\ id \in DOMAIN tasks[i][t].put
               /\ new[t][id] = tasks[i][t].put[id]
      <4>1. ~(k < i) BY <3>1, <2>1, <1>6
      <4>2. k \in i .. Len(tasks) BY <4>1, <2>1, <1>3
      <4>3. HadTask(s, n, rows, tasks, i, t) BY <3>1 DEF HasSeen
      <4> QED BY <3>1, <4>2, <4>3, <2>1, <1>6 DEF HadTask
    <3>2. CASE id \in DOMAIN rows[t] /\ new[t][id] = rows[t][id]
      BY <3>2, <2>1, <2>2, <1>6 DEF HadTask
    <3> QED BY <3>1, <3>2, <2>4, <1>4
  <2> QED BY <2>3, <2>4
<1>7. ASSUME NEW t \in free2, NEW j \in 1 .. Len(p), t \in DOMAIN p[j],
             NEW id \in DOMAIN p[j][t].put,
             NEW k \in j .. Len(p), t \in DOMAIN p[k], id \in DOMAIN p[k][t].put
      PROVE  p[j][t].put[id] <= p[k][t].put[id]
  <2>1. k \in 1 .. Len(p) /\ (j = k \/ j < k) BY <1>3
  <2>2. /\ Before(j, i) \in 1 .. Len(tasks) /\ p[j] = tasks[Before(j, i)]
        /\ Before(k, i) \in 1 .. Len(tasks) /\ p[k] = tasks[Before(k, i)]
    BY <2>1, <1>3
  <2>3. Before(k, i) \in Before(j, i) .. Len(tasks)
    <3>1. CASE j = k BY <3>1, <2>2, <1>3
    <3>2. CASE j < k BY <3>2, <2>1, <2>2, <1>3
    <3> QED BY <2>1, <3>1, <3>2
  <2>4. HadTask(s, n, rows, tasks, Before(j, i), t) BY <2>2, <1>7 DEF HasSeen
  <2> QED BY <2>2, <2>3, <2>4, <1>7 DEF HadTask
<1>8. HasSeen(free2, s, n, new, p) BY <1>5, <1>6, <1>7 DEF HasSeen, HadTask
<1> QED BY <1>1, <1>8

\* The tasks of a client that heard of a view.
Grown(tasks, old, view) ==
    tasks = old \/ \E d \in Task : FromVersion(d, view) /\ tasks = Append(old, d)

LEMMA OnChangeGrows ==
    ASSUME NEW k \in Store, NEW view \in Version, NEW h, h = onChange_(k, Result(k, view))
    PROVE  Grown(h.tasks, k.tasks, view)
<1>1. CASE ~Heeds(k, view)
  <2>1. h = k BY <1>1, OnChangeNothing
  <2> QED BY <2>1 DEF Grown
<1>2. CASE Heeds(k, view)
  <2>1. IsChange(h, k, view) BY <1>2, OnChangeIs
  <2>2. h.tasks = k.tasks \/ \E diffs : IsTaskFor(diffs, k, view) /\ h.tasks = Append(k.tasks, diffs)
    BY ONLY <2>1 DEF IsChange
  <2>3. ASSUME NEW diffs, IsTaskFor(diffs, k, view)
        PROVE  diffs \in Task /\ FromVersion(diffs, view)
    <3>1. diffs \in Task /\ \A t \in DOMAIN diffs : IsDiff(diffs[t], k, view, t)
      BY ONLY <2>3 DEF IsTaskFor
    <3>2. ASSUME NEW t \in DOMAIN diffs, NEW id \in DOMAIN diffs[t].put
          PROVE  id \in DOMAIN view.rows /\ diffs[t].put[id] = view.rows[id].value
      BY <3>1, <3>2 DEF IsDiff, Comes
    <3> QED BY <3>1, <3>2 DEF FromVersion
  <2> QED BY <2>2, <2>3 DEF Grown
<1> QED BY <1>1, <1>2

LEMMA EventsGrow ==
    ASSUME NEW k \in Store, NEW before \in Version, NEW after \in Version,
           NEW e, e = Events(k, before, after)
    PROVE  Grown(e.tasks, k.tasks, after)
<1>1. PICK h : /\ IsRemoved(h, k, before, after)
               /\ e = IF Result(k, before) = Result(k, after) THEN h
                      ELSE onChange_(h, Result(h, after))
  BY EventsIs
<1>2. h \in Store /\ h.tasks = k.tasks BY ONLY <1>1 DEF IsRemoved
<1>3. CASE e = h BY <1>2, <1>3 DEF Grown
<1>4. CASE e = onChange_(h, Result(h, after))
  <2>1. Grown(e.tasks, h.tasks, after) BY <1>2, <1>4, OnChangeGrows
  <2> QED BY <2>1, <1>2
<1> QED BY <1>1, <1>3, <1>4

LEMMA NothingSeen ==
    ASSUME NEW s, NEW n, NEW free \in SUBSET Tables
    PROVE  /\ HasSeen(free, s, n, NoRows, <<>>)
           /\ HadRows(s, n, None)
<1>1. DOMAIN None = {} BY NoneIs
<1>2. HadRows(s, n, None) BY <1>1 DEF HadRows
<1>3. \A t \in Tables : HadRows(s, n, NoRows[t]) BY <1>2 DEF NoRows
<1>4. Len(<<>>) = 0 OBVIOUS
<1> QED BY <1>2, <1>3, <1>4 DEF HasSeen

\* A reader sees a version of the server.
LEMMA ReaderView ==
    ASSUME ClientInv, NEW c \in Clients \ Writers, NEW version
    PROVE  View(version, sent[c]) = version
BY ViewOfNone DEF ClientInv, ClientOK

\* A later version reaches a reader.
LEMMA SeenMore ==
    ASSUME TypeInv, ValueInv, NEW c \in Clients, SeenClient(c),
           at[c] \in 1 .. Len(server), NEW n \in at[c] .. Len(server),
           NEW tasks, Grown(tasks, store[c].tasks, server[n])
    PROVE  HasSeen(Free(c), server, n, cache[c], tasks)
<1>1. server \in Seq(Version) /\ updates \in Nat /\ store[c].tasks \in Seq(Task)
  BY ClientTyped, StoreFields DEF TypeInv, Typed
<1>2. Rising(server, updates) BY DEF ValueInv
<1>3. Len(server) \in Nat /\ Extends(server, server) BY <1>1 DEF Extends
<1>4. n \in 1 .. Len(server) /\ n \in Nat /\ at[c] \in 0 .. Len(server) /\ at[c] <= n
  BY <1>3
<1>5. HasSeen(Free(c), server, at[c], cache[c], store[c].tasks) BY DEF SeenClient
<1>6. HasSeen(Free(c), server, n, cache[c], store[c].tasks) BY <1>3, <1>4, <1>5, SeenLater
<1>7. CASE tasks = store[c].tasks BY <1>6, <1>7
<1>8. ASSUME NEW d \in Task, FromVersion(d, server[n]), tasks = Append(store[c].tasks, d)
      PROVE  HasSeen(Free(c), server, n, cache[c], tasks)
  BY <1>1, <1>2, <1>4, <1>6, <1>8, SeenAppended
<1> QED BY <1>7, <1>8 DEF Grown

LEMMA SeenStep ==
    ASSUME OneWriter, Basics, Basics', ValueInv, SeenInv, NEW c \in Clients, StepOf(c)
    PROVE  SeenInv'
<1>1. /\ TypeInv /\ TypeInv' /\ ClientInv /\ ClientInv'
      /\ \A d \in Clients \ Writers : SeenClient(d)
  BY DEF Basics, SeenInv
<1>2. ServerGrows /\ OthersStay(c) BY <1>1, StepGrows
<1>3. \A d \in Clients : at[d] \in 1 .. Len(server) BY <1>1 DEF ClientInv, ClientOK
<1>4. Extends(server', server) /\ Len(server) \in Nat BY <1>2 DEF Extends, ServerGrows
<1>5. ASSUME NEW d \in Clients \ Writers, status'[d] = status[d], store'[d] = store[d],
             at'[d] = at[d], cache'[d] = cache[d], overtaken'[d] = overtaken[d]
      PROVE  SeenClient(d)'
  <2>1. SeenClient(d) BY <1>1
  <2>2. at[d] \in 0 .. Len(server) /\ at[d] \in Nat /\ at[d] <= at[d] BY <1>3, <1>4
  <2>3. HasSeen(Free(d), server', at[d], cache[d], store[d].tasks)
    BY <2>1, <2>2, <1>4, SeenLater DEF SeenClient
  <2>4. Len(server) \in 0 .. Len(server) /\ Len(server') \in Nat /\ Len(server) <= Len(server')
    BY <1>4 DEF Extends
  <2>5. status[d] = "loading" => \A t \in Tables : HadRows(server', Len(server'), store[d].tables[t])
    BY <2>1, <2>4, <1>4, HadRowsLater DEF SeenClient
  <2> QED BY <2>3, <2>5, <1>5 DEF SeenClient, Free
<1>6. \A d \in Clients \ Writers : d # c => SeenClient(d)' BY <1>2, <1>5 DEF OthersStay
<1>7. SUFFICES ASSUME c \notin Writers PROVE SeenClient(c)'
  BY <1>6, <1>7 DEF SeenInv
<1>8. SeenClient(c) /\ ClientOK(c) BY <1>1, <1>7 DEF ClientInv
<1>9. CASE IsConnect(c)
  <2>1. cache'[c] = NoRows /\ server' = server /\ Now.rev \in Nat
    BY <1>1, <1>8, <1>9, VersionsTyped, TypeIs, VersionFields
    DEF IsConnect, ServerStays, ClientOK
  <2>2. store'[c] = NewStore(Now.rev) BY <1>9 DEF IsConnect
  <2>3. store'[c].tasks = <<>> /\ \A t \in Tables : store'[c].tables[t] = None
    BY <2>1, <2>2, NewStoreTyped
  <2>4. Free(c)' \in SUBSET Tables BY DEF Free
  <2> QED BY <2>1, <2>3, <2>4, NothingSeen DEF SeenClient
<1>10. ASSUME NEW t \in Tables, IsReload(c, t) PROVE SeenClient(c)'
  <2>1. /\ server' = server /\ status[c] = "loading" /\ at'[c] = at[c]
        /\ store'[c].tables[t] = RowsOf(Now.rows, t)
        /\ \A u \in Tables : u # t => store'[c].tables[u] = store[c].tables[u]
        /\ store'[c].tasks = <<>> /\ cache'[c] = NoRows
    BY <1>8, <1>10 DEF IsReload, ServerStays, ClientOK
  <2>2. HadRows(server, Len(server), RowsOf(Now.rows, t))
    <3>1. IsRowsOf(RowsOf(Now.rows, t), Now.rows, t) BY RowsOfIs
    <3>2. Now = server[Len(server)] /\ Len(server) \in 1 .. Len(server)
      BY <1>1, VersionsTyped, TypeIs
    <3> QED BY <3>1, <3>2 DEF IsRowsOf, HadRows, Had
  <2>3. Free(c)' \in SUBSET Tables BY DEF Free
  <2> QED BY <1>8, <2>1, <2>2, <2>3, NothingSeen DEF SeenClient
<1>11. CASE IsLoaded(c)
  <2>1. /\ server' = server /\ status[c] = "loading" /\ status'[c] = "ready"
        /\ at'[c] = Len(server) /\ cache'[c] = store[c].tables /\ store'[c].tasks = <<>>
    BY <1>8, <1>11 DEF IsLoaded, ServerStays, ClientOK
  <2>2. \A t \in Tables : HadRows(server, Len(server), store[c].tables[t])
    BY <1>8, <2>1 DEF SeenClient
  <2>3. Len(<<>>) = 0 OBVIOUS
  <2>4. HasSeen(Free(c)', server', at'[c], cache'[c], store'[c].tasks) BY <2>1, <2>2, <2>3 DEF HasSeen, Free
  <2> QED BY <2>1, <2>4 DEF SeenClient
<1>12. CASE IsCrash(c)
  <2>1. /\ status'[c] = "closed" /\ cache'[c] = NoRows /\ store'[c] = NewStore(-1)
    BY <1>12 DEF IsCrash
  <2>2. store'[c].tasks = <<>> BY <2>1, NewStoreTyped
  <2>3. Free(c)' \in SUBSET Tables BY DEF Free
  <2> QED BY <2>1, <2>2, <2>3, NothingSeen DEF SeenClient
<1>13. ASSUME NEW view, NEW k, IsFirstData(c, view, k) PROVE SeenClient(c)'
  <2>1. /\ server' = server /\ status'[c] = "ready" /\ at'[c] = Len(server)
        /\ cache'[c] = cache[c] /\ store'[c] = k /\ view = View(Now, sent[c])
        /\ view \in Version /\ k = onChange_(store[c], Result(store[c], view))
        /\ overtaken'[c] = overtaken[c]
    BY <1>13 DEF IsFirstData, ServerStays, LocksStay
  <2>2. view = server[Len(server)] BY <1>1, <1>7, <2>1, ReaderView DEF Now
  <2>3. Grown(k.tasks, store[c].tasks, view) BY <1>1, <2>1, OnChangeGrows, ClientTyped DEF Typed
  <2>4. Len(server) \in at[c] .. Len(server) BY <1>3, <1>4
  <2>5. HasSeen(Free(c), server, Len(server), cache[c], k.tasks)
    BY <1>1, <1>3, <1>8, <2>2, <2>3, <2>4, SeenMore
  <2> QED BY <2>1, <2>5 DEF SeenClient, Free
<1>14. ASSUME NEW v \in at[c] + 1 .. Len(server), NEW b, NEW a, IsDeliver(c, v, b, a)
       PROVE  SeenClient(c)'
  <2>1. /\ server' = server /\ status'[c] = "ready" /\ at'[c] = v /\ listening[c]
        /\ cache'[c] = cache[c] /\ a = View(server[v], sent[c])
        /\ b \in Version /\ a \in Version
        /\ store'[c] = Events(store[c], b, a)
        /\ overtaken'[c] = overtaken[c]
    BY <1>14 DEF IsDeliver, ServerStays, WasTold, LocksStay
  <2>2. a = server[v] BY <1>1, <1>7, <2>1, ReaderView
  <2>3. Grown(store'[c].tasks, store[c].tasks, a)
    BY <1>1, <2>1, EventsGrow, ClientTyped DEF Typed
  <2>4. v \in at[c] .. Len(server) BY <1>3, <1>4
  <2>5. HasSeen(Free(c), server, v, cache[c], store'[c].tasks)
    BY <1>1, <1>3, <1>8, <2>2, <2>3, <2>4, SeenMore
  <2> QED BY <2>1, <2>5 DEF SeenClient, Free
<1>15. ASSUME NEW i, IsExternal(c, i) PROVE SeenClient(c)'
  <2>1. /\ server' = server /\ status'[c] = "ready" /\ at'[c] = at[c]
        /\ i \in 1 .. Len(store[c].tasks)
        /\ \A t \in DOMAIN store[c].tasks[i] : t \notin overtaken'[c] =>
              \A j \in 1 .. i - 1 : t \notin DOMAIN store[c].tasks[j]
        /\ overtaken[c] \subseteq overtaken'[c]
        /\ \A t \in Tables : Applied(cache'[c][t], cache[c][t], store[c].tasks[i], t)
        /\ store'[c].tasks = RemoveAt(store[c].tasks, i)
    BY <1>15 DEF IsExternal, ServerStays
  <2>2. store[c].tasks \in Seq(Task) BY <1>1, ClientTyped, StoreFields DEF Typed
  <2>3. PICK free : free = Free(c)' OBVIOUS
  <2>4. free \in SUBSET Free(c) /\ free \subseteq Tables /\ \A t \in free : t \notin overtaken'[c]
    BY <2>1, <2>3 DEF Free
  <2>5. HasSeen(Free(c), server, at[c], cache[c], store[c].tasks) BY <1>8 DEF SeenClient
  <2>6. HasSeen(free, server, at[c], cache'[c], RemoveAt(store[c].tasks, i))
    <3>1. \A t \in free : t \in DOMAIN store[c].tasks[i] =>
              \A j \in 1 .. i - 1 : t \notin DOMAIN store[c].tasks[j]
      BY <2>1, <2>4
    <3>2. \A t \in free : Applied(cache'[c][t], cache[c][t], store[c].tasks[i], t)
      BY <2>1, <2>4
    <3> QED BY <3>1, <3>2, <2>1, <2>2, <2>4, <2>5, SeenApplied
  <2> QED BY <2>1, <2>3, <2>6 DEF SeenClient
<1> QED BY <1>7, <1>9, <1>10, <1>11, <1>12, <1>13, <1>14, <1>15 DEF StepOf

LEMMA InitSeen ==
    ASSUME Init, Basics
    PROVE  ValueInv /\ SeenInv
<1>1. PICK first : first = CHOOSE t \in Tables : TRUE OBVIOUS
<1>2. PICK row : row = [rev |-> 2, table |-> first, value |-> 0] OBVIOUS
<1>3. PICK rows : rows = Put(None, 1, row) OBVIOUS
<1>4. DOMAIN rows = {1} /\ rows[1] = row /\ rows[1].value = 0 BY <1>2, <1>3, NoneIs DEF Put
<1>5. server = <<[rev |-> 2, rows |-> rows]>> BY <1>1, <1>2, <1>3 DEF Init
<1>6. Len(server) = 1 /\ server[1].rows = rows BY <1>5
<1>7. updates = 0 /\ \A c \in Clients : sent[c] = <<>> BY DEF Init
<1>8. Rising(server, updates) BY <1>4, <1>6, <1>7 DEF Rising
<1>9. ValueInv BY <1>7, <1>8, NewerOfNone, WritersAreClients DEF ValueInv
<1>10. ASSUME NEW c \in Clients PROVE SeenClient(c)
  <2>1. status[c] = "closed" /\ cache[c] = NoRows /\ store[c] = NewStore(-1) BY DEF Init
  <2>2. store[c].tasks = <<>> BY <2>1, NewStoreTyped
  <2>3. Free(c) \in SUBSET Tables BY DEF Free
  <2> QED BY <2>1, <2>2, <2>3, NothingSeen DEF SeenClient
<1>11. SeenInv BY <1>10 DEF SeenInv
<1> QED BY <1>9, <1>11

\* What a reader that is ready keeps is not older than it was.
Forward ==
    \A c \in Clients \ Writers : status[c] = "ready" =>
        (\A t \in Free(c) : \A id \in DOMAIN cache[c][t] \cap DOMAIN cache'[c][t] :
            cache'[c][t][id] >= cache[c][t][id])

LEMMA KeepsForward ==
    ASSUME TypeInv, NEW c \in Clients, cache'[c] = cache[c], NEW t \in Tables,
           NEW id \in DOMAIN cache[c][t]
    PROVE  cache'[c][t][id] >= cache[c][t][id]
<1>1. cache[c][t] \in TableRows BY ClientTyped DEF Typed
<1>2. cache[c][t][id] \in Nat BY <1>1, TableRowsIs
<1> QED BY <1>2

LEMMA ForwardStep ==
    ASSUME Basics, SeenInv, NEW d \in Clients, StepOf(d)
    PROVE  Forward
<1> SUFFICES ASSUME NEW c \in Clients \ Writers, status[c] = "ready", NEW t \in Free(c),
                    NEW id \in DOMAIN cache[c][t] \cap DOMAIN cache'[c][t]
             PROVE  cache'[c][t][id] >= cache[c][t][id]
  BY DEF Forward
<1>5. t \in Tables BY DEF Free
<1>1. TypeInv /\ SeenClient(c) BY DEF Basics, SeenInv
<1>2. ASSUME cache'[c] = cache[c] PROVE cache'[c][t][id] >= cache[c][t][id]
  BY <1>1, <1>2, <1>5, KeepsForward
<1>3. CASE d # c
  <2>1. OthersStay(d) BY <1>1, StepGrows
  <2> QED BY <1>2, <1>3, <2>1 DEF OthersStay
<1>4. CASE d = c
  <2>1. StepOf(c) BY <1>4
  <2>2. CASE IsConnect(c) BY <2>2, <1>2 DEF IsConnect
  <2>3. ASSUME NEW u, IsReload(c, u) PROVE cache'[c][t][id] >= cache[c][t][id]
    BY <2>3, <1>2 DEF IsReload
  <2>4. ~IsLoaded(c) BY DEF IsLoaded
  <2>5. CASE IsCrash(c)
    <3>1. cache'[c] = NoRows BY <2>5 DEF IsCrash
    <3> QED BY <3>1, <1>5, NoneIs DEF NoRows
  <2>6. ASSUME NEW view, NEW k, IsFirstData(c, view, k) PROVE cache'[c][t][id] >= cache[c][t][id]
    BY <2>6, <1>2 DEF IsFirstData
  <2>7. ASSUME NEW v, NEW b, NEW a, IsDeliver(c, v, b, a)
        PROVE  cache'[c][t][id] >= cache[c][t][id]
    BY <2>7, <1>2 DEF IsDeliver
  <2>8. ASSUME NEW i, IsExternal(c, i) PROVE cache'[c][t][id] >= cache[c][t][id]
    <3>1. /\ i \in 1 .. Len(store[c].tasks)
          /\ Applied(cache'[c][t], cache[c][t], store[c].tasks[i], t)
      BY <2>8, <1>5 DEF IsExternal
    <3>2. CASE t \notin DOMAIN store[c].tasks[i]
      <4>1. cache'[c][t] = cache[c][t] BY <3>1, <3>2 DEF Applied
      <4>2. cache[c][t][id] \in Nat BY <1>1, <1>5, ClientTyped, TableRowsIs DEF Typed
      <4> QED BY <4>1, <4>2
    <3>3. CASE t \in DOMAIN store[c].tasks[i]
      <4>1. IsChanged(cache'[c][t], cache[c][t], store[c].tasks[i][t].put,
                      store[c].tasks[i][t].deleted)
        BY <3>1, <3>3 DEF Applied
      <4>2. HasSeen(Free(c), server, at[c], cache[c], store[c].tasks) BY <1>1 DEF SeenClient
      <4>3. HadTask(server, at[c], cache[c], store[c].tasks, i, t)
        BY <4>2, <3>1, <3>3 DEF HasSeen
      <4>4. CASE id \in DOMAIN store[c].tasks[i][t].put
        <5>1. cache'[c][t][id] = store[c].tasks[i][t].put[id] BY <4>1, <4>4 DEF IsChanged
        <5>2. cache[c][t][id] <= store[c].tasks[i][t].put[id] BY <4>3, <4>4 DEF HadTask
        <5>3. store[c].tasks[i] \in Task
          BY <3>1, <1>1, ClientTyped, StoreFields DEF Typed
        <5>4. store[c].tasks[i][t].put \in TableRows BY <3>3, <5>3, DiffFields
        <5>5. store[c].tasks[i][t].put[id] \in Nat BY <4>4, <5>4, TableRowsIs
        <5>6. cache[c][t][id] \in Nat BY <1>1, <1>5, ClientTyped, TableRowsIs DEF Typed
        <5> QED BY <5>1, <5>2, <5>5, <5>6
      <4>5. CASE id \notin DOMAIN store[c].tasks[i][t].put
        <5>1. cache'[c][t][id] = cache[c][t][id] BY <4>1, <4>5 DEF IsChanged
        <5>2. cache[c][t][id] \in Nat BY <1>1, <1>5, ClientTyped, TableRowsIs DEF Typed
        <5> QED BY <5>1, <5>2
      <4> QED BY <4>4, <4>5
    <3> QED BY <3>2, <3>3
  <2> QED BY <2>1, <2>2, <2>3, <2>4, <2>5, <2>6, <2>7, <2>8 DEF StepOf
<1> QED BY <1>3, <1>4

ReaderBasics == Basics /\ ValueInv /\ SeenInv

LEMMA ReaderBasicsStay ==
    ASSUME ReaderBasics, UNCHANGED vars
    PROVE  ReaderBasics' /\ Forward
<1>1. Basics' BY BasicsStay DEF ReaderBasics
<1>2. ValueInv' /\ SeenInv'
  BY DEF ReaderBasics, ValueInv, SeenInv, SeenClient, Free, vars, connection, memory,
         writing, history
<1>3. TypeInv /\ cache' = cache BY DEF ReaderBasics, Basics, vars, memory
<1>4. Forward BY <1>3, KeepsForward DEF Forward, Free
<1> QED BY <1>1, <1>2, <1>4 DEF ReaderBasics

\* Of a row that it keeps a reader never sees an older value again, with one writer,
\* in a table in which no task has run before an earlier one: tasks about it run in
\* the order in which they were made, each from a version that is not older than that
\* of the one before.
THEOREM ReadersSeeForward == OneWriter => (Spec => ReadersGoForward)
<1> SUFFICES ASSUME OneWriter PROVE Spec => ReadersGoForward OBVIOUS
<1>1. Init => ReaderBasics BY InitTyped, InitSeen DEF ReaderBasics
<1>2. ASSUME ReaderBasics, Next PROVE ReaderBasics' /\ Forward
  <2>1. Basics' /\ \E c \in Clients : StepOf(c) BY <1>2, BasicsStep DEF ReaderBasics
  <2>2. PICK c \in Clients : StepOf(c) BY <2>1
  <2>3. ValueInv' BY <1>2, <2>1, <2>2, ValueStep DEF ReaderBasics, Basics
  <2>4. SeenInv' BY <1>2, <2>1, <2>2, SeenStep DEF ReaderBasics
  <2>5. Forward BY <1>2, <2>2, ForwardStep DEF ReaderBasics
  <2> QED BY <2>1, <2>3, <2>4, <2>5 DEF ReaderBasics
<1>3. ReaderBasics /\ [Next]_vars => ReaderBasics' BY <1>2, ReaderBasicsStay
<1>4. ReaderBasics /\ [Next]_vars => [Forward]_vars BY <1>2
<1>5. ReadersGoForward <=> [][Forward]_vars BY PTL DEF ReadersGoForward, Forward, Free
<1> QED BY <1>1, <1>3, <1>4, <1>5, PTL DEF Spec

-----------------------------------------------------------------------------
(* The tasks that wait lead to what the tables are.                        *)

LEMMA MakesSame ==
    ASSUME NEW d, NEW t, NEW id, NEW f, NEW g, SameAt(g, f, id), Makes(d, t, id, f)
    PROVE  Makes(d, t, id, g)
BY DEF SameAt, Makes

LEMMA LeadsSame ==
    ASSUME NEW rows, NEW tables, NEW new, NEW tasks,
           NEW free \in SUBSET Tables, Leads(free, rows, tables, tasks),
           \A t \in Tables : \A id : SameAt(new[t], tables[t], id)
    PROVE  Leads(free, rows, new, tasks)
<1> SUFFICES ASSUME NEW t \in free, NEW id \in Id PROVE RowLeads(rows, new, tasks, t, id)
  BY DEF Leads
<1>1. RowLeads(rows, tables, tasks, t, id) /\ SameAt(new[t], tables[t], id) BY DEF Leads
<1>2. SameAt(rows[t], tables[t], id) => SameAt(rows[t], new[t], id) BY <1>1 DEF SameAt
<1> QED BY <1>1, <1>2, MakesSame DEF RowLeads

\* A change is what its task makes of the tables.
Leaves(d, new, tables) ==
    \A t \in Tables : \A id :
        /\ Touches(d, t, id) => Makes(d, t, id, new[t])
        /\ ~Touches(d, t, id) => SameAt(new[t], tables[t], id)

LEMMA LeadsAppended ==
    ASSUME NEW rows, NEW tables, NEW new, NEW tasks \in Seq(Task),
           NEW free \in SUBSET Tables, Leads(free, rows, tables, tasks), NEW d \in Task, Leaves(d, new, tables)
    PROVE  Leads(free, rows, new, Append(tasks, d))
<1> SUFFICES ASSUME NEW t \in free, NEW id \in Id
             PROVE  RowLeads(rows, new, Append(tasks, d), t, id)
  BY DEF Leads
<1>1. RowLeads(rows, tables, tasks, t, id) BY DEF Leads
<1>2. PICK p : p = Append(tasks, d) OBVIOUS
<1>3. /\ Len(p) = Len(tasks) + 1 /\ Len(tasks) \in Nat /\ p[Len(p)] = d
      /\ \A i \in 1 .. Len(tasks) : p[i] = tasks[i]
  BY <1>2
<1>4. ASSUME \A i \in 1 .. Len(p) : ~Touches(p[i], t, id)
      PROVE  SameAt(rows[t], new[t], id)
  <2>1. \A i \in 1 .. Len(tasks) : ~Touches(tasks[i], t, id) BY <1>3, <1>4
  <2>2. SameAt(rows[t], tables[t], id) BY <2>1, <1>1 DEF RowLeads
  <2>3. SameAt(new[t], tables[t], id) BY <1>3, <1>4 DEF Leaves
  <2> QED BY <2>2, <2>3 DEF SameAt
<1>5. ASSUME NEW i \in 1 .. Len(p), Touches(p[i], t, id),
             \A j \in i + 1 .. Len(p) : ~Touches(p[j], t, id)
      PROVE  Makes(p[i], t, id, new[t])
  <2>1. CASE i = Len(p) BY <2>1, <1>3, <1>5 DEF Leaves
  <2>2. CASE i # Len(p)
    <3>1. i \in 1 .. Len(tasks) /\ Len(p) \in i + 1 .. Len(p) BY <2>2, <1>3
    <3>2. ~Touches(d, t, id) BY <3>1, <1>3, <1>5
    <3>3. SameAt(new[t], tables[t], id) BY <3>2 DEF Leaves
    <3>4. \A j \in i + 1 .. Len(tasks) : j \in i + 1 .. Len(p) /\ j \in 1 .. Len(tasks)
      BY <3>1, <1>3
    <3>5. \A j \in i + 1 .. Len(tasks) : ~Touches(tasks[j], t, id) BY <3>4, <1>3, <1>5
    <3>6. Makes(tasks[i], t, id, tables[t]) BY <3>1, <3>5, <1>1, <1>3, <1>5 DEF RowLeads
    <3> QED BY <3>1, <3>3, <3>6, <1>3, MakesSame
  <2> QED BY <2>1, <2>2
<1> QED BY <1>2, <1>4, <1>5 DEF RowLeads

LEMMA LeadsApplied ==
    ASSUME NEW rows, NEW new, NEW tables, NEW tasks \in Seq(Task),
           NEW free \in SUBSET Tables, Leads(free, rows, tables, tasks), NEW i \in 1 .. Len(tasks),
           NEW free2 \in SUBSET free, \A t \in free2 : t \in DOMAIN tasks[i] =>
               \A j \in 1 .. i - 1 : t \notin DOMAIN tasks[j],
           \A t \in free2 : Applied(new[t], rows[t], tasks[i], t)
    PROVE  Leads(free2, new, tables, RemoveAt(tasks, i))
<1> SUFFICES ASSUME NEW t \in free2, NEW id \in Id
             PROVE  RowLeads(new, tables, RemoveAt(tasks, i), t, id)
  BY DEF Leads
<1>1. RowLeads(rows, tables, tasks, t, id) BY DEF Leads
<1>2. PICK p : p = RemoveAt(tasks, i) OBVIOUS
<1>3. Without(p, tasks, i) BY <1>2, RemovedAt
<1>4. /\ Len(p) = Len(tasks) - 1 /\ Len(tasks) \in Nat
      /\ \A j \in 1 .. Len(p) : p[j] = tasks[Before(j, i)] /\ Before(j, i) \in 1 .. Len(tasks)
                                /\ Before(j, i) # i
      /\ \A j, k \in 1 .. Len(p) : j < k => Before(j, i) < Before(k, i)
      /\ \A k \in 1 .. Len(tasks) : k # i => \E j \in 1 .. Len(p) : Before(j, i) = k
  BY <1>3 DEF Without
<1>5. ASSUME Touches(tasks[i], t, id), Makes(tasks[i], t, id, tables[t])
      PROVE  SameAt(new[t], tables[t], id)
  <2>1. IsChanged(new[t], rows[t], tasks[i][t].put, tasks[i][t].deleted)
    BY <1>5 DEF Applied, Touches
  <2> QED BY <2>1, <1>5 DEF Touches, Makes, IsChanged, SameAt
<1>6. ASSUME ~Touches(tasks[i], t, id) PROVE SameAt(new[t], rows[t], id)
  <2>1. CASE t \in DOMAIN tasks[i]
    <3>1. IsChanged(new[t], rows[t], tasks[i][t].put, tasks[i][t].deleted)
      BY <2>1 DEF Applied
    <3> QED BY <3>1, <2>1, <1>6 DEF Touches, IsChanged, SameAt
  <2>2. CASE t \notin DOMAIN tasks[i] BY <2>2 DEF Applied, SameAt
  <2> QED BY <2>1, <2>2
<1>7. ASSUME \A j \in 1 .. Len(p) : ~Touches(p[j], t, id)
      PROVE  SameAt(new[t], tables[t], id)
  <2>1. \A k \in 1 .. Len(tasks) : k # i => ~Touches(tasks[k], t, id) BY <1>4, <1>7
  <2>2. CASE Touches(tasks[i], t, id)
    <3>1. \A j \in i + 1 .. Len(tasks) : j \in 1 .. Len(tasks) /\ j # i BY <1>4
    <3>2. Makes(tasks[i], t, id, tables[t]) BY <2>1, <2>2, <3>1, <1>1 DEF RowLeads
    <3> QED BY <2>2, <3>2, <1>5
  <2>3. CASE ~Touches(tasks[i], t, id)
    <3>1. SameAt(rows[t], tables[t], id) BY <2>1, <2>3, <1>1 DEF RowLeads
    <3>2. SameAt(new[t], rows[t], id) BY <2>3, <1>6
    <3> QED BY <3>1, <3>2 DEF SameAt
  <2> QED BY <2>2, <2>3
<1>8. ASSUME NEW j \in 1 .. Len(p), Touches(p[j], t, id),
             \A k \in j + 1 .. Len(p) : ~Touches(p[k], t, id)
      PROVE  Makes(p[j], t, id, tables[t])
  <2>1. PICK b \in 1 .. Len(tasks) : b = Before(j, i) /\ p[j] = tasks[b] /\ b # i BY <1>4
  <2>2. ASSUME NEW k \in b + 1 .. Len(tasks) PROVE ~Touches(tasks[k], t, id)
    <3>1. k \in 1 .. Len(tasks) /\ b < k BY <1>4
    <3>2. CASE k = i
      <4>1. b \in 1 .. i - 1 BY <3>1, <3>2
      <4>2. t \in DOMAIN tasks[i] => t \notin DOMAIN tasks[b] BY <4>1
      <4>3. t \in DOMAIN tasks[b] BY <2>1, <1>8 DEF Touches
      <4> QED BY <4>2, <4>3, <3>2 DEF Touches
    <3>3. CASE k # i
      <4>1. PICK l \in 1 .. Len(p) : Before(l, i) = k BY <3>1, <3>3, <1>4
      <4>2. ~(l <= j)
        <5>1. l = j => k = b BY <4>1, <2>1
        <5>2. l < j => k < b BY <4>1, <2>1, <1>4
        <5> QED BY <5>1, <5>2, <3>1
      <4>3. l \in j + 1 .. Len(p) BY <4>2
      <4> QED BY <4>1, <4>3, <1>4, <1>8
    <3> QED BY <3>2, <3>3
  <2> QED BY <2>1, <2>2, <1>1, <1>8 DEF RowLeads
<1> QED BY <1>2, <1>7, <1>8 DEF RowLeads

\* What a client makes of what it hears.
Followed(h, k) ==
    \/ /\ h.tasks = k.tasks
       /\ \A t \in Tables : \A id : SameAt(h.tables[t], k.tables[t], id)
    \/ \E d \in Task : h.tasks = Append(k.tasks, d) /\ Leaves(d, h.tables, k.tables)

LEMMA OnChangeFollows ==
    ASSUME NEW k \in Store, NEW view \in Version, NEW h, h = onChange_(k, Result(k, view))
    PROVE  Followed(h, k)
<1>1. CASE ~Heeds(k, view)
  <2>1. h = k BY <1>1, OnChangeNothing
  <2> QED BY <2>1 DEF Followed, SameAt
<1>2. CASE Heeds(k, view)
  <2>1. IsChange(h, k, view) BY <1>2, OnChangeIs
  <2>2. /\ \A t \in Tables : \A id : RowAfter(h.tables[t], k, view, t, id)
        /\ \/ /\ h.tasks = k.tasks
              /\ \A t \in Tables : \A id : ~Comes(k, view, t, id) /\ ~Goes(k, t, id)
           \/ \E diffs : IsTaskFor(diffs, k, view) /\ h.tasks = Append(k.tasks, diffs)
    BY ONLY <2>1 DEF IsChange
  <2>3. ASSUME h.tasks = k.tasks,
               \A t \in Tables : \A id : ~Comes(k, view, t, id) /\ ~Goes(k, t, id)
        PROVE  Followed(h, k)
    BY <2>2, <2>3 DEF RowAfter, Followed
  <2>4. ASSUME NEW d, IsTaskFor(d, k, view), h.tasks = Append(k.tasks, d)
        PROVE  Followed(h, k)
    <3>1. /\ d \in Task /\ \A t \in DOMAIN d : IsDiff(d[t], k, view, t)
          /\ \A t \in Tables : t \notin DOMAIN d =>
                \A id : ~Comes(k, view, t, id) /\ ~Goes(k, t, id)
      BY ONLY <2>4 DEF IsTaskFor
    <3>2. ASSUME NEW t \in Tables, NEW id
          PROVE  /\ Touches(d, t, id) => Makes(d, t, id, h.tables[t])
                 /\ ~Touches(d, t, id) => SameAt(h.tables[t], k.tables[t], id)
      <4>1. RowAfter(h.tables[t], k, view, t, id) BY <2>2
      <4>2. CASE t \notin DOMAIN d
        <5>1. ~Touches(d, t, id) /\ ~Comes(k, view, t, id) /\ ~Goes(k, t, id)
          BY <4>2, <3>1 DEF Touches
        <5> QED BY <5>1, <4>1 DEF RowAfter
      <4>3. CASE t \in DOMAIN d
        <5>1. /\ id \in DOMAIN d[t].put <=> Comes(k, view, t, id)
              /\ id \in DOMAIN d[t].put => d[t].put[id] = view.rows[id].value
              /\ id \in d[t].deleted <=> Goes(k, t, id)
          BY <4>3, <3>1 DEF IsDiff
        <5> QED BY <5>1, <4>1, <4>3 DEF RowAfter, Touches, Makes
      <4> QED BY <4>2, <4>3
    <3>3. Leaves(d, h.tables, k.tables) BY <3>2 DEF Leaves
    <3> QED BY <3>1, <3>3, <2>4 DEF Followed
  <2> QED BY <2>2, <2>3, <2>4
<1> QED BY <1>1, <1>2

LEMMA EventsFollow ==
    ASSUME NEW k \in Store, NEW before \in Version, NEW after \in Version,
           NEW e, e = Events(k, before, after)
    PROVE  Followed(e, k)
<1>1. PICK h : /\ IsRemoved(h, k, before, after)
               /\ e = IF Result(k, before) = Result(k, after) THEN h
                      ELSE onChange_(h, Result(h, after))
  BY EventsIs
<1>2. h \in Store /\ h.tasks = k.tasks /\ h.tables = k.tables BY ONLY <1>1 DEF IsRemoved
<1>3. CASE e = h BY <1>2, <1>3 DEF Followed, SameAt
<1>4. CASE e = onChange_(h, Result(h, after))
  <2>1. Followed(e, h) BY <1>2, <1>4, OnChangeFollows
  <2> QED BY <2>1, <1>2 DEF Followed
<1> QED BY <1>1, <1>3, <1>4

LEMMA LeadsFollowed ==
    ASSUME NEW k \in Store, NEW h \in Store, NEW rows, NEW free \in SUBSET Tables,
           Leads(free, rows, k.tables, k.tasks), Followed(h, k)
    PROVE  Leads(free, rows, h.tables, h.tasks)
<1>1. k.tasks \in Seq(Task) BY StoreFields
<1>2. CASE h.tasks = k.tasks /\ \A t \in Tables : \A id : SameAt(h.tables[t], k.tables[t], id)
  BY <1>2, LeadsSame
<1>3. ASSUME NEW d \in Task, h.tasks = Append(k.tasks, d), Leaves(d, h.tables, k.tables)
      PROVE  Leads(free, rows, h.tables, h.tasks)
  BY <1>1, <1>3, LeadsAppended
<1> QED BY <1>2, <1>3 DEF Followed

LEMMA TaskStep ==
    ASSUME Basics, Basics', TaskInv, NEW c \in Clients, StepOf(c)
    PROVE  TaskInv'
<1>1. /\ TypeInv /\ TypeInv' /\ ClientInv
      /\ \A d \in Clients \ Writers : LeadsClient(d)
  BY DEF Basics, TaskInv
<1>2. OthersStay(c) BY <1>1, StepGrows
<1>3. ASSUME NEW d \in Clients \ Writers, status'[d] = status[d], store'[d] = store[d],
             cache'[d] = cache[d], overtaken'[d] = overtaken[d]
      PROVE  LeadsClient(d)'
  BY <1>1, <1>3 DEF LeadsClient, Free
<1>4. \A d \in Clients \ Writers : d # c => LeadsClient(d)' BY <1>2, <1>3 DEF OthersStay
<1>5. SUFFICES ASSUME c \notin Writers PROVE LeadsClient(c)'
  BY <1>4, <1>5 DEF TaskInv
<1>6. /\ LeadsClient(c) /\ ClientOK(c) /\ store[c] \in Store /\ store'[c] \in Store
      /\ store[c].tasks \in Seq(Task)
  BY <1>1, <1>5, ClientTyped, StoreFields DEF Typed, TypeInv, ClientInv
<1>14. Free(c) \in SUBSET Tables BY DEF Free
<1>7. CASE IsConnect(c) BY <1>7 DEF IsConnect, LeadsClient
<1>8. ASSUME NEW t, IsReload(c, t) PROVE LeadsClient(c)' BY <1>8 DEF IsReload, LeadsClient
<1>9. CASE IsLoaded(c)
  <2>1. cache'[c] = store'[c].tables /\ store'[c].tasks = <<>>
    BY <1>6, <1>9 DEF IsLoaded, ClientOK
  <2>2. Len(<<>>) = 0 OBVIOUS
  <2>3. Leads(Free(c)', cache'[c], store'[c].tables, store'[c].tasks)
    BY <2>1, <2>2 DEF Leads, RowLeads, SameAt
  <2> QED BY <2>3 DEF LeadsClient
<1>10. CASE IsCrash(c) BY <1>10 DEF IsCrash, LeadsClient
<1>11. ASSUME NEW view, NEW k, IsFirstData(c, view, k) PROVE LeadsClient(c)'
  <2>1. /\ status[c] = "ready" /\ store'[c] = k /\ cache'[c] = cache[c] /\ view \in Version
        /\ k = onChange_(store[c], Result(store[c], view)) /\ overtaken'[c] = overtaken[c]
    BY <1>11 DEF IsFirstData, LocksStay
  <2>2. Followed(k, store[c]) BY <1>6, <2>1, OnChangeFollows
  <2>3. Leads(Free(c), cache[c], store'[c].tables, store'[c].tasks)
    BY <1>6, <1>14, <2>1, <2>2, LeadsFollowed DEF LeadsClient
  <2>4. Free(c)' = Free(c) BY <2>1 DEF Free
  <2> QED BY <2>1, <2>3, <2>4 DEF LeadsClient
<1>12. ASSUME NEW v, NEW b, NEW a, IsDeliver(c, v, b, a) PROVE LeadsClient(c)'
  <2>1. /\ status[c] = "ready" /\ cache'[c] = cache[c] /\ b \in Version /\ a \in Version
        /\ store'[c] = Events(store[c], b, a) /\ overtaken'[c] = overtaken[c]
    BY <1>12 DEF IsDeliver, WasTold, LocksStay
  <2>2. Followed(store'[c], store[c]) BY <1>6, <2>1, EventsFollow
  <2>3. Leads(Free(c), cache[c], store'[c].tables, store'[c].tasks)
    BY <1>6, <1>14, <2>1, <2>2, LeadsFollowed DEF LeadsClient
  <2>4. Free(c)' = Free(c) BY <2>1 DEF Free
  <2> QED BY <2>1, <2>3, <2>4 DEF LeadsClient
<1>13. ASSUME NEW i, IsExternal(c, i) PROVE LeadsClient(c)'
  <2>1. /\ status[c] = "ready" /\ i \in 1 .. Len(store[c].tasks)
        /\ \A t \in DOMAIN store[c].tasks[i] : t \notin overtaken'[c] =>
              \A j \in 1 .. i - 1 : t \notin DOMAIN store[c].tasks[j]
        /\ overtaken[c] \subseteq overtaken'[c]
        /\ \A t \in Tables : Applied(cache'[c][t], cache[c][t], store[c].tasks[i], t)
        /\ store'[c].tasks = RemoveAt(store[c].tasks, i)
        /\ store'[c].tables = store[c].tables
    BY <1>13 DEF IsExternal
  <2>2. PICK free : free = Free(c)' OBVIOUS
  <2>3. free \in SUBSET Free(c) /\ free \subseteq Tables /\ \A t \in free : t \notin overtaken'[c]
    BY <2>1, <2>2 DEF Free
  <2>4. Leads(free, cache'[c], store[c].tables, RemoveAt(store[c].tasks, i))
    <3>1. \A t \in free : t \in DOMAIN store[c].tasks[i] =>
              \A j \in 1 .. i - 1 : t \notin DOMAIN store[c].tasks[j]
      BY <2>1, <2>3
    <3>2. \A t \in free : Applied(cache'[c][t], cache[c][t], store[c].tasks[i], t)
      BY <2>1, <2>3
    <3>3. Leads(Free(c), cache[c], store[c].tables, store[c].tasks) BY <1>6, <2>1 DEF LeadsClient
    <3> QED BY <3>1, <3>2, <3>3, <1>6, <1>14, <2>1, <2>3, LeadsApplied
  <2> QED BY <2>1, <2>2, <2>4 DEF LeadsClient
<1> QED BY <1>5, <1>7, <1>8, <1>9, <1>10, <1>11, <1>12, <1>13 DEF StepOf

-----------------------------------------------------------------------------
(* The server gets a new version.                                          *)

\* The server takes an update with a higher revision.
LEMMA TellsAppended ==
    ASSUME NEW s \in Seq(Version), Len(s) >= 1, Tells(s), NEW u \in Update,
           s[Len(s)].rev < u.rev
    PROVE  Tells(Append(s, Overlaid(s[Len(s)], u)))
<1>1. PICK x : x = Overlaid(s[Len(s)], u) OBVIOUS
<1>2. PICK p : p = Append(s, x) OBVIOUS
<1>3. Len(s) \in 1 .. Len(s) /\ Len(s) \in Nat /\ \A v \in 1 .. Len(s) : s[v] \in Version
  OBVIOUS
<1>4. /\ x \in Version /\ x.rev = u.rev
      /\ DOMAIN x.rows = (DOMAIN s[Len(s)].rows \ u.gone) \cup DOMAIN u.put
      /\ \A id \in DOMAIN u.put :
            x.rows[id] = [rev |-> u.rev, table |-> u.put[id].table, value |-> u.put[id].value]
      /\ \A id : id \notin Ids(u) => SameAt(x.rows, s[Len(s)].rows, id)
  BY <1>1, <1>3, OverlaidIs
<1>5. /\ p \in Seq(Version) /\ Len(p) = Len(s) + 1 /\ p[Len(p)] = x
      /\ \A v \in 1 .. Len(s) : p[v] = s[v]
  BY <1>2, <1>4, <1>3
<1>6. \A v \in 1 .. Len(s) : s[v].rev \in Nat /\ s[v].rev <= s[Len(s)].rev
  <2> SUFFICES ASSUME NEW v \in 1 .. Len(s) PROVE s[v].rev \in Nat /\ s[v].rev <= s[Len(s)].rev
    OBVIOUS
  <2>1. s[v].rev \in Nat /\ s[Len(s)].rev \in Nat BY <1>3, VersionFields
  <2>2. CASE v = Len(s) BY <2>1, <2>2
  <2>3. CASE v < Len(s) BY <2>1, <2>3, <1>3 DEF Tells
  <2> QED BY <2>2, <2>3, <1>3
<1>7. u.rev \in Nat /\ \A v \in 1 .. Len(s) : s[v].rev < u.rev
  <2>1. u.rev \in Nat BY UpdateFields
  <2> QED BY <2>1, <1>3, <1>6
<1>8. ASSUME NEW v \in 1 .. Len(p), NEW w \in 1 .. Len(p), v < w PROVE p[v].rev < p[w].rev
  <2>1. v \in 1 .. Len(s) BY <1>3, <1>5, <1>8
  <2>2. CASE w = Len(p) BY <2>1, <2>2, <1>4, <1>5, <1>7
  <2>3. CASE w # Len(p)
    <3>1. w \in 1 .. Len(s) BY <2>3, <1>3, <1>5
    <3> QED BY <2>1, <3>1, <1>5, <1>8 DEF Tells
  <2> QED BY <2>2, <2>3
<1>9. ASSUME NEW id \in DOMAIN x.rows
      PROVE  \/ x.rows[id].rev = u.rev
             \/ id \in DOMAIN s[Len(s)].rows /\ x.rows[id] = s[Len(s)].rows[id]
  <2>1. CASE id \in DOMAIN u.put
    <3>1. x.rows[id] = [rev |-> u.rev, table |-> u.put[id].table, value |-> u.put[id].value]
      BY <2>1, <1>4
    <3>2. x.rows[id].rev = u.rev BY ONLY <3>1
    <3> QED BY <3>2
  <2>2. CASE id \notin DOMAIN u.put
    <3>1. id \notin Ids(u) BY <2>2, <1>4, <1>9 DEF Ids
    <3>2. SameAt(x.rows, s[Len(s)].rows, id) BY <3>1, <1>4
    <3> QED BY <3>2, <1>9 DEF SameAt
  <2> QED BY <2>1, <2>2
<1>10. ASSUME NEW w \in 1 .. Len(p), NEW id \in DOMAIN p[w].rows
       PROVE  p[w].rows[id].rev <= p[w].rev
  <2>1. CASE w = Len(p)
    <3>1. CASE x.rows[id].rev = u.rev BY <2>1, <3>1, <1>4, <1>5, <1>7
    <3>2. CASE id \in DOMAIN s[Len(s)].rows /\ x.rows[id] = s[Len(s)].rows[id]
      <4>1. s[Len(s)].rows[id].rev <= s[Len(s)].rev BY <3>2, <1>3 DEF Tells
      <4>2. s[Len(s)].rows[id].rev \in Nat BY <3>2, <1>3, VersionFields
      <4>3. x.rows[id].rev <= u.rev BY <4>1, <4>2, <3>2, <1>3, <1>6, <1>7
      <4> QED BY <4>3, <2>1, <1>4, <1>5
    <3> QED BY <3>1, <3>2, <2>1, <1>5, <1>9, <1>10
  <2>2. CASE w # Len(p)
    <3>1. w \in 1 .. Len(s) BY <2>2, <1>3, <1>5
    <3> QED BY <3>1, <1>5, <1>10 DEF Tells
  <2> QED BY <2>1, <2>2
<1>11. ASSUME NEW w \in 1 .. Len(p), NEW id \in DOMAIN p[w].rows, NEW v \in 1 .. w,
              p[w].rows[id].rev <= p[v].rev
       PROVE  id \in DOMAIN p[v].rows /\ p[v].rows[id] = p[w].rows[id]
  <2>1. CASE w = Len(p)
    <3>1. CASE v = w BY <3>1, <1>11
    <3>2. CASE v # w
      <4>1. v \in 1 .. Len(s) /\ p[v] = s[v] BY <3>2, <2>1, <1>3, <1>5
      <4>2. x.rows[id].rev # u.rev
        <5>1. p[w] = x BY <2>1, <1>5
        <5> QED BY <5>1, <4>1, <1>6, <1>7, <1>11
      <4>3. id \in DOMAIN s[Len(s)].rows /\ x.rows[id] = s[Len(s)].rows[id]
        BY <4>2, <2>1, <1>5, <1>9, <1>11
      <4>4. s[Len(s)].rows[id].rev <= s[v].rev BY <4>1, <4>3, <2>1, <1>5, <1>11
      <4>5. v \in 1 .. Len(s) /\ Len(s) \in 1 .. Len(s) BY <4>1, <1>3
      <4> QED BY <4>1, <4>3, <4>4, <4>5, <2>1, <1>5 DEF Tells
    <3> QED BY <3>1, <3>2
  <2>2. CASE w # Len(p)
    <3>1. w \in 1 .. Len(s) /\ v \in 1 .. Len(s) BY <2>2, <1>3, <1>5
    <3> QED BY <3>1, <1>5, <1>11 DEF Tells
  <2> QED BY <2>1, <2>2
<1>12. Tells(p) BY <1>8, <1>10, <1>11 DEF Tells
<1> QED BY <1>1, <1>2, <1>12

-----------------------------------------------------------------------------
(* What a reader makes of its tables.                                      *)

LEMMA RowsOfSame ==
    ASSUME NEW f, NEW g, NEW t, NEW id, SameAt(f, g, id)
    PROVE  SameAt(RowsOf(f, t), RowsOf(g, t), id)
<1>1. IsRowsOf(RowsOf(f, t), f, t) /\ IsRowsOf(RowsOf(g, t), g, t) BY RowsOfIs
<1> QED BY <1>1 DEF IsRowsOf, SameAt

\* A row with an old revision was there already.
LEMMA RowWasThere ==
    ASSUME NEW s \in Seq(Version), Tells(s), NEW w \in 1 .. Len(s), NEW v \in 1 .. w,
           NEW t, NEW id \in DOMAIN RowsOf(s[w].rows, t), s[w].rows[id].rev <= s[v].rev
    PROVE  SameAt(RowsOf(s[v].rows, t), RowsOf(s[w].rows, t), id)
<1>1. IsRowsOf(RowsOf(s[w].rows, t), s[w].rows, t) BY RowsOfIs
<1>2. id \in DOMAIN s[w].rows BY <1>1 DEF IsRowsOf
<1>3. id \in DOMAIN s[v].rows /\ s[v].rows[id] = s[w].rows[id] BY <1>2 DEF Tells
<1>4. SameAt(s[v].rows, s[w].rows, id) BY <1>2, <1>3 DEF SameAt
<1> QED BY <1>4, RowsOfSame

\* A store that knows a version, and where its query starts then.
Knows(k, revision) ==
    /\ k.revision = revision /\ k.startAt = revision + 1
    /\ \A t \in Tables : k.removedRows[t] = {}

LEMMA HasRowsWider ==
    ASSUME NEW k, NEW t, NEW version, NEW gap, NEW gap2, gap \subseteq gap2,
           HasRows(k, t, version, gap)
    PROVE  HasRows(k, t, version, gap2)
BY DEF HasRows, SameBut

LEMMA Later ==
    ASSUME NEW s \in Seq(Version), Tells(s), NEW w \in 1 .. Len(s), NEW v \in 1 .. w
    PROVE  /\ v \in 1 .. Len(s) /\ s[v].rev \in Nat /\ s[w].rev \in Nat
           /\ s[v].rev <= s[w].rev /\ (v # w => s[v].rev < s[w].rev)
<1>1. Len(s) \in Nat OBVIOUS
<1>2. v \in 1 .. Len(s) BY <1>1
<1>3. s[v].rev \in Nat /\ s[w].rev \in Nat BY <1>2, VersionFields
<1>4. v # w => s[v].rev < s[w].rev BY <1>2 DEF Tells
<1> QED BY <1>2, <1>3, <1>4

\* The first data, of which the reader's tables may be ahead.
FirstOK(h, view, gap) ==
    Knows(h, view.rev) /\ \A t \in Tables : HasRows(h, t, view, gap)

LEMMA ReaderFirst ==
    ASSUME NEW s \in Seq(Version), Tells(s), NEW k \in Store, NEW base \in 1 .. Len(s),
           Knows(k, s[base].rev), NEW gap, NEW gap2, gap \subseteq gap2,
           \A t \in Tables : \E v \in base .. Len(s) : HasRows(k, t, s[v], gap),
           NEW view, view = s[Len(s)],
           NEW h, h = onChange_(k, Result(k, view)), Gone(h.tables, view) \subseteq gap2
    PROVE  h \in Store /\ FirstOK(h, view, gap2) /\ (h.startAt = k.startAt <=> base = Len(s))
<1>1. Len(s) \in Nat /\ Len(s) \in 1 .. Len(s) /\ base \in 1 .. Len(s) /\ view \in Version
  OBVIOUS
<1>2. /\ s[base].rev \in Nat /\ view.rev \in Nat /\ s[base].rev <= view.rev
      /\ (base # Len(s) => s[base].rev < view.rev)
  BY <1>1, Later
<1>3. /\ k.revision = s[base].rev /\ k.startAt = s[base].rev + 1
      /\ \A t \in Tables : k.removedRows[t] = {}
  BY DEF Knows
<1>4. CASE base = Len(s)
  <2>1. ~Heeds(k, view) BY <1>3, <1>4 DEF Heeds
  <2>2. h = k BY <2>1, <1>1, OnChangeNothing
  <2>3. \A t \in Tables : HasRows(k, t, view, gap) BY <1>1, <1>4
  <2>4. \A t \in Tables : HasRows(k, t, view, gap2) BY <2>3, HasRowsWider
  <2> QED BY <2>2, <2>4, <1>4 DEF FirstOK
<1>5. CASE base # Len(s)
  <2>1. Heeds(k, view) BY <1>2, <1>3, <1>5 DEF Heeds
  <2>2. IsChange(h, k, view) BY <2>1, <1>1, OnChangeIs
  <2>3. /\ h \in Store /\ h.revision = view.rev /\ h.startAt = view.rev + 1
        /\ \A t \in Tables : h.removedRows[t] = {}
        /\ \A t \in Tables : \A id : RowAfter(h.tables[t], k, view, t, id)
    BY ONLY <2>2 DEF IsChange
  <2>4. ASSUME NEW t \in Tables, NEW id, <<t, id>> \notin gap2
        PROVE  SameAt(h.tables[t], RowsOf(view.rows, t), id)
    <3>1. IsRowsOf(RowsOf(view.rows, t), view.rows, t) BY RowsOfIs
    <3>2. RowAfter(h.tables[t], k, view, t, id) /\ ~Goes(k, t, id) BY <2>3, <1>3 DEF Goes
    <3>3. CASE Comes(k, view, t, id)
      <4>1. id \in DOMAIN h.tables[t] /\ h.tables[t][id] = view.rows[id].value
        BY <3>2, <3>3 DEF RowAfter
      <4>2. id \in DOMAIN view.rows /\ view.rows[id].table = t BY <3>3 DEF Comes
      <4> QED BY <3>1, <4>1, <4>2 DEF IsRowsOf, SameAt
    <3>4. CASE ~Comes(k, view, t, id)
      <4>1. SameAt(h.tables[t], k.tables[t], id) BY <3>2, <3>4 DEF RowAfter
      <4>2. PICK v \in base .. Len(s) : HasRows(k, t, s[v], gap) OBVIOUS
      <4>3. SameAt(k.tables[t], RowsOf(s[v].rows, t), id) BY <4>2, <2>4 DEF HasRows, SameBut
      <4>4. CASE id \in DOMAIN RowsOf(view.rows, t)
        <5>1. id \in DOMAIN view.rows /\ view.rows[id].table = t BY <3>1, <4>4 DEF IsRowsOf
        <5>2. view.rows[id].rev \in Nat BY <5>1, <1>1, VersionFields
        <5>3. ~(view.rows[id].rev >= s[base].rev + 1) BY <3>4, <5>1, <1>3 DEF Comes
        <5>4. base \in 1 .. v /\ v \in 1 .. Len(s) BY <1>1
        <5>5. s[base].rev <= s[v].rev /\ s[v].rev \in Nat BY <5>4, Later
        <5>6. view.rows[id].rev <= s[v].rev BY <5>2, <5>3, <5>5, <1>2
        <5>7. SameAt(RowsOf(s[v].rows, t), RowsOf(view.rows, t), id)
          BY <5>4, <5>6, <4>4, <1>1, RowWasThere
        <5> QED BY <4>1, <4>3, <5>7 DEF SameAt
      <4>5. CASE id \notin DOMAIN RowsOf(view.rows, t)
        <5>1. id \notin DOMAIN h.tables[t]
          <6>1. SUFFICES ASSUME id \in DOMAIN h.tables[t] PROVE FALSE OBVIOUS
          <6>2. h.tables[t] \in TableRows BY <2>3, StoreFields
          <6>3. id \in Id BY <6>1, <6>2, TableRowsIs
          <6>4. <<t, id>> \in Gone(h.tables, view) BY <6>1, <6>3, <4>5, GoneTyped
          <6> QED BY <6>4, <2>4
        <5> QED BY <5>1, <4>5 DEF SameAt
      <4> QED BY <4>4, <4>5
    <3> QED BY <3>3, <3>4
  <2>5. \A t \in Tables : HasRows(h, t, view, gap2) BY <2>4 DEF HasRows, SameBut
  <2>6. FirstOK(h, view, gap2) BY <2>3, <2>5 DEF FirstOK, Knows
  <2>7. h.startAt # k.startAt BY <2>3, <1>2, <1>3, <1>5
  <2> QED BY <2>3, <2>6, <2>7, <1>5
<1> QED BY <1>4, <1>5

\* A later version, of which a reader that has the one before hears.
Strays(before, after) == {r \in Gone(Contents(before.rows), after) : r[2] \in DOMAIN after.rows}

LEMMA ReaderLater ==
    ASSUME NEW s \in Seq(Version), Tells(s), NEW k \in Store,
           NEW n \in 1 .. Len(s), NEW m \in n + 1 .. Len(s),
           Knows(k, s[n].rev), NEW gap, NEW gap2, gap \subseteq gap2,
           \A t \in Tables : HasRows(k, t, s[n], gap),
           NEW h, h = Events(k, s[n], s[m]), Strays(s[n], s[m]) \subseteq gap2
    PROVE  h \in Store /\ FirstOK(h, s[m], gap2) /\ h.startAt # k.startAt
<1>1. /\ Len(s) \in Nat /\ n \in 1 .. m /\ m \in 1 .. Len(s) /\ n # m
      /\ s[n] \in Version /\ s[m] \in Version
  OBVIOUS
<1>2. s[n].rev \in Nat /\ s[m].rev \in Nat /\ s[n].rev < s[m].rev BY <1>1, Later
<1>3. /\ k.revision = s[n].rev /\ k.startAt = s[n].rev + 1
      /\ \A t \in Tables : k.removedRows[t] = {}
  BY DEF Knows
<1>4. PICK g : /\ IsRemoved(g, k, s[n], s[m])
               /\ h = IF Result(k, s[n]) = Result(k, s[m]) THEN g
                      ELSE onChange_(g, Result(g, s[m]))
  BY <1>1, EventsIs
<1>5. /\ g \in Store
      /\ g.revision = k.revision /\ g.startAt = k.startAt /\ g.tables = k.tables /\ g.tasks = k.tasks
      /\ \A t \in Tables : \A id :
            id \in g.removedRows[t]
            <=> id \in DOMAIN s[n].rows /\ id \notin DOMAIN s[m].rows /\ s[n].rows[id].table = t
  BY <1>3, <1>4 DEF IsRemoved
<1>6. Result(k, s[n]).rev = 0 /\ Result(k, s[m]).rev # 0 BY <1>1, <1>2, <1>3, ResultIs
<1>7. h = onChange_(g, Result(g, s[m])) BY <1>4, <1>6
<1>8. Heeds(g, s[m]) BY <1>2, <1>3, <1>5 DEF Heeds
<1>9. IsChange(h, g, s[m]) BY <1>1, <1>5, <1>7, <1>8, OnChangeIs
<1>10. /\ h \in Store /\ h.revision = s[m].rev /\ h.startAt = s[m].rev + 1
       /\ \A t \in Tables : h.removedRows[t] = {}
       /\ \A t \in Tables : \A id : RowAfter(h.tables[t], g, s[m], t, id)
  BY ONLY <1>9 DEF IsChange
<1>11. ASSUME NEW t \in Tables, NEW id, <<t, id>> \notin gap2
       PROVE  SameAt(h.tables[t], RowsOf(s[m].rows, t), id)
  <2>1. IsRowsOf(RowsOf(s[m].rows, t), s[m].rows, t) /\ IsRowsOf(RowsOf(s[n].rows, t), s[n].rows, t)
    BY RowsOfIs
  <2>2. RowAfter(h.tables[t], g, s[m], t, id) BY <1>10
  <2>3. SameAt(k.tables[t], RowsOf(s[n].rows, t), id) BY <1>11 DEF HasRows, SameBut
  <2>4. CASE Comes(g, s[m], t, id)
    <3>1. id \in DOMAIN h.tables[t] /\ h.tables[t][id] = s[m].rows[id].value
      BY <2>2, <2>4 DEF RowAfter
    <3>2. id \in DOMAIN s[m].rows /\ s[m].rows[id].table = t BY <2>4 DEF Comes
    <3> QED BY <2>1, <3>1, <3>2 DEF IsRowsOf, SameAt
  <2>5. CASE ~Comes(g, s[m], t, id) /\ Goes(g, t, id)
    <3>1. id \notin DOMAIN h.tables[t] BY <2>2, <2>5 DEF RowAfter
    <3>2. id \notin DOMAIN s[m].rows BY <2>5, <1>5 DEF Goes
    <3> QED BY <2>1, <3>1, <3>2 DEF IsRowsOf, SameAt
  <2>6. CASE ~Comes(g, s[m], t, id) /\ ~Goes(g, t, id)
    <3>1. SameAt(h.tables[t], k.tables[t], id) BY <2>2, <2>6, <1>5 DEF RowAfter
    <3>2. CASE id \in DOMAIN RowsOf(s[m].rows, t)
      <4>1. id \in DOMAIN s[m].rows /\ s[m].rows[id].table = t BY <2>1, <3>2 DEF IsRowsOf
      <4>2. s[m].rows[id].rev \in Nat BY <4>1, <1>1, VersionFields
      <4>3. \A u \in Tables : id \notin g.removedRows[u] BY <4>1, <1>5
      <4>4. ~(s[m].rows[id].rev >= s[n].rev + 1) BY <2>6, <4>1, <4>3, <1>3, <1>5 DEF Comes
      <4>5. s[m].rows[id].rev <= s[n].rev BY <4>2, <4>4, <1>2
      <4>6. SameAt(RowsOf(s[n].rows, t), RowsOf(s[m].rows, t), id)
        BY <4>5, <3>2, <1>1, RowWasThere
      <4> QED BY <2>3, <3>1, <4>6 DEF SameAt
    <3>3. CASE id \notin DOMAIN RowsOf(s[m].rows, t)
      <4>1. id \notin DOMAIN h.tables[t]
        <5>1. SUFFICES ASSUME id \in DOMAIN h.tables[t] PROVE FALSE OBVIOUS
        <5>2. id \in DOMAIN k.tables[t] /\ id \in DOMAIN RowsOf(s[n].rows, t)
          BY <5>1, <3>1, <2>3 DEF SameAt
        <5>3. id \in DOMAIN s[n].rows /\ s[n].rows[id].table = t BY <5>2, <2>1 DEF IsRowsOf
        <5>4. CASE id \notin DOMAIN s[m].rows
          <6>1. id \in g.removedRows[t] BY <5>3, <5>4, <1>5
          <6> QED BY <6>1, <5>2, <2>6, <1>5 DEF Goes
        <5>5. CASE id \in DOMAIN s[m].rows
          <6>1. id \in Id BY <5>5, <1>1, VersionFields
          <6>2. Contents(s[n].rows)[t] = RowsOf(s[n].rows, t) BY DEF Contents
          <6>3. <<t, id>> \in Gone(Contents(s[n].rows), s[m])
            BY <6>1, <6>2, <5>2, <3>3, GoneTyped
          <6>4. <<t, id>> \in Strays(s[n], s[m]) BY <6>3, <5>5 DEF Strays
          <6> QED BY <6>4, <1>11
        <5> QED BY <5>4, <5>5
      <4> QED BY <4>1, <3>3 DEF SameAt
    <3> QED BY <3>2, <3>3
  <2> QED BY <2>4, <2>5, <2>6
<1>12. \A t \in Tables : HasRows(h, t, s[m], gap2) BY <1>11 DEF HasRows, SameBut
<1>13. FirstOK(h, s[m], gap2) BY <1>10, <1>12 DEF FirstOK, Knows
<1> QED BY <1>2, <1>3, <1>10, <1>13

LEMMA StaysOut ==
    ASSUME NEW c, StepOf(c), outOfStep
    PROVE  outOfStep'
<1>1. ASSUME outOfStep' = outOfStep PROVE outOfStep' BY <1>1
<1>2. CASE ServerStays BY <1>1, <1>2 DEF ServerStays
<1>3. ASSUME NEW i, NEW b, NEW a, NEW h, IsRefused(c, i, b, a, h) PROVE outOfStep'
  <2>1. outOfStep' = (outOfStep \/ i < Len(sent[c])) BY <1>3 DEF IsRefused
  <2> QED BY <2>1
<1>4. ASSUME NEW u, NEW k, NEW b, NEW a, IsCommit(c, u, k, b, a) PROVE outOfStep'
  BY <1>1, <1>4 DEF IsCommit
<1>5. ASSUME NEW i, IsAccept(c, i) PROVE outOfStep' BY <1>1, <1>5 DEF IsAccept, IsAnswer
<1>6. ASSUME NEW i, IsRefuse(c, i) PROVE outOfStep' BY <1>1, <1>6 DEF IsRefuse, IsAnswer
<1> QED
  BY <1>2, <1>3, <1>4, <1>5, <1>6
  DEF StepOf, IsConnect, IsReload, IsLoaded, IsCrash, IsFirstData, IsDeliver, IsExternal,
      IsAccepted, IsReloaded, IsBegin, IsEnd, Idle

LEMMA ReaderStep ==
    ASSUME Basics, Basics', VersionInv, ReaderInv, NEW c \in Clients, StepOf(c)
    PROVE  ReaderInv'
<1> SUFFICES ASSUME ~outOfStep' PROVE \A d \in Clients \ Writers : ReaderOK(d)'
  BY DEF ReaderInv
<1>1. ~outOfStep BY StaysOut
<1>2. /\ TypeInv /\ TypeInv' /\ ClientInv /\ Tells(server)
      /\ \A d \in Clients \ Writers : ReaderOK(d)
  BY <1>1 DEF Basics, ReaderInv, VersionInv
<1>3. OthersStay(c) /\ ServerGrows BY <1>2, StepGrows
<1>4. /\ Len(server) \in Nat /\ Len(server') \in Nat /\ Len(server') >= Len(server)
      /\ \A v \in 1 .. Len(server) : server'[v] = server[v]
  BY <1>3 DEF ServerGrows
<1>5. /\ server \in Seq(Version) /\ Len(server) \in 1 .. Len(server)
      /\ Now = server[Len(server)] /\ Now \in Version
  BY <1>2, VersionsTyped, TypeIs DEF TypeInv
<1>6. ASSUME NEW d \in Clients \ Writers, d # c PROVE ReaderOK(d)'
  <2>1. /\ status'[d] = status[d] /\ loaded'[d] = loaded[d] /\ listening'[d] = listening[d]
        /\ at'[d] = at[d] /\ store'[d] = store[d] /\ missed'[d] = missed[d]
    BY <1>3, <1>6 DEF OthersStay
  <2>2. at[d] \in 1 .. Len(server) /\ ReaderOK(d) BY <1>2 DEF ClientInv, ClientOK
  <2>3. server'[at[d]] = server[at[d]] BY <2>2, <1>4
  <2>4. ASSUME status[d] # "closed", ~listening[d]
        PROVE  \E base \in 1 .. Len(server') :
              /\ store[d].revision = server'[base].rev
              /\ \A t \in Tables : status[d] = "ready" \/ t \in loaded[d] =>
                    \E v \in base .. Len(server') : HasRows(store[d], t, server'[v], missed[d])
    <3>1. PICK base \in 1 .. Len(server) :
              /\ store[d].revision = server[base].rev
              /\ \A t \in Tables : status[d] = "ready" \/ t \in loaded[d] =>
                    \E v \in base .. Len(server) : HasRows(store[d], t, server[v], missed[d])
      BY <2>2, <2>4 DEF ReaderOK
    <3>2. base \in 1 .. Len(server') /\ server'[base] = server[base] BY <1>4
    <3>3. ASSUME NEW t \in Tables, status[d] = "ready" \/ t \in loaded[d]
          PROVE  \E v \in base .. Len(server') : HasRows(store[d], t, server'[v], missed[d])
      <4>1. PICK v \in base .. Len(server) : HasRows(store[d], t, server[v], missed[d])
        BY <3>1, <3>3
      <4>2. v \in base .. Len(server') /\ server'[v] = server[v] BY <1>4
      <4> QED BY <4>1, <4>2
    <3> QED BY <3>1, <3>2, <3>3
  <2> QED BY <2>1, <2>2, <2>3, <2>4 DEF ReaderOK
<1>7. SUFFICES ASSUME c \notin Writers PROVE ReaderOK(c)'
  BY <1>6
<1>8. /\ ReaderOK(c) /\ ClientOK(c) /\ store[c] \in Store /\ at[c] \in 1 .. Len(server)
  BY <1>2, <1>7, ClientTyped DEF Typed, ClientInv, ClientOK
<1>9. CASE IsConnect(c)
  <2>1. /\ server' = server /\ status'[c] = "loading" /\ loaded'[c] = {} /\ missed'[c] = {}
        /\ store'[c] = NewStore(Now.rev) /\ ~listening'[c]
    BY <1>8, <1>9 DEF IsConnect, ServerStays, ClientOK
  <2>2. store'[c].revision = Now.rev /\ \A t \in Tables : store'[c].removedRows[t] = {}
    BY <2>1, <1>5, VersionFields, NewStoreTyped
  <2>3. \E base \in 1 .. Len(server) :
            /\ store'[c].revision = server[base].rev
            /\ \A t \in Tables : status'[c] = "ready" \/ t \in loaded'[c] =>
                  \E v \in base .. Len(server) : HasRows(store'[c], t, server[v], missed'[c])
    BY <2>1, <2>2, <1>5
  <2> QED BY <2>1, <2>2, <2>3 DEF ReaderOK
<1>10. ASSUME NEW t \in Tables, IsReload(c, t) PROVE ReaderOK(c)'
  <2>1. /\ server' = server /\ status[c] = "loading" /\ status'[c] = "loading"
        /\ loaded'[c] = loaded[c] \cup {t} /\ missed'[c] = missed[c] /\ ~listening[c]
        /\ ~listening'[c]
        /\ store'[c].tables[t] = RowsOf(Now.rows, t)
        /\ \A u \in Tables : u # t => store'[c].tables[u] = store[c].tables[u]
        /\ store'[c].revision = store[c].revision
        /\ store'[c].removedRows = store[c].removedRows
    BY <1>8, <1>10 DEF IsReload, ServerStays, ClientOK
  <2>2. PICK base \in 1 .. Len(server) :
            /\ store[c].revision = server[base].rev
            /\ \A u \in Tables : status[c] = "ready" \/ u \in loaded[c] =>
                  \E v \in base .. Len(server) : HasRows(store[c], u, server[v], missed[c])
    BY <1>8, <2>1 DEF ReaderOK
  <2>3. ASSUME NEW u \in Tables, status'[c] = "ready" \/ u \in loaded'[c]
        PROVE  \E v \in base .. Len(server) : HasRows(store'[c], u, server[v], missed'[c])
    <3>1. CASE u = t
      <4>1. HasRows(store'[c], t, server[Len(server)], missed'[c])
        BY <2>1, <1>5 DEF HasRows, SameBut, SameAt
      <4>2. Len(server) \in base .. Len(server) BY <1>5
      <4> QED BY <4>1, <4>2, <3>1
    <3>2. CASE u # t
      <4>1. PICK v \in base .. Len(server) : HasRows(store[c], u, server[v], missed[c])
        BY <2>1, <2>2, <2>3, <3>2
      <4>2. HasRows(store'[c], u, server[v], missed'[c]) BY <4>1, <2>1, <3>2 DEF HasRows
      <4> QED BY <4>2
    <3> QED BY <3>1, <3>2
  <2>4. \E b \in 1 .. Len(server) :
            /\ store'[c].revision = server[b].rev
            /\ \A u \in Tables : status'[c] = "ready" \/ u \in loaded'[c] =>
                  \E v \in b .. Len(server) : HasRows(store'[c], u, server[v], missed'[c])
    BY <2>1, <2>2, <2>3
  <2> QED BY <2>1, <2>4, <1>8 DEF ReaderOK
<1>11. CASE IsLoaded(c)
  <2>1. /\ server' = server /\ status[c] = "loading" /\ status'[c] = "ready"
        /\ loaded[c] = Tables /\ missed'[c] = missed[c] /\ ~listening[c] /\ ~listening'[c]
        /\ store'[c].revision = store[c].revision /\ store'[c].tables = store[c].tables
        /\ store'[c].startAt = store[c].revision + 1
        /\ \A t \in Tables : store'[c].removedRows[t] = {}
    BY <1>8, <1>11 DEF IsLoaded, ServerStays, ClientOK
  <2>2. PICK base \in 1 .. Len(server) :
            /\ store[c].revision = server[base].rev
            /\ \A u \in Tables : status[c] = "ready" \/ u \in loaded[c] =>
                  \E v \in base .. Len(server) : HasRows(store[c], u, server[v], missed[c])
    BY <1>8, <2>1 DEF ReaderOK
  <2>3. \A u \in Tables : \E v \in base .. Len(server) : HasRows(store'[c], u, server[v], missed'[c])
    BY <2>1, <2>2 DEF HasRows
  <2>4. \E b \in 1 .. Len(server) :
            /\ store'[c].revision = server[b].rev
            /\ \A u \in Tables : status'[c] = "ready" \/ u \in loaded'[c] =>
                  \E v \in b .. Len(server) : HasRows(store'[c], u, server[v], missed'[c])
    BY <2>1, <2>2, <2>3
  <2> QED BY <2>1, <2>4 DEF ReaderOK
<1>12. CASE IsCrash(c) BY <1>12 DEF IsCrash, ReaderOK
<1>13. ASSUME NEW view, NEW k, IsFirstData(c, view, k) PROVE ReaderOK(c)'
  <2>1. /\ server' = server /\ status[c] = "ready" /\ status'[c] = "ready" /\ ~listening[c]
        /\ at'[c] = Len(server) /\ store'[c] = k /\ view = View(Now, sent[c])
        /\ k = onChange_(store[c], Result(store[c], view))
        /\ listening'[c] = (k.startAt = store[c].startAt)
        /\ missed'[c] = missed[c] \cup Gone(k.tables, view)
    BY <1>13 DEF IsFirstData, ServerStays
  <2>2. view = server[Len(server)] BY <1>2, <1>5, <1>7, <2>1, ReaderView
  <2>3. PICK base \in 1 .. Len(server) :
            /\ store[c].revision = server[base].rev
            /\ \A u \in Tables : \E v \in base .. Len(server) :
                  HasRows(store[c], u, server[v], missed[c])
    BY <1>8, <2>1 DEF ReaderOK
  <2>4. Knows(store[c], server[base].rev) BY <2>1, <2>3, <1>8 DEF ReaderOK, Knows
  <2>5. missed[c] \subseteq missed'[c] /\ Gone(k.tables, view) \subseteq missed'[c] BY <2>1
  <2>6. FirstOK(k, view, missed'[c]) BY <1>2, <1>5, <1>8, <2>1, <2>2, <2>3, <2>4, <2>5, ReaderFirst
  <2>7. /\ k.revision = view.rev /\ k.startAt = view.rev + 1
        /\ \A t \in Tables : k.removedRows[t] = {}
        /\ \A t \in Tables : HasRows(k, t, view, missed'[c])
    BY <2>6 DEF FirstOK, Knows
  <2>8. \E b \in 1 .. Len(server) :
            /\ store'[c].revision = server[b].rev
            /\ \A u \in Tables : status'[c] = "ready" \/ u \in loaded'[c] =>
                  \E v \in b .. Len(server) : HasRows(store'[c], u, server[v], missed'[c])
    <3>1. Len(server) \in Len(server) .. Len(server) BY <1>5
    <3> QED BY <2>1, <2>2, <2>7, <3>1, <1>5
  <2> QED BY <2>1, <2>2, <2>7, <2>8 DEF ReaderOK
<1>14. ASSUME NEW v \in at[c] + 1 .. Len(server), NEW b, NEW a, IsDeliver(c, v, b, a)
       PROVE  ReaderOK(c)'
  <2>1. /\ server' = server /\ status[c] = "ready" /\ status'[c] = "ready" /\ listening[c]
        /\ at'[c] = v /\ b = View(server[at[c]], sent[c]) /\ a = View(server[v], sent[c])
        /\ store'[c] = Events(store[c], b, a)
        /\ listening'[c] = (store'[c].startAt = store[c].startAt)
    BY <1>14 DEF IsDeliver, ServerStays, WasTold
  <2>2. b = server[at[c]] /\ a = server[v] BY <1>2, <1>7, <2>1, ReaderView
  <2>3. missed'[c] = missed[c] \cup Strays(server[at[c]], server[v])
    BY <1>14, <2>2 DEF IsDeliver, Strays
  <2>4. /\ Knows(store[c], server[at[c]].rev)
        /\ \A t \in Tables : HasRows(store[c], t, server[at[c]], missed[c])
    BY <2>1, <1>8 DEF ReaderOK, Knows
  <2>5. missed[c] \subseteq missed'[c] /\ Strays(server[at[c]], server[v]) \subseteq missed'[c]
    BY <2>3
  <2>6. FirstOK(store'[c], server[v], missed'[c]) /\ store'[c].startAt # store[c].startAt
    <3>1. store'[c] = Events(store[c], server[at[c]], server[v]) BY <2>1, <2>2
    <3>2. Tells(server) BY <1>2
    <3>3. PICK h : h = store'[c] OBVIOUS
    <3>4. PICK k \in Store : k = store[c] BY <1>8
    <3>5. PICK gap, gap2 : gap = missed[c] /\ gap2 = missed'[c] OBVIOUS
    <3>6. PICK n \in 1 .. Len(server) : n = at[c] BY <1>8
    <3>7. v \in n + 1 .. Len(server) BY <3>6
    <3>8. /\ Knows(k, server[n].rev) /\ h = Events(k, server[n], server[v])
          /\ \A t \in Tables : HasRows(k, t, server[n], gap)
          /\ gap \subseteq gap2 /\ Strays(server[n], server[v]) \subseteq gap2
      BY ONLY <3>1, <3>3, <3>4, <3>5, <3>6, <2>4, <2>5
    <3>9. FirstOK(h, server[v], gap2) /\ h.startAt # k.startAt
      BY ONLY <3>2, <3>7, <3>8, <1>5, ReaderLater
    <3> QED BY ONLY <3>3, <3>4, <3>5, <3>9
  <2>7. /\ store'[c].revision = server[v].rev /\ store'[c].startAt = server[v].rev + 1
        /\ \A t \in Tables : store'[c].removedRows[t] = {}
        /\ \A t \in Tables : HasRows(store'[c], t, server[v], missed'[c])
    BY <2>6 DEF FirstOK, Knows
  <2>8. \E w \in 1 .. Len(server) :
            /\ store'[c].revision = server[w].rev
            /\ \A u \in Tables : status'[c] = "ready" \/ u \in loaded'[c] =>
                  \E x \in w .. Len(server) : HasRows(store'[c], u, server[x], missed'[c])
    <3>1. v \in 1 .. Len(server) /\ v \in v .. Len(server) BY <1>4, <1>8
    <3> QED BY <2>7, <3>1
  <2> QED BY <2>1, <2>6, <2>7, <2>8 DEF ReaderOK
<1>15. ASSUME NEW i, IsExternal(c, i) PROVE ReaderOK(c)'
  <2>1. /\ server' = server /\ status'[c] = status[c] /\ loaded'[c] = loaded[c]
        /\ store'[c].tables = store[c].tables /\ store'[c].revision = store[c].revision
        /\ store'[c].removedRows = store[c].removedRows /\ store'[c].startAt = store[c].startAt
        /\ listening'[c] = listening[c] /\ at'[c] = at[c] /\ missed'[c] = missed[c]
    BY <1>15 DEF IsExternal, ServerStays
  <2>2. \A t, n : HasRows(store'[c], t, server[n], missed'[c])
                  <=> HasRows(store[c], t, server[n], missed[c])
    BY <2>1 DEF HasRows
  <2>3. ASSUME status[c] # "closed", ~listening[c]
        PROVE  \E w \in 1 .. Len(server) :
            /\ store'[c].revision = server[w].rev
            /\ \A u \in Tables : status'[c] = "ready" \/ u \in loaded'[c] =>
                  \E x \in w .. Len(server) : HasRows(store'[c], u, server[x], missed'[c])
    <3>1. PICK w \in 1 .. Len(server) :
            /\ store[c].revision = server[w].rev
            /\ \A u \in Tables : status[c] = "ready" \/ u \in loaded[c] =>
                  \E x \in w .. Len(server) : HasRows(store[c], u, server[x], missed[c])
      BY <1>8, <2>3 DEF ReaderOK
    <3> QED BY <2>1, <2>2, <3>1
  <2> QED BY <2>1, <2>2, <2>3, <1>8 DEF ReaderOK
<1> QED BY <1>7, <1>9, <1>10, <1>11, <1>12, <1>13, <1>14, <1>15 DEF StepOf

-----------------------------------------------------------------------------
(* What a writer sees.                                                     *)

LEMMA SplitLive ==
    ASSUME NEW q \in Seq(Update), NEW f, Split(q, f)
    PROVE  \A i : Live(q, i) <=> i \in f + 1 .. Len(q)
<1>1. f \in Nat /\ Len(q) \in Nat BY DEF Split
<1>2. ASSUME NEW i \in f + 1 .. Len(q) PROVE Live(q, i) BY <1>1 DEF Split, Live
<1>3. ASSUME NEW i, Live(q, i) PROVE i \in f + 1 .. Len(q)
  <2>1. i \in 1 .. Len(q) /\ i \notin 1 .. f BY <1>3 DEF Live, Split
  <2> QED BY <2>1, <1>1
<1> QED BY <1>2, <1>3

LEMMA ViewSees ==
    ASSUME NEW version \in Version, NEW q \in Seq(Update), Apart(q), NEW f, Split(q, f)
    PROVE  /\ Sees(View(version, q), version, q)
           /\ View(version, q).rev = IF f < Len(q) THEN q[Len(q)].rev ELSE version.rev
           /\ f = Len(q) => View(version, q) = version
<1>1. PICK w : w = View(version, q) OBVIOUS
<1>2. IsLaid(w, version, q, Len(q)) BY <1>1, ViewIs DEF IsView
<1>3. f \in Nat /\ Len(q) \in Nat /\ f <= Len(q) BY DEF Split
<1>4. /\ w \in Version
      /\ \A i \in 1 .. Len(q) : q[i].answer # "failed" => HasUpdate(w, q[i])
      /\ \A id : (\A i \in 1 .. Len(q) : q[i].answer # "failed" => id \notin Ids(q[i]))
                    => SameAt(w.rows, version.rows, id)
  BY ONLY <1>2 DEF IsLaid
<1>5. Sees(w, version, q) BY <1>4 DEF Sees, Live
<1>6. CASE f = Len(q)
  <2>1. \A n \in 1 .. Len(q) : q[n].answer = "failed" BY <1>6 DEF Split
  <2>2. w = version BY <1>2, <2>1 DEF IsLaid
  <2> QED BY <1>1, <1>5, <1>6, <2>2
<1>7. CASE f < Len(q)
  <2>1. Len(q) \in 1 .. Len(q) /\ q[Len(q)].answer # "failed" BY <1>3, <1>7 DEF Split
  <2>2. \A j \in Len(q) + 1 .. Len(q) : q[j].answer = "failed" BY <1>3
  <2>3. w.rev = q[Len(q)].rev BY <1>2, <2>1, <2>2 DEF IsLaid
  <2> QED BY <1>1, <1>5, <1>7, <2>3
<1> QED BY <1>3, <1>6, <1>7

LEMMA SeesSame ==
    ASSUME NEW s \in Seq(Version), NEW q \in Seq(Update), NEW n, Under(s, q, n),
           NEW f, Split(q, f), NEW v \in n .. Len(s)
    PROVE  View(s[v], q) = View(s[Len(s)], q)
<1>1. /\ Len(s) \in Nat /\ n \in 1 .. Len(s) /\ v \in 1 .. Len(s) /\ Len(s) \in 1 .. Len(s)
      /\ s[v] \in Version /\ s[Len(s)] \in Version /\ DOMAIN q = 1 .. Len(q) /\ Len(q) \in Nat
  BY DEF Under
<1>2. f \in Nat /\ f <= Len(q) BY DEF Split
<1>3. ASSUME NEW id, \A i \in DOMAIN q : q[i].answer # "failed" => id \notin Ids(q[i])
      PROVE  SameAt(s[v].rows, s[Len(s)].rows, id)
  BY <1>1, <1>3 DEF Under
<1>4. ASSUME \A i \in DOMAIN q : q[i].answer = "failed" PROVE s[v] = s[Len(s)]
  <2>1. \A i \in 1 .. Len(q) : q[i].answer # "accepted" BY <1>1, <1>4
  <2>2. ~(Len(s) \in n + 1 .. Len(s)) BY <2>1 DEF Under
  <2>3. v = Len(s) BY <2>2, <1>1
  <2> QED BY <2>3
<1>5. CASE f = Len(q)
  <2>1. \A i \in 0 + 1 .. Len(q) : q[i].answer = "failed" BY <1>5 DEF Split
  <2>2. 0 \in 0 .. Len(q) BY <1>1
  <2> QED BY <1>1, <1>3, <1>4, <2>1, <2>2, ViewsEqual DEF Under
<1>6. CASE f < Len(q)
  <2>1. Len(q) \in 0 .. Len(q) /\ q[Len(q)].answer # "failed" BY <1>1, <1>2, <1>6 DEF Split
  <2>2. \A i \in Len(q) + 1 .. Len(q) : q[i].answer = "failed" BY <1>1
  <2>3. Apart(q) BY DEF Under
  <2>4. PICK m : m = Len(q) OBVIOUS
  <2>5. m \in 0 .. Len(q) /\ (\A i \in m + 1 .. Len(q) : q[i].answer = "failed")
        /\ (m > 0 => q[m].answer # "failed")
    BY <2>1, <2>2, <2>4
  <2>6. \A id : (\A i \in DOMAIN q : q[i].answer # "failed" => id \notin Ids(q[i]))
                   => SameAt(s[v].rows, s[Len(s)].rows, id)
    BY <1>3
  <2>7. (\A i \in DOMAIN q : q[i].answer = "failed") => s[v] = s[Len(s)] BY <1>4
  <2>8. s[v] \in Version /\ s[Len(s)] \in Version BY <1>1
  <2>9. q \in Seq(Update) OBVIOUS
  <2> QED BY ONLY <2>3, <2>5, <2>6, <2>7, <2>8, <2>9, ViewsEqual
<1>8. Len(q) \in Nat OBVIOUS
<1>7. f = Len(q) \/ f < Len(q) BY ONLY <1>2, <1>8
<1> QED BY <1>5, <1>6, <1>7

\* Two views with the same updates.
LEMMA SeesEqual ==
    ASSUME NEW v \in Version, NEW w \in Version, v.rev = w.rev,
           \A id : \/ \E u \in Update : id \in Ids(u) /\ HasUpdate(v, u) /\ HasUpdate(w, u)
                   \/ SameAt(v.rows, w.rows, id)
    PROVE  v = w
BY UpdateFixes, VersionsEqual

LEMMA HasSame ==
    ASSUME NEW version, NEW u, NEW u2, SameUpdate(u, u2)
    PROVE  (HasUpdate(version, u) <=> HasUpdate(version, u2)) /\ Ids(u) = Ids(u2)
BY DEF HasUpdate, SameUpdate, Ids

LEMMA ApartRemoved ==
    ASSUME NEW q \in Seq(Update), Apart(q), NEW i \in 1 .. Len(q)
    PROVE  Apart(RemoveAt(q, i))
<1>1. PICK p : p = RemoveAt(q, i) OBVIOUS
<1>2. Without(p, q, i) BY <1>1, RemovedAt
<1>3. /\ DOMAIN q = 1 .. Len(q) /\ DOMAIN p = 1 .. Len(q) - 1 /\ Len(q) \in Nat
      /\ \A j \in DOMAIN p : p[j] = q[Before(j, i)] /\ Before(j, i) \in DOMAIN q
      /\ \A j, k \in DOMAIN p : j < k => Before(j, i) < Before(k, i)
  BY <1>2 DEF Without
<1>4. ASSUME NEW j \in DOMAIN p, NEW k \in DOMAIN p, j # k PROVE Before(j, i) # Before(k, i)
  <2>1. j < k \/ k < j BY <1>3, <1>4
  <2>2. Before(j, i) < Before(k, i) \/ Before(k, i) < Before(j, i) BY <2>1, <1>3
  <2>3. Before(j, i) \in Int /\ Before(k, i) \in Int BY <1>3
  <2> QED BY <2>2, <2>3
<1>5. Apart(p) BY <1>3, <1>4 DEF Apart
<1> QED BY <1>1, <1>5

LEMMA ApartAnswered ==
    ASSUME NEW q \in Seq(Update), NEW q2 \in Seq(Update), Apart(q), NEW i, NEW answer,
           Answered(q2, q, i, answer)
    PROVE  /\ Apart(q2) /\ Len(q2) = Len(q)
           /\ \A j \in 1 .. Len(q) : SameUpdate(q[j], q2[j]) /\ Ids(q2[j]) = Ids(q[j])
<1>1. \A j \in 1 .. Len(q) : SameUpdate(q[j], q2[j]) BY DEF Answered, SameUpdate
<1>2. \A j \in 1 .. Len(q) : Ids(q2[j]) = Ids(q[j]) BY <1>1, HasSame
<1>3. DOMAIN q2 = DOMAIN q /\ DOMAIN q = 1 .. Len(q) /\ Len(q2) = Len(q) BY DEF Answered
<1>4. Apart(q2) BY <1>1, <1>2, <1>3 DEF Apart, SameUpdate
<1> QED BY <1>1, <1>2, <1>3, <1>4

\* An update that is part of the version, or has failed, is not under way any more.
LEMMA RemovedSees ==
    ASSUME NEW x \in Version, NEW q \in Seq(Update), Apart(q), NEW f, Split(q, f),
           NEW i \in 1 .. Len(q), NEW p, p = RemoveAt(q, i), NEW g, Split(p, g),
           Live(q, i) => HasUpdate(x, q[i]), View(x, p).rev = View(x, q).rev
    PROVE  View(x, p) = View(x, q)
<1>1. Without(p, q, i) /\ p \in Seq(Update) /\ Apart(p)
  BY RemovedAt, RemoveAtIs, ApartRemoved
<1>2. /\ Len(q) \in Nat /\ Len(p) = Len(q) - 1 /\ DOMAIN q = 1 .. Len(q)
      /\ \A j \in 1 .. Len(p) : p[j] = q[Before(j, i)] /\ Before(j, i) \in 1 .. Len(q)
                                /\ Before(j, i) # i
      /\ \A k \in 1 .. Len(q) : k # i => \E j \in 1 .. Len(p) : Before(j, i) = k
  BY <1>1 DEF Without
<1>3. PICK v : v = View(x, p) OBVIOUS
<1>4. PICK w : w = View(x, q) OBVIOUS
<1>5. Sees(v, x, p) BY <1>1, <1>3, ViewSees
<1>6. Sees(w, x, q) BY <1>4, ViewSees
<1>7. \A j : Live(p, j) => Live(q, Before(j, i)) /\ p[j] = q[Before(j, i)] /\ Before(j, i) # i
  BY <1>2 DEF Live
<1>8. ASSUME NEW id
      PROVE  \/ \E u \in Update : id \in Ids(u) /\ HasUpdate(v, u) /\ HasUpdate(w, u)
             \/ SameAt(v.rows, w.rows, id)
  <2>1. ASSUME NEW k, Live(q, k), k # i, id \in Ids(q[k])
        PROVE  \E u \in Update : id \in Ids(u) /\ HasUpdate(v, u) /\ HasUpdate(w, u)
    <3>1. PICK j \in 1 .. Len(p) : Before(j, i) = k BY <2>1, <1>2 DEF Live
    <3>2. p[j] = q[k] /\ Live(p, j) BY <2>1, <3>1, <1>2 DEF Live
    <3>3. HasUpdate(v, q[k]) /\ HasUpdate(w, q[k]) BY <2>1, <3>2, <1>5, <1>6 DEF Sees
    <3>4. q[k] \in Update BY <2>1 DEF Live
    <3> QED BY <2>1, <3>3, <3>4
  <2>2. ASSUME Live(q, i), id \in Ids(q[i])
        PROVE  \E u \in Update : id \in Ids(u) /\ HasUpdate(v, u) /\ HasUpdate(w, u)
    <3>1. \A j : Live(p, j) => id \notin Ids(p[j])
      <4> SUFFICES ASSUME NEW j, Live(p, j) PROVE id \notin Ids(p[j]) OBVIOUS
      <4>1. Before(j, i) \in DOMAIN q /\ Before(j, i) # i /\ p[j] = q[Before(j, i)] /\ i \in DOMAIN q
        BY <1>2, <1>7 DEF Live
      <4>2. Ids(q[Before(j, i)]) \cap Ids(q[i]) = {} BY <4>1 DEF Apart
      <4> QED BY <4>1, <4>2, <2>2
    <3>2. SameAt(v.rows, x.rows, id) BY <3>1, <1>5 DEF Sees
    <3>3. \A id2 \in Ids(q[i]) : SameAt(v.rows, x.rows, id2)
      <4> SUFFICES ASSUME NEW id2 \in Ids(q[i]) PROVE SameAt(v.rows, x.rows, id2) OBVIOUS
      <4>1. \A j : Live(p, j) => id2 \notin Ids(p[j])
        <5> SUFFICES ASSUME NEW j, Live(p, j) PROVE id2 \notin Ids(p[j]) OBVIOUS
        <5>1. Before(j, i) \in DOMAIN q /\ Before(j, i) # i /\ p[j] = q[Before(j, i)] /\ i \in DOMAIN q
          BY <1>2, <1>7 DEF Live
        <5>2. Ids(q[Before(j, i)]) \cap Ids(q[i]) = {} BY <5>1 DEF Apart
        <5> QED BY <5>1, <5>2
      <4> QED BY <4>1, <1>5 DEF Sees
    <3>4. HasUpdate(x, q[i]) /\ q[i] \in Update /\ v \in Version BY <2>2, <1>5 DEF Sees
    <3>5. HasUpdate(v, q[i]) BY <3>3, <3>4, UpdateStays
    <3>6. HasUpdate(w, q[i]) BY <2>2, <1>6 DEF Sees
    <3> QED BY <2>2, <3>4, <3>5, <3>6
  <2>3. ASSUME \A k : Live(q, k) => id \notin Ids(q[k]) PROVE SameAt(v.rows, w.rows, id)
    <3>1. \A j : Live(p, j) => id \notin Ids(p[j]) BY <2>3, <1>7
    <3>2. SameAt(v.rows, x.rows, id) /\ SameAt(w.rows, x.rows, id)
      BY <2>3, <3>1, <1>5, <1>6 DEF Sees
    <3> QED BY <3>2 DEF SameAt
  <2> QED BY <2>1, <2>2, <2>3
<1>9. v \in Version /\ w \in Version /\ v.rev = w.rev BY <1>3, <1>4, <1>5, <1>6 DEF Sees
<1>10. v = w BY <1>8, <1>9, SeesEqual
<1> QED BY <1>3, <1>4, <1>10

LEMMA AcceptedSees ==
    ASSUME NEW x \in Version, NEW q \in Seq(Update), Apart(q), NEW f, Split(q, f),
           NEW i \in 1 .. Len(q), i = f + 1, HasUpdate(x, q[i]),
           i = Len(q) => x.rev = q[i].rev,
           NEW p, p = RemoveAt(q, i)
    PROVE  View(x, p) = View(x, q) /\ Split(p, f)
<1>1. Without(p, q, i) /\ p \in Seq(Update) /\ Apart(p)
  BY RemovedAt, RemoveAtIs, ApartRemoved
<1>2. /\ Len(q) \in Nat /\ Len(p) = Len(q) - 1
      /\ \A j \in 1 .. Len(p) : p[j] = q[Before(j, i)] /\ Before(j, i) \in 1 .. Len(q)
                                /\ Before(j, i) # i
  BY <1>1 DEF Without
<1>3. f \in Nat /\ f <= Len(p) BY <1>2 DEF Split
<1>4. ASSUME NEW j \in 1 .. f PROVE p[j].answer = "failed"
  <2>1. j \in 1 .. Len(p) /\ Before(j, i) = j BY <1>2, <1>3 DEF Before
  <2> QED BY <2>1, <1>2 DEF Split
<1>5. ASSUME NEW j \in f + 1 .. Len(p) PROVE p[j].answer # "failed"
  <2>1. j \in 1 .. Len(p) /\ Before(j, i) \in f + 1 .. Len(q) BY <1>2, <1>3 DEF Before
  <2> QED BY <2>1, <1>2 DEF Split
<1>6. Split(p, f) BY <1>2, <1>3, <1>4, <1>5 DEF Split
<1>7. View(x, q).rev = q[Len(q)].rev
  <2>1. f < Len(q) BY <1>2, <1>3
  <2> QED BY <2>1, ViewSees
<1>8. View(x, p).rev = IF f < Len(p) THEN p[Len(p)].rev ELSE x.rev BY <1>1, <1>6, ViewSees
<1>9. View(x, p).rev = View(x, q).rev
  <2>1. CASE f < Len(p)
    <3>1. Len(p) \in 1 .. Len(p) /\ Before(Len(p), i) = Len(q) BY <2>1, <1>2, <1>3 DEF Before
    <3>2. p[Len(p)] = q[Len(q)] BY <3>1, <1>2
    <3> QED BY <2>1, <3>2, <1>7, <1>8
  <2>2. CASE ~(f < Len(p))
    <3>1. i = Len(q) BY <2>2, <1>2, <1>3
    <3> QED BY <2>2, <3>1, <1>7, <1>8
  <2> QED BY <2>1, <2>2
<1>10. View(x, p) = View(x, q) BY <1>6, <1>9, RemovedSees
<1> QED BY <1>6, <1>10

LEMMA ReloadedSees ==
    ASSUME NEW x \in Version, NEW q \in Seq(Update), Apart(q), NEW f, Split(q, f),
           NEW i \in 1 .. Len(q), i <= f, NEW p, p = RemoveAt(q, i)
    PROVE  View(x, p) = View(x, q) /\ Split(p, f - 1)
<1>1. Without(p, q, i) /\ p \in Seq(Update) /\ Apart(p)
  BY RemovedAt, RemoveAtIs, ApartRemoved
<1>2. /\ Len(q) \in Nat /\ Len(p) = Len(q) - 1
      /\ \A j \in 1 .. Len(p) : p[j] = q[Before(j, i)] /\ Before(j, i) \in 1 .. Len(q)
                                /\ Before(j, i) # i
  BY <1>1 DEF Without
<1>3. f \in Nat /\ f >= 1 /\ f - 1 \in 0 .. Len(p) BY <1>2 DEF Split
<1>4. ASSUME NEW j \in 1 .. f - 1 PROVE p[j].answer = "failed"
  <2>1. j \in 1 .. Len(p) /\ Before(j, i) \in 1 .. f BY <1>2, <1>3 DEF Before
  <2> QED BY <2>1, <1>2 DEF Split
<1>5. ASSUME NEW j \in (f - 1) + 1 .. Len(p) PROVE p[j].answer # "failed"
  <2>1. j \in 1 .. Len(p) /\ Before(j, i) \in f + 1 .. Len(q) BY <1>2, <1>3 DEF Before
  <2> QED BY <2>1, <1>2 DEF Split
<1>6. Split(p, f - 1) BY <1>3, <1>4, <1>5 DEF Split
<1>7. View(x, q).rev = IF f < Len(q) THEN q[Len(q)].rev ELSE x.rev BY ViewSees
<1>8. View(x, p).rev = IF f - 1 < Len(p) THEN p[Len(p)].rev ELSE x.rev BY <1>1, <1>6, ViewSees
<1>9. View(x, p).rev = View(x, q).rev
  <2>1. CASE f - 1 < Len(p)
    <3>1. Len(p) \in 1 .. Len(p) /\ Before(Len(p), i) = Len(q) BY <2>1, <1>2, <1>3 DEF Before
    <3>2. p[Len(p)] = q[Len(q)] /\ f < Len(q) BY <2>1, <3>1, <1>2, <1>3
    <3> QED BY <2>1, <3>2, <1>7, <1>8
  <2>2. CASE ~(f - 1 < Len(p))
    <3>1. ~(f < Len(q)) BY <2>2, <1>2, <1>3
    <3> QED BY <2>2, <3>1, <1>7, <1>8
  <2> QED BY <2>1, <2>2
<1>10. ~Live(q, i)
  <2>1. i \in 1 .. f BY <1>3
  <2> QED BY <2>1 DEF Split, Live
<1>11. View(x, p) = View(x, q) BY <1>6, <1>9, <1>10, RemovedSees
<1> QED BY <1>6, <1>11

\* An answer does not change what the writer sees, and nor does the server when it takes
\* the update.
LEMMA AnsweredSees ==
    ASSUME NEW x \in Version, NEW y \in Version, NEW q \in Seq(Update), NEW q2 \in Seq(Update),
           Apart(q), NEW f, Split(q, f), NEW i, NEW answer \in {"accepted", "refused"},
           Answered(q2, q, i, answer), Live(q, i),
           \A id : id \notin Ids(q[i]) => SameAt(y.rows, x.rows, id)
    PROVE  View(y, q2) = View(x, q) /\ Split(q2, f)
<1>1. /\ Apart(q2) /\ Len(q2) = Len(q) /\ Len(q) \in Nat
      /\ \A j \in 1 .. Len(q) : SameUpdate(q[j], q2[j]) /\ Ids(q2[j]) = Ids(q[j])
  BY ApartAnswered
<1>2. /\ i \in 1 .. Len(q) /\ q2[i].answer = answer
      /\ \A j \in 1 .. Len(q) : j # i => q2[j] = q[j]
  BY DEF Answered
<1>3. \A j : Live(q2, j) <=> Live(q, j) BY <1>1, <1>2 DEF Live
<1>4. Split(q2, f)
  <2>1. \A j : Live(q, j) <=> j \in f + 1 .. Len(q) BY SplitLive
  <2>2. f \in 0 .. Len(q2) BY <1>1 DEF Split
  <2>3. ASSUME NEW j \in 1 .. f PROVE q2[j].answer = "failed"
    <3>1. j \in 1 .. Len(q) /\ j \notin f + 1 .. Len(q) BY <2>2, <1>1
    <3>2. ~Live(q2, j) BY <3>1, <2>1, <1>3
    <3> QED BY <3>1, <3>2, <1>1 DEF Live
  <2>4. ASSUME NEW j \in f + 1 .. Len(q2) PROVE q2[j].answer # "failed"
    <3>1. Live(q2, j) BY <2>1, <1>1, <1>3
    <3> QED BY <3>1 DEF Live
  <2> QED BY <2>2, <2>3, <2>4 DEF Split
<1>5. PICK v : v = View(y, q2) OBVIOUS
<1>6. PICK w : w = View(x, q) OBVIOUS
<1>7. Sees(v, y, q2) /\ Sees(w, x, q) BY <1>1, <1>4, <1>5, <1>6, ViewSees
<1>8. v.rev = w.rev
  <2>1. i \in f + 1 .. Len(q) BY SplitLive
  <2>2. f < Len(q) BY <2>1, <1>1 DEF Split
  <2>3. v.rev = q2[Len(q)].rev /\ w.rev = q[Len(q)].rev BY <2>2, <1>1, <1>4, <1>5, <1>6, ViewSees
  <2>4. Len(q) \in 1 .. Len(q) BY <1>1, <1>2
  <2> QED BY <2>3, <2>4, <1>1 DEF SameUpdate
<1>9. ASSUME NEW id
      PROVE  \/ \E u \in Update : id \in Ids(u) /\ HasUpdate(v, u) /\ HasUpdate(w, u)
             \/ SameAt(v.rows, w.rows, id)
  <2>1. ASSUME NEW k, Live(q, k), id \in Ids(q[k])
        PROVE  \E u \in Update : id \in Ids(u) /\ HasUpdate(v, u) /\ HasUpdate(w, u)
    <3>1. k \in 1 .. Len(q) /\ q[k] \in Update /\ SameUpdate(q[k], q2[k]) /\ Live(q2, k)
      BY <2>1, <1>1, <1>3 DEF Live
    <3>2. HasUpdate(w, q[k]) /\ HasUpdate(v, q2[k]) BY <2>1, <3>1, <1>7 DEF Sees
    <3>3. HasUpdate(v, q[k]) BY <3>1, <3>2, HasSame
    <3> QED BY <2>1, <3>1, <3>2, <3>3
  <2>2. ASSUME \A k : Live(q, k) => id \notin Ids(q[k]) PROVE SameAt(v.rows, w.rows, id)
    <3>1. \A k : Live(q2, k) => id \notin Ids(q2[k]) BY <2>2, <1>1, <1>3 DEF Live
    <3>2. SameAt(v.rows, y.rows, id) /\ SameAt(w.rows, x.rows, id)
      BY <2>2, <3>1, <1>7 DEF Sees
    <3>3. SameAt(y.rows, x.rows, id) BY <2>2
    <3> QED BY <3>2, <3>3 DEF SameAt
  <2> QED BY <2>1, <2>2
<1>10. v = w BY <1>7, <1>8, <1>9, SeesEqual DEF Sees
<1> QED BY <1>4, <1>5, <1>6, <1>10

-----------------------------------------------------------------------------
(* Tables that no update writes.                                           *)

LEMMA RowsOfEqual ==
    ASSUME NEW f, NEW g, NEW t, \A id : SameAt(RowsOf(f, t), RowsOf(g, t), id)
    PROVE  RowsOf(f, t) = RowsOf(g, t)
<1>1. IsRowsOf(RowsOf(f, t), f, t) /\ IsRowsOf(RowsOf(g, t), g, t) BY RowsOfIs
<1>2. RowsOf(f, t) = [x \in DOMAIN RowsOf(f, t) |-> RowsOf(f, t)[x]]
      /\ RowsOf(g, t) = [x \in DOMAIN RowsOf(g, t) |-> RowsOf(g, t)[x]]
  BY <1>1 DEF IsRowsOf
<1> QED BY <1>2, SameEverywhere

LEMMA UpdateAtHome ==
    ASSUME NEW v, NEW u, UpdateOK(u), HasUpdate(v, u)
    PROVE  AtHome(v, u)
<1> SUFFICES ASSUME NEW id \in Ids(u), id \in DOMAIN v.rows PROVE v.rows[id].table \in u.tables
  BY DEF AtHome
<1>1. id \in DOMAIN u.put BY DEF HasUpdate, Ids
<1>2. v.rows[id] = [rev |-> u.rev, table |-> u.put[id].table, value |-> u.put[id].value]
  BY <1>1 DEF HasUpdate
<1>3. v.rows[id].table = u.put[id].table BY ONLY <1>2
<1> QED BY <1>1, <1>3 DEF UpdateOK

\* Rows of other tables are not there in a row that an update writes.
LEMMA OthersEmpty ==
    ASSUME NEW v, NEW u, AtHome(v, u), NEW t, t \notin u.tables, NEW id \in Ids(u)
    PROVE  id \notin DOMAIN RowsOf(v.rows, t)
<1>1. IsRowsOf(RowsOf(v.rows, t), v.rows, t) BY RowsOfIs
<1> QED BY <1>1 DEF IsRowsOf, AtHome

LEMMA UnlockedSame ==
    ASSUME NEW view, NEW version, NEW q, Sees(view, version, q),
           NEW t, \A i : Live(q, i) => /\ UpdateOK(q[i]) /\ AtHome(version, q[i])
                                       /\ t \notin q[i].tables
    PROVE  RowsOf(view.rows, t) = RowsOf(version.rows, t)
<1>1. ASSUME NEW id PROVE SameAt(RowsOf(view.rows, t), RowsOf(version.rows, t), id)
  <2>1. ASSUME NEW i, Live(q, i), id \in Ids(q[i])
        PROVE  SameAt(RowsOf(view.rows, t), RowsOf(version.rows, t), id)
    <3>1. HasUpdate(view, q[i]) BY <2>1 DEF Sees
    <3>2. AtHome(view, q[i]) BY <2>1, <3>1, UpdateAtHome
    <3>3. id \notin DOMAIN RowsOf(view.rows, t) BY <2>1, <3>2, OthersEmpty
    <3>4. id \notin DOMAIN RowsOf(version.rows, t) BY <2>1, OthersEmpty
    <3> QED BY <3>3, <3>4 DEF SameAt
  <2>2. ASSUME \A i : Live(q, i) => id \notin Ids(q[i])
        PROVE  SameAt(RowsOf(view.rows, t), RowsOf(version.rows, t), id)
    BY <2>2, RowsOfSame DEF Sees
  <2> QED BY <2>1, <2>2
<1> QED BY <1>1, RowsOfEqual

\* The server takes an update, or one more is laid over a view.
LEMMA OtherTable ==
    ASSUME NEW version \in Version, NEW u \in Update, UpdateOK(u), AtHome(version, u),
           DOMAIN u.put \cap u.gone = {}, NEW t, t \notin u.tables
    PROVE  RowsOf(Overlaid(version, u).rows, t) = RowsOf(version.rows, t)
<1>1. PICK x : x = Overlaid(version, u) OBVIOUS
<1>2. HasUpdate(x, u) /\ \A id : id \notin Ids(u) => SameAt(x.rows, version.rows, id)
  BY <1>1, OverlaidIs
<1>3. AtHome(x, u) BY <1>2, UpdateAtHome
<1>4. ASSUME NEW id PROVE SameAt(RowsOf(x.rows, t), RowsOf(version.rows, t), id)
  <2>1. CASE id \in Ids(u)
    <3>1. id \notin DOMAIN RowsOf(x.rows, t) /\ id \notin DOMAIN RowsOf(version.rows, t)
      BY <2>1, <1>3, OthersEmpty
    <3> QED BY <3>1 DEF SameAt
  <2>2. CASE id \notin Ids(u) BY <2>2, <1>2, RowsOfSame
  <2> QED BY <2>1, <2>2
<1> QED BY <1>1, <1>4, RowsOfEqual

-----------------------------------------------------------------------------
(* The state of a writer: the tables that were not overtaken, the versions *)
(* s of the server, of which it sees the n-th, its updates q, its store k, *)
(* its cache, what it may miss, and its next id.                           *)

LEMMA CloseWider ==
    ASSUME NEW rows, NEW rows2, NEW t, NEW gap, NEW gap2, gap \subseteq gap2,
           Close(rows, rows2, t, gap)
    PROVE  Close(rows, rows2, t, gap2)
BY DEF Close

LEMMA CopiesWider ==
    ASSUME NEW q, NEW view, NEW tables, NEW gap, NEW gap2, gap \subseteq gap2,
           NEW free, NEW free2, free2 \subseteq free, Copies(free, q, view, tables, gap)
    PROVE  Copies(free2, q, view, tables, gap2)
BY CloseWider DEF Copies, Copy

LEMMA BeforesWider ==
    ASSUME NEW q, NEW version, NEW gap, NEW gap2, gap \subseteq gap2,
           NEW free, NEW free2, free2 \subseteq free, Befores(free, q, version, gap)
    PROVE  Befores(free2, q, version, gap2)
BY CloseWider DEF Befores, Copy

LEMMA RemovedWider ==
    ASSUME NEW view, NEW removed, NEW gap, NEW gap2, gap \subseteq gap2,
           Removed(view, removed, gap)
    PROVE  Removed(view, removed, gap2)
BY DEF Removed

LEMMA TasksWider ==
    ASSUME NEW q, NEW view, NEW tasks, NEW gap, NEW gap2, gap \subseteq gap2,
           NEW free, NEW free2, free2 \subseteq free, TasksSay(free, q, view, tasks, gap)
    PROVE  TasksSay(free2, q, view, tasks, gap2)
BY DEF TasksSay, DiffSays

\* The revision that a writer knows is that of what it sees.
LEMMA CountSees ==
    ASSUME NEW x \in Version, NEW q \in Seq(Update), Apart(q), NEW r \in Int, NEW f, NEW a,
           Count(q, r, x.rev, f, a)
    PROVE  View(x, q).rev = r
<1>0. Split(q, f) BY DEF Count
<1>1. Split(q, f) /\ f \in Nat /\ Len(q) \in Nat /\ f <= Len(q) BY <1>0 DEF Split
<1>2. View(x, q).rev = IF f < Len(q) THEN q[Len(q)].rev ELSE x.rev BY <1>1, ViewSees
<1>3. CASE f < Len(q)
  <2>1. Len(q) \in f + 1 .. Len(q) BY <1>1, <1>3
  <2>2. q[Len(q)].rev = r - (Len(q) - Len(q)) BY <2>1 DEF Count
  <2> QED BY <2>2, <1>1, <1>2, <1>3
<1>4. CASE ~(f < Len(q))
  <2>1. a = Len(q) /\ x.rev = r - (Len(q) - a) BY <1>1, <1>4 DEF Count
  <2> QED BY <2>1, <1>1, <1>2, <1>4
<1> QED BY <1>3, <1>4

\* So a writer makes nothing of what it already sees.
LEMMA WriterSees ==
    ASSUME NEW s \in Seq(Version), NEW q \in Seq(Update), NEW n, NEW k \in Store, NEW rows,
           NEW gap, NEW next, NEW free \in SUBSET Tables,
           WriterState(free, s, n, q, k, rows, gap, next)
    PROVE  /\ s[Len(s)] \in Version /\ Len(s) \in n .. Len(s) /\ n \in 1 .. Len(s) /\ Apart(q)
           /\ View(s[Len(s)], q) \in Version
           /\ View(s[Len(s)], q).rev = k.revision
           /\ \A v \in n .. Len(s) : View(s[v], q) = View(s[Len(s)], q)
           /\ \E f \in 0 .. Len(q) : \E a \in 0 .. Len(q) :
                 Count(q, k.revision, s[Len(s)].rev, f, a) /\ Split(q, f)
<1>1. PICK f \in 0 .. Len(q) : \E a \in 0 .. Len(q) : Count(q, k.revision, s[Len(s)].rev, f, a)
  BY DEF WriterState
<1>2. PICK a \in 0 .. Len(q) : Count(q, k.revision, s[Len(s)].rev, f, a) BY <1>1
<1>3. Under(s, q, n) /\ Split(q, f) BY <1>2 DEF WriterState, Count
<1>4. n \in 1 .. Len(s) /\ Apart(q) BY <1>3 DEF Under
<1>5. Len(s) \in Nat OBVIOUS
<1>6. s[Len(s)] \in Version /\ Len(s) \in n .. Len(s) BY <1>4, <1>5
<1>7. View(s[Len(s)], q) \in Version BY <1>6, ViewTyped
<1>8. k.revision \in Int BY StoreFields
<1>9. View(s[Len(s)], q).rev = k.revision BY <1>2, <1>4, <1>6, <1>8, CountSees
<1>10. \A v \in n .. Len(s) : View(s[v], q) = View(s[Len(s)], q) BY <1>3, SeesSame
<1> QED BY <1>2, <1>3, <1>4, <1>6, <1>7, <1>9, <1>10

\* A store that is the same for these purposes.
Alike(k2, k) ==
    /\ k2.revision = k.revision /\ k2.tables = k.tables /\ k2.tasks = k.tasks
    /\ \A t \in Tables : \A id : id \in k2.removedRows[t] <=> id \in k.removedRows[t]

LEMMA NoEvents ==
    ASSUME NEW k \in Store, NEW view \in Version, NEW e, e = Events(k, view, view)
    PROVE  Alike(e, k) /\ e.startAt = k.startAt
<1>1. PICK h : /\ IsRemoved(h, k, view, view)
               /\ e = IF Result(k, view) = Result(k, view) THEN h ELSE onChange_(h, Result(h, view))
  BY EventsIs
<1>2. e = h BY <1>1
<1> QED BY <1>1, <1>2 DEF IsRemoved, Alike

LEMMA SmallAlike ==
    ASSUME NEW q, NEW version, NEW k, NEW k2, Alike(k2, k), NEW next,
           Small(q, version, k.removedRows, next)
    PROVE  Small(q, version, k2.removedRows, next)
BY DEF Small, Alike

LEMMA RemovedAlike ==
    ASSUME NEW view, NEW k, NEW k2, Alike(k2, k), NEW gap, Removed(view, k.removedRows, gap)
    PROVE  Removed(view, k2.removedRows, gap)
BY DEF Removed, Alike

\* A later version reaches a writer.
LEMMA WriterLater ==
    ASSUME NEW s \in Seq(Version), NEW q \in Seq(Update), NEW n, NEW k \in Store, NEW rows,
           NEW gap, NEW next, NEW free \in SUBSET Tables,
           WriterState(free, s, n, q, k, rows, gap, next),
           NEW m \in n .. Len(s), NEW k2, Alike(k2, k), NEW gap2, gap \subseteq gap2,
           NEW free2, free2 \subseteq free
    PROVE  WriterState(free2, s, m, q, k2, rows, gap2, next)
<1>1. /\ \E f \in 0 .. Len(q) : \E a \in 0 .. Len(q) : Count(q, k.revision, s[Len(s)].rev, f, a)
      /\ Under(s, q, n)
      /\ Homes(q, s[Len(s)])
      /\ Small(q, s[Len(s)], k.removedRows, next)
      /\ Copies(Tables, q, View(s[Len(s)], q), k.tables, gap)
      /\ Copies(free, q, View(s[Len(s)], q), rows, gap)
      /\ Befores(free, q, s[Len(s)], gap)
      /\ Removed(View(s[Len(s)], q), k.removedRows, gap)
      /\ TasksSay(free, q, View(s[Len(s)], q), k.tasks, gap)
  BY DEF WriterState
<1>2. k2.revision = k.revision /\ k2.tables = k.tables /\ k2.tasks = k.tasks BY DEF Alike
<1>3. Under(s, q, m)
  <2>1. n \in 1 .. Len(s) /\ Len(s) \in Nat BY <1>1 DEF Under
  <2>2. /\ m \in 1 .. Len(s)
        /\ \A v \in m + 1 .. Len(s) : v \in n + 1 .. Len(s)
        /\ \A v \in m .. Len(s) : v \in n .. Len(s)
    BY <2>1
  <2> QED BY <1>1, <2>2 DEF Under
<1>4. Small(q, s[Len(s)], k2.removedRows, next) BY <1>1, SmallAlike
<1>5. Copies(Tables, q, View(s[Len(s)], q), k2.tables, gap2) BY <1>1, <1>2, CopiesWider
<1>6. Copies(free2, q, View(s[Len(s)], q), rows, gap2) BY <1>1, CopiesWider
<1>7. Befores(free2, q, s[Len(s)], gap2) BY <1>1, BeforesWider
<1>8. Removed(View(s[Len(s)], q), k2.removedRows, gap2) BY <1>1, RemovedAlike, RemovedWider
<1>9. TasksSay(free2, q, View(s[Len(s)], q), k2.tasks, gap2) BY <1>1, <1>2, TasksWider
<1>10. \E f \in 0 .. Len(q) : \E a \in 0 .. Len(q) : Count(q, k2.revision, s[Len(s)].rev, f, a)
  BY <1>1, <1>2
<1> QED BY <1>1, <1>3, <1>4, <1>5, <1>6, <1>7, <1>8, <1>9, <1>10 DEF WriterState

-----------------------------------------------------------------------------
(* What each step makes of the state of a writer.                          *)

LEMMA SentSays ==
    ASSUME NEW q \in Seq(Update), NEW n, SentOK(q, n)
    PROVE  /\ \A i \in 1 .. Len(q) :
                 /\ UpdateOK(q[i])
                 /\ q[i].answer = "accepted" => q[i].version \in 1 .. n
           /\ \A i, j \in 1 .. Len(q) : i < j =>
                 /\ q[j].answer # "none" => q[i].answer # "none"
                 /\ q[j].answer = "failed" => q[i].answer = "failed"
           /\ \A i, j \in 1 .. Len(q) : i # j => \A t : t \in q[i].tables => t \notin q[j].tables
<1>1. DOMAIN q = 1 .. Len(q) OBVIOUS
<1>2. ASSUME NEW i \in 1 .. Len(q), NEW j \in 1 .. Len(q), i # j
      PROVE  \A t : t \in q[i].tables => t \notin q[j].tables
  <2>1. CASE i < j BY <2>1, <1>1 DEF SentOK
  <2>2. CASE j < i BY <2>2, <1>1 DEF SentOK
  <2> QED BY <1>2, <2>1, <2>2
<1> QED BY <1>1, <1>2 DEF SentOK

\* The answer to a live update.
LEMMA AnsweredSame ==
    ASSUME NEW q \in Seq(Update), NEW q2 \in Seq(Update), NEW i,
           NEW answer \in {"accepted", "refused"}, Answered(q2, q, i, answer), Live(q, i)
    PROVE  /\ \A j : Live(q2, j) <=> Live(q, j)
           /\ \A t : FailedIn(q2, t) <=> FailedIn(q, t)
           /\ \A t : Unlocked(q2, t) <=> Unlocked(q, t)
<1>1. /\ i \in 1 .. Len(q) /\ q2[i].answer = answer /\ Len(q2) = Len(q)
      /\ \A j \in 1 .. Len(q) : j # i => q2[j] = q[j]
      /\ \A j \in 1 .. Len(q) : q2[j].tables = q[j].tables
      /\ q[i].answer # "failed"
  BY DEF Answered, SameUpdate, Live
<1>2. \A j \in 1 .. Len(q) : q2[j].answer = "failed" <=> q[j].answer = "failed" BY <1>1
<1>3. \A j : Live(q2, j) <=> Live(q, j) BY <1>1, <1>2 DEF Live
<1>4. \A t : FailedIn(q2, t) <=> FailedIn(q, t) BY <1>1, <1>2 DEF FailedIn
<1>5. \A t : Unlocked(q2, t) <=> Unlocked(q, t) BY <1>1, <1>3 DEF Unlocked, Live
<1> QED BY <1>3, <1>4, <1>5

LEMMA UnderAccept ==
    ASSUME NEW s \in Seq(Version), NEW q \in Seq(Update), NEW n, Under(s, q, n),
           NEW i \in 1 .. Len(q), q[i].answer = "none",
           \A j \in 1 .. Len(q) : q[j].answer = "accepted" => q[j].version \in 1 .. Len(s),
           NEW q2 \in Seq(Update), Answered(q2, q, i, "accepted"), q2[i].version = Len(s) + 1,
           NEW y \in Version, HasUpdate(y, q[i]),
           \A id : id \notin Ids(q[i]) => SameAt(y.rows, s[Len(s)].rows, id),
           NEW s2, s2 = Append(s, y)
    PROVE  Under(s2, q2, n)
<1>1. /\ Len(s) \in Nat /\ n \in 1 .. Len(s) /\ Apart(q) /\ Len(s) \in 1 .. Len(s)
      /\ s[Len(s)] \in Version /\ DOMAIN q = 1 .. Len(q)
  BY DEF Under
<1>2. /\ Len(s2) = Len(s) + 1 /\ s2[Len(s2)] = y /\ \A v \in 1 .. Len(s) : s2[v] = s[v]
  OBVIOUS
<1>3. /\ Apart(q2) /\ Len(q2) = Len(q)
      /\ \A j \in 1 .. Len(q) : SameUpdate(q[j], q2[j]) /\ Ids(q2[j]) = Ids(q[j])
  BY <1>1, ApartAnswered
<1>4. q2[i].answer = "accepted" /\ \A j \in 1 .. Len(q) : j # i => q2[j] = q[j]
  BY DEF Answered
<1>5. ASSUME NEW j \in 1 .. Len(q2), q2[j].answer = "accepted",
             NEW v \in q2[j].version .. Len(s2)
      PROVE  HasUpdate(s2[v], q2[j])
  <2>1. CASE j = i
    <3>1. v = Len(s2) BY <2>1, <1>1, <1>2, <1>5
    <3> QED BY <2>1, <3>1, <1>2, <1>3, HasSame
  <2>2. CASE j # i
    <3>1. /\ q2[j] = q[j] /\ q[j].answer = "accepted" /\ q[j].version \in 1 .. Len(s)
          /\ j \in DOMAIN q /\ i \in DOMAIN q /\ j \in 1 .. Len(q)
      BY <2>2, <1>1, <1>3, <1>4, <1>5
    <3>2. CASE v = Len(s2)
      <4>1. Len(s) \in q[j].version .. Len(s) BY <3>1, <1>1
      <4>2. HasUpdate(s[Len(s)], q[j]) BY <3>1, <4>1 DEF Under
      <4>3. Ids(q[j]) \cap Ids(q[i]) = {} BY <2>2, <3>1, <1>1 DEF Apart
      <4>4. \A id \in Ids(q[j]) : SameAt(y.rows, s[Len(s)].rows, id) BY <4>3
      <4>5. HasUpdate(y, q[j]) BY <4>2, <4>4, <3>1, <1>1, UpdateStays
      <4> QED BY <3>1, <3>2, <4>5, <1>2
    <3>3. CASE v # Len(s2)
      <4>1. v \in q[j].version .. Len(s) /\ v \in 1 .. Len(s) BY <3>1, <3>3, <1>1, <1>2, <1>5
      <4> QED BY <3>1, <4>1, <1>2 DEF Under
    <3> QED BY <3>2, <3>3
  <2> QED BY <2>1, <2>2
<1>6. ASSUME NEW v \in n + 1 .. Len(s2)
      PROVE  \E j \in 1 .. Len(q2) : q2[j].answer = "accepted" /\ q2[j].version = v
  <2>1. CASE v = Len(s2) BY <2>1, <1>2, <1>3, <1>4
  <2>2. CASE v # Len(s2)
    <3>1. v \in n + 1 .. Len(s) BY <2>2, <1>1, <1>2
    <3>2. PICK j \in 1 .. Len(q) : q[j].answer = "accepted" /\ q[j].version = v
      BY <3>1 DEF Under
    <3>3. j # i BY <3>2
    <3> QED BY <3>2, <3>3, <1>3, <1>4
  <2> QED BY <2>1, <2>2
<1>7. ASSUME NEW v \in n .. Len(s2), NEW id,
             \A j \in 1 .. Len(q2) : q2[j].answer = "accepted" => id \notin Ids(q2[j])
      PROVE  SameAt(s2[v].rows, s2[Len(s2)].rows, id)
  <2>1. CASE v = Len(s2) BY <2>1 DEF SameAt
  <2>2. CASE v # Len(s2)
    <3>1. v \in n .. Len(s) /\ v \in 1 .. Len(s) BY <2>2, <1>1, <1>2
    <3>2. id \notin Ids(q[i]) BY <1>3, <1>4, <1>7
    <3>3. \A j \in 1 .. Len(q) : q[j].answer = "accepted" => id \notin Ids(q[j])
      BY <1>3, <1>4, <1>7
    <3>4. SameAt(s[v].rows, s[Len(s)].rows, id) BY <3>1, <3>3 DEF Under
    <3>5. SameAt(y.rows, s[Len(s)].rows, id) BY <3>2
    <3>6. SameAt(s[v].rows, y.rows, id) BY <3>4, <3>5 DEF SameAt
    <3> QED BY <3>1, <3>6, <1>2
  <2> QED BY <2>1, <2>2
<1>8. n \in 1 .. Len(s2) BY <1>1, <1>2
<1> QED BY <1>3, <1>5, <1>6, <1>7, <1>8 DEF Under

\* Which update the server takes next.
LEMMA CountAccept ==
    ASSUME NEW q \in Seq(Update), NEW r \in Int, NEW x \in Version, NEW n, SentOK(q, n),
           NEW f \in 0 .. Len(q), NEW a \in 0 .. Len(q), Count(q, r, x.rev, f, a),
           NEW i \in 1 .. Len(q), q[i].answer = "none",
           NEW q2 \in Seq(Update), Answered(q2, q, i, "accepted"), Split(q2, f)
    PROVE  x.rev < q[i].rev /\ Count(q2, r, q[i].rev, f, i)
<1>1. Split(q, f) BY DEF Count
<1>2. i \in f + 1 .. Len(q) /\ Len(q) \in Nat
  <2>1. Live(q, i) BY DEF Live
  <2> QED BY <2>1, <1>1, SplitLive
<1>3. ~(i <= a)
  <2> SUFFICES ASSUME i <= a PROVE FALSE OBVIOUS
  <2>1. a > f BY <1>2
  <2>2. q[a].answer = "accepted" BY <2>1 DEF Count
  <2>3. i < a BY <2>2
  <2>4. a \in 1 .. Len(q) BY <2>3
  <2> QED BY <2>2, <2>3, <2>4, SentSays
<1>4. q[i].rev = r - (Len(q) - i) BY <1>2 DEF Count
<1>5. x.rev = r - (Len(q) - a) BY DEF Count
<1>6. x.rev < q[i].rev BY <1>2, <1>3, <1>4, <1>5
<1>7. /\ Len(q2) = Len(q) /\ \A j \in 1 .. Len(q) : q2[j].rev = q[j].rev
      /\ q2[i].answer = "accepted" /\ \A j \in 1 .. Len(q) : j # i => q2[j] = q[j]
  BY DEF Answered, SameUpdate
<1>8. ASSUME NEW j \in f + 1 .. Len(q2) PROVE q2[j].rev = r - (Len(q2) - j)
  <2>1. j \in 1 .. Len(q) /\ j \in f + 1 .. Len(q) BY <1>2, <1>7
  <2> QED BY <2>1, <1>7 DEF Count
<1>9. ASSUME NEW j \in i + 1 .. Len(q2) PROVE q2[j].answer # "accepted"
  <2>1. j \in 1 .. Len(q) /\ i < j /\ j # i BY <1>2, <1>7
  <2>2. q[j].answer = "none" BY <2>1, SentSays
  <2> QED BY <2>1, <2>2, <1>7
<1>10. i \in f .. Len(q2) BY <1>2, <1>7
<1>11. q[i].rev = r - (Len(q2) - i) BY <1>4, <1>7
<1> QED BY <1>6, <1>7, <1>8, <1>9, <1>10, <1>11 DEF Count

LEMMA HomesAccept ==
    ASSUME NEW q \in Seq(Update), NEW x, Homes(q, x), Apart(q), NEW i \in 1 .. Len(q),
           UpdateOK(q[i]), NEW q2 \in Seq(Update), NEW answer, Answered(q2, q, i, answer),
           NEW y, HasUpdate(y, q[i]), \A id : id \notin Ids(q[i]) => SameAt(y.rows, x.rows, id)
    PROVE  Homes(q2, y)
<1>1. /\ Len(q2) = Len(q) /\ DOMAIN q = 1 .. Len(q)
      /\ \A j \in 1 .. Len(q) : q2[j].tables = q[j].tables /\ Ids(q2[j]) = Ids(q[j])
  BY ApartAnswered DEF SameUpdate
<1>2. ASSUME NEW j \in 1 .. Len(q) PROVE AtHome(y, q[j])
  <2>1. CASE j = i BY <2>1, UpdateAtHome
  <2>2. CASE j # i
    <3>1. Ids(q[j]) \cap Ids(q[i]) = {} BY <2>2, <1>1 DEF Apart
    <3>2. \A id \in Ids(q[j]) : SameAt(y.rows, x.rows, id) BY <3>1
    <3>3. AtHome(x, q[j]) BY DEF Homes
    <3> QED BY <3>2, <3>3 DEF AtHome, SameAt
  <2> QED BY <2>1, <2>2
<1> QED BY <1>1, <1>2 DEF Homes, AtHome

\* The server has taken an update.
Taken(s2, s, u) == s2 = Append(s, Overlaid(s[Len(s)], u))

AfterAccept(free, s2, s, n, q2, k, rows, gap, next, u) ==
    s[Len(s)].rev < u.rev /\ WriterState(free, s2, n, q2, k, rows, gap, next)

LEMMA WriterAccept ==
    ASSUME NEW s \in Seq(Version), NEW q \in Seq(Update), NEW n, NEW k \in Store, NEW rows,
           NEW gap, NEW next, NEW free \in SUBSET Tables,
           WriterState(free, s, n, q, k, rows, gap, next), SentOK(q, Len(s)),
           NEW i \in 1 .. Len(q), q[i].answer = "none",
           NEW q2 \in Seq(Update), Answered(q2, q, i, "accepted"), q2[i].version = Len(s) + 1,
           NEW s2, Taken(s2, s, q[i])
    PROVE  AfterAccept(free, s2, s, n, q2, k, rows, gap, next, q[i])
<1> PICK y : y = Overlaid(s[Len(s)], q[i]) OBVIOUS
<1> s2 = Append(s, y) BY DEF Taken
<1>1. PICK x : x = s[Len(s)] OBVIOUS
<1>2. /\ x \in Version /\ Len(s) \in 1 .. Len(s) /\ Apart(q) /\ DOMAIN q = 1 .. Len(q)
      /\ k.revision \in Int /\ q[i] \in Update
  <2>1. s[Len(s)] \in Version /\ Len(s) \in n .. Len(s) /\ n \in 1 .. Len(s) /\ Apart(q)
    BY WriterSees
  <2>2. Len(s) \in Nat /\ DOMAIN q = 1 .. Len(q) /\ q[i] \in Update OBVIOUS
  <2>3. Len(s) \in 1 .. Len(s) BY ONLY <2>1, <2>2
  <2>4. k.revision \in Int BY StoreFields
  <2> QED BY ONLY <1>1, <2>1, <2>2, <2>3, <2>4
<1>3. /\ Under(s, q, n) /\ Homes(q, x) /\ Small(q, x, k.removedRows, next)
      /\ Copies(Tables, q, View(x, q), k.tables, gap) /\ Copies(free, q, View(x, q), rows, gap)
      /\ Befores(free, q, x, gap) /\ Removed(View(x, q), k.removedRows, gap)
      /\ TasksSay(free, q, View(x, q), k.tasks, gap)
  BY <1>1 DEF WriterState
<1>4. PICK f \in 0 .. Len(q), a \in 0 .. Len(q) : Count(q, k.revision, x.rev, f, a)
  BY <1>1 DEF WriterState
<1>5. Split(q, f) BY <1>4 DEF Count
<1>6. /\ y \in Version /\ y.rev = q[i].rev
      /\ DOMAIN y.rows = (DOMAIN x.rows \ q[i].gone) \cup DOMAIN q[i].put
      /\ \A id : id \notin Ids(q[i]) => SameAt(y.rows, x.rows, id)
      /\ HasUpdate(y, q[i]) /\ DOMAIN q[i].put \cap q[i].gone = {}
  BY <1>1, <1>2, OverlaidIs DEF Apart
<1>7. Live(q, i)
  <2>1. i \in 1 .. Len(q) /\ q[i].answer = "none" OBVIOUS
  <2> QED BY ONLY <2>1 DEF Live
<1>8. View(y, q2) = View(x, q) /\ Split(q2, f)
  <2>1. y \in Version /\ \A id : id \notin Ids(q[i]) => SameAt(y.rows, x.rows, id) BY <1>6
  <2>2. x \in Version /\ Apart(q) BY <1>2
  <2>3. Answered(q2, q, i, "accepted") /\ q \in Seq(Update) /\ q2 \in Seq(Update) OBVIOUS
  <2>4. "accepted" \in {"accepted", "refused"} OBVIOUS
  <2> QED BY ONLY <2>1, <2>2, <2>3, <2>4, <1>5, <1>7, AnsweredSees
<1>9. /\ \A t : FailedIn(q2, t) <=> FailedIn(q, t)
      /\ \A t : Unlocked(q2, t) <=> Unlocked(q, t)
  BY <1>7, AnsweredSame
<1>10. x.rev < q[i].rev /\ Count(q2, k.revision, y.rev, f, i)
  BY <1>2, <1>4, <1>6, <1>8, CountAccept
<1>11. /\ UpdateOK(q[i])
       /\ \A j \in 1 .. Len(q) : q[j].answer = "accepted" => q[j].version \in 1 .. Len(s)
       /\ \A j \in 1 .. Len(q) : j # i => \A t : t \in q[j].tables => t \notin q[i].tables
  BY SentSays
<1>12. Under(s2, q2, n) BY <1>1, <1>3, <1>6, <1>11, UnderAccept
<1>13. s2[Len(s2)] = y /\ Len(q2) = Len(q) /\ i \in 0 .. Len(q2) /\ f \in 0 .. Len(q2)
  BY <1>6 DEF Answered
<1>14. Homes(q2, y) BY <1>2, <1>3, <1>6, <1>11, HomesAccept
<1>15. \A j \in 1 .. Len(q) : Ids(q2[j]) = Ids(q[j]) /\ SameUpdate(q[j], q2[j]) BY <1>2, ApartAnswered
<1>16. Small(q2, y, k.removedRows, next)
  <2>1. \A id \in DOMAIN y.rows : id < next BY <1>3, <1>6 DEF Small, Ids
  <2> QED BY <2>1, <1>3, <1>13, <1>15 DEF Small
<1>17. Copies(Tables, q2, View(y, q2), k.tables, gap) /\ Copies(free, q2, View(y, q2), rows, gap)
  BY <1>3, <1>8, <1>9 DEF Copies
<1>18. Befores(free, q2, y, gap)
  <2> SUFFICES ASSUME NEW j \in 1 .. Len(q2), q2[j].answer # "accepted",
                      NEW t \in q2[j].tables \cap free
               PROVE  Copy(q2[j].before[t], y, t, gap)
    BY DEF Befores
  <2>1. j # i /\ j \in 1 .. Len(q) /\ q2[j] = q[j] BY <1>13 DEF Answered
  <2>2. Copy(q[j].before[t], x, t, gap) BY <2>1, <1>3 DEF Befores
  <2>3. AtHome(x, q[i]) BY <1>3 DEF Homes
  <2>4. t \notin q[i].tables BY <2>1, <1>11
  <2>5. RowsOf(y.rows, t) = RowsOf(x.rows, t)
    BY <2>3, <2>4, <1>1, <1>2, <1>6, <1>11, OtherTable
  <2> QED BY <2>1, <2>2, <2>5 DEF Copy
<1>19. Removed(View(y, q2), k.removedRows, gap) BY <1>3, <1>8
<1>20. TasksSay(free, q2, View(y, q2), k.tasks, gap) BY <1>3, <1>8, <1>9 DEF TasksSay
<1>21. WriterState(free, s2, n, q2, k, rows, gap, next)
  BY <1>10, <1>12, <1>13, <1>14, <1>16, <1>17, <1>18, <1>19, <1>20 DEF WriterState
<1> QED BY <1>1, <1>10, <1>21 DEF AfterAccept

LEMMA CountRefuse ==
    ASSUME NEW q \in Seq(Update), NEW r \in Int, NEW now,
           NEW f \in 0 .. Len(q), NEW a \in 0 .. Len(q), Count(q, r, now, f, a),
           NEW i \in 1 .. Len(q), q[i].answer = "none",
           NEW q2 \in Seq(Update), Answered(q2, q, i, "refused"), Split(q2, f)
    PROVE  Count(q2, r, now, f, a)
<1>1. /\ Len(q2) = Len(q) /\ \A j \in 1 .. Len(q) : q2[j].rev = q[j].rev
      /\ q2[i].answer = "refused" /\ \A j \in 1 .. Len(q) : j # i => q2[j] = q[j]
  BY DEF Answered, SameUpdate
<1>2. Len(q) \in Nat OBVIOUS
<1>3. ASSUME NEW j \in f + 1 .. Len(q2) PROVE q2[j].rev = r - (Len(q2) - j)
  <2>1. j \in 1 .. Len(q) /\ j \in f + 1 .. Len(q) BY <1>1, <1>2
  <2> QED BY <2>1, <1>1 DEF Count
<1>4. ASSUME NEW j \in a + 1 .. Len(q2) PROVE q2[j].answer # "accepted"
  <2>1. j \in 1 .. Len(q) /\ j \in a + 1 .. Len(q) BY <1>1, <1>2
  <2>2. q[j].answer # "accepted" BY <2>1 DEF Count
  <2> QED BY <2>1, <2>2, <1>1
<1>5. ASSUME a > f PROVE q2[a].answer = "accepted"
  <2>1. q[a].answer = "accepted" BY <1>5 DEF Count
  <2>2. a # i BY <2>1
  <2>3. a \in 1 .. Len(q) BY <1>5
  <2> QED BY <2>1, <2>2, <2>3, <1>1
<1>6. a \in f .. Len(q2) /\ now = r - (Len(q2) - a) BY <1>1 DEF Count
<1> QED BY <1>3, <1>4, <1>5, <1>6 DEF Count

LEMMA WriterRefuse ==
    ASSUME NEW s \in Seq(Version), NEW q \in Seq(Update), NEW n, NEW k \in Store, NEW rows,
           NEW gap, NEW next, NEW free \in SUBSET Tables,
           WriterState(free, s, n, q, k, rows, gap, next),
           NEW i \in 1 .. Len(q), q[i].answer = "none",
           NEW q2 \in Seq(Update), Answered(q2, q, i, "refused")
    PROVE  WriterState(free, s, n, q2, k, rows, gap, next)
<1>1. PICK x : x = s[Len(s)] OBVIOUS
<1>2. x \in Version /\ Apart(q) /\ k.revision \in Int
  BY <1>1, WriterSees, StoreFields
<1>3. /\ Under(s, q, n) /\ Homes(q, x) /\ Small(q, x, k.removedRows, next)
      /\ Copies(Tables, q, View(x, q), k.tables, gap) /\ Copies(free, q, View(x, q), rows, gap)
      /\ Befores(free, q, x, gap) /\ Removed(View(x, q), k.removedRows, gap)
      /\ TasksSay(free, q, View(x, q), k.tasks, gap)
  BY <1>1 DEF WriterState
<1>4. PICK f \in 0 .. Len(q), a \in 0 .. Len(q) : Count(q, k.revision, x.rev, f, a)
  BY <1>1 DEF WriterState
<1>5. Split(q, f) BY <1>4 DEF Count
<1>6. Live(q, i)
  <2>1. i \in 1 .. Len(q) /\ q[i].answer = "none" OBVIOUS
  <2> QED BY ONLY <2>1 DEF Live
<1>7. Answered(q2, q, i, "refused") /\ q \in Seq(Update) /\ q2 \in Seq(Update)
      /\ "refused" \in {"accepted", "refused"}
  OBVIOUS
<1>8. View(x, q2) = View(x, q) /\ Split(q2, f)
  <2>1. \A id : id \notin Ids(q[i]) => SameAt(x.rows, x.rows, id) BY DEF SameAt
  <2> QED BY ONLY <2>1, <1>2, <1>5, <1>6, <1>7, AnsweredSees
<1>9. /\ \A t : FailedIn(q2, t) <=> FailedIn(q, t)
      /\ \A t : Unlocked(q2, t) <=> Unlocked(q, t)
  BY ONLY <1>6, <1>7, AnsweredSame
<1>10. Count(q2, k.revision, x.rev, f, a) BY <1>2, <1>4, <1>8, CountRefuse
<1>11. /\ Apart(q2) /\ Len(q2) = Len(q)
       /\ \A j \in 1 .. Len(q) : Ids(q2[j]) = Ids(q[j]) /\ SameUpdate(q[j], q2[j])
  BY ONLY <1>2, <1>7, ApartAnswered
<1>12. \A j \in 1 .. Len(q) : /\ q2[j].tables = q[j].tables /\ q2[j].before = q[j].before
                              /\ q2[j].answer = "accepted" <=> q[j].answer = "accepted"
                              /\ q[j].answer = "accepted" => q2[j] = q[j]
  BY <1>11 DEF Answered, SameUpdate
<1>13. Under(s, q2, n)
  <2>1. /\ n \in 1 .. Len(s)
        /\ \A j \in 1 .. Len(q) : q[j].answer = "accepted" =>
              \A v \in q[j].version .. Len(s) : HasUpdate(s[v], q[j])
        /\ \A v \in n + 1 .. Len(s) :
              \E j \in 1 .. Len(q) : q[j].answer = "accepted" /\ q[j].version = v
        /\ \A v \in n .. Len(s) : \A id :
              (\A j \in 1 .. Len(q) : q[j].answer = "accepted" => id \notin Ids(q[j]))
                 => SameAt(s[v].rows, s[Len(s)].rows, id)
    BY ONLY <1>3 DEF Under
  <2>2. ASSUME NEW j \in 1 .. Len(q2), q2[j].answer = "accepted",
               NEW v \in q2[j].version .. Len(s)
        PROVE  HasUpdate(s[v], q2[j])
    <3>1. j \in 1 .. Len(q) /\ q[j].answer = "accepted" /\ q2[j] = q[j] BY <1>11, <1>12, <2>2
    <3> QED BY <3>1, <2>1, <2>2
  <2>3. ASSUME NEW v \in n + 1 .. Len(s)
        PROVE  \E j \in 1 .. Len(q2) : q2[j].answer = "accepted" /\ q2[j].version = v
    <3>1. PICK j \in 1 .. Len(q) : q[j].answer = "accepted" /\ q[j].version = v BY <2>1, <2>3
    <3>2. j \in 1 .. Len(q2) /\ q2[j] = q[j] BY <1>11, <1>12, <3>1
    <3> QED BY <3>1, <3>2
  <2>4. ASSUME NEW v \in n .. Len(s), NEW id,
               \A j \in 1 .. Len(q2) : q2[j].answer = "accepted" => id \notin Ids(q2[j])
        PROVE  SameAt(s[v].rows, s[Len(s)].rows, id)
    <3>1. \A j \in 1 .. Len(q) : q[j].answer = "accepted" => id \notin Ids(q[j])
      BY <1>11, <1>12, <2>4
    <3> QED BY <3>1, <2>1
  <2> QED BY <1>11, <2>1, <2>2, <2>3, <2>4 DEF Under
<1>14. Homes(q2, x) BY <1>3, <1>11, <1>12 DEF Homes, AtHome
<1>15. Small(q2, x, k.removedRows, next) BY <1>3, <1>11 DEF Small
<1>16. Copies(Tables, q2, View(x, q2), k.tables, gap) /\ Copies(free, q2, View(x, q2), rows, gap)
  BY <1>3, <1>8, <1>9 DEF Copies
<1>17. Befores(free, q2, x, gap) BY <1>3, <1>11, <1>12 DEF Befores
<1>18. Removed(View(x, q2), k.removedRows, gap) BY <1>3, <1>8
<1>19. TasksSay(free, q2, View(x, q2), k.tasks, gap) BY <1>3, <1>8, <1>9 DEF TasksSay
<1>20. \E g \in 0 .. Len(q2) : \E b \in 0 .. Len(q2) : Count(q2, k.revision, x.rev, g, b)
  BY <1>10, <1>11
<1> QED BY <1>1, <1>13, <1>14, <1>15, <1>16, <1>17, <1>18, <1>19, <1>20 DEF WriterState

\* The other updates.
Others(p, q, i) ==
    /\ \A j \in 1 .. Len(p) : \E m \in 1 .. Len(q) : m # i /\ p[j] = q[m]
    /\ \A m \in 1 .. Len(q) : m # i => \E j \in 1 .. Len(p) : p[j] = q[m]

\* What stays when an update is not under way any more.
LEMMA RemovedSame ==
    ASSUME NEW q \in Seq(Update), NEW i \in 1 .. Len(q), NEW p, p = RemoveAt(q, i)
    PROVE  /\ p \in Seq(Update) /\ Len(p) = Len(q) - 1 /\ Len(q) \in Nat
           /\ Others(p, q, i)
           /\ \A j \in 1 .. Len(p) : p[j] = IF j < i THEN q[j] ELSE q[j + 1]
<1>1. Without(p, q, i) /\ p \in Seq(Update) BY RemovedAt, RemoveAtIs
<1>2. Len(q) \in Nat OBVIOUS
<1>3. Len(p) = Len(q) - 1 BY <1>1 DEF Without
<1>4. \A j \in 1 .. Len(p) : p[j] = q[Before(j, i)] /\ Before(j, i) \in 1 .. Len(q) /\ Before(j, i) # i
  BY <1>1 DEF Without
<1>5. \A m \in 1 .. Len(q) : m # i => \E j \in 1 .. Len(p) : Before(j, i) = m
  BY <1>1 DEF Without
<1>6. \A j \in 1 .. Len(p) : p[j] = IF j < i THEN q[j] ELSE q[j + 1] BY <1>4 DEF Before
<1>7. Others(p, q, i) BY <1>4, <1>5 DEF Others
<1> QED BY <1>1, <1>2, <1>3, <1>6, <1>7

LEMMA StateRemoved ==
    ASSUME NEW q \in Seq(Update), NEW i \in 1 .. Len(q), NEW p, p = RemoveAt(q, i),
           NEW x, NEW removed, NEW next, NEW gap, NEW view, NEW tasks, NEW free
    PROVE  /\ Homes(q, x) => Homes(p, x)
           /\ Small(q, x, removed, next) => Small(p, x, removed, next)
           /\ Befores(free, q, x, gap) => Befores(free, p, x, gap)
           /\ TasksSay(free, q, view, tasks, gap) => TasksSay(free, p, view, tasks, gap)
           /\ \A t : FailedIn(p, t) => FailedIn(q, t)
           /\ \A t : FailedIn(q, t) => FailedIn(p, t) \/ (q[i].answer = "failed" /\ t \in q[i].tables)
<1>0. Others(p, q, i) BY RemovedSame
<1>1. /\ \A j \in 1 .. Len(p) : \E m \in 1 .. Len(q) : m # i /\ p[j] = q[m]
      /\ \A m \in 1 .. Len(q) : m # i => \E j \in 1 .. Len(p) : p[j] = q[m]
  BY ONLY <1>0 DEF Others
<1>2. Homes(q, x) => Homes(p, x) BY <1>1 DEF Homes
<1>3. Small(q, x, removed, next) => Small(p, x, removed, next) BY <1>1 DEF Small
<1>4. Befores(free, q, x, gap) => Befores(free, p, x, gap) BY <1>1 DEF Befores
<1>5. \A t : Unlocked(q, t) => Unlocked(p, t) BY SMTT(20), <1>1 DEF Unlocked, Live
<1>6. TasksSay(free, q, view, tasks, gap) => TasksSay(free, p, view, tasks, gap) BY <1>5 DEF TasksSay
<1>7. \A t : FailedIn(p, t) => FailedIn(q, t) BY <1>1 DEF FailedIn
<1>8. ASSUME NEW t, FailedIn(q, t)
      PROVE  FailedIn(p, t) \/ (q[i].answer = "failed" /\ t \in q[i].tables)
  <2>1. PICK m \in 1 .. Len(q) : q[m].answer = "failed" /\ t \in q[m].tables BY <1>8 DEF FailedIn
  <2>2. CASE m = i BY <2>1, <2>2
  <2>3. CASE m # i
    <3>1. PICK j \in 1 .. Len(p) : p[j] = q[m] BY <1>1, <2>3
    <3> QED BY <2>1, <3>1 DEF FailedIn
  <2> QED BY <2>2, <2>3
<1> QED BY <1>2, <1>3, <1>4, <1>6, <1>7, <1>8

LEMMA UnderRemoved ==
    ASSUME NEW s \in Seq(Version), NEW q \in Seq(Update), NEW n, Under(s, q, n),
           NEW i \in 1 .. Len(q), NEW p, p = RemoveAt(q, i), NEW m \in n .. Len(s),
           q[i].answer = "accepted" => q[i].version \in 1 .. m
    PROVE  Under(s, p, m)
<1>1. Others(p, q, i) /\ p \in Seq(Update) BY RemovedSame
<1>2. /\ \A j \in 1 .. Len(p) : \E l \in 1 .. Len(q) : l # i /\ p[j] = q[l]
      /\ \A l \in 1 .. Len(q) : l # i => \E j \in 1 .. Len(p) : p[j] = q[l]
  BY ONLY <1>1 DEF Others
<1>3. /\ n \in 1 .. Len(s) /\ Apart(q)
      /\ \A j \in 1 .. Len(q) : q[j].answer = "accepted" =>
            \A v \in q[j].version .. Len(s) : HasUpdate(s[v], q[j])
      /\ \A v \in n + 1 .. Len(s) :
            \E j \in 1 .. Len(q) : q[j].answer = "accepted" /\ q[j].version = v
      /\ \A v \in n .. Len(s) : \A id :
            (\A j \in 1 .. Len(q) : q[j].answer = "accepted" => id \notin Ids(q[j]))
               => SameAt(s[v].rows, s[Len(s)].rows, id)
  BY DEF Under
<1>4. Len(s) \in Nat OBVIOUS
<1>5. m \in 1 .. Len(s) BY <1>3, <1>4
<1>6. Apart(p) BY <1>3, ApartRemoved
<1>7. ASSUME NEW v \in m + 1 .. Len(s)
      PROVE  \E j \in 1 .. Len(p) : p[j].answer = "accepted" /\ p[j].version = v
  <2>1. v \in n + 1 .. Len(s) BY <1>3, <1>4, <1>5, <1>7
  <2>2. PICK l \in 1 .. Len(q) : q[l].answer = "accepted" /\ q[l].version = v BY <1>3, <2>1
  <2>3. l # i BY <2>2, <1>5, <1>7
  <2>4. PICK j \in 1 .. Len(p) : p[j] = q[l] BY ONLY <2>2, <2>3, <1>2
  <2> QED BY <2>2, <2>4
<1>8. ASSUME NEW v \in m .. Len(s), NEW id,
             \A j \in 1 .. Len(p) : p[j].answer = "accepted" => id \notin Ids(p[j])
      PROVE  SameAt(s[v].rows, s[Len(s)].rows, id)
  <2>1. \A l \in 1 .. Len(q) : l # i /\ q[l].answer = "accepted" => id \notin Ids(q[l])
    BY <1>2, <1>8
  <2>2. v \in n .. Len(s) /\ v \in 1 .. Len(s) /\ Len(s) \in 1 .. Len(s) BY <1>3, <1>4, <1>5
  <2>3. CASE q[i].answer = "accepted" /\ id \in Ids(q[i])
    <3>1. v \in q[i].version .. Len(s) /\ Len(s) \in q[i].version .. Len(s)
      BY <2>2, <2>3, <1>5, <1>8
    <3>2. HasUpdate(s[v], q[i]) /\ HasUpdate(s[Len(s)], q[i]) BY <3>1, <2>3, <1>3
    <3>3. s[v] \in Version /\ s[Len(s)] \in Version /\ q[i] \in Update BY <2>2
    <3> QED BY ONLY <3>2, <3>3, <2>3, UpdateFixes
  <2>4. CASE ~(q[i].answer = "accepted" /\ id \in Ids(q[i]))
    <3>1. \A l \in 1 .. Len(q) : q[l].answer = "accepted" => id \notin Ids(q[l]) BY <2>1, <2>4
    <3> QED BY <3>1, <2>2, <1>3
  <2> QED BY <2>3, <2>4
<1>9. \A j \in 1 .. Len(p) : p[j].answer = "accepted" =>
          \A v \in p[j].version .. Len(s) : HasUpdate(s[v], p[j])
  <2> SUFFICES ASSUME NEW j \in 1 .. Len(p), p[j].answer = "accepted"
               PROVE  \A v \in p[j].version .. Len(s) : HasUpdate(s[v], p[j])
    OBVIOUS
  <2>1. PICK l \in 1 .. Len(q) : p[j] = q[l] BY <1>2
  <2> QED BY <2>1, <1>3
<1> QED BY <1>5, <1>6, <1>7, <1>8, <1>9 DEF Under

\* An update less, after the first that have failed.
FailedBefore(q, i) == \A j \in 1 .. i - 1 : q[j].answer = "failed"

AfterAccepted(p, q, r, now, f, a, i) ==
    /\ i = f + 1 /\ a >= i
    /\ i = Len(q) => now = q[i].rev
    /\ Split(p, f) => Count(p, r, now, f, a - 1) /\ a - 1 \in 0 .. Len(p)

LEMMA CountAccepted ==
    ASSUME NEW q \in Seq(Update), NEW r \in Int, NEW now,
           NEW f \in 0 .. Len(q), NEW a \in 0 .. Len(q), Count(q, r, now, f, a),
           NEW i \in 1 .. Len(q), q[i].answer = "accepted", FailedBefore(q, i),
           NEW p, p = RemoveAt(q, i)
    PROVE  AfterAccepted(p, q, r, now, f, a, i)
<1>1. /\ p \in Seq(Update) /\ Len(p) = Len(q) - 1 /\ Len(q) \in Nat
      /\ \A j \in 1 .. Len(p) : p[j] = IF j < i THEN q[j] ELSE q[j + 1]
  BY RemovedSame
<1>2. /\ f \in Nat /\ \A j \in 1 .. f : q[j].answer = "failed"
      /\ \A j \in f + 1 .. Len(q) : q[j].answer # "failed"
      /\ \A j \in f + 1 .. Len(q) : q[j].rev = r - (Len(q) - j)
      /\ a \in f .. Len(q)
      /\ \A j \in a + 1 .. Len(q) : q[j].answer # "accepted"
      /\ a > f => q[a].answer = "accepted"
      /\ now = r - (Len(q) - a)
  BY DEF Count, Split
<1>3. i = f + 1
  <2>1. ~(i <= f) BY <1>2
  <2>2. ASSUME f + 1 < i PROVE FALSE
    <3>1. f + 1 \in 1 .. i - 1 /\ f + 1 \in f + 1 .. Len(q) BY <2>2, <1>2
    <3> QED BY <3>1, <1>2 DEF FailedBefore
  <2> QED BY <2>1, <2>2, <1>2
<1>4. a >= i
  <2>1. ~(i \in a + 1 .. Len(q)) BY <1>2
  <2> QED BY <2>1, <1>2
<1>5. ASSUME i = Len(q) PROVE now = q[i].rev
  <2>1. a = Len(q) /\ i \in f + 1 .. Len(q) BY <1>3, <1>4, <1>5
  <2>2. q[i].rev = r - (Len(q) - i) BY <2>1, <1>2
  <2> QED BY <2>1, <2>2, <1>2, <1>5
<1>6. ASSUME Split(p, f) PROVE Count(p, r, now, f, a - 1) /\ a - 1 \in 0 .. Len(p)
  <2>1. ASSUME NEW j \in f + 1 .. Len(p) PROVE p[j].rev = r - (Len(p) - j)
    <3>1. j \in 1 .. Len(p) /\ ~(j < i) /\ j + 1 \in f + 1 .. Len(q) BY <1>1, <1>2, <1>3
    <3>2. q[j + 1].rev = r - (Len(q) - (j + 1)) /\ p[j] = q[j + 1] BY <3>1, <1>1, <1>2
    <3> QED BY <3>1, <3>2, <1>1
  <2>2. ASSUME NEW j \in (a - 1) + 1 .. Len(p) PROVE p[j].answer # "accepted"
    <3>1. j \in 1 .. Len(p) /\ ~(j < i) /\ j + 1 \in a + 1 .. Len(q) BY <1>1, <1>2, <1>3, <1>4
    <3> QED BY <3>1, <1>1, <1>2
  <2>3. ASSUME a - 1 > f PROVE p[a - 1].answer = "accepted"
    <3>1. a - 1 \in 1 .. Len(p) /\ ~(a - 1 < i) /\ (a - 1) + 1 = a /\ a > f
      BY <2>3, <1>1, <1>2, <1>3
    <3> QED BY <3>1, <1>1, <1>2
  <2>4. a - 1 \in f .. Len(p) /\ now = r - (Len(p) - (a - 1)) BY SMTT(20), <1>1, <1>2, <1>3, <1>4
  <2>5. a - 1 \in 0 .. Len(p) BY <2>4, <1>2
  <2> QED BY <1>6, <2>1, <2>2, <2>3, <2>4, <2>5 DEF Count
<1> QED BY <1>3, <1>4, <1>5, <1>6 DEF AfterAccepted

LEMMA WriterAccepted ==
    ASSUME NEW s \in Seq(Version), NEW q \in Seq(Update), NEW n, NEW k \in Store, NEW rows,
           NEW gap, NEW next, NEW free \in SUBSET Tables,
           WriterState(free, s, n, q, k, rows, gap, next), SentOK(q, Len(s)),
           NEW i \in 1 .. Len(q), q[i].answer = "accepted",
           \A j \in 1 .. i - 1 : q[j].answer = "failed",
           NEW p, p = RemoveAt(q, i), NEW m \in n .. Len(s), q[i].version \in 1 .. m
    PROVE  View(s[m], p) = View(s[n], q) /\ WriterState(free, s, m, p, k, rows, gap, next)
<1>1. PICK x : x = s[Len(s)] OBVIOUS
<1>2. /\ x \in Version /\ Apart(q) /\ Len(s) \in n .. Len(s) /\ n \in 1 .. Len(s)
      /\ View(s[n], q) = View(x, q)
  <2>1. /\ s[Len(s)] \in Version /\ Len(s) \in n .. Len(s) /\ n \in 1 .. Len(s) /\ Apart(q)
        /\ \A v \in n .. Len(s) : View(s[v], q) = View(s[Len(s)], q)
    BY WriterSees
  <2>2. n \in n .. Len(s) BY ONLY <2>1
  <2> QED BY ONLY <1>1, <2>1, <2>2
<1>3. /\ Under(s, q, n) /\ Homes(q, x) /\ Small(q, x, k.removedRows, next)
      /\ Copies(Tables, q, View(x, q), k.tables, gap) /\ Copies(free, q, View(x, q), rows, gap)
      /\ Befores(free, q, x, gap) /\ Removed(View(x, q), k.removedRows, gap)
      /\ TasksSay(free, q, View(x, q), k.tasks, gap)
  BY <1>1 DEF WriterState
<1>4. PICK f \in 0 .. Len(q), a \in 0 .. Len(q) : Count(q, k.revision, x.rev, f, a)
  BY <1>1 DEF WriterState
<1>5. Split(q, f) BY <1>4 DEF Count
<1>6. k.revision \in Int BY StoreFields
<1>7. q \in Seq(Update) /\ i \in 1 .. Len(q) /\ q[i].answer = "accepted" /\ p = RemoveAt(q, i)
      /\ m \in n .. Len(s) /\ q[i].version \in 1 .. m /\ s \in Seq(Version)
      /\ \A j \in 1 .. i - 1 : q[j].answer = "failed"
  OBVIOUS
<1>8. /\ i = f + 1 /\ a >= i
      /\ i = Len(q) => x.rev = q[i].rev
      /\ Split(p, f) => Count(p, k.revision, x.rev, f, a - 1) /\ a - 1 \in 0 .. Len(p)
  <2>1. FailedBefore(q, i) BY DEF FailedBefore
  <2>2. q[i].answer = "accepted" /\ p = RemoveAt(q, i) OBVIOUS
  <2>3. AfterAccepted(p, q, k.revision, x.rev, f, a, i) BY <1>4, <1>6, <2>1, <2>2, CountAccepted
  <2> QED BY ONLY <2>3 DEF AfterAccepted
<1>9. HasUpdate(x, q[i])
  <2>1. Len(s) \in Nat BY <1>7
  <2>2. Len(s) \in q[i].version .. Len(s) BY ONLY <2>1, <1>2, <1>7
  <2> QED BY <2>2, <1>1, <1>3, <1>7 DEF Under
<1>10. View(x, p) = View(x, q) /\ Split(p, f)
  BY ONLY <1>2, <1>5, <1>7, <1>8, <1>9, AcceptedSees
<1>11. Count(p, k.revision, x.rev, f, a - 1) /\ a - 1 \in 0 .. Len(p) BY <1>8, <1>10
<1>12. Under(s, p, m) BY ONLY <1>3, <1>7, UnderRemoved
<1>13. p \in Seq(Update) BY RemovedSame
<1>14. View(s[m], p) = View(s[n], q)
  <2>1. m \in m .. Len(s) BY <1>2, <1>7
  <2>2. View(s[m], p) = View(s[Len(s)], p) BY ONLY <2>1, <1>7, <1>10, <1>12, <1>13, SeesSame
  <2> QED BY <2>2, <1>1, <1>2, <1>10
<1>15. /\ Homes(p, x) /\ Small(p, x, k.removedRows, next) /\ Befores(free, p, x, gap)
       /\ TasksSay(free, p, View(x, p), k.tasks, gap)
  BY <1>3, <1>7, <1>10, StateRemoved
<1>16. \A t : FailedIn(q, t) => FailedIn(p, t)
  <2>1. \A t : FailedIn(q, t) => FailedIn(p, t) \/ (q[i].answer = "failed" /\ t \in q[i].tables)
    BY <1>7, StateRemoved
  <2> QED BY <2>1, <1>7
<1>17. Copies(Tables, p, View(x, p), k.tables, gap) /\ Copies(free, p, View(x, p), rows, gap)
  BY <1>3, <1>10, <1>16 DEF Copies
<1>18. f \in 0 .. Len(p)
  <2>1. f \in 0 .. Len(p) BY <1>10 DEF Split
  <2> QED BY <2>1
<1>19. WriterState(free, s, m, p, k, rows, gap, next)
  BY <1>1, <1>3, <1>10, <1>11, <1>12, <1>15, <1>17, <1>18 DEF WriterState
<1> QED BY <1>14, <1>19

LEMMA CountReloaded ==
    ASSUME NEW q \in Seq(Update), NEW r \in Int, NEW now,
           NEW f \in 0 .. Len(q), NEW a \in 0 .. Len(q), Count(q, r, now, f, a),
           NEW i \in 1 .. Len(q), q[i].answer = "failed",
           NEW p, p = RemoveAt(q, i)
    PROVE  /\ i <= f
           /\ Split(p, f - 1) => /\ Count(p, r, now, f - 1, a - 1)
                                 /\ a - 1 \in 0 .. Len(p) /\ f - 1 \in 0 .. Len(p)
<1>1. /\ p \in Seq(Update) /\ Len(p) = Len(q) - 1 /\ Len(q) \in Nat
      /\ \A j \in 1 .. Len(p) : p[j] = IF j < i THEN q[j] ELSE q[j + 1]
  BY RemovedSame
<1>2. /\ f \in Nat /\ \A j \in 1 .. f : q[j].answer = "failed"
      /\ \A j \in f + 1 .. Len(q) : q[j].answer # "failed"
      /\ \A j \in f + 1 .. Len(q) : q[j].rev = r - (Len(q) - j)
      /\ a \in f .. Len(q)
      /\ \A j \in a + 1 .. Len(q) : q[j].answer # "accepted"
      /\ a > f => q[a].answer = "accepted"
      /\ now = r - (Len(q) - a)
  BY DEF Count, Split
<1>3. i <= f
  <2>1. ~(i \in f + 1 .. Len(q)) BY <1>2
  <2> QED BY <2>1, <1>2
<1>4. ASSUME Split(p, f - 1)
      PROVE  Count(p, r, now, f - 1, a - 1) /\ a - 1 \in 0 .. Len(p) /\ f - 1 \in 0 .. Len(p)
  <2>1. ASSUME NEW j \in (f - 1) + 1 .. Len(p) PROVE p[j].rev = r - (Len(p) - j)
    <3>1. j \in 1 .. Len(p) /\ ~(j < i) /\ j + 1 \in f + 1 .. Len(q) BY <1>1, <1>2, <1>3
    <3>2. q[j + 1].rev = r - (Len(q) - (j + 1)) /\ p[j] = q[j + 1] BY <3>1, <1>1, <1>2
    <3> QED BY <3>1, <3>2, <1>1
  <2>2. ASSUME NEW j \in (a - 1) + 1 .. Len(p) PROVE p[j].answer # "accepted"
    <3>1. j \in 1 .. Len(p) /\ ~(j < i) /\ j + 1 \in a + 1 .. Len(q) BY <1>1, <1>2, <1>3
    <3> QED BY <3>1, <1>1, <1>2
  <2>3. ASSUME a - 1 > f - 1 PROVE p[a - 1].answer = "accepted"
    <3>1. a - 1 \in 1 .. Len(p) /\ ~(a - 1 < i) /\ (a - 1) + 1 = a /\ a > f
      BY <2>3, <1>1, <1>2, <1>3
    <3> QED BY <3>1, <1>1, <1>2
  <2>4. a - 1 \in f - 1 .. Len(p) /\ now = r - (Len(p) - (a - 1)) BY <1>1, <1>2, <1>3
  <2>5. a - 1 \in 0 .. Len(p) /\ f - 1 \in 0 .. Len(p) BY <2>4, <1>1, <1>2, <1>3
  <2> QED BY <1>4, <2>1, <2>2, <2>3, <2>4, <2>5 DEF Count
<1> QED BY <1>3, <1>4

LEMMA WriterReloaded ==
    ASSUME NEW s \in Seq(Version), NEW q \in Seq(Update), NEW n, NEW k \in Store, NEW rows,
           NEW gap, NEW next, NEW free \in SUBSET Tables,
           WriterState(free, s, n, q, k, rows, gap, next), SentOK(q, Len(s)),
           NEW i \in 1 .. Len(q), q[i].answer = "failed",
           NEW p, p = RemoveAt(q, i), NEW v \in n .. Len(s), NEW view, view = View(s[v], q),
           NEW k2, NEW rows2, k2.revision = k.revision, k2.tasks = k.tasks,
           k2.removedRows = k.removedRows,
           \A t \in Tables : k2.tables[t] = IF t \in q[i].tables THEN RowsOf(view.rows, t)
                                            ELSE k.tables[t],
           \A t \in Tables : rows2[t] = IF t \in q[i].tables THEN q[i].before[t] ELSE rows[t]
    PROVE  WriterState(free, s, n, p, k2, rows2, gap, next)
<1>1. PICK x : x = s[Len(s)] OBVIOUS
<1>2. /\ x \in Version /\ Apart(q) /\ Len(s) \in n .. Len(s) /\ n \in 1 .. Len(s)
      /\ view = View(x, q)
  <2>1. /\ s[Len(s)] \in Version /\ Len(s) \in n .. Len(s) /\ n \in 1 .. Len(s) /\ Apart(q)
        /\ \A w \in n .. Len(s) : View(s[w], q) = View(s[Len(s)], q)
    <3>1. WriterState(free, s, n, q, k, rows, gap, next) OBVIOUS
    <3> QED BY ONLY <3>1, WriterSees
  <2>2. v \in n .. Len(s) /\ view = View(s[v], q) OBVIOUS
  <2> QED BY ONLY <1>1, <2>1, <2>2
<1>3. /\ Under(s, q, n) /\ Homes(q, x) /\ Small(q, x, k.removedRows, next)
      /\ Copies(Tables, q, View(x, q), k.tables, gap) /\ Copies(free, q, View(x, q), rows, gap)
      /\ Befores(free, q, x, gap) /\ Removed(View(x, q), k.removedRows, gap)
      /\ TasksSay(free, q, View(x, q), k.tasks, gap)
  BY <1>1 DEF WriterState
<1>4. PICK f \in 0 .. Len(q), a \in 0 .. Len(q) : Count(q, k.revision, x.rev, f, a)
  BY <1>1 DEF WriterState
<1>5. Split(q, f) BY <1>4 DEF Count
<1>6. k.revision \in Int BY StoreFields
<1>7. q \in Seq(Update) /\ i \in 1 .. Len(q) /\ q[i].answer = "failed" /\ p = RemoveAt(q, i)
      /\ s \in Seq(Version)
  OBVIOUS
<1>8. /\ i <= f
      /\ Split(p, f - 1) => /\ Count(p, k.revision, x.rev, f - 1, a - 1)
                            /\ a - 1 \in 0 .. Len(p) /\ f - 1 \in 0 .. Len(p)
  BY ONLY <1>4, <1>6, <1>7, CountReloaded
<1>10. View(x, p) = View(x, q) /\ Split(p, f - 1)
  BY ONLY <1>2, <1>5, <1>7, <1>8, ReloadedSees
<1>11. Count(p, k.revision, x.rev, f - 1, a - 1) /\ a - 1 \in 0 .. Len(p) /\ f - 1 \in 0 .. Len(p)
  BY <1>8, <1>10
<1>12. Under(s, p, n)
  <2>1. n \in n .. Len(s) BY ONLY <1>2
  <2>2. q[i].answer # "accepted" BY ONLY <1>7
  <2> QED BY ONLY <2>1, <2>2, <1>3, <1>7, UnderRemoved
<1>15. /\ Homes(p, x) /\ Small(p, x, k.removedRows, next) /\ Befores(free, p, x, gap)
       /\ TasksSay(free, p, View(x, p), k.tasks, gap)
  BY ONLY <1>3, <1>7, <1>10, StateRemoved
<1>16. \A t : FailedIn(q, t) => FailedIn(p, t) \/ t \in q[i].tables
  <2>1. \A t : FailedIn(q, t) => FailedIn(p, t) \/ (q[i].answer = "failed" /\ t \in q[i].tables)
    BY ONLY <1>7, StateRemoved
  <2> QED BY <2>1
<1>17. ASSUME NEW t \in Tables, ~FailedIn(p, t) PROVE Copy(k2.tables[t], view, t, gap)
  <2>1. CASE t \in q[i].tables
    <3>1. k2.tables[t] = RowsOf(view.rows, t) BY <2>1
    <3> QED BY ONLY <3>1 DEF Copy, Close
  <2>2. CASE t \notin q[i].tables
    <3>1. k2.tables[t] = k.tables[t] /\ ~FailedIn(q, t) BY <2>2, <1>16, <1>17
    <3> QED BY ONLY <3>1, <1>2, <1>3 DEF Copies
  <2> QED BY <2>1, <2>2
<1>18. ASSUME NEW t \in free, ~FailedIn(p, t) PROVE Copy(rows2[t], view, t, gap)
  <2>1. CASE t \in q[i].tables
    <3>1. Copy(q[i].before[t], x, t, gap) BY <2>1, <1>3, <1>7 DEF Befores
    <3>2. Sees(view, x, q) BY ONLY <1>2, <1>5, <1>7, ViewSees
    <3>3. ASSUME NEW j, Live(q, j)
          PROVE  UpdateOK(q[j]) /\ AtHome(x, q[j]) /\ t \notin q[j].tables
      <4>1. j \in 1 .. Len(q) /\ j # i BY <3>3, <1>7 DEF Live
      <4>2. UpdateOK(q[j]) /\ (\A u : u \in q[i].tables => u \notin q[j].tables) BY <4>1, SentSays
      <4>3. AtHome(x, q[j]) BY <4>1, <1>3 DEF Homes
      <4> QED BY <4>2, <4>3, <2>1
    <3>4. RowsOf(view.rows, t) = RowsOf(x.rows, t) BY ONLY <3>2, <3>3, UnlockedSame
    <3>5. rows2[t] = q[i].before[t] BY <2>1
    <3> QED BY ONLY <3>1, <3>4, <3>5 DEF Copy
  <2>2. CASE t \notin q[i].tables
    <3>1. rows2[t] = rows[t] /\ ~FailedIn(q, t) BY <2>2, <1>16, <1>18
    <3> QED BY ONLY <3>1, <1>2, <1>3 DEF Copies
  <2> QED BY <2>1, <2>2
<1>19. Copies(Tables, p, View(x, p), k2.tables, gap) /\ Copies(free, p, View(x, p), rows2, gap)
  BY ONLY <1>2, <1>10, <1>17, <1>18 DEF Copies
<1>20. k2.revision = k.revision /\ k2.tasks = k.tasks /\ k2.removedRows = k.removedRows OBVIOUS
<1> QED
  BY ONLY <1>1, <1>3, <1>10, <1>11, <1>12, <1>15, <1>19, <1>20 DEF WriterState

LEMMA AppliedCopy ==
    ASSUME NEW new, NEW old, NEW diff, NEW view, NEW t, NEW gap,
           IsChanged(new, old, diff.put, diff.deleted), Copy(old, view, t, gap),
           DiffSays(diff, view, t, gap)
    PROVE  Copy(new, view, t, gap)
<1>1. PICK rows : rows = RowsOf(view.rows, t) OBVIOUS
<1>2. /\ \A id \in DOMAIN old : id \in DOMAIN rows /\ old[id] = rows[id]
      /\ \A id \in DOMAIN rows : id \in DOMAIN old \/ <<t, id>> \in gap
  BY <1>1 DEF Copy, Close
<1>3. /\ \A id \in DOMAIN diff.put : id \in DOMAIN rows /\ diff.put[id] = rows[id]
      /\ \A id \in diff.deleted : id \in DOMAIN rows => <<t, id>> \in gap
  BY <1>1 DEF DiffSays
<1>4. /\ \A id : id \in DOMAIN new <=> \/ id \in DOMAIN old /\ id \notin diff.deleted
                                       \/ id \in DOMAIN diff.put
      /\ \A id : id \in DOMAIN diff.put => new[id] = diff.put[id]
      /\ \A id : id \in DOMAIN old /\ id \notin diff.deleted /\ id \notin DOMAIN diff.put
                    => new[id] = old[id]
  BY DEF IsChanged
<1>5. ASSUME NEW id \in DOMAIN new PROVE id \in DOMAIN rows /\ new[id] = rows[id]
  BY ONLY <1>2, <1>3, <1>4, <1>5
<1>6. ASSUME NEW id \in DOMAIN rows PROVE id \in DOMAIN new \/ <<t, id>> \in gap
  BY ONLY <1>2, <1>3, <1>4, <1>6
<1> QED BY <1>1, <1>5, <1>6 DEF Copy, Close

LEMMA WriterExternal ==
    ASSUME NEW s \in Seq(Version), NEW q \in Seq(Update), NEW n, NEW k \in Store, NEW rows,
           NEW gap, NEW next, NEW free \in SUBSET Tables,
           WriterState(free, s, n, q, k, rows, gap, next),
           NEW i \in 1 .. Len(k.tasks), NEW k2, NEW rows2,
           k2.revision = k.revision, k2.tables = k.tables, k2.removedRows = k.removedRows,
           k2.tasks = RemoveAt(k.tasks, i),
           \A t \in Tables : Applied(rows2[t], rows[t], k.tasks[i], t)
    PROVE  WriterState(free, s, n, q, k2, rows2, gap, next)
<1>1. PICK w : w = View(s[Len(s)], q) OBVIOUS
<1>2. Copies(free, q, w, rows, gap) /\ TasksSay(free, q, w, k.tasks, gap) BY <1>1 DEF WriterState
<1>3. ASSUME NEW t \in free, ~FailedIn(q, t) PROVE Copy(rows2[t], w, t, gap)
  <2>1. Copy(rows[t], w, t, gap) BY <1>2, <1>3 DEF Copies
  <2>2. Applied(rows2[t], rows[t], k.tasks[i], t) OBVIOUS
  <2>3. CASE t \in DOMAIN k.tasks[i]
    <3>1. IsChanged(rows2[t], rows[t], k.tasks[i][t].put, k.tasks[i][t].deleted)
      BY <2>2, <2>3 DEF Applied
    <3>2. DiffSays(k.tasks[i][t], w, t, gap) BY <1>2, <2>3 DEF TasksSay
    <3> QED BY ONLY <2>1, <3>1, <3>2, AppliedCopy
  <2>4. CASE t \notin DOMAIN k.tasks[i]
    <3>1. rows2[t] = rows[t] BY <2>2, <2>4 DEF Applied
    <3> QED BY <2>1, <3>1
  <2> QED BY <2>3, <2>4
<1>4. Copies(free, q, w, rows2, gap) BY <1>3 DEF Copies
<1>5. ASSUME NEW j \in 1 .. Len(k2.tasks), NEW t \in DOMAIN k2.tasks[j] \cap free
      PROVE  DiffSays(k2.tasks[j][t], w, t, gap) /\ Unlocked(q, t)
  <2>1. k.tasks \in Seq(Task) BY StoreFields
  <2>2. Without(k2.tasks, k.tasks, i) BY <2>1, RemovedAt
  <2>3. k2.tasks[j] = k.tasks[Before(j, i)] /\ Before(j, i) \in 1 .. Len(k.tasks)
    BY <2>2 DEF Without
  <2> QED BY <2>3, <1>2 DEF TasksSay
<1>6. TasksSay(free, q, w, k2.tasks, gap) BY <1>5 DEF TasksSay
<1> QED BY <1>1, <1>4, <1>6 DEF WriterState

-----------------------------------------------------------------------------
(* The last update is refused.                                             *)

AfterRefused(q2, q, now, i) ==
    /\ now = q[i].rev - 1
    /\ Count(q2, q[i].rev - 1, now, Len(q), Len(q))
    /\ \A j : Live(q, j) => j = i
    /\ \A j \in 1 .. Len(q) : q[j].answer # "accepted"

LEMMA CountRefused ==
    ASSUME NEW q \in Seq(Update), NEW r \in Int, NEW now,
           NEW f \in 0 .. Len(q), NEW a \in 0 .. Len(q), Count(q, r, now, f, a),
           NEW i \in 1 .. Len(q), i = Len(q), q[i].answer = "refused", FailedBefore(q, i),
           NEW q2 \in Seq(Update), Answered(q2, q, i, "failed")
    PROVE  AfterRefused(q2, q, now, i)
<1>1. /\ f \in Nat /\ a \in Nat /\ Len(q) \in Nat /\ i \in 1 .. Len(q)
      /\ \A j \in 1 .. f : q[j].answer = "failed"
      /\ \A j \in f + 1 .. Len(q) : q[j].answer # "failed" /\ q[j].rev = r - (Len(q) - j)
      /\ a \in f .. Len(q)
      /\ a > f => q[a].answer = "accepted"
      /\ now = r - (Len(q) - a)
  BY DEF Count, Split
<1>2. \A j \in 1 .. Len(q) : j # i => q[j].answer = "failed"
  <2> SUFFICES ASSUME NEW j \in 1 .. Len(q), j # i PROVE q[j].answer = "failed" OBVIOUS
  <2>1. j \in 1 .. i - 1 BY <1>1
  <2> QED BY <2>1 DEF FailedBefore
<1>3. f = Len(q) - 1
  <2>1. ~(i <= f) BY <1>1
  <2>2. ASSUME f + 1 < i PROVE FALSE
    <3>1. f + 1 \in 1 .. Len(q) /\ f + 1 # i /\ f + 1 \in f + 1 .. Len(q) BY <2>2, <1>1
    <3> QED BY <3>1, <1>1, <1>2
  <2> QED BY <2>1, <2>2, <1>1
<1>4. a = f
  <2>1. ASSUME a > f PROVE FALSE
    <3>1. a = i BY <2>1, <1>1, <1>3
    <3> QED BY <3>1, <2>1, <1>1
  <2> QED BY <2>1, <1>1
<1>5. i \in f + 1 .. Len(q) BY <1>1, <1>3
<1>6. q[i].rev = r /\ now = r - 1 BY <1>1, <1>3, <1>4, <1>5
<1>7. Len(q2) = Len(q) /\ \A j \in 1 .. Len(q) : q2[j].answer = "failed"
  BY <1>2 DEF Answered
<1>8. Split(q2, Len(q)) BY <1>1, <1>7 DEF Split
<1>9. Count(q2, q[i].rev - 1, now, Len(q), Len(q)) BY <1>1, <1>6, <1>7, <1>8 DEF Count
<1>10. \A j : Live(q, j) => j = i BY <1>2 DEF Live
<1>11. \A j \in 1 .. Len(q) : q[j].answer # "accepted" BY <1>2
<1> QED BY <1>6, <1>9, <1>10, <1>11 DEF AfterRefused

\* What the writer saw with one update, and sees now without.
Undone(w, x, u) ==
    /\ w \in Version /\ x \in Version
    /\ HasUpdate(w, u)
    /\ \A id : id \notin Ids(u) => SameAt(w.rows, x.rows, id)
    /\ \A t : t \notin u.tables => RowsOf(w.rows, t) = RowsOf(x.rows, t)
    /\ AtHome(x, u)

LEMMA CopyUndone ==
    ASSUME NEW w, NEW x, NEW u, Undone(w, x, u), NEW k \in Store, NEW gap, NEW gap2,
           gap \subseteq gap2, \A t \in Tables : \A id \in u.gone : <<t, id>> \in gap2,
           Removed(w, k.removedRows, gap),
           NEW h, IsRemoved(h, k, w, x), NEW t \in Tables, NEW id \in h.removedRows[t],
           id \in DOMAIN x.rows
    PROVE  \A v \in Tables : <<v, id>> \in gap2
<1>1. id \in k.removedRows[t] BY DEF IsRemoved
<1>2. CASE id \in DOMAIN w.rows BY <1>1, <1>2 DEF Removed
<1>3. CASE id \notin DOMAIN w.rows
  <2>1. id \in Ids(u) BY <1>3 DEF Undone, SameAt
  <2>2. id \in u.gone
    <3>1. id \notin DOMAIN u.put BY <1>3 DEF Undone, HasUpdate
    <3> QED BY <3>1, <2>1 DEF Ids
  <2> QED BY <2>2
<1> QED BY <1>2, <1>3

\* A change that comes with it leaves a table what there is.
LEMMA ChangeUndone ==
    ASSUME NEW w, NEW x, NEW u, Undone(w, x, u), NEW k \in Store, NEW gap, NEW gap2,
           gap \subseteq gap2, \A t \in Tables : \A id \in u.gone : <<t, id>> \in gap2,
           Removed(w, k.removedRows, gap),
           NEW h, IsRemoved(h, k, w, x), NEW hh, IsChange(hh, h, x),
           NEW t \in Tables, t \notin u.tables, Copy(k.tables[t], w, t, gap)
    PROVE  Copy(hh.tables[t], x, t, gap2)
<1>1. IsRowsOf(RowsOf(x.rows, t), x.rows, t) BY RowsOfIs
<1>2. PICK rows : rows = RowsOf(x.rows, t) OBVIOUS
<1>3. /\ \A id : id \in DOMAIN rows <=> id \in DOMAIN x.rows /\ x.rows[id].table = t
      /\ \A id : id \in DOMAIN rows => rows[id] = x.rows[id].value
  BY <1>1, <1>2 DEF IsRowsOf
<1>4. RowsOf(w.rows, t) = RowsOf(x.rows, t) BY DEF Undone
<1>5. Close(k.tables[t], rows, t, gap) BY <1>2, <1>4 DEF Copy
<1>6. PICK old : old = k.tables[t] OBVIOUS
<1>7. /\ \A id \in DOMAIN old : id \in DOMAIN rows /\ old[id] = rows[id]
      /\ \A id \in DOMAIN rows : id \in DOMAIN old \/ <<t, id>> \in gap
  BY ONLY <1>5, <1>6 DEF Close
<1>8. h.tables[t] = old BY <1>6 DEF IsRemoved
<1>9. PICK new : new = hh.tables[t] OBVIOUS
<1>10. \A id : RowAfter(new, h, x, t, id) BY <1>9 DEF IsChange
<1>11. ASSUME NEW id, Comes(h, x, t, id) PROVE id \in DOMAIN rows /\ id \in DOMAIN new /\ new[id] = rows[id]
  <2>1. id \in DOMAIN new /\ new[id] = x.rows[id].value BY <1>10, <1>11 DEF RowAfter
  <2>2. id \in DOMAIN x.rows /\ x.rows[id].table = t BY <1>11 DEF Comes
  <2> QED BY <2>1, <2>2, <1>3
<1>12. ASSUME NEW id, Goes(h, t, id), id \in DOMAIN rows PROVE <<t, id>> \in gap2
  <2>1. id \in h.removedRows[t] /\ id \in DOMAIN x.rows BY <1>3, <1>12 DEF Goes
  <2>2. \A v \in Tables : <<v, id>> \in gap2 BY <2>1, CopyUndone
  <2> QED BY <2>2
<1>13. ASSUME NEW id, ~Comes(h, x, t, id), Goes(h, t, id) PROVE id \notin DOMAIN new
  BY <1>10, <1>13 DEF RowAfter
<1>14. ASSUME NEW id, ~Comes(h, x, t, id), ~Goes(h, t, id) PROVE SameAt(new, old, id)
  <2>1. SameAt(new, h.tables[t], id) BY <1>10, <1>14 DEF RowAfter
  <2> QED BY <2>1, <1>8
<1>15. ASSUME NEW id \in DOMAIN new PROVE id \in DOMAIN rows /\ new[id] = rows[id]
  <2>1. CASE Comes(h, x, t, id) BY <2>1, <1>11
  <2>2. CASE ~Comes(h, x, t, id)
    <3>1. SameAt(new, old, id) BY <2>2, <1>13, <1>14, <1>15
    <3> QED BY <3>1, <1>7, <1>15 DEF SameAt
  <2> QED BY <2>1, <2>2
<1>16. ASSUME NEW id \in DOMAIN rows PROVE id \in DOMAIN new \/ <<t, id>> \in gap2
  <2>1. CASE Comes(h, x, t, id) BY <2>1, <1>11
  <2>2. CASE Goes(h, t, id) BY <2>2, <1>12, <1>16
  <2>3. CASE ~Comes(h, x, t, id) /\ ~Goes(h, t, id)
    <3>1. SameAt(new, old, id) BY <2>3, <1>14
    <3>2. id \in DOMAIN old \/ <<t, id>> \in gap2 BY <1>7, <1>16
    <3> QED BY <3>1, <3>2 DEF SameAt
  <2> QED BY <2>1, <2>2, <2>3
<1> QED BY <1>2, <1>9, <1>15, <1>16 DEF Copy, Close

\* Nor does it schedule anything else.
LEMMA DiffUndone ==
    ASSUME NEW w, NEW x, NEW u, Undone(w, x, u), NEW k \in Store, NEW gap, NEW gap2,
           gap \subseteq gap2, \A t \in Tables : \A id \in u.gone : <<t, id>> \in gap2,
           Removed(w, k.removedRows, gap),
           NEW h, IsRemoved(h, k, w, x), NEW t \in Tables, NEW d, IsDiff(d, h, x, t)
    PROVE  DiffSays(d, x, t, gap2)
<1>1. IsRowsOf(RowsOf(x.rows, t), x.rows, t) BY RowsOfIs
<1>2. PICK rows : rows = RowsOf(x.rows, t) OBVIOUS
<1>3. /\ \A id : id \in DOMAIN rows <=> id \in DOMAIN x.rows /\ x.rows[id].table = t
      /\ \A id : id \in DOMAIN rows => rows[id] = x.rows[id].value
  BY <1>1, <1>2 DEF IsRowsOf
<1>4. ASSUME NEW id \in DOMAIN d.put PROVE id \in DOMAIN rows /\ d.put[id] = rows[id]
  <2>1. Comes(h, x, t, id) /\ d.put[id] = x.rows[id].value BY <1>4 DEF IsDiff
  <2>2. id \in DOMAIN x.rows /\ x.rows[id].table = t BY <2>1 DEF Comes
  <2> QED BY <2>1, <2>2, <1>3
<1>5. ASSUME NEW id \in d.deleted, id \in DOMAIN rows PROVE <<t, id>> \in gap2
  <2>1. Goes(h, t, id) BY <1>5 DEF IsDiff
  <2>2. id \in h.removedRows[t] /\ id \in DOMAIN x.rows BY <2>1, <1>3, <1>5 DEF Goes
  <2>3. \A v \in Tables : <<v, id>> \in gap2 BY <2>2, CopyUndone
  <2> QED BY <2>3
<1> QED BY <1>2, <1>4, <1>5 DEF DiffSays

\* What the writer's store says after it has heard of a refusal.
HeardOK(free, e, x, q2, gap, next) ==
    /\ Copies(Tables, q2, x, e.tables, gap)
    /\ Removed(x, e.removedRows, gap)
    /\ \A t \in Tables : \A id \in e.removedRows[t] : id < next
    /\ TasksSay(free, q2, x, e.tasks, gap)

LEMMA UndoneHeard ==
    ASSUME NEW w, NEW x, NEW u, Undone(w, x, u), NEW k \in Store, NEW gap, NEW gap2,
           gap \subseteq gap2, \A t \in Tables : \A id \in u.gone : <<t, id>> \in gap2,
           Removed(w, k.removedRows, gap),
           NEW q, NEW q2, \A t : ~FailedIn(q2, t) => t \notin u.tables /\ ~FailedIn(q, t),
           \A t : Unlocked(q2, t), \A t : Unlocked(q, t) => t \notin u.tables,
           NEW free \in SUBSET Tables,
           Copies(Tables, q, w, k.tables, gap), TasksSay(free, q, w, k.tasks, gap),
           NEW next, \A t \in Tables : \A id \in k.removedRows[t] : id < next,
           \A id \in DOMAIN w.rows : id < next,
           NEW e, e = k \/ e = Events(k, w, x)
    PROVE  HeardOK(free, e, x, q2, gap2, next)
<1>1. ASSUME NEW t \in Tables, ~FailedIn(q2, t)
      PROVE  t \notin u.tables /\ Copy(k.tables[t], w, t, gap) /\ Copy(k.tables[t], x, t, gap2)
  <2>1. t \notin u.tables /\ ~FailedIn(q, t) BY <1>1
  <2>2. Copy(k.tables[t], w, t, gap) BY <2>1 DEF Copies
  <2>3. RowsOf(w.rows, t) = RowsOf(x.rows, t) BY <2>1 DEF Undone
  <2>4. Copy(k.tables[t], x, t, gap2) BY <2>2, <2>3, CloseWider DEF Copy
  <2> QED BY <2>1, <2>2, <2>4
<1>2. TasksSay(free, q2, x, k.tasks, gap2)
  <2> SUFFICES ASSUME NEW i \in 1 .. Len(k.tasks), NEW t \in DOMAIN k.tasks[i] \cap free
               PROVE  DiffSays(k.tasks[i][t], x, t, gap2) /\ Unlocked(q2, t)
    BY DEF TasksSay
  <2>1. DiffSays(k.tasks[i][t], w, t, gap) /\ Unlocked(q, t) BY DEF TasksSay
  <2>2. RowsOf(w.rows, t) = RowsOf(x.rows, t) BY <2>1 DEF Undone
  <2>3. DiffSays(k.tasks[i][t], x, t, gap2) BY <2>1, <2>2 DEF DiffSays
  <2> QED BY <2>3
<1>3. ASSUME NEW h, IsRemoved(h, k, w, x) PROVE HeardOK(free, h, x, q2, gap2, next)
  <2>1. h.tables = k.tables /\ h.tasks = k.tasks BY <1>3 DEF IsRemoved
  <2>2. Copies(Tables, q2, x, h.tables, gap2) BY <2>1, <1>1 DEF Copies
  <2>3. Removed(x, h.removedRows, gap2) BY <1>3, CopyUndone DEF Removed
  <2>4. ASSUME NEW t \in Tables, NEW id \in h.removedRows[t] PROVE id < next
    <3>1. id \in k.removedRows[t] \/ id \in DOMAIN w.rows BY <1>3, <2>4 DEF IsRemoved
    <3> QED BY <3>1
  <2>5. TasksSay(free, q2, x, h.tasks, gap2) BY <2>1, <1>2
  <2> QED BY <2>2, <2>3, <2>4, <2>5 DEF HeardOK
<1>4. CASE e = k
  <2>1. Copies(Tables, q2, x, e.tables, gap2) BY <1>1, <1>4 DEF Copies
  <2>2. ASSUME NEW t \in Tables, NEW id \in e.removedRows[t], id \in DOMAIN x.rows
        PROVE  \A v \in Tables : <<v, id>> \in gap2
    <3>1. w \in Version /\ x \in Version BY DEF Undone
    <3>2. PICK h : h = onRemoved_(k, w, x) OBVIOUS
    <3>3. IsRemoved(h, k, w, x) BY <3>1, <3>2, OnRemovedIs
    <3>4. id \in h.removedRows[t] BY <3>3, <1>4, <2>2 DEF IsRemoved
    <3> QED BY <3>3, <3>4, <2>2, CopyUndone
  <2> QED BY <2>1, <2>2, <1>2, <1>4 DEF HeardOK, Removed
<1>5. CASE e = Events(k, w, x)
  <2>1. w \in Version /\ x \in Version BY DEF Undone
  <2>2. PICK h : /\ IsRemoved(h, k, w, x)
                 /\ e = IF Result(k, w) = Result(k, x) THEN h ELSE onChange_(h, Result(h, x))
    BY <2>1, <1>5, EventsIs
  <2>3. HeardOK(free, h, x, q2, gap2, next) BY <2>2, <1>3
  <2>4. CASE e = h BY <2>3, <2>4
  <2>5. CASE e = onChange_(h, Result(h, x))
    <3>1. h \in Store BY <2>2 DEF IsRemoved
    <3>2. CASE ~Heeds(h, x)
      <4>1. e = h BY <2>1, <2>5, <3>1, <3>2, OnChangeNothing
      <4> QED BY <4>1, <2>3
    <3>3. CASE Heeds(h, x)
      <4>1. IsChange(e, h, x) BY <2>1, <2>5, <3>1, <3>3, OnChangeIs
      <4>2. Copies(Tables, q2, x, e.tables, gap2)
        <5> SUFFICES ASSUME NEW t \in Tables, ~FailedIn(q2, t) PROVE Copy(e.tables[t], x, t, gap2)
          BY DEF Copies
        <5>1. t \notin u.tables /\ Copy(k.tables[t], w, t, gap) BY <1>1
        <5> QED BY <5>1, <4>1, <2>2, ChangeUndone
      <4>3. \A t \in Tables : e.removedRows[t] = {} BY <4>1 DEF IsChange
      <4>4. Removed(x, e.removedRows, gap2) BY <4>3 DEF Removed
      <4>5. h.tasks = k.tasks BY <2>2 DEF IsRemoved
      <4>6. e.tasks = h.tasks \/ \E diffs : IsTaskFor(diffs, h, x) /\ e.tasks = Append(h.tasks, diffs)
        BY <4>1 DEF IsChange
      <4>7. CASE e.tasks = h.tasks BY <4>2, <4>3, <4>4, <4>5, <4>7, <1>2 DEF HeardOK
      <4>8. ASSUME NEW diffs, IsTaskFor(diffs, h, x), e.tasks = Append(h.tasks, diffs)
            PROVE  TasksSay(free, q2, x, e.tasks, gap2)
        <5>1. k.tasks \in Seq(Task) /\ e.tasks = Append(k.tasks, diffs)
          BY <4>5, <4>8, StoreFields
        <5>2. /\ Len(e.tasks) = Len(k.tasks) + 1 /\ Len(k.tasks) \in Nat
              /\ e.tasks[Len(e.tasks)] = diffs
              /\ \A i \in 1 .. Len(k.tasks) : e.tasks[i] = k.tasks[i]
          BY <5>1
        <5> SUFFICES ASSUME NEW i \in 1 .. Len(e.tasks), NEW t \in DOMAIN e.tasks[i] \cap free
                     PROVE  DiffSays(e.tasks[i][t], x, t, gap2) /\ Unlocked(q2, t)
          BY DEF TasksSay
        <5>3. CASE i = Len(e.tasks)
          <6>1. e.tasks[i] = diffs /\ t \in DOMAIN diffs BY <5>2, <5>3
          <6>2. IsDiff(diffs[t], h, x, t) /\ t \in Tables BY <6>1, <4>8, TaskIs DEF IsTaskFor
          <6>3. DiffSays(diffs[t], x, t, gap2) BY <6>2, <2>2, DiffUndone
          <6> QED BY <6>1, <6>3
        <5>4. CASE i # Len(e.tasks)
          <6>1. i \in 1 .. Len(k.tasks) /\ e.tasks[i] = k.tasks[i] BY <5>2, <5>4
          <6> QED BY <6>1, <1>2 DEF TasksSay
        <5> QED BY <5>3, <5>4
      <4>9. TasksSay(free, q2, x, e.tasks, gap2) BY <4>6, <4>7, <4>8 DEF HeardOK
      <4> QED BY <4>2, <4>3, <4>4, <4>9 DEF HeardOK
    <3> QED BY <3>2, <3>3
  <2> QED BY <2>2, <2>4, <2>5
<1> QED BY <1>4, <1>5

LEMMA WriterRefused ==
    ASSUME NEW s \in Seq(Version), NEW q \in Seq(Update), NEW n, NEW k \in Store, NEW rows,
           NEW gap, NEW next, NEW free \in SUBSET Tables,
           WriterState(free, s, n, q, k, rows, gap, next), SentOK(q, Len(s)),
           NEW i \in 1 .. Len(q), i = Len(q), q[i].answer = "refused", FailedBefore(q, i),
           NEW q2 \in Seq(Update), Answered(q2, q, i, "failed"),
           NEW e, e = k \/ e = Events(k, View(s[n], q), View(s[n], q2)),
           NEW gap2, gap \subseteq gap2, \A t \in Tables : \A id \in q[i].gone : <<t, id>> \in gap2,
           NEW k2, k2.revision = q[i].rev - 1, k2.tables = e.tables, k2.tasks = e.tasks,
           k2.removedRows = e.removedRows
    PROVE  WriterState(free, s, n, q2, k2, rows, gap2, next)
<1>1. PICK x : x = s[Len(s)] OBVIOUS
<1>2. x \in Version /\ Apart(q) /\ n \in 1 .. Len(s) /\ Len(s) \in Nat
  <2>1. s[Len(s)] \in Version /\ n \in 1 .. Len(s) /\ Apart(q) BY WriterSees
  <2>2. Len(s) \in Nat OBVIOUS
  <2> QED BY ONLY <1>1, <2>1, <2>2
<1>3. /\ Under(s, q, n) /\ Homes(q, x) /\ Small(q, x, k.removedRows, next)
      /\ Copies(Tables, q, View(x, q), k.tables, gap) /\ Copies(free, q, View(x, q), rows, gap)
      /\ Befores(free, q, x, gap) /\ Removed(View(x, q), k.removedRows, gap)
      /\ TasksSay(free, q, View(x, q), k.tasks, gap)
  BY <1>1 DEF WriterState
<1>4. PICK f \in 0 .. Len(q), a \in 0 .. Len(q) : Count(q, k.revision, x.rev, f, a)
  BY <1>1 DEF WriterState
<1>5. Split(q, f) BY <1>4 DEF Count
<1>6. k.revision \in Int BY StoreFields
<1>7. /\ x.rev = q[i].rev - 1
      /\ Count(q2, q[i].rev - 1, x.rev, Len(q), Len(q))
      /\ \A j : Live(q, j) => j = i
      /\ \A j \in 1 .. Len(q) : q[j].answer # "accepted"
  <2>1. AfterRefused(q2, q, x.rev, i) BY <1>4, <1>6, CountRefused
  <2> QED BY ONLY <2>1 DEF AfterRefused
<1>8. Live(q, i) /\ q[i] \in Update
  <2>1. i \in 1 .. Len(q) /\ q[i].answer = "refused" OBVIOUS
  <2>2. q[i] \in Update OBVIOUS
  <2> QED BY ONLY <2>1, <2>2 DEF Live
<1>9. n = Len(s)
  <2>1. ~(Len(s) \in n + 1 .. Len(s)) BY <1>3, <1>7 DEF Under
  <2> QED BY <2>1, <1>2
<1>10. PICK w : w = View(x, q) OBVIOUS
<1>11. q \in Seq(Update) /\ q2 \in Seq(Update) OBVIOUS
<1>12. Sees(w, x, q) BY ONLY <1>2, <1>5, <1>10, <1>11, ViewSees
<1>13. \A t : t \in q[i].tables => ~\E j \in 1 .. Len(q) : j # i /\ t \in q[j].tables
  BY SentSays
<1>14. UpdateOK(q[i]) /\ AtHome(x, q[i])
  <2>1. UpdateOK(q[i]) BY SentSays
  <2> QED BY <2>1, <1>3 DEF Homes
<1>15. Undone(w, x, q[i])
  <2>1. HasUpdate(w, q[i]) /\ w \in Version BY <1>8, <1>12 DEF Sees
  <2>2. \A id : id \notin Ids(q[i]) => SameAt(w.rows, x.rows, id) BY <1>7, <1>12 DEF Sees
  <2>3. ASSUME NEW t, t \notin q[i].tables PROVE RowsOf(w.rows, t) = RowsOf(x.rows, t)
    <3>1. \A j : Live(q, j) => UpdateOK(q[j]) /\ AtHome(x, q[j]) /\ t \notin q[j].tables
      BY <1>7, <1>14, <2>3
    <3> QED BY ONLY <3>1, <1>12, UnlockedSame
  <2> QED BY ONLY <1>2, <1>14, <2>1, <2>2, <2>3 DEF Undone
<1>16. /\ Len(q2) = Len(q) /\ q2[i].answer = "failed" /\ q2[i].tables = q[i].tables
       /\ q2[i].before = q[i].before
       /\ \A j \in 1 .. Len(q) : j # i => q2[j] = q[j]
  BY DEF Answered, SameUpdate
<1>17. Split(q2, Len(q)) BY <1>7 DEF Count
<1>18. \A j : ~Live(q2, j)
  <2>1. \A j \in 1 .. Len(q) : q2[j].answer = "failed" BY ONLY <1>17 DEF Split
  <2> QED BY ONLY <2>1, <1>16 DEF Live
<1>19. Apart(q2) /\ \A j \in 1 .. Len(q) : SameUpdate(q[j], q2[j]) /\ Ids(q2[j]) = Ids(q[j])
  <2>1. Answered(q2, q, i, "failed") OBVIOUS
  <2> QED BY ONLY <2>1, <1>2, <1>11, ApartAnswered
<1>20. View(x, q2) = x BY ONLY <1>2, <1>11, <1>16, <1>17, <1>19, ViewSees
<1>21. i \in 1 .. Len(q) OBVIOUS
<1>22. ASSUME NEW t, ~FailedIn(q2, t) PROVE t \notin q[i].tables /\ ~FailedIn(q, t)
  <2>1. \A j \in 1 .. Len(q) : q2[j].answer = "failed" => t \notin q2[j].tables
    BY ONLY <1>16, <1>22 DEF FailedIn
  <2>2. t \notin q[i].tables BY ONLY <2>1, <1>16, <1>21
  <2>3. ASSUME NEW j \in 1 .. Len(q), q[j].answer = "failed" PROVE t \notin q[j].tables
    <3>1. CASE j = i BY <3>1, <2>2
    <3>2. CASE j # i
      <4>1. q2[j] = q[j] BY ONLY <3>2, <2>3, <1>16
      <4> QED BY <4>1, <2>1, <2>3
    <3> QED BY <3>1, <3>2
  <2> QED BY ONLY <2>2, <2>3 DEF FailedIn
<1>23. \A t : Unlocked(q2, t) BY ONLY <1>18 DEF Unlocked
<1>24. \A t : Unlocked(q, t) => t \notin q[i].tables BY ONLY <1>8 DEF Unlocked
<1>25. /\ \A t \in Tables : \A id \in k.removedRows[t] : id < next
       /\ \A id \in DOMAIN x.rows : id < next
       /\ \A j \in 1 .. Len(q) : \A id \in Ids(q[j]) : id < next
  BY ONLY <1>3 DEF Small
<1>26. ASSUME NEW id \in DOMAIN w.rows PROVE id < next
  <2>1. CASE id \in Ids(q[i]) BY ONLY <2>1, <1>21, <1>25
  <2>2. CASE id \notin Ids(q[i])
    <3>1. SameAt(w.rows, x.rows, id) BY ONLY <2>2, <1>15 DEF Undone
    <3>2. id \in DOMAIN x.rows BY ONLY <3>1, <1>26 DEF SameAt
    <3> QED BY ONLY <3>2, <1>25
  <2> QED BY <2>1, <2>2
<1>27. e = k \/ e = Events(k, w, x) BY <1>1, <1>9, <1>10, <1>20
<1>28. HeardOK(free, e, x, q2, gap2, next)
  <2>1. /\ k \in Store /\ gap \subseteq gap2
        /\ \A t \in Tables : \A id \in q[i].gone : <<t, id>> \in gap2
        /\ free \in SUBSET Tables
    OBVIOUS
  <2>2. /\ Copies(Tables, q, w, k.tables, gap) /\ Removed(w, k.removedRows, gap)
        /\ TasksSay(free, q, w, k.tasks, gap)
    BY ONLY <1>3, <1>10
  <2>3. \A t : ~FailedIn(q2, t) => t \notin q[i].tables /\ ~FailedIn(q, t) BY <1>22
  <2>4. \A id \in DOMAIN w.rows : id < next BY <1>26
  <2> QED BY ONLY <2>1, <2>2, <2>3, <2>4, <1>15, <1>23, <1>24, <1>25, <1>27, UndoneHeard
<1>29. /\ Copies(Tables, q2, x, e.tables, gap2) /\ Removed(x, e.removedRows, gap2)
       /\ TasksSay(free, q2, x, e.tasks, gap2)
       /\ \A t \in Tables : \A id \in e.removedRows[t] : id < next
  BY ONLY <1>28 DEF HeardOK
<1>30. Under(s, q2, n)
  <2>1. \A j \in 1 .. Len(q2) : q2[j].answer # "accepted" BY ONLY <1>7, <1>16
  <2>2. ~\E v : v \in n + 1 .. Len(s) BY ONLY <1>2, <1>9
  <2>3. ASSUME NEW v \in n .. Len(s), NEW id PROVE SameAt(s[v].rows, s[Len(s)].rows, id)
    <3>1. v = Len(s) BY ONLY <2>3, <1>2, <1>9
    <3> QED BY <3>1 DEF SameAt
  <2> QED BY ONLY <2>1, <2>2, <2>3, <1>2, <1>19 DEF Under
<1>31. Homes(q2, x) BY ONLY <1>3, <1>16, <1>19 DEF Homes, AtHome, SameUpdate
<1>32. Small(q2, x, e.removedRows, next) BY ONLY <1>16, <1>19, <1>25, <1>29 DEF Small
<1>33. Copies(free, q2, x, rows, gap2)
  <2> SUFFICES ASSUME NEW t \in free, ~FailedIn(q2, t) PROVE Copy(rows[t], x, t, gap2)
    BY DEF Copies
  <2>1. t \notin q[i].tables /\ ~FailedIn(q, t) BY <1>22
  <2>2. Copy(rows[t], w, t, gap) BY ONLY <2>1, <1>3, <1>10, t \in free DEF Copies
  <2>3. RowsOf(w.rows, t) = RowsOf(x.rows, t) BY ONLY <2>1, <1>15 DEF Undone
  <2>4. Close(rows[t], RowsOf(x.rows, t), t, gap) BY ONLY <2>2, <2>3 DEF Copy
  <2>5. gap \subseteq gap2 OBVIOUS
  <2> QED BY ONLY <2>4, <2>5, CloseWider DEF Copy
<1>34. Befores(free, q2, x, gap2)
  <2>1. Befores(free, q, x, gap2)
    <3>1. gap \subseteq gap2 OBVIOUS
    <3> QED BY ONLY <3>1, <1>3, BeforesWider
  <2> QED BY ONLY <2>1, <1>7, <1>16, <1>19 DEF Befores, SameUpdate
<1>35. Count(q2, k2.revision, x.rev, Len(q), Len(q)) /\ Len(q) \in 0 .. Len(q2)
  BY <1>7, <1>16
<1>36. k2.tables = e.tables /\ k2.tasks = e.tasks /\ k2.removedRows = e.removedRows OBVIOUS
<1> QED
  BY ONLY <1>1, <1>20, <1>29, <1>30, <1>31, <1>32, <1>33, <1>34, <1>35, <1>36
  DEF WriterState

-----------------------------------------------------------------------------
(* The table of each row id that the writer knows of, be it in what it     *)
(* sees, in its cache, in an update or in a task: never two of them.       *)

LEMMA OwnsIds ==
    ASSUME NEW own, NEW u, UpdateOK(u), NEW next, OwnsUpdate(own, u, next)
    PROVE  \A id \in Ids(u) : \E t \in u.tables : Its(own, id, t, next)
<1> SUFFICES ASSUME NEW id \in Ids(u) PROVE \E t \in u.tables : Its(own, id, t, next) OBVIOUS
<1>1. CASE id \in u.gone BY <1>1 DEF OwnsUpdate
<1>2. CASE id \in DOMAIN u.put
  <2>1. u.put[id].table \in u.tables BY <1>2 DEF UpdateOK
  <2> QED BY <2>1, <1>2 DEF OwnsUpdate
<1> QED BY <1>1, <1>2 DEF Ids

\* What a version and the updates own, the view owns.
LEMMA ViewOwned ==
    ASSUME NEW own, NEW next, NEW w, NEW x, NEW q \in Seq(Update), Sees(w, x, q),
           InPlace(own, x, next), \A i \in 1 .. Len(q) : OwnsUpdate(own, q[i], next)
    PROVE  InPlace(own, w, next)
<1> SUFFICES ASSUME NEW id \in DOMAIN w.rows PROVE Its(own, id, w.rows[id].table, next)
  BY DEF InPlace
<1>1. CASE \A i : Live(q, i) => id \notin Ids(q[i])
  <2>1. SameAt(w.rows, x.rows, id) BY <1>1 DEF Sees
  <2>2. id \in DOMAIN x.rows /\ w.rows[id] = x.rows[id] BY <2>1 DEF SameAt
  <2> QED BY <2>2 DEF InPlace
<1>2. ASSUME NEW i, Live(q, i), id \in Ids(q[i]) PROVE Its(own, id, w.rows[id].table, next)
  <2>1. HasUpdate(w, q[i]) /\ i \in 1 .. Len(q) BY <1>2 DEF Sees, Live
  <2>2. id \in DOMAIN q[i].put BY <2>1, <1>2 DEF HasUpdate, Ids
  <2>3. w.rows[id] = [rev |-> q[i].rev, table |-> q[i].put[id].table, value |-> q[i].put[id].value]
    BY <2>1, <2>2 DEF HasUpdate
  <2>4. w.rows[id].table = q[i].put[id].table BY ONLY <2>3
  <2> QED BY <2>1, <2>2, <2>4 DEF OwnsUpdate
<1> QED BY <1>1, <1>2

-----------------------------------------------------------------------------
(* A transaction of the writer.                                            *)

\* Where the rows are that it writes.
WritesKnown(u, rows, next, next2) ==
    /\ \A id \in DOMAIN u.put : (next <= id /\ id < next2) \/ id \in DOMAIN rows[u.put[id].table]
    /\ \A id \in u.gone : id \notin DOMAIN u.put \/ next <= id
    /\ \A id \in u.gone : \E t \in u.tables : id \in DOMAIN rows[t]

\* A row that it writes is new, or it is, where it is, in one of its tables.
Placed(u, w, x, next, next2) ==
    /\ \A id \in DOMAIN w.rows : id < next
    /\ \A id \in DOMAIN u.put :
          \/ next <= id /\ id < next2
          \/ /\ id < next
             /\ id \in DOMAIN w.rows => w.rows[id].table = u.put[id].table
             /\ id \in DOMAIN x.rows => x.rows[id].table = u.put[id].table
    /\ \A id \in u.gone : /\ id \notin DOMAIN u.put /\ id < next
                          /\ id \in DOMAIN w.rows => w.rows[id].table \in u.tables
                          /\ id \in DOMAIN x.rows => x.rows[id].table \in u.tables

LEMMA IsPlaced ==
    ASSUME NEW u \in Update, UpdateOK(u), NEW rows, NEW next \in Nat, NEW next2 \in Nat,
           WritesKnown(u, rows, next, next2), NEW own, \A t \in Tables : Mine(own, rows[t], t, next),
           NEW w, NEW x, InPlace(own, w, next), InPlace(own, x, next)
    PROVE  Placed(u, w, x, next, next2)
<1>1. ASSUME NEW t \in u.tables, NEW id \in DOMAIN rows[t]
      PROVE  /\ id \in Id /\ own[id] = t /\ id < next
             /\ id \in DOMAIN w.rows => w.rows[id].table = t
             /\ id \in DOMAIN x.rows => x.rows[id].table = t
  <2>1. t \in Tables BY <1>1, UpdateFields
  <2>2. Its(own, id, t, next) BY <2>1, <1>1 DEF Mine
  <2> QED BY <2>2 DEF InPlace, Its
<1>2. ASSUME NEW id \in DOMAIN u.put
      PROVE  \/ next <= id /\ id < next2
             \/ /\ id < next
                /\ id \in DOMAIN w.rows => w.rows[id].table = u.put[id].table
                /\ id \in DOMAIN x.rows => x.rows[id].table = u.put[id].table
  BY <1>1, <1>2 DEF WritesKnown, UpdateOK
<1>3. ASSUME NEW id \in u.gone
      PROVE  /\ id \notin DOMAIN u.put /\ id < next
             /\ id \in DOMAIN w.rows => w.rows[id].table \in u.tables
             /\ id \in DOMAIN x.rows => x.rows[id].table \in u.tables
  <2>1. PICK t \in u.tables : id \in DOMAIN rows[t] BY <1>3 DEF WritesKnown
  <2>2. /\ id \in Id /\ id < next
        /\ id \in DOMAIN w.rows => w.rows[id].table = t
        /\ id \in DOMAIN x.rows => x.rows[id].table = t
    BY <1>1, <2>1
  <2>3. ~(next <= id) BY <2>2, FirebaseAssumption DEF Id
  <2> QED BY <2>1, <2>2, <2>3, <1>3 DEF WritesKnown
<1>4. \A id \in DOMAIN w.rows : id < next BY DEF InPlace, Its
<1> QED BY <1>2, <1>3, <1>4 DEF Placed

LEMMA PlacedHome ==
    ASSUME NEW u \in Update, UpdateOK(u), NEW next \in Nat, NEW next2, NEW w, NEW x,
           Placed(u, w, x, next, next2), \A id \in DOMAIN x.rows : id < next
    PROVE  AtHome(w, u) /\ AtHome(x, u) /\ DOMAIN u.put \cap u.gone = {}
<1>1. \A id \in Ids(u) : id \in Nat
  BY UpdateFields, FirebaseAssumption DEF Ids, Id
<1>2. ASSUME NEW id \in Ids(u), id \in DOMAIN w.rows PROVE w.rows[id].table \in u.tables
  <2>1. CASE id \in u.gone BY <2>1, <1>2 DEF Placed
  <2>2. CASE id \in DOMAIN u.put
    <3>1. id < next /\ id \in Nat BY <1>1, <1>2 DEF Placed
    <3>2. ~(next <= id) BY <3>1
    <3>3. w.rows[id].table = u.put[id].table BY <2>2, <3>2, <1>2 DEF Placed
    <3> QED BY <2>2, <3>3 DEF UpdateOK
  <2> QED BY <2>1, <2>2, <1>2 DEF Ids
<1>3. ASSUME NEW id \in Ids(u), id \in DOMAIN x.rows PROVE x.rows[id].table \in u.tables
  <2>1. CASE id \in u.gone BY <2>1, <1>3 DEF Placed
  <2>2. CASE id \in DOMAIN u.put
    <3>1. id < next /\ id \in Nat BY <1>1, <1>3
    <3>2. ~(next <= id) BY <3>1
    <3>3. x.rows[id].table = u.put[id].table BY <2>2, <3>2, <1>3 DEF Placed
    <3> QED BY <2>2, <3>3 DEF UpdateOK
  <2> QED BY <2>1, <2>2, <1>3 DEF Ids
<1>4. DOMAIN u.put \cap u.gone = {} BY DEF Placed
<1> QED BY <1>2, <1>3, <1>4 DEF AtHome

\* A table after the transaction is what the writer sees then.
LEMMA CommitCopy ==
    ASSUME NEW u \in Update, UpdateOK(u), NEW next \in Nat, NEW next2, NEW w \in Version, NEW x,
           Placed(u, w, x, next, next2), NEW after, after = Overlaid(w, u),
           NEW t, NEW old, NEW new, AfterTx(new, old, u, t), NEW gap, Copy(old, w, t, gap)
    PROVE  Copy(new, after, t, gap)
<1>1. /\ DOMAIN after.rows = (DOMAIN w.rows \ u.gone) \cup DOMAIN u.put
      /\ \A id \in DOMAIN u.put :
            after.rows[id] = [rev |-> u.rev, table |-> u.put[id].table, value |-> u.put[id].value]
      /\ \A id : id \notin Ids(u) => SameAt(after.rows, w.rows, id)
  BY OverlaidIs
<1>2. \A id \in DOMAIN u.put : after.rows[id].table = u.put[id].table
                               /\ after.rows[id].value = u.put[id].value
  <2> SUFFICES ASSUME NEW id \in DOMAIN u.put
               PROVE  after.rows[id].table = u.put[id].table /\ after.rows[id].value = u.put[id].value
    OBVIOUS
  <2>1. after.rows[id] = [rev |-> u.rev, table |-> u.put[id].table, value |-> u.put[id].value]
    BY <1>1
  <2> QED BY ONLY <2>1
<1>3. PICK rows : rows = RowsOf(after.rows, t) OBVIOUS
<1>4. PICK was : was = RowsOf(w.rows, t) OBVIOUS
<1>5. PICK put : put = RowsOf(u.put, t) OBVIOUS
<1>6. IsRowsOf(rows, after.rows, t) /\ IsRowsOf(was, w.rows, t) /\ IsRowsOf(put, u.put, t)
  BY ONLY <1>3, <1>4, <1>5, RowsOfIs
<1>7. /\ \A id : id \in DOMAIN rows <=> id \in DOMAIN after.rows /\ after.rows[id].table = t
      /\ \A id : id \in DOMAIN rows => rows[id] = after.rows[id].value
      /\ \A id : id \in DOMAIN was <=> id \in DOMAIN w.rows /\ w.rows[id].table = t
      /\ \A id : id \in DOMAIN was => was[id] = w.rows[id].value
      /\ \A id : id \in DOMAIN put <=> id \in DOMAIN u.put /\ u.put[id].table = t
      /\ \A id : id \in DOMAIN put => put[id] = u.put[id].value
  BY ONLY <1>6 DEF IsRowsOf
<1>8. IsChanged(new, old, put, u.gone) BY <1>5 DEF AfterTx
<1>9. /\ \A id : id \in DOMAIN new <=> \/ id \in DOMAIN old /\ id \notin u.gone
                                       \/ id \in DOMAIN put
      /\ \A id : id \in DOMAIN put => new[id] = put[id]
      /\ \A id : id \in DOMAIN old /\ id \notin u.gone /\ id \notin DOMAIN put
                    => new[id] = old[id]
  BY ONLY <1>8 DEF IsChanged
<1>10. /\ \A id \in DOMAIN old : id \in DOMAIN was /\ old[id] = was[id]
       /\ \A id \in DOMAIN was : id \in DOMAIN old \/ <<t, id>> \in gap
  BY <1>4 DEF Copy, Close
<1>11. ASSUME NEW id \in DOMAIN put PROVE id \in DOMAIN rows /\ put[id] = rows[id]
  BY ONLY <1>1, <1>2, <1>7, <1>11
<1>12. ASSUME NEW id \in DOMAIN was, id \notin u.gone, id \notin DOMAIN put
       PROVE  id \in DOMAIN rows /\ rows[id] = was[id]
  <2>1. id \in DOMAIN w.rows /\ w.rows[id].table = t /\ was[id] = w.rows[id].value
    BY ONLY <1>7, <1>12
  <2>2. ASSUME id \in DOMAIN u.put PROVE FALSE
    <3>1. u.put[id].table # t BY ONLY <2>2, <1>7, <1>12
    <3>2. id \in Nat BY <2>2, UpdateFields, FirebaseAssumption DEF Id
    <3>3. id < next BY <2>1 DEF Placed
    <3>4. ~(next <= id) BY <3>2, <3>3
    <3>5. w.rows[id].table = u.put[id].table BY <2>1, <2>2, <3>4 DEF Placed
    <3> QED BY <2>1, <3>1, <3>5
  <2>3. SameAt(after.rows, w.rows, id) BY ONLY <2>2, <1>1, <1>12 DEF Ids
  <2>4. id \in DOMAIN after.rows /\ after.rows[id] = w.rows[id] BY ONLY <2>1, <2>3 DEF SameAt
  <2> QED BY ONLY <2>1, <2>4, <1>7
<1>13. ASSUME NEW id \in DOMAIN rows, id \notin DOMAIN put
       PROVE  id \in DOMAIN was /\ id \notin u.gone
  <2>1. id \in DOMAIN after.rows /\ after.rows[id].table = t BY ONLY <1>7, <1>13
  <2>2. id \notin DOMAIN u.put BY ONLY <2>1, <1>2, <1>7, <1>13
  <2>3. id \in DOMAIN w.rows /\ id \notin u.gone BY ONLY <2>1, <2>2, <1>1
  <2>4. SameAt(after.rows, w.rows, id) BY ONLY <2>2, <2>3, <1>1 DEF Ids
  <2>5. w.rows[id].table = t BY ONLY <2>1, <2>4 DEF SameAt
  <2> QED BY ONLY <2>3, <2>5, <1>7
<1>14. ASSUME NEW id \in DOMAIN new PROVE id \in DOMAIN rows /\ new[id] = rows[id]
  BY ONLY <1>9, <1>10, <1>11, <1>12, <1>14
<1>15. ASSUME NEW id \in DOMAIN rows PROVE id \in DOMAIN new \/ <<t, id>> \in gap
  BY ONLY <1>9, <1>10, <1>13, <1>15
<1> QED BY ONLY <1>3, <1>14, <1>15 DEF Copy, Close

LEMMA CountCommit ==
    ASSUME NEW q \in Seq(Update), NEW r \in Int, NEW now,
           NEW f \in 0 .. Len(q), NEW a \in 0 .. Len(q), Count(q, r, now, f, a),
           NEW u \in Update, u.answer = "none", u.rev = r + 1, NEW q2, q2 = Append(q, u)
    PROVE  Count(q2, u.rev, now, f, a) /\ f \in 0 .. Len(q2) /\ a \in 0 .. Len(q2)
<1>1. /\ Len(q2) = Len(q) + 1 /\ Len(q) \in Nat /\ q2[Len(q2)] = u
      /\ \A j \in 1 .. Len(q) : q2[j] = q[j]
  OBVIOUS
<1>2. /\ f \in Nat /\ a \in Nat /\ f <= Len(q) /\ a \in f .. Len(q)
      /\ \A j \in 1 .. f : q[j].answer = "failed"
      /\ \A j \in f + 1 .. Len(q) : q[j].answer # "failed" /\ q[j].rev = r - (Len(q) - j)
      /\ \A j \in a + 1 .. Len(q) : q[j].answer # "accepted"
      /\ a > f => q[a].answer = "accepted"
      /\ now = r - (Len(q) - a)
  BY DEF Count, Split
<1>3. ASSUME NEW j \in f + 1 .. Len(q2)
      PROVE  q2[j].answer # "failed" /\ q2[j].rev = u.rev - (Len(q2) - j)
  <2>1. CASE j = Len(q2) BY <2>1, <1>1
  <2>2. CASE j # Len(q2)
    <3>1. j \in f + 1 .. Len(q) /\ j \in 1 .. Len(q) BY <2>2, <1>1, <1>2
    <3>2. q2[j] = q[j] /\ q[j].rev = r - (Len(q) - j) /\ q[j].answer # "failed"
      BY <3>1, <1>1, <1>2
    <3> QED BY <3>1, <3>2, <1>1
  <2> QED BY <2>1, <2>2
<1>4. ASSUME NEW j \in a + 1 .. Len(q2) PROVE q2[j].answer # "accepted"
  <2>1. CASE j = Len(q2) BY <2>1, <1>1
  <2>2. CASE j # Len(q2)
    <3>1. j \in a + 1 .. Len(q) /\ j \in 1 .. Len(q) BY <2>2, <1>1, <1>2
    <3> QED BY <3>1, <1>1, <1>2
  <2> QED BY <2>1, <2>2
<1>5. ASSUME a > f PROVE q2[a].answer = "accepted"
  <2>1. a \in 1 .. Len(q) BY <1>2, <1>5
  <2> QED BY <2>1, <1>1, <1>2, <1>5
<1>6. \A j \in 1 .. f : q2[j].answer = "failed"
  <2> SUFFICES ASSUME NEW j \in 1 .. f PROVE q2[j].answer = "failed" OBVIOUS
  <2>1. j \in 1 .. Len(q) BY <1>2
  <2> QED BY <2>1, <1>1, <1>2
<1>7. f \in 0 .. Len(q2) /\ a \in 0 .. Len(q2) /\ a \in f .. Len(q2) BY <1>1, <1>2
<1>8. now = u.rev - (Len(q2) - a) BY <1>1, <1>2
<1>9. Split(q2, f) BY <1>3, <1>6, <1>7 DEF Split
<1> QED BY <1>3, <1>4, <1>5, <1>7, <1>8, <1>9 DEF Count

\* What the writer makes of the commit: its own update brings nothing new.
LEMMA CommitHeard ==
    ASSUME NEW k \in Store, NEW w \in Version, NEW after \in Version, after.rev = k.revision,
           NEW e, e = k \/ e = Events(k, w, after)
    PROVE  /\ e.revision = k.revision /\ e.tables = k.tables /\ e.tasks = k.tasks
           /\ \A t \in Tables : \A id \in e.removedRows[t] :
                 id \in k.removedRows[t] \/ (id \in DOMAIN w.rows /\ id \notin DOMAIN after.rows)
<1>1. CASE e = k BY <1>1
<1>2. CASE e = Events(k, w, after)
  <2>1. PICK h : /\ IsRemoved(h, k, w, after)
                 /\ e = IF Result(k, w) = Result(k, after) THEN h
                        ELSE onChange_(h, Result(h, after))
    BY <1>2, EventsIs
  <2>2. h \in Store /\ h.revision = k.revision BY <2>1 DEF IsRemoved
  <2>3. ~Heeds(h, after) BY <2>2 DEF Heeds
  <2>4. onChange_(h, Result(h, after)) = h BY <2>2, <2>3, OnChangeNothing
  <2>5. e = h BY <2>1, <2>4
  <2> QED BY <2>1, <2>5 DEF IsRemoved
<1> QED BY <1>1, <1>2

LEMMA ApartMore ==
    ASSUME NEW q \in Seq(Update), Apart(q), NEW u, DOMAIN u.put \cap u.gone = {},
           \A j \in 1 .. Len(q) : Ids(q[j]) \cap Ids(u) = {}, NEW q2, q2 = Append(q, u)
    PROVE  Apart(q2)
<1>1. /\ DOMAIN q2 = 1 .. Len(q) + 1 /\ Len(q) \in Nat /\ q2[Len(q) + 1] = u
      /\ \A j \in 1 .. Len(q) : q2[j] = q[j]
      /\ DOMAIN q = 1 .. Len(q)
  OBVIOUS
<1>2. ASSUME NEW j \in DOMAIN q2 PROVE DOMAIN q2[j].put \cap q2[j].gone = {}
  <2>1. CASE j = Len(q) + 1 BY <2>1, <1>1
  <2>2. CASE j # Len(q) + 1
    <3>1. j \in 1 .. Len(q) BY <2>2, <1>1
    <3> QED BY <3>1, <1>1 DEF Apart
  <2> QED BY <2>1, <2>2
<1>3. ASSUME NEW j \in DOMAIN q2, NEW l \in DOMAIN q2, j # l
      PROVE  Ids(q2[j]) \cap Ids(q2[l]) = {}
  <2>1. CASE j = Len(q) + 1
    <3>1. l \in 1 .. Len(q) BY <2>1, <1>1, <1>3
    <3>2. q2[j] = u /\ q2[l] = q[l] BY <2>1, <3>1, <1>1
    <3> QED BY <3>1, <3>2
  <2>2. CASE l = Len(q) + 1
    <3>1. j \in 1 .. Len(q) BY <2>2, <1>1, <1>3
    <3>2. q2[l] = u /\ q2[j] = q[j] BY <2>2, <3>1, <1>1
    <3> QED BY <3>1, <3>2
  <2>3. CASE j # Len(q) + 1 /\ l # Len(q) + 1
    <3>1. j \in DOMAIN q /\ l \in DOMAIN q BY <2>3, <1>1
    <3>2. q2[j] = q[j] /\ q2[l] = q[l] BY <3>1, <1>1
    <3> QED BY <3>1, <3>2, <1>3 DEF Apart
  <2> QED BY <2>1, <2>2, <2>3
<1> QED BY <1>2, <1>3 DEF Apart

\* The tables of a transaction are not locked, nor waited for if they are not overtaken.
CommitFree(free, u, q, tasks, rows) ==
    \A t \in u.tables :
        /\ \A j \in 1 .. Len(q) : t \notin q[j].tables
        /\ t \in free => \A j \in 1 .. Len(tasks) : t \notin DOMAIN tasks[j]
        /\ u.before[t] = rows[t]

LEMMA WriterCommit ==
    ASSUME NEW s \in Seq(Version), NEW q \in Seq(Update), NEW n, NEW k \in Store, NEW rows,
           NEW gap, NEW next \in Nat, NEW free \in SUBSET Tables,
           WriterState(free, s, n, q, k, rows, gap, next), SentOK(q, Len(s)),
           NEW u \in Update, UpdateOK(u), u.answer = "none", u.rev = k.revision + 1,
           NEW next2 \in Nat, next2 >= next, WritesKnown(u, rows, next, next2),
           CommitFree(free, u, q, k.tasks, rows),
           NEW own, Owned(own, s, n, q, k.tasks, rows, next), WrittenAgain(u, next, View(s[n], q), gap),
           NEW k1 \in Store, k1.revision = u.rev, k1.removedRows = k.removedRows,
           k1.tasks = k.tasks, \A t \in Tables : AfterTx(k1.tables[t], k.tables[t], u, t),
           NEW rows2, \A t \in Tables : AfterTx(rows2[t], rows[t], u, t),
           NEW q2, q2 = Append(q, u),
           NEW e, e = k1 \/ e = Events(k1, View(s[n], q), View(s[n], q2))
    PROVE  WriterState(free, s, n, q2, e, rows2, gap, next2)
<1>1. PICK x : x = s[Len(s)] OBVIOUS
<1>2. PICK w : w = View(x, q) OBVIOUS
<1>3. /\ x \in Version /\ Apart(q) /\ n \in 1 .. Len(s) /\ Len(s) \in Nat /\ w \in Version
      /\ View(s[n], q) = w /\ s[n] \in Version
  <2>1. /\ s[Len(s)] \in Version /\ n \in 1 .. Len(s) /\ Apart(q) /\ View(s[Len(s)], q) \in Version
        /\ \A v \in n .. Len(s) : View(s[v], q) = View(s[Len(s)], q)
    BY WriterSees
  <2>2. Len(s) \in Nat OBVIOUS
  <2>3. n \in n .. Len(s) BY ONLY <2>1, <2>2
  <2>4. s[n] \in Version BY <2>1
  <2> QED BY ONLY <1>1, <1>2, <2>1, <2>2, <2>3, <2>4
<1>4. /\ Under(s, q, n) /\ Homes(q, x) /\ Small(q, x, k.removedRows, next)
      /\ Copies(Tables, q, w, k.tables, gap) /\ Copies(free, q, w, rows, gap)
      /\ Befores(free, q, x, gap) /\ Removed(w, k.removedRows, gap)
      /\ TasksSay(free, q, w, k.tasks, gap)
  BY <1>1, <1>2 DEF WriterState
<1>5. PICK f \in 0 .. Len(q), a \in 0 .. Len(q) : Count(q, k.revision, x.rev, f, a)
  BY <1>1 DEF WriterState
<1>6. Split(q, f) BY <1>5 DEF Count
<1>7. /\ k.revision \in Int /\ q \in Seq(Update) /\ u \in Update /\ UpdateOK(u)
      /\ u.answer = "none" /\ next \in Nat /\ next2 \in Nat /\ next2 >= next
      /\ WritesKnown(u, rows, next, next2) /\ u.rev = k.revision + 1
  BY StoreFields
<1>8. Sees(w, x, q) BY ONLY <1>2, <1>3, <1>6, <1>7, ViewSees
<1>9. /\ \A t \in Tables : \A id \in k.removedRows[t] : id < next
      /\ \A id \in DOMAIN x.rows : id < next
      /\ \A j \in 1 .. Len(q) : \A id \in Ids(q[j]) : id < next
  BY ONLY <1>4 DEF Small
<1>10. ASSUME NEW id \in DOMAIN w.rows PROVE id < next
  <2>1. CASE \A j : Live(q, j) => id \notin Ids(q[j])
    <3>1. SameAt(w.rows, x.rows, id) BY ONLY <2>1, <1>8 DEF Sees
    <3>2. id \in DOMAIN x.rows BY ONLY <3>1, <1>10 DEF SameAt
    <3> QED BY ONLY <3>2, <1>9
  <2>2. ASSUME NEW j, Live(q, j), id \in Ids(q[j]) PROVE id < next
    <3>1. j \in 1 .. Len(q) BY <2>2 DEF Live
    <3> QED BY ONLY <3>1, <2>2, <1>9
  <2> QED BY <2>1, <2>2
<1>11. ASSUME NEW t \in u.tables
       PROVE  /\ t \in Tables /\ (\A j \in 1 .. Len(q) : t \notin q[j].tables)
              /\ (t \in free => \A j \in 1 .. Len(k.tasks) : t \notin DOMAIN k.tasks[j])
              /\ u.before[t] = rows[t] /\ (t \in free => Copy(rows[t], w, t, gap))
              /\ RowsOf(w.rows, t) = RowsOf(x.rows, t)
  <2>1. t \in Tables BY <1>11, UpdateFields
  <2>2. /\ \A j \in 1 .. Len(q) : t \notin q[j].tables
        /\ t \in free => \A j \in 1 .. Len(k.tasks) : t \notin DOMAIN k.tasks[j]
        /\ u.before[t] = rows[t]
    BY DEF CommitFree
  <2>3. ~FailedIn(q, t) BY ONLY <2>2 DEF FailedIn
  <2>4. t \in free => Copy(rows[t], w, t, gap) BY ONLY <2>3, <1>4 DEF Copies
  <2>5. ASSUME NEW j, Live(q, j) PROVE UpdateOK(q[j]) /\ AtHome(x, q[j]) /\ t \notin q[j].tables
    <3>1. j \in 1 .. Len(q) BY <2>5 DEF Live
    <3>2. UpdateOK(q[j]) BY <3>1, SentSays
    <3>3. AtHome(x, q[j]) BY ONLY <3>1, <1>4 DEF Homes
    <3> QED BY ONLY <3>1, <3>2, <3>3, <2>2
  <2>6. RowsOf(w.rows, t) = RowsOf(x.rows, t) BY ONLY <2>5, <1>8, UnlockedSame
  <2> QED BY ONLY <2>1, <2>2, <2>4, <2>6
<1>12. Placed(u, w, x, next, next2)
  <2>1. \A t \in Tables : Mine(own, rows[t], t, next) BY DEF Owned
  <2>2. \A j \in 1 .. Len(q) : OwnsUpdate(own, q[j], next) BY DEF Owned
  <2>3. Len(s) \in n .. Len(s) BY ONLY <1>3
  <2>4. InPlace(own, x, next) BY <2>3, <1>1 DEF Owned
  <2>5. InPlace(own, w, next) BY ONLY <2>2, <2>4, <1>7, <1>8, ViewOwned
  <2> QED BY ONLY <2>1, <2>4, <2>5, <1>7, IsPlaced
<1>13. AtHome(w, u) /\ AtHome(x, u) /\ DOMAIN u.put \cap u.gone = {}
  BY ONLY <1>7, <1>9, <1>12, PlacedHome
<1>14. ASSUME NEW j \in 1 .. Len(q) PROVE Ids(q[j]) \cap Ids(u) = {}
  <2> SUFFICES ASSUME NEW id, id \in Ids(q[j]), id \in Ids(u) PROVE FALSE OBVIOUS
  <2>1. id < next BY <1>9
  <2>2. UpdateOK(q[j]) /\ OwnsUpdate(own, q[j], next) BY SentSays DEF Owned
  <2>3. id \in Nat BY <1>7, UpdateFields, FirebaseAssumption DEF Ids, Id
  <2>4. \E t \in u.tables : Its(own, id, t, next)
    <3>1. \E t \in u.tables : id \in DOMAIN rows[t]
      <4>1. CASE id \in u.gone BY <4>1, <1>7 DEF WritesKnown
      <4>2. CASE id \in DOMAIN u.put
        <5>1. ~(next <= id) BY ONLY <2>1, <2>3, <1>7
        <5> QED BY <4>2, <5>1, <1>7 DEF WritesKnown, UpdateOK
      <4> QED BY <4>1, <4>2 DEF Ids
    <3> QED BY <3>1, <1>11 DEF Owned, Mine
  <2>5. \E t \in q[j].tables : Its(own, id, t, next) BY ONLY <2>2, OwnsIds, id \in Ids(q[j])
  <2> QED BY <2>4, <2>5, <1>11 DEF Its
<1>15. PICK after : after = Overlaid(w, u) OBVIOUS
<1>16. /\ after \in Version /\ after.rev = u.rev
       /\ DOMAIN after.rows = (DOMAIN w.rows \ u.gone) \cup DOMAIN u.put
  BY ONLY <1>3, <1>7, <1>15, OverlaidIs
<1>17. q2 = Append(q, u) OBVIOUS
<1>18. View(s[n], q2) = after /\ View(x, q2) = after
  <2>1. u.answer # "failed" BY ONLY <1>7
  <2>2. View(s[n], Append(q, u)) = Overlaid(View(s[n], q), u) BY ONLY <2>1, <1>3, <1>7, ViewOfMore
  <2>3. View(x, Append(q, u)) = Overlaid(View(x, q), u) BY ONLY <2>1, <1>3, <1>7, ViewOfMore
  <2> QED BY ONLY <2>2, <2>3, <1>2, <1>3, <1>15, <1>17
<1>19. k1 \in Store /\ k1.revision = u.rev /\ k1.removedRows = k.removedRows /\ k1.tasks = k.tasks
  OBVIOUS
<1>20. /\ e.revision = k1.revision /\ e.tables = k1.tables /\ e.tasks = k1.tasks
       /\ \A t \in Tables : \A id \in e.removedRows[t] :
             id \in k1.removedRows[t] \/ (id \in DOMAIN w.rows /\ id \notin DOMAIN after.rows)
  <2>1. e = k1 \/ e = Events(k1, w, after) BY <1>3, <1>18
  <2> QED BY ONLY <2>1, <1>3, <1>16, <1>19, CommitHeard
<1>21. /\ Len(q2) = Len(q) + 1 /\ Len(q) \in Nat /\ q2[Len(q2)] = u /\ q2 \in Seq(Update)
       /\ \A j \in 1 .. Len(q) : q2[j] = q[j]
       /\ \A j \in 1 .. Len(q2) : j = Len(q2) \/ j \in 1 .. Len(q)
       /\ \A j \in 1 .. Len(q) : j \in 1 .. Len(q2)
  <2>1. /\ Len(q2) = Len(q) + 1 /\ Len(q) \in Nat /\ q2[Len(q2)] = u /\ q2 \in Seq(Update)
        /\ \A j \in 1 .. Len(q) : q2[j] = q[j]
    BY ONLY <1>7, <1>17
  <2> QED BY <2>1
<1>22. Count(q2, e.revision, x.rev, f, a) /\ f \in 0 .. Len(q2) /\ a \in 0 .. Len(q2)
  <2>1. PICK r \in Int : r = k.revision BY StoreFields
  <2>2. /\ Count(q, r, x.rev, f, a) /\ u.rev = r + 1 /\ u.answer = "none"
        /\ q2 = Append(q, u)
    BY ONLY <2>1, <1>5, <1>7, <1>17
  <2>3. Count(q2, u.rev, x.rev, f, a) /\ f \in 0 .. Len(q2) /\ a \in 0 .. Len(q2)
    BY ONLY <2>2, CountCommit
  <2> QED BY ONLY <2>3, <1>19, <1>20
<1>23. Apart(q2) BY ONLY <1>3, <1>7, <1>13, <1>14, <1>17, ApartMore
<1>24. Under(s, q2, n)
  <2>1. /\ \A j \in 1 .. Len(q) : q[j].answer = "accepted" =>
              \A v \in q[j].version .. Len(s) : HasUpdate(s[v], q[j])
        /\ \A v \in n + 1 .. Len(s) :
              \E j \in 1 .. Len(q) : q[j].answer = "accepted" /\ q[j].version = v
        /\ \A v \in n .. Len(s) : \A id :
              (\A j \in 1 .. Len(q) : q[j].answer = "accepted" => id \notin Ids(q[j]))
                 => SameAt(s[v].rows, s[Len(s)].rows, id)
    BY ONLY <1>4 DEF Under
  <2>2. ASSUME NEW j \in 1 .. Len(q2), q2[j].answer = "accepted" PROVE j \in 1 .. Len(q) /\ q2[j] = q[j]
    <3>1. j # Len(q2) BY ONLY <2>2, <1>7, <1>21
    <3> QED BY ONLY <3>1, <2>2, <1>21
  <2>3. \A j \in 1 .. Len(q2) : q2[j].answer = "accepted" =>
            \A v \in q2[j].version .. Len(s) : HasUpdate(s[v], q2[j])
    <3> SUFFICES ASSUME NEW j \in 1 .. Len(q2), q2[j].answer = "accepted",
                        NEW v \in q2[j].version .. Len(s)
                 PROVE  HasUpdate(s[v], q2[j])
      OBVIOUS
    <3>1. j \in 1 .. Len(q) /\ q2[j] = q[j] BY <2>2
    <3> QED BY <3>1, <2>1
  <2>4. \A v \in n + 1 .. Len(s) :
            \E j \in 1 .. Len(q2) : q2[j].answer = "accepted" /\ q2[j].version = v
    <3> SUFFICES ASSUME NEW v \in n + 1 .. Len(s)
                 PROVE  \E j \in 1 .. Len(q2) : q2[j].answer = "accepted" /\ q2[j].version = v
      OBVIOUS
    <3>1. PICK j \in 1 .. Len(q) : q[j].answer = "accepted" /\ q[j].version = v BY <2>1
    <3>2. q2[j] = q[j] /\ j \in 1 .. Len(q2) BY ONLY <3>1, <1>21
    <3> QED BY <3>1, <3>2
  <2>5. ASSUME NEW v \in n .. Len(s), NEW id,
               \A j \in 1 .. Len(q2) : q2[j].answer = "accepted" => id \notin Ids(q2[j])
        PROVE  SameAt(s[v].rows, s[Len(s)].rows, id)
    <3>1. \A j \in 1 .. Len(q) : q[j].answer = "accepted" => id \notin Ids(q[j])
      <4> SUFFICES ASSUME NEW j \in 1 .. Len(q), q[j].answer = "accepted" PROVE id \notin Ids(q[j])
        OBVIOUS
      <4>1. q2[j] = q[j] /\ j \in 1 .. Len(q2) BY <1>21
      <4> QED BY <4>1, <2>5
    <3> QED BY <3>1, <2>1
  <2> QED BY ONLY <2>3, <2>4, <2>5, <1>3, <1>23 DEF Under
<1>25. Homes(q2, x)
  <2> SUFFICES ASSUME NEW j \in 1 .. Len(q2) PROVE AtHome(x, q2[j]) BY DEF Homes
  <2>1. CASE j = Len(q2) BY ONLY <2>1, <1>13, <1>21
  <2>2. CASE j \in 1 .. Len(q) BY ONLY <2>2, <1>4, <1>21 DEF Homes
  <2> QED BY <2>1, <2>2, <1>21
<1>26. Small(q2, x, e.removedRows, next2)
  <2>0. \A id \in Id : id < next => id < next2
    <3> SUFFICES ASSUME NEW id \in Id, id < next PROVE id < next2 OBVIOUS
    <3>1. id \in Int BY FirebaseAssumption DEF Id
    <3> QED BY ONLY <3>1, <1>7, id < next
  <2>1. ASSUME NEW id \in Ids(u) PROVE id < next2
    <3>1. id \in Id BY <2>1, <1>7, UpdateFields DEF Ids
    <3>2. CASE id \in u.gone
      <4>1. id < next BY ONLY <3>2, <1>12 DEF Placed
      <4> QED BY <4>1, <3>1, <2>0
    <3>3. CASE id \in DOMAIN u.put
      <4>1. id < next2 \/ id < next BY ONLY <3>3, <1>12 DEF Placed
      <4> QED BY <4>1, <3>1, <2>0
    <3> QED BY <2>1, <3>2, <3>3 DEF Ids
  <2>2. ASSUME NEW j \in 1 .. Len(q2), NEW id \in Ids(q2[j]) PROVE id < next2
    <3>1. CASE j = Len(q2) BY <3>1, <2>1, <2>2, <1>21
    <3>2. CASE j \in 1 .. Len(q)
      <4>1. q2[j] = q[j] /\ q[j] \in Update BY <3>2, <1>21
      <4>2. id \in Id BY <4>1, <2>2, UpdateFields DEF Ids
      <4> QED BY <3>2, <4>1, <4>2, <2>0, <2>2, <1>9
    <3> QED BY <3>1, <3>2, <1>21
  <2>3. ASSUME NEW id \in DOMAIN x.rows PROVE id < next2
    <3>1. id \in Id BY <2>3, <1>3, VersionFields
    <3> QED BY <3>1, <2>0, <1>9
  <2>4. ASSUME NEW t \in Tables, NEW id \in e.removedRows[t] PROVE id < next2
    <3>1. id \in k1.removedRows[t] \/ id \in DOMAIN w.rows BY ONLY <2>4, <1>20
    <3>2. CASE id \in k1.removedRows[t]
      <4>1. id \in Id BY <3>2, <1>19, StoreFields
      <4> QED BY <3>2, <4>1, <2>0, <1>9, <1>19
    <3>3. CASE id \in DOMAIN w.rows
      <4>1. id \in Id BY <3>3, <1>3, VersionFields
      <4> QED BY <3>3, <4>1, <2>0, <1>10
    <3> QED BY <3>1, <3>2, <3>3
  <2> QED BY <2>2, <2>3, <2>4 DEF Small
<1>27. ASSUME NEW t, ~FailedIn(q2, t) PROVE ~FailedIn(q, t)
  <2> SUFFICES ASSUME NEW j \in 1 .. Len(q), q[j].answer = "failed" PROVE t \notin q[j].tables
    BY DEF FailedIn
  <2>1. j \in 1 .. Len(q2) /\ q2[j] = q[j] BY <1>21
  <2> QED BY <2>1, <1>27 DEF FailedIn
<1>28. ASSUME NEW t \in Tables, ~FailedIn(q2, t)
       PROVE  Copy(e.tables[t], after, t, gap) /\ (t \in free => Copy(rows2[t], after, t, gap))
  <2>1. ~FailedIn(q, t) BY <1>27, <1>28
  <2>2. Copy(k.tables[t], w, t, gap) /\ (t \in free => Copy(rows[t], w, t, gap))
    BY ONLY <2>1, <1>4, t \in Tables DEF Copies
  <2>3. AfterTx(k1.tables[t], k.tables[t], u, t) /\ AfterTx(rows2[t], rows[t], u, t) OBVIOUS
  <2>4. Copy(k1.tables[t], after, t, gap)
    BY ONLY <2>2, <2>3, <1>3, <1>7, <1>12, <1>15, CommitCopy
  <2>5. t \in free => Copy(rows2[t], after, t, gap)
    BY ONLY <2>2, <2>3, <1>3, <1>7, <1>12, <1>15, CommitCopy
  <2> QED BY ONLY <2>4, <2>5, <1>20
<1>29. Copies(Tables, q2, after, e.tables, gap) /\ Copies(free, q2, after, rows2, gap)
  BY <1>28 DEF Copies
<1>30. Befores(free, q2, x, gap)
  <2> SUFFICES ASSUME NEW j \in 1 .. Len(q2), q2[j].answer # "accepted",
                      NEW t \in q2[j].tables \cap free
               PROVE  Copy(q2[j].before[t], x, t, gap)
    BY DEF Befores
  <2>1. CASE j = Len(q2)
    <3>1. t \in u.tables /\ q2[j] = u BY <2>1, <1>21
    <3>2. u.before[t] = rows[t] /\ Copy(rows[t], w, t, gap) /\ RowsOf(w.rows, t) = RowsOf(x.rows, t)
      BY <3>1, <1>11
    <3> QED BY ONLY <3>1, <3>2 DEF Copy
  <2>2. CASE j \in 1 .. Len(q)
    <3>1. q2[j] = q[j] BY <2>2, <1>21
    <3> QED BY <2>2, <3>1, <1>4 DEF Befores
  <2> QED BY <2>1, <2>2, <1>21
<1>31. Removed(after, e.removedRows, gap)
  <2> SUFFICES ASSUME NEW t \in Tables, NEW id \in e.removedRows[t], id \in DOMAIN after.rows
               PROVE  \A v \in Tables : <<v, id>> \in gap
    BY DEF Removed
  <2>1. id \in k.removedRows[t] BY <1>19, <1>20
  <2>2. CASE id \in DOMAIN w.rows BY <2>1, <2>2, <1>4 DEF Removed
  <2>3. CASE id \notin DOMAIN w.rows
    <3>1. id \in DOMAIN u.put BY <2>3, <1>16
    <3>2. id < next BY <2>1, <1>9
    <3>3. id \in Nat BY <3>1, <1>7, UpdateFields, FirebaseAssumption DEF Id
    <3>4. ~(next <= id) BY ONLY <3>2, <3>3, <1>7
    <3>5. WrittenAgain(u, next, w, gap) BY <1>3
    <3> QED BY <2>3, <3>1, <3>4, <3>5 DEF WrittenAgain
  <2> QED BY <2>2, <2>3
<1>32. TasksSay(free, q2, after, e.tasks, gap)
  <2>0. e.tasks = k.tasks BY ONLY <1>19, <1>20
  <2> SUFFICES ASSUME NEW i \in 1 .. Len(k.tasks), NEW t \in DOMAIN k.tasks[i] \cap free
               PROVE  DiffSays(k.tasks[i][t], after, t, gap) /\ Unlocked(q2, t)
    BY <2>0 DEF TasksSay
  <2>1. DiffSays(k.tasks[i][t], w, t, gap) /\ Unlocked(q, t) BY <1>4 DEF TasksSay
  <2>2. t \notin u.tables BY <1>11
  <2>3. RowsOf(after.rows, t) = RowsOf(w.rows, t)
    BY ONLY <2>2, <1>3, <1>7, <1>13, <1>15, OtherTable
  <2>4. DiffSays(k.tasks[i][t], after, t, gap) BY ONLY <2>1, <2>3 DEF DiffSays
  <2>5. ASSUME NEW j, Live(q2, j) PROVE t \notin q2[j].tables
    <3>1. j \in 1 .. Len(q2) /\ q2[j].answer # "failed" BY <2>5 DEF Live
    <3>2. CASE j = Len(q2) BY ONLY <3>2, <2>2, <1>21
    <3>3. CASE j \in 1 .. Len(q)
      <4>1. q2[j] = q[j] /\ Live(q, j) BY ONLY <3>1, <3>3, <1>21 DEF Live
      <4> QED BY <4>1, <2>1 DEF Unlocked
    <3> QED BY ONLY <3>1, <3>2, <3>3, <1>21
  <2> QED BY <2>4, <2>5 DEF Unlocked
<1> QED
  BY ONLY <1>1, <1>18, <1>22, <1>24, <1>25, <1>26, <1>29, <1>30, <1>31, <1>32 DEF WriterState

\* A writer begins with what the server has.
LEMMA WriterLoaded ==
    ASSUME NEW s \in Seq(Version), Len(s) >= 1, NEW k, NEW gap, NEW next, NEW free \in SUBSET Tables,
           k.revision = s[Len(s)].rev,
           \A t \in Tables : k.tables[t] = RowsOf(s[Len(s)].rows, t),
           \A t \in Tables : k.removedRows[t] = {}, k.tasks = <<>>,
           \A t \in Tables : \A id \in DOMAIN k.tables[t] : id < next
    PROVE  WriterState(free, s, Len(s), <<>>, k, k.tables, gap, next)
<1>1. PICK x : x = s[Len(s)] OBVIOUS
<1>2. PICK q : q = <<>> OBVIOUS
<1>3. q \in Seq(Update) /\ Len(q) = 0 /\ ~\E i : i \in 1 .. Len(q) BY <1>2
<1>4. x \in Version /\ Len(s) \in 1 .. Len(s) /\ Len(s) \in Nat BY <1>1
<1>5. View(x, q) = x BY <1>2, ViewOfNone
<1>6. x.rev \in Nat BY <1>4, VersionFields
<1>7. Count(q, k.revision, x.rev, 0, 0) BY <1>1, <1>3, <1>6 DEF Count, Split
<1>8. 0 \in 0 .. Len(q) BY <1>3
<1>9. Apart(q) BY <1>2 DEF Apart
<1>10. Under(s, q, Len(s))
  <2>1. ~\E v : v \in Len(s) + 1 .. Len(s) BY <1>4
  <2>2. ASSUME NEW v \in Len(s) .. Len(s), NEW id PROVE SameAt(s[v].rows, s[Len(s)].rows, id)
    <3>1. v = Len(s) BY <1>4
    <3> QED BY <3>1 DEF SameAt
  <2> QED BY <1>3, <1>4, <1>9, <2>1, <2>2 DEF Under
<1>11. Homes(q, x) /\ Befores(free, q, x, gap) BY <1>3 DEF Homes, Befores
<1>12. \A id \in DOMAIN x.rows : id < next
  <2> SUFFICES ASSUME NEW id \in DOMAIN x.rows PROVE id < next OBVIOUS
  <2>1. x.rows[id].table \in Tables BY <1>4, VersionFields
  <2>2. PICK t \in Tables : t = x.rows[id].table BY <2>1
  <2>3. id \in DOMAIN RowsOf(x.rows, t) BY <2>2, RowsOfIs DEF IsRowsOf
  <2> QED BY <1>1, <2>3
<1>13. Small(q, x, k.removedRows, next) BY <1>3, <1>12 DEF Small
<1>14. ASSUME NEW t \in Tables PROVE Copy(k.tables[t], x, t, gap)
  <2>1. k.tables[t] = RowsOf(x.rows, t) BY <1>1
  <2> QED BY ONLY <2>1 DEF Copy, Close
<1>15. Copies(Tables, q, x, k.tables, gap) /\ Copies(free, q, x, k.tables, gap)
  BY <1>14 DEF Copies
<1>16. Removed(x, k.removedRows, gap) BY DEF Removed
<1>17. TasksSay(free, q, x, k.tasks, gap)
  <2>1. ~\E i : i \in 1 .. Len(k.tasks) OBVIOUS
  <2> QED BY ONLY <2>1 DEF TasksSay
<1> QED
  BY ONLY <1>1, <1>2, <1>5, <1>7, <1>8, <1>10, <1>11, <1>13, <1>15, <1>16, <1>17
  DEF WriterState

-----------------------------------------------------------------------------
(* The invariant of the writer, if there is one.                           *)

\* Readers do not change the server.
LEMMA ReaderQuiet ==
    ASSUME NEW c, c \notin Writers, StepOf(c)
    PROVE  server' = server
BY DEF StepOf, ServerStays, IsConnect, IsReload, IsLoaded, IsCrash, IsFirstData, IsDeliver,
       IsExternal

LEMMA LoadStep ==
    ASSUME OneWriter, Basics, LoadInv, NEW c \in Clients, StepOf(c)
    PROVE  LoadInv'
<1>1. TypeInv /\ ClientInv /\ SentInv BY DEF Basics
<1>2. \A d \in Writers : d \in Clients /\ LoadOK(d) BY WritersAreClients DEF LoadInv
<1>3. OthersStay(c) BY <1>1, StepGrows
<1>4. ASSUME NEW d \in Writers, d # c PROVE LoadOK(d)'
  <2>1. c \notin Writers BY <1>4 DEF OneWriter
  <2>2. server' = server BY <2>1, ReaderQuiet
  <2>3. Now' = Now BY <2>2 DEF Now
  <2>4. /\ status'[d] = status[d] /\ loaded'[d] = loaded[d] /\ store'[d] = store[d]
    BY <1>2, <1>3, <1>4 DEF OthersStay
  <2>5. LoadOK(d) BY <1>2
  <2> QED BY ONLY <2>3, <2>4, <2>5 DEF LoadOK
<1>5. SUFFICES ASSUME c \in Writers, status'[c] = "loading" PROVE LoadOK(c)'
  BY <1>4 DEF LoadInv, LoadOK
<1>6. LoadOK(c) /\ ClientOK(c) BY <1>1, <1>2, <1>5 DEF ClientInv
<1>7. /\ server \in Seq(Version) /\ Now \in Version
  BY <1>1, VersionsTyped, TypeIs DEF TypeInv
<1>8. CASE IsConnect(c)
  <2>1. Now' = Now BY <1>8 DEF IsConnect, ServerStays, Now
  <2>2. store'[c] = NewStore(Now.rev) /\ loaded'[c] = {} BY <1>8 DEF IsConnect
  <2>3. store'[c].revision = Now.rev /\ \A t \in Tables : store'[c].removedRows[t] = {}
    BY <2>2, <1>7, VersionFields, NewStoreTyped
  <2> QED BY <2>1, <2>2, <2>3 DEF LoadOK
<1>9. ASSUME NEW t \in Tables, IsReload(c, t) PROVE LoadOK(c)'
  <2>1. Now' = Now BY <1>9 DEF IsReload, ServerStays, Now
  <2>2. /\ status[c] = "loading" /\ loaded'[c] = loaded[c] \cup {t}
        /\ store'[c].tables[t] = RowsOf(Now.rows, t)
        /\ \A u \in Tables : u # t => store'[c].tables[u] = store[c].tables[u]
        /\ store'[c].revision = store[c].revision
        /\ store'[c].removedRows = store[c].removedRows
    BY <1>9 DEF IsReload
  <2>3. loaded[c] \subseteq Tables BY <1>1, ClientTyped DEF Typed
  <2>4. ASSUME NEW u \in loaded'[c] PROVE store'[c].tables[u] = RowsOf(Now.rows, u)
    <3>1. CASE u = t BY <2>2, <3>1
    <3>2. CASE u # t BY <2>2, <2>3, <2>4, <3>2, <1>6 DEF LoadOK
    <3> QED BY <3>1, <3>2
  <2> QED BY <1>6, <2>1, <2>2, <2>4 DEF LoadOK
<1>11. ASSUME NEW tables, IsEnd(c, tables) PROVE LoadOK(c)'
  BY <1>5, <1>6, <1>11 DEF IsEnd, Idle, ServerStays, LoadOK, Now
<1>10. CASE /\ ~IsConnect(c) /\ ~\E t \in Tables : IsReload(c, t)
            /\ ~\E tables : IsEnd(c, tables)
  <2>1. status'[c] # "loading"
    <3>1. CASE \/ IsLoaded(c) \/ IsCrash(c) \/ \E view, k : IsFirstData(c, view, k)
               \/ \E v \in at[c] + 1 .. Len(server) : \E b, a : IsDeliver(c, v, b, a)
               \/ \E i \in DOMAIN store[c].tasks : IsExternal(c, i)
               \/ \E u, k, b, a : IsCommit(c, u, k, b, a)
               \/ \E tables : IsBegin(c, tables)
      BY <3>1 DEF IsBegin, Idle, IsLoaded, IsCrash, IsFirstData, IsDeliver, IsExternal, IsCommit
    <3>2. ASSUME NEW i \in DOMAIN sent[c],
                 \/ IsAccept(c, i) \/ IsRefuse(c, i)
                 \/ \E b, a : IsAccepted(c, i, b, a)
                 \/ \E b, a, h : IsRefused(c, i, b, a, h)
                 \/ \E view : IsReloaded(c, i, view)
          PROVE  status'[c] # "loading"
      <4>1. status'[c] = status[c]
        BY <3>2 DEF IsAccept, IsRefuse, IsAnswer, IsAccepted, IsRefused, IsReloaded, Rest
      <4>2. sent[c] # <<>> BY <3>2
      <4> QED BY <4>1, <4>2, <1>6 DEF ClientOK
    <3> QED BY <1>10, <3>1, <3>2 DEF StepOf
  <2> QED BY <2>1, <1>5
<1> QED BY <1>8, <1>9, <1>10, <1>11

\* What is known of the writer in a step that it takes.
Writing(c) ==
    /\ WriterOK(c) /\ status[c] = "ready"
    /\ server \in Seq(Version) /\ sent[c] \in Seq(Update) /\ store[c] \in Store
    /\ SentOK(sent[c], Len(server)) /\ Now = server[Len(server)]
    /\ Len(server) \in Nat /\ at[c] \in 1 .. Len(server) /\ nextId[c] \in Nat /\ nextId'[c] \in Nat
    /\ sent'[c] \in Seq(Update) /\ listening[c] \in BOOLEAN

LEMMA WriterStateOf ==
    ASSUME NEW c, Writing(c)
    PROVE  /\ WriterState(Free(c), server, at[c], sent[c], store[c], cache[c], missed[c], nextId[c])
           /\ Free(c) \in SUBSET Tables
BY DEF Writing, WriterOK, Free

LEMMA WritingLoads ==
    ASSUME NEW c \in Clients, server \in Seq(Version), Len(server) >= 1, Now = server[Len(server)],
           LoadOK(c), sent[c] = <<>>, store[c].tasks = <<>>, IsLoaded(c)
    PROVE  WriterOK(c)'
<1>1. /\ server' = server /\ sent'[c] = <<>> /\ at'[c] = Len(server)
      /\ store'[c].revision = server[Len(server)].rev
      /\ cache'[c] = store'[c].tables /\ store'[c].tasks = <<>>
      /\ \A t \in Tables : store'[c].tables[t] = RowsOf(server[Len(server)].rows, t)
      /\ \A t \in Tables : store'[c].removedRows[t] = {}
      /\ \A t \in Tables : \A id \in DOMAIN store'[c].tables[t] : id < nextId'[c]
  BY DEF IsLoaded, LoadOK, ServerStays
<1>2. server \in Seq(Version) /\ Len(server) >= 1 OBVIOUS
<1>3. PICK free : free = Tables \ overtaken'[c] OBVIOUS
<1>4. free \in SUBSET Tables BY ONLY <1>3
<1>5. WriterState(free, server, Len(server), <<>>, store'[c], store'[c].tables, missed'[c],
                  nextId'[c])
  BY ONLY <1>1, <1>2, <1>4, WriterLoaded
<1> QED BY ONLY <1>1, <1>3, <1>5 DEF WriterOK, Free

LEMMA WritingFirst ==
    ASSUME NEW c, Writing(c), NEW view, NEW k, IsFirstData(c, view, k)
    PROVE  WriterOK(c)'
<1>1. /\ WriterState(Free(c), server, at[c], sent[c], store[c], cache[c], missed[c], nextId[c])
      /\ Free(c) \in SUBSET Tables
  BY WriterStateOf
<1>2. /\ server \in Seq(Version) /\ sent[c] \in Seq(Update) /\ store[c] \in Store
      /\ Len(server) \in Nat
  BY DEF Writing
<1>3. /\ server' = server /\ at'[c] = Len(server) /\ store'[c] = k
      /\ view = View(server[Len(server)], sent[c]) /\ view \in Version
      /\ k = onChange_(store[c], Result(store[c], view))
      /\ missed[c] \subseteq missed'[c]
      /\ cache'[c] = cache[c] /\ nextId'[c] = nextId[c] /\ sent'[c] = sent[c]
      /\ overtaken'[c] = overtaken[c] /\ Free(c) \subseteq Free(c)
  BY DEF IsFirstData, ServerStays, LocksStay, Writing
<1>4. Len(server) \in at[c] .. Len(server) /\ view.rev = store[c].revision
  BY ONLY <1>1, <1>2, <1>3, WriterSees
<1>5. k = store[c]
  <2>1. ~Heeds(store[c], view) BY <1>4 DEF Heeds
  <2> QED BY ONLY <2>1, <1>2, <1>3, OnChangeNothing
<1>6. Alike(k, store[c]) BY <1>5 DEF Alike
<1>7. WriterState(Free(c), server, Len(server), sent[c], k, cache[c], missed'[c], nextId[c])
  BY ONLY <1>1, <1>2, <1>3, <1>4, <1>6, WriterLater
<1> QED BY ONLY <1>3, <1>7 DEF WriterOK, Free

LEMMA WritingDeliver ==
    ASSUME NEW c, Writing(c), NEW v \in at[c] + 1 .. Len(server), NEW b, NEW a,
           IsDeliver(c, v, b, a)
    PROVE  WriterOK(c)'
<1>1. /\ WriterState(Free(c), server, at[c], sent[c], store[c], cache[c], missed[c], nextId[c])
      /\ Free(c) \in SUBSET Tables
  BY WriterStateOf
<1>2. /\ server \in Seq(Version) /\ sent[c] \in Seq(Update) /\ store[c] \in Store
      /\ Len(server) \in Nat /\ at[c] \in 1 .. Len(server)
  BY DEF Writing
<1>3. /\ server' = server /\ at'[c] = v /\ b \in Version
      /\ b = View(server[at[c]], sent[c]) /\ a = View(server[v], sent[c])
      /\ store'[c] = Events(store[c], b, a)
      /\ missed[c] \subseteq missed'[c]
      /\ cache'[c] = cache[c] /\ nextId'[c] = nextId[c] /\ sent'[c] = sent[c]
      /\ overtaken'[c] = overtaken[c] /\ Free(c) \subseteq Free(c)
  BY DEF IsDeliver, ServerStays, LocksStay, WasTold
<1>4. v \in at[c] .. Len(server) /\ at[c] \in at[c] .. Len(server) BY ONLY <1>2, v \in at[c] + 1 .. Len(server)
<1>5. \A w \in at[c] .. Len(server) : View(server[w], sent[c]) = View(server[Len(server)], sent[c])
  BY ONLY <1>1, <1>2, WriterSees
<1>6. a = b BY ONLY <1>3, <1>4, <1>5
<1>7. Alike(store'[c], store[c]) BY ONLY <1>2, <1>3, <1>6, NoEvents
<1>8. WriterState(Free(c), server, v, sent[c], store'[c], cache[c], missed'[c], nextId[c])
  BY ONLY <1>1, <1>2, <1>3, <1>4, <1>7, WriterLater
<1> QED BY ONLY <1>3, <1>8 DEF WriterOK, Free

LEMMA WritingExternal ==
    ASSUME NEW c, Writing(c), NEW i, IsExternal(c, i)
    PROVE  WriterOK(c)'
<1>1. /\ WriterState(Free(c), server, at[c], sent[c], store[c], cache[c], missed[c], nextId[c])
      /\ Free(c) \in SUBSET Tables
  BY WriterStateOf
<1>2. server \in Seq(Version) /\ sent[c] \in Seq(Update) /\ store[c] \in Store
  BY DEF Writing
<1>3. /\ server' = server /\ at'[c] = at[c] /\ i \in 1 .. Len(store[c].tasks)
      /\ \A t \in Tables : Applied(cache'[c][t], cache[c][t], store[c].tasks[i], t)
      /\ store'[c].tasks = RemoveAt(store[c].tasks, i)
      /\ store'[c].tables = store[c].tables /\ store'[c].revision = store[c].revision
      /\ store'[c].removedRows = store[c].removedRows
      /\ nextId'[c] = nextId[c] /\ sent'[c] = sent[c] /\ missed'[c] = missed[c]
      /\ overtaken[c] \subseteq overtaken'[c]
  BY DEF IsExternal, ServerStays
<1>4. PICK free : free = Tables \ overtaken'[c] OBVIOUS
<1>5. free \in SUBSET Tables /\ free \subseteq Free(c) BY ONLY <1>3, <1>4 DEF Free
<1>6. WriterState(free, server, at[c], sent[c], store[c], cache[c], missed[c], nextId[c])
  <2>1. Alike(store[c], store[c]) /\ missed[c] \subseteq missed[c] BY ONLY TRUE DEF Alike
  <2>2. at[c] \in at[c] .. Len(server) BY DEF Writing
  <2> QED BY ONLY <1>1, <1>2, <1>5, <2>1, <2>2, WriterLater
<1>7. WriterState(free, server, at[c], sent[c], store'[c], cache'[c], missed[c], nextId[c])
  BY ONLY <1>2, <1>3, <1>5, <1>6, WriterExternal
<1> QED BY ONLY <1>3, <1>4, <1>7 DEF WriterOK, Free

LEMMA WritingCommit ==
    ASSUME NEW c, Writing(c), OwnsClient(c), NEW u, NEW k, NEW b, NEW a, IsCommit(c, u, k, b, a)
    PROVE  WriterOK(c)'
<1>1. /\ WriterState(Free(c), server, at[c], sent[c], store[c], cache[c], missed[c], nextId[c])
      /\ Free(c) \in SUBSET Tables
  BY WriterStateOf
<1>2. /\ server \in Seq(Version) /\ sent[c] \in Seq(Update) /\ store[c] \in Store
      /\ SentOK(sent[c], Len(server)) /\ nextId[c] \in Nat /\ nextId'[c] \in Nat
  BY DEF Writing
<1>3. /\ server' = server /\ at'[c] = at[c] /\ missed[c] \subseteq missed'[c]
      /\ overtaken[c] \subseteq overtaken'[c]
      /\ u \in Update /\ UpdateOK(u) /\ u.rev = store[c].revision + 1 /\ u.answer = "none"
      /\ nextId'[c] >= nextId[c]
      /\ \A t \in Tables : AfterTx(cache'[c][t], cache[c][t], u, t)
      /\ k \in Store /\ k.revision = u.rev /\ k.removedRows = store[c].removedRows
      /\ k.tasks = store[c].tasks
      /\ \A t \in Tables : AfterTx(k.tables[t], store[c].tables[t], u, t)
      /\ sent'[c] = Append(sent[c], u)
  BY DEF IsCommit
<1>4. WritesKnown(u, cache[c], nextId[c], nextId'[c])
  BY DEF IsCommit, FromCache, WritesKnown
<1>8. PICK free : free = Tables \ overtaken'[c] OBVIOUS
<1>9. free \in SUBSET Tables /\ free \subseteq Free(c) BY ONLY <1>3, <1>8 DEF Free
<1>10. WriterState(free, server, at[c], sent[c], store[c], cache[c], missed'[c], nextId[c])
  <2>1. Alike(store[c], store[c]) BY ONLY TRUE DEF Alike
  <2>2. at[c] \in at[c] .. Len(server) BY DEF Writing
  <2>3. PICK gap2 : gap2 = missed'[c] OBVIOUS
  <2>4. missed[c] \subseteq gap2 BY ONLY <1>3, <2>3
  <2>5. WriterState(free, server, at[c], sent[c], store[c], cache[c], gap2, nextId[c])
    BY ONLY <1>1, <1>2, <1>9, <2>1, <2>2, <2>4, WriterLater
  <2> QED BY ONLY <2>3, <2>5
<1>11. PICK own : Owned(own, server, at[c], sent[c], store[c].tasks, cache[c], nextId[c])
  BY DEF OwnsClient
<1>12. WrittenAgain(u, nextId[c], View(server[at[c]], sent[c]), missed'[c])
  BY DEF IsCommit
<1>5. CommitFree(free, u, sent[c], store[c].tasks, cache[c])
  <2>1. DOMAIN sent[c] = 1 .. Len(sent[c]) BY <1>2
  <2>2. DOMAIN store[c].tasks = 1 .. Len(store[c].tasks) BY <1>2, StoreFields
  <2>3. \A t \in u.tables :
          /\ \A j \in DOMAIN sent[c] : t \notin sent[c][j].tables
          /\ t \notin overtaken'[c] =>
                \A j \in DOMAIN store[c].tasks : t \notin DOMAIN store[c].tasks[j]
          /\ u.before[t] = cache[c][t]
    BY DEF IsCommit
  <2> QED BY ONLY <1>8, <2>1, <2>2, <2>3 DEF CommitFree
<1>6. \/ store'[c] = k
      \/ store'[c] = Events(k, View(server[at[c]], sent[c]), View(server[at[c]], sent'[c]))
  <2>1. /\ store'[c] = IF listening[c] THEN Events(k, b, a) ELSE k
        /\ b = View(server[at[c]], sent[c]) /\ a = View(server[at[c]], Append(sent[c], u))
    BY DEF IsCommit, WasTold
  <2> QED BY ONLY <2>1, <1>3
<1>7. WriterState(free, server, at[c], sent'[c], store'[c], cache'[c], missed'[c], nextId'[c])
  <2>1. PICK q2, e, rows2, next2 :
            q2 = sent'[c] /\ e = store'[c] /\ rows2 = cache'[c] /\ next2 = nextId'[c]
    OBVIOUS
  <2>2. PICK q \in Seq(Update), h \in Store, next \in Nat :
            q = sent[c] /\ h = store[c] /\ next = nextId[c]
    BY <1>2
  <2>3. PICK n, gap, rows : n = at[c] /\ gap = missed'[c] /\ rows = cache[c] OBVIOUS
  <2>4. /\ WriterState(free, server, n, q, h, rows, gap, next) /\ SentOK(q, Len(server))
        /\ server \in Seq(Version) /\ q \in Seq(Update) /\ h \in Store /\ next \in Nat
        /\ free \in SUBSET Tables /\ u \in Update /\ UpdateOK(u) /\ u.answer = "none"
        /\ k \in Store /\ k.revision = u.rev
        /\ u.rev = h.revision + 1 /\ next2 \in Nat /\ next2 >= next
        /\ WritesKnown(u, rows, next, next2) /\ CommitFree(free, u, q, h.tasks, rows)
        /\ Owned(own, server, n, q, h.tasks, rows, next)
        /\ WrittenAgain(u, next, View(server[n], q), gap)
        /\ k.removedRows = h.removedRows /\ k.tasks = h.tasks
        /\ \A t \in Tables : AfterTx(k.tables[t], h.tables[t], u, t)
        /\ \A t \in Tables : AfterTx(rows2[t], rows[t], u, t)
        /\ q2 = Append(q, u)
        /\ e = k \/ e = Events(k, View(server[n], q), View(server[n], q2))
    BY ONLY <1>9, <1>10, <1>11, <1>12, <1>2, <1>3, <1>4, <1>5, <1>6, <2>1, <2>2, <2>3
  <2>5. WriterState(free, server, n, q2, e, rows2, gap, next2)
    BY ONLY <2>4, WriterCommit
  <2> QED BY ONLY <2>1, <2>3, <2>5
<1> QED BY ONLY <1>3, <1>7, <1>8 DEF WriterOK, Free

LEMMA WritingAccept ==
    ASSUME NEW c, Writing(c), NEW i, IsAccept(c, i)
    PROVE  Now.rev < sent[c][i].rev /\ WriterOK(c)'
<1>1. /\ WriterState(Free(c), server, at[c], sent[c], store[c], cache[c], missed[c], nextId[c])
      /\ Free(c) \in SUBSET Tables
  BY WriterStateOf
<1>2. /\ server \in Seq(Version) /\ sent[c] \in Seq(Update) /\ store[c] \in Store
      /\ SentOK(sent[c], Len(server)) /\ sent'[c] \in Seq(Update) /\ Now = server[Len(server)]
  BY DEF Writing
<1>3. /\ server' = Append(server, Overlaid(Now, sent[c][i]))
      /\ sent'[c][i].version = Len(server) + 1
      /\ sent[c][i].answer = "none" /\ Answered(sent'[c], sent[c], i, "accepted")
      /\ at'[c] = at[c] /\ store'[c] = store[c] /\ cache'[c] = cache[c]
      /\ nextId'[c] = nextId[c] /\ missed'[c] = missed[c] /\ overtaken'[c] = overtaken[c]
  BY DEF IsAccept, IsAnswer, LocksStay
<1>4. i \in 1 .. Len(sent[c]) BY <1>3 DEF Answered
<1>6. Taken(server', server, sent[c][i]) BY ONLY <1>2, <1>3 DEF Taken
<1>7. /\ server[Len(server)].rev < sent[c][i].rev
      /\ WriterState(Free(c), server', at[c], sent'[c], store[c], cache[c], missed[c], nextId[c])
  <2>1. PICK q2 : q2 = sent'[c] OBVIOUS
  <2>2. PICK s2 : s2 = server' OBVIOUS
  <2>3. /\ q2 \in Seq(Update) /\ Answered(q2, sent[c], i, "accepted")
        /\ q2[i].version = Len(server) + 1 /\ Taken(s2, server, sent[c][i])
    BY ONLY <1>2, <1>3, <1>6, <2>1, <2>2
  <2>4. AfterAccept(Free(c), s2, server, at[c], q2, store[c], cache[c], missed[c], nextId[c], sent[c][i])
    BY ONLY <1>1, <1>2, <1>3, <1>4, <2>3, WriterAccept
  <2> QED BY ONLY <2>1, <2>2, <2>4 DEF AfterAccept
<1>8. WriterOK(c)' BY ONLY <1>3, <1>7 DEF WriterOK, Free
<1> QED BY ONLY <1>2, <1>7, <1>8

LEMMA WritingRefuse ==
    ASSUME NEW c, Writing(c), NEW i, IsRefuse(c, i)
    PROVE  WriterOK(c)'
<1>1. /\ WriterState(Free(c), server, at[c], sent[c], store[c], cache[c], missed[c], nextId[c])
      /\ Free(c) \in SUBSET Tables
  BY WriterStateOf
<1>2. /\ server \in Seq(Version) /\ sent[c] \in Seq(Update) /\ store[c] \in Store
      /\ sent'[c] \in Seq(Update)
  BY DEF Writing
<1>3. /\ server' = server
      /\ sent[c][i].answer = "none" /\ Answered(sent'[c], sent[c], i, "refused")
      /\ at'[c] = at[c] /\ store'[c] = store[c] /\ cache'[c] = cache[c]
      /\ nextId'[c] = nextId[c] /\ missed'[c] = missed[c] /\ overtaken'[c] = overtaken[c]
  BY DEF IsRefuse, IsAnswer, LocksStay
<1>4. i \in 1 .. Len(sent[c]) BY <1>3 DEF Answered
<1>5. WriterState(Free(c), server, at[c], sent'[c], store[c], cache[c], missed[c], nextId[c])
  BY ONLY <1>1, <1>2, <1>3, <1>4, WriterRefuse
<1> QED BY ONLY <1>3, <1>5 DEF WriterOK, Free

LEMMA WritingAccepted ==
    ASSUME NEW c, Writing(c), NEW i, NEW b, NEW a, IsAccepted(c, i, b, a)
    PROVE  WriterOK(c)'
<1>1. /\ WriterState(Free(c), server, at[c], sent[c], store[c], cache[c], missed[c], nextId[c])
      /\ Free(c) \in SUBSET Tables
  BY WriterStateOf
<1>2. /\ server \in Seq(Version) /\ sent[c] \in Seq(Update) /\ store[c] \in Store
      /\ SentOK(sent[c], Len(server)) /\ Len(server) \in Nat /\ at[c] \in 1 .. Len(server)
  BY DEF Writing
<1>3. /\ server' = server /\ i \in 1 .. Len(sent[c]) /\ sent[c][i].answer = "accepted"
      /\ \A j \in 1 .. i - 1 : sent[c][j].answer = "failed"
      /\ sent'[c] = RemoveAt(sent[c], i)
      /\ at'[c] \in {at[c], sent[c][i].version} /\ at'[c] >= at[c]
      /\ at'[c] >= sent[c][i].version
      /\ b = View(server[at[c]], sent[c]) /\ a = View(server[at'[c]], sent'[c]) /\ b \in Version
      /\ store'[c] = IF listening[c] THEN Events(store[c], b, a) ELSE store[c]
      /\ cache'[c] = cache[c] /\ nextId'[c] = nextId[c] /\ missed'[c] = missed[c]
      /\ overtaken'[c] = overtaken[c]
  BY DEF IsAccepted, ServerStays, LocksStay, WasTold
<1>4. sent[c][i].version \in 1 .. Len(server)
  <2>1. DOMAIN sent[c] = 1 .. Len(sent[c]) BY <1>2
  <2> QED BY ONLY <2>1, <1>2, <1>3 DEF SentOK
<1>5. at'[c] \in at[c] .. Len(server) /\ sent[c][i].version \in 1 .. at'[c]
  BY ONLY <1>2, <1>3, <1>4
<1>6. /\ View(server[at'[c]], sent'[c]) = View(server[at[c]], sent[c])
      /\ WriterState(Free(c), server, at'[c], sent'[c], store[c], cache[c], missed[c], nextId[c])
  BY ONLY <1>1, <1>2, <1>3, <1>5, WriterAccepted
<1>7. Alike(store'[c], store[c])
  <2>1. CASE listening[c]
    <3>1. store'[c] = Events(store[c], b, b) BY ONLY <2>1, <1>3, <1>6
    <3> QED BY ONLY <3>1, <1>2, <1>3, NoEvents
  <2>2. CASE ~listening[c]
    <3>1. store'[c] = store[c] BY ONLY <2>2, <1>3
    <3> QED BY <3>1 DEF Alike
  <2> QED BY <2>1, <2>2
<1>8. sent'[c] \in Seq(Update) /\ at'[c] \in at'[c] .. Len(server) /\ missed[c] \subseteq missed[c]
      /\ Free(c) \subseteq Free(c)
  <2>1. sent'[c] \in Seq(Update) BY DEF Writing
  <2> QED BY ONLY <2>1, <1>2, <1>5
<1>9. WriterState(Free(c), server, at'[c], sent'[c], store'[c], cache[c], missed[c], nextId[c])
  BY ONLY <1>1, <1>2, <1>6, <1>7, <1>8, WriterLater
<1> QED BY ONLY <1>3, <1>9 DEF WriterOK, Free

LEMMA WritingRefused ==
    ASSUME NEW c, Writing(c), NEW i, NEW b, NEW a, NEW h, IsRefused(c, i, b, a, h), ~outOfStep'
    PROVE  WriterOK(c)'
<1>1. /\ WriterState(Free(c), server, at[c], sent[c], store[c], cache[c], missed[c], nextId[c])
      /\ Free(c) \in SUBSET Tables
  BY WriterStateOf
<1>2. /\ server \in Seq(Version) /\ sent[c] \in Seq(Update) /\ store[c] \in Store
      /\ SentOK(sent[c], Len(server)) /\ sent'[c] \in Seq(Update)
  BY DEF Writing
<1>3. /\ server' = server /\ outOfStep' = (outOfStep \/ i < Len(sent[c]))
      /\ sent[c][i].answer = "refused" /\ Answered(sent'[c], sent[c], i, "failed")
      /\ b = View(server[at[c]], sent[c]) /\ a = View(server[at[c]], sent'[c])
      /\ h = IF listening[c] THEN Events(store[c], b, a) ELSE store[c]
      /\ store'[c].revision = sent[c][i].rev - 1
      /\ store'[c].tables = h.tables /\ store'[c].tasks = h.tasks
      /\ store'[c].removedRows = h.removedRows
      /\ missed'[c] = missed[c] \cup (Tables \X sent[c][i].gone)
      /\ at'[c] = at[c] /\ cache'[c] = cache[c] /\ nextId'[c] = nextId[c]
      /\ overtaken'[c] = overtaken[c]
  BY DEF IsRefused, LocksStay
<1>4. FailedBefore(sent[c], i) BY DEF IsRefused, FailedBefore
<1>5. i \in 1 .. Len(sent[c]) BY <1>3 DEF Answered
<1>6. i = Len(sent[c])
  <2>1. ~(i < Len(sent[c])) BY <1>3
  <2> QED BY <2>1, <1>2, <1>5
<1>7. \/ h = store[c]
      \/ h = Events(store[c], View(server[at[c]], sent[c]), View(server[at[c]], sent'[c]))
  BY ONLY <1>3
<1>8. /\ missed[c] \subseteq missed'[c]
      /\ \A t \in Tables : \A id \in sent[c][i].gone : <<t, id>> \in missed'[c]
  BY ONLY <1>3
<1>9. WriterState(Free(c), server, at[c], sent'[c], store'[c], cache[c], missed'[c], nextId[c])
  <2>1. PICK q : q = sent[c] OBVIOUS
  <2>2. PICK q2 : q2 = sent'[c] OBVIOUS
  <2>3. PICK k2 : k2 = store'[c] OBVIOUS
  <2>4. PICK gap2 : gap2 = missed'[c] OBVIOUS
  <2>5. /\ q \in Seq(Update) /\ q2 \in Seq(Update) /\ SentOK(q, Len(server))
        /\ WriterState(Free(c), server, at[c], q, store[c], cache[c], missed[c], nextId[c])
        /\ i \in 1 .. Len(q) /\ i = Len(q) /\ q[i].answer = "refused" /\ FailedBefore(q, i)
        /\ Answered(q2, q, i, "failed")
        /\ \/ h = store[c]
           \/ h = Events(store[c], View(server[at[c]], q), View(server[at[c]], q2))
        /\ missed[c] \subseteq gap2 /\ \A t \in Tables : \A id \in q[i].gone : <<t, id>> \in gap2
        /\ k2.revision = q[i].rev - 1 /\ k2.tables = h.tables /\ k2.tasks = h.tasks
        /\ k2.removedRows = h.removedRows
    BY ONLY <1>1, <1>2, <1>3, <1>4, <1>5, <1>6, <1>7, <1>8, <2>1, <2>2, <2>3, <2>4
  <2>6. WriterState(Free(c), server, at[c], q2, k2, cache[c], gap2, nextId[c])
    BY ONLY <1>1, <1>2, <2>5, WriterRefused
  <2> QED BY ONLY <2>2, <2>3, <2>4, <2>6
<1> QED BY ONLY <1>3, <1>9 DEF WriterOK, Free

LEMMA WritingReloaded ==
    ASSUME NEW c, Writing(c), NEW i, NEW view, IsReloaded(c, i, view)
    PROVE  WriterOK(c)'
<1>1. /\ WriterState(Free(c), server, at[c], sent[c], store[c], cache[c], missed[c], nextId[c])
      /\ Free(c) \in SUBSET Tables
  BY WriterStateOf
<1>2. /\ server \in Seq(Version) /\ sent[c] \in Seq(Update) /\ store[c] \in Store
      /\ SentOK(sent[c], Len(server)) /\ Len(server) \in Nat /\ at[c] \in 1 .. Len(server)
      /\ Now = server[Len(server)]
  BY DEF Writing
<1>3. /\ server' = server /\ i \in 1 .. Len(sent[c]) /\ sent[c][i].answer = "failed"
      /\ sent'[c] = RemoveAt(sent[c], i)
      /\ \A t \in Tables : store'[c].tables[t] =
            IF t \in sent[c][i].tables THEN RowsOf(view.rows, t) ELSE store[c].tables[t]
      /\ \A t \in Tables : cache'[c][t] =
            IF t \in sent[c][i].tables THEN sent[c][i].before[t] ELSE cache[c][t]
      /\ store'[c].revision = store[c].revision /\ store'[c].tasks = store[c].tasks
      /\ store'[c].removedRows = store[c].removedRows
      /\ at'[c] = at[c] /\ nextId'[c] = nextId[c] /\ missed'[c] = missed[c]
      /\ overtaken'[c] = overtaken[c]
  BY DEF IsReloaded, ServerStays, LocksStay
<1>4. PICK v : v = IF listening[c] THEN at[c] ELSE Len(server) OBVIOUS
<1>5. v \in at[c] .. Len(server) BY ONLY <1>2, <1>4
<1>6. view = View(server[v], sent[c])
  <2>1. view = View(IF listening[c] THEN server[at[c]] ELSE Now, sent[c]) BY DEF IsReloaded
  <2> QED BY ONLY <2>1, <1>2, <1>4
<1>7. WriterState(Free(c), server, at[c], sent'[c], store'[c], cache'[c], missed[c], nextId[c])
  <2>1. PICK q : q = sent[c] OBVIOUS
  <2>2. PICK p : p = sent'[c] OBVIOUS
  <2>3. PICK k2 : k2 = store'[c] OBVIOUS
  <2>4. PICK rows2 : rows2 = cache'[c] OBVIOUS
  <2>5. /\ q \in Seq(Update) /\ SentOK(q, Len(server))
        /\ WriterState(Free(c), server, at[c], q, store[c], cache[c], missed[c], nextId[c])
        /\ i \in 1 .. Len(q) /\ q[i].answer = "failed" /\ p = RemoveAt(q, i)
        /\ view = View(server[v], q) /\ v \in at[c] .. Len(server)
        /\ server \in Seq(Version) /\ store[c] \in Store /\ Free(c) \in SUBSET Tables
        /\ \A t \in Tables : k2.tables[t] = IF t \in q[i].tables THEN RowsOf(view.rows, t)
                                             ELSE store[c].tables[t]
        /\ \A t \in Tables : rows2[t] = IF t \in q[i].tables THEN q[i].before[t] ELSE cache[c][t]
        /\ k2.revision = store[c].revision /\ k2.tasks = store[c].tasks
        /\ k2.removedRows = store[c].removedRows
    BY ONLY <1>1, <1>2, <1>3, <1>5, <1>6, <2>1, <2>2, <2>3, <2>4
  <2>6. WriterState(Free(c), server, at[c], p, k2, rows2, missed[c], nextId[c])
    BY ONLY <2>5, WriterReloaded
  <2> QED BY ONLY <2>2, <2>3, <2>4, <2>6
<1> QED BY ONLY <1>3, <1>7 DEF WriterOK, Free

LEMMA WritersStep ==
    ASSUME OneWriter, Basics, Basics', LoadInv, OwnInv, WritersInv, NEW c \in Clients, StepOf(c)
    PROVE  WritersInv'
<1> SUFFICES ASSUME ~outOfStep', NEW d \in Writers, status'[d] = "ready" PROVE WriterOK(d)'
  BY DEF WritersInv
<1>1. ~outOfStep BY StaysOut
<1>2. TypeInv /\ TypeInv' /\ ClientInv /\ SentInv BY DEF Basics
<1>3. \A e \in Writers : e \in Clients /\ LoadOK(e) /\ (status[e] = "ready" => WriterOK(e))
  BY <1>1, WritersAreClients DEF WritersInv, LoadInv
<1>4. OthersStay(c) BY <1>2, StepGrows
<1>5. CASE d # c
  <2>1. c \notin Writers BY <1>5 DEF OneWriter
  <2>2. server' = server BY <2>1, ReaderQuiet
  <2>3. /\ status'[d] = status[d] /\ at'[d] = at[d] /\ store'[d] = store[d]
        /\ cache'[d] = cache[d] /\ nextId'[d] = nextId[d] /\ sent'[d] = sent[d]
        /\ missed'[d] = missed[d] /\ overtaken'[d] = overtaken[d]
    BY <1>3, <1>4, <1>5 DEF OthersStay
  <2>4. WriterOK(d) BY <2>3, <1>3
  <2> QED BY ONLY <2>2, <2>3, <2>4 DEF WriterOK, Free
<1>6. SUFFICES ASSUME d = c PROVE WriterOK(c)' BY <1>5
<1>7. c \in Writers /\ status'[c] = "ready" BY <1>6
<1>8. /\ server \in Seq(Version) /\ Len(server) >= 1 /\ Len(server) \in Nat
      /\ Now = server[Len(server)]
  BY <1>2 DEF TypeInv, Now
<1>9. ClientOK(c) /\ LoadOK(c) BY <1>2, <1>3, <1>7 DEF ClientInv
<1>10. CASE IsLoaded(c)
  <2>1. sent[c] = <<>> /\ store[c].tasks = <<>> BY <1>9, <1>10 DEF IsLoaded, ClientOK
  <2> QED BY <2>1, <1>8, <1>9, <1>10, WritingLoads
<1>11. ASSUME status[c] = "ready" PROVE Writing(c)
  <2>1. WriterOK(c) BY <1>3, <1>7, <1>11
  <2>2. /\ sent[c] \in Seq(Update) /\ store[c] \in Store /\ nextId[c] \in Nat
        /\ listening[c] \in BOOLEAN
    BY <1>2, ClientTyped DEF Typed
  <2>3. sent'[c] \in Seq(Update) /\ nextId'[c] \in Nat BY <1>2 DEF TypeInv
  <2>4. SentOK(sent[c], Len(server)) BY <1>2 DEF SentInv
  <2>5. at[c] \in 1 .. Len(server) BY <1>9 DEF ClientOK
  <2> QED BY <2>1, <2>2, <2>3, <2>4, <2>5, <1>8, <1>11 DEF Writing
<1>12. CASE IsConnect(c) \/ IsCrash(c) \/ \E t \in Tables : IsReload(c, t)
  BY <1>7, <1>12 DEF IsConnect, IsCrash, IsReload
<1>13. ASSUME NEW view, NEW k, IsFirstData(c, view, k) PROVE WriterOK(c)'
  <2>1. Writing(c) BY <1>11, <1>13 DEF IsFirstData
  <2> QED BY <2>1, <1>13, WritingFirst
<1>14. ASSUME NEW v \in at[c] + 1 .. Len(server), NEW b, NEW a, IsDeliver(c, v, b, a)
       PROVE  WriterOK(c)'
  <2>1. Writing(c) BY <1>11, <1>14 DEF IsDeliver
  <2> QED BY <2>1, <1>14, WritingDeliver
<1>15. ASSUME NEW i, IsExternal(c, i) PROVE WriterOK(c)'
  <2>1. Writing(c) BY <1>11, <1>15 DEF IsExternal
  <2> QED BY <2>1, <1>15, WritingExternal
<1>16. ASSUME NEW u, NEW k, NEW b, NEW a, IsCommit(c, u, k, b, a) PROVE WriterOK(c)'
  <2>1. Writing(c) /\ status[c] = "ready" BY <1>11, <1>16 DEF IsCommit
  <2>2. OwnsClient(c) BY <2>1, <1>1, <1>7 DEF OwnInv
  <2> QED BY <2>1, <2>2, <1>16, WritingCommit
<1>17. ASSUME NEW i \in DOMAIN sent[c],
              \/ IsAccept(c, i) \/ IsRefuse(c, i)
              \/ \E b, a : IsAccepted(c, i, b, a)
              \/ \E b, a, h : IsRefused(c, i, b, a, h)
              \/ \E view : IsReloaded(c, i, view)
       PROVE  WriterOK(c)'
  <2>1. sent[c] # <<>> BY <1>17
  <2>2. Writing(c) BY <2>1, <1>9, <1>11 DEF ClientOK
  <2> QED
    BY <2>2, <1>17, WritingAccept, WritingRefuse, WritingAccepted, WritingRefused,
       WritingReloaded
<1>18. ASSUME NEW tables, IsBegin(c, tables) \/ IsEnd(c, tables) PROVE WriterOK(c)'
  <2>1. /\ server' = server /\ status'[c] = status[c] /\ at'[c] = at[c]
        /\ store'[c] = store[c] /\ cache'[c] = cache[c] /\ nextId'[c] = nextId[c]
        /\ sent'[c] = sent[c] /\ missed'[c] = missed[c] /\ overtaken'[c] = overtaken[c]
    BY <1>18 DEF IsBegin, IsEnd, Idle, ServerStays
  <2>2. WriterOK(c) BY <2>1, <1>3, <1>7
  <2> QED BY ONLY <2>1, <2>2 DEF WriterOK, Free
<1> QED BY <1>10, <1>12, <1>13, <1>14, <1>15, <1>16, <1>17, <1>18 DEF StepOf

-----------------------------------------------------------------------------
(* No step of the writer gives a row id to two tables.                     *)

\* What is in place stays so when more ids are known.
LEMMA OwnedLater ==
    ASSUME NEW own, NEW own2, NEW next, NEW next2, NEW s, NEW n, NEW q, NEW tasks, NEW rows,
           Owned(own, s, n, q, tasks, rows, next),
           \A id, t : Its(own, id, t, next) => Its(own2, id, t, next2)
    PROVE  Owned(own2, s, n, q, tasks, rows, next2)
<1>1. \A r, t : Mine(own, r, t, next) => Mine(own2, r, t, next2) BY DEF Mine
<1>2. \A v : InPlace(own, v, next) => InPlace(own2, v, next2) BY DEF InPlace
<1>3. ASSUME NEW u, OwnsUpdate(own, u, next) PROVE OwnsUpdate(own2, u, next2)
  BY <1>1, <1>3 DEF OwnsUpdate
<1>4. OwnsTasks(own2, tasks, next2) BY <1>1 DEF Owned, OwnsTasks
<1> QED BY <1>1, <1>2, <1>3, <1>4 DEF Owned

\* A task is about rows of the view.
LEMMA TasksOwned ==
    ASSUME NEW own, NEW next, NEW k \in Store, NEW view \in Version, InPlace(own, view, next),
           OwnsTasks(own, k.tasks, next), NEW e, e = onChange_(k, Result(k, view))
    PROVE  OwnsTasks(own, e.tasks, next)
<1>1. CASE ~Heeds(k, view) BY <1>1, OnChangeNothing
<1>2. CASE Heeds(k, view)
  <2>1. IsChange(e, k, view) BY <1>2, OnChangeIs
  <2>2. CASE e.tasks = k.tasks BY <2>2
  <2>3. ASSUME NEW d, IsTaskFor(d, k, view), e.tasks = Append(k.tasks, d)
        PROVE  OwnsTasks(own, e.tasks, next)
    <3>1. ASSUME NEW t \in DOMAIN d PROVE Mine(own, d[t].put, t, next)
      <4>1. IsDiff(d[t], k, view, t) BY <2>3, <3>1 DEF IsTaskFor
      <4>2. \A id \in DOMAIN d[t].put : id \in DOMAIN view.rows /\ view.rows[id].table = t
        BY <4>1 DEF IsDiff, Comes
      <4> QED BY <4>2 DEF Mine, InPlace
    <3>2. k.tasks \in Seq(Task) /\ d \in Task BY <2>3, StoreFields DEF IsTaskFor
    <3>3. /\ Len(e.tasks) = Len(k.tasks) + 1 /\ e.tasks[Len(k.tasks) + 1] = d
          /\ \A i \in 1 .. Len(k.tasks) : e.tasks[i] = k.tasks[i]
          /\ Len(k.tasks) \in Nat
      BY <2>3, <3>2
    <3>4. \A i \in 1 .. Len(e.tasks) : i \in 1 .. Len(k.tasks) \/ i = Len(k.tasks) + 1 BY <3>3
    <3> QED BY <3>1, <3>3, <3>4 DEF OwnsTasks
  <2> QED BY <2>1, <2>2, <2>3 DEF IsChange
<1> QED BY <1>1, <1>2

LEMMA EventsOwned ==
    ASSUME NEW own, NEW next, NEW k \in Store, NEW before \in Version, NEW after \in Version,
           InPlace(own, after, next), OwnsTasks(own, k.tasks, next),
           NEW e, e = Events(k, before, after)
    PROVE  OwnsTasks(own, e.tasks, next)
<1>1. PICK h : /\ IsRemoved(h, k, before, after)
               /\ e = IF Result(k, before) = Result(k, after) THEN h
                      ELSE onChange_(h, Result(h, after))
  BY EventsIs
<1>2. h \in Store /\ h.tasks = k.tasks BY ONLY <1>1 DEF IsRemoved
<1>3. CASE e = h BY <1>2, <1>3
<1>4. CASE e = onChange_(h, Result(h, after)) BY <1>2, <1>4, TasksOwned
<1> QED BY <1>1, <1>3, <1>4

\* What the client sees is in place, as it is in the versions.
LEMMA SeenOwned ==
    ASSUME NEW s \in Seq(Version), NEW q \in Seq(Update), Apart(q), NEW f, Split(q, f),
           NEW n, NEW tasks, NEW rows, NEW own, NEW next, Owned(own, s, n, q, tasks, rows, next),
           NEW v \in n .. Len(s), v \in 1 .. Len(s)
    PROVE  InPlace(own, View(s[v], q), next)
<1>1. s[v] \in Version OBVIOUS
<1>2. Sees(View(s[v], q), s[v], q) BY <1>1, ViewSees
<1>3. InPlace(own, s[v], next) /\ \A i \in 1 .. Len(q) : OwnsUpdate(own, q[i], next)
  BY DEF Owned
<1> QED BY <1>2, <1>3, ViewOwned

\* An update that is answered, or has settled.
LEMMA OwnedAnswered ==
    ASSUME NEW own, NEW next, NEW s, NEW n, NEW q, NEW tasks, NEW rows,
           Owned(own, s, n, q, tasks, rows, next), NEW q2, NEW i, NEW answer,
           Answered(q2, q, i, answer)
    PROVE  Owned(own, s, n, q2, tasks, rows, next)
<1>1. \A j \in 1 .. Len(q) : OwnsUpdate(own, q[j], next) BY DEF Owned
<1>2. OwnsUpdate(own, q2[i], next)
  <2>1. i \in 1 .. Len(q) /\ SameUpdate(q[i], q2[i]) BY DEF Answered
  <2> QED BY <1>1, <2>1 DEF SameUpdate, OwnsUpdate
<1>3. \A j \in 1 .. Len(q2) : OwnsUpdate(own, q2[j], next) BY <1>1, <1>2 DEF Answered
<1> QED BY <1>3 DEF Owned

LEMMA OwnedRemoved ==
    ASSUME NEW own, NEW next, NEW s, NEW n, NEW q \in Seq(Update), NEW tasks, NEW rows,
           Owned(own, s, n, q, tasks, rows, next), NEW i \in 1 .. Len(q),
           NEW q2, q2 = RemoveAt(q, i)
    PROVE  Owned(own, s, n, q2, tasks, rows, next)
<1>1. Without(q2, q, i) BY RemovedAt
<1>2. \A j \in 1 .. Len(q2) : \E m \in 1 .. Len(q) : q2[j] = q[m] BY <1>1 DEF Without
<1>3. \A j \in 1 .. Len(q2) : OwnsUpdate(own, q2[j], next) BY <1>2 DEF Owned
<1> QED BY <1>3 DEF Owned

\* A task has been run.
LEMMA OwnedExternal ==
    ASSUME NEW own, NEW next, NEW s, NEW n, NEW q, NEW tasks \in Seq(Task), NEW rows,
           Owned(own, s, n, q, tasks, rows, next), NEW i \in 1 .. Len(tasks), NEW rows2,
           \A t \in Tables : Applied(rows2[t], rows[t], tasks[i], t),
           NEW tasks2, tasks2 = RemoveAt(tasks, i)
    PROVE  Owned(own, s, n, q, tasks2, rows2, next)
<1>1. Without(tasks2, tasks, i) BY RemovedAt
<1>2. \A j \in 1 .. Len(tasks2) : \E m \in 1 .. Len(tasks) : tasks2[j] = tasks[m]
  BY <1>1 DEF Without
<1>3. OwnsTasks(own, tasks, next) BY DEF Owned
<1>4. OwnsTasks(own, tasks2, next) BY ONLY <1>2, <1>3 DEF OwnsTasks
<1>5. ASSUME NEW t \in Tables PROVE Mine(own, rows2[t], t, next)
  <2>1. Mine(own, rows[t], t, next) BY DEF Owned
  <2>2. CASE t \in DOMAIN tasks[i]
    <3>1. Mine(own, tasks[i][t].put, t, next) BY <1>3, <2>2 DEF OwnsTasks
    <3>2. \A id \in DOMAIN rows2[t] : id \in DOMAIN rows[t] \/ id \in DOMAIN tasks[i][t].put
      BY <2>2 DEF Applied, IsChanged
    <3> QED BY <2>1, <3>1, <3>2 DEF Mine
  <2>3. CASE t \notin DOMAIN tasks[i] BY <2>1, <2>3 DEF Applied
  <2> QED BY <2>2, <2>3
<1> QED BY <1>4, <1>5 DEF Owned

\* The server has taken an update.
LEMMA OwnedAccept ==
    ASSUME NEW own, NEW next, NEW s \in Seq(Version), Len(s) >= 1, NEW n \in 1 .. Len(s),
           NEW q \in Seq(Update), NEW tasks, NEW rows, Owned(own, s, n, q, tasks, rows, next),
           NEW i \in 1 .. Len(q), NEW s2, s2 = Append(s, Overlaid(s[Len(s)], q[i]))
    PROVE  Owned(own, s2, n, q, tasks, rows, next)
<1>1. Len(s) \in Nat /\ s[Len(s)] \in Version /\ q[i] \in Update OBVIOUS
<1>2. PICK w : w = Overlaid(s[Len(s)], q[i]) OBVIOUS
<1>3. PICK x : x = s[Len(s)] OBVIOUS
<1>4. PICK u : u = q[i] OBVIOUS
<1>5. /\ x \in Version /\ u \in Update
      /\ DOMAIN w.rows = (DOMAIN x.rows \ u.gone) \cup DOMAIN u.put
      /\ \A id \in DOMAIN u.put :
            w.rows[id] = [rev |-> u.rev, table |-> u.put[id].table, value |-> u.put[id].value]
      /\ \A id : id \notin Ids(u) => SameAt(w.rows, x.rows, id)
  BY <1>1, <1>2, <1>3, <1>4, OverlaidIs
<1>6. InPlace(own, x, next) /\ OwnsUpdate(own, u, next)
  <2>1. Len(s) \in n .. Len(s) OBVIOUS
  <2> QED BY <2>1, <1>3, <1>4 DEF Owned
<1>7. InPlace(own, w, next)
  <2> SUFFICES ASSUME NEW id \in DOMAIN w.rows PROVE Its(own, id, w.rows[id].table, next)
    BY DEF InPlace
  <2>1. CASE id \in DOMAIN u.put
    <3>0. w.rows[id] = [rev |-> u.rev, table |-> u.put[id].table, value |-> u.put[id].value]
      BY ONLY <2>1, <1>5
    <3>1. w.rows[id].table = u.put[id].table BY ONLY <3>0
    <3> QED BY <3>1, <2>1, <1>6 DEF OwnsUpdate
  <2>2. CASE id \notin DOMAIN u.put
    <3>1. id \in DOMAIN x.rows /\ id \notin u.gone BY ONLY <2>2, <1>5, id \in DOMAIN w.rows
    <3>2. SameAt(w.rows, x.rows, id) BY ONLY <2>2, <3>1, <1>5 DEF Ids
    <3>3. w.rows[id] = x.rows[id] BY ONLY <3>1, <3>2 DEF SameAt
    <3> QED BY ONLY <3>1, <3>3, <1>6 DEF InPlace
  <2> QED BY <2>1, <2>2
<1>8. s2 = Append(s, w) BY <1>2
<1>9. w \in Version BY <1>1, <1>2, OverlaidIs
<1>10. /\ Len(s2) = Len(s) + 1 /\ s2[Len(s) + 1] = w
       /\ \A v \in 1 .. Len(s) : s2[v] = s[v]
  BY <1>8, <1>9
<1>11. \A v \in n .. Len(s2) : (v \in n .. Len(s) /\ v \in 1 .. Len(s)) \/ v = Len(s) + 1
  BY <1>1, <1>10
<1>12. \A v \in n .. Len(s2) : InPlace(own, s2[v], next)
  BY <1>7, <1>10, <1>11 DEF Owned
<1> QED BY <1>12 DEF Owned

\* A transaction of the writer has been committed.
Owners(own, u, next) ==
    [id \in Id |-> IF next <= id /\ id \in DOMAIN u.put THEN u.put[id].table ELSE own[id]]

LEMMA OwnedCommit ==
    ASSUME NEW own, NEW next \in Nat, NEW s, NEW n, NEW q \in Seq(Update), NEW tasks, NEW rows,
           Owned(own, s, n, q, tasks, rows, next),
           NEW u \in Update, UpdateOK(u), NEW next2 \in Nat, next <= next2,
           WritesKnown(u, rows, next, next2), \A t \in u.tables : u.before[t] = rows[t],
           NEW rows2, \A t \in Tables : AfterTx(rows2[t], rows[t], u, t),
           NEW q2, q2 = Append(q, u)
    PROVE  Owned(Owners(own, u, next), s, n, q2, tasks, rows2, next2)
<1>0. PICK own2 : own2 = Owners(own, u, next) OBVIOUS
<1>1. own2 = [id \in Id |-> IF next <= id /\ id \in DOMAIN u.put
                            THEN u.put[id].table ELSE own[id]]
  BY <1>0 DEF Owners
<1>2. ASSUME NEW id, NEW t, Its(own, id, t, next) PROVE Its(own2, id, t, next2)
  <2>1. id \in Id /\ id < next /\ own[id] = t BY <1>2 DEF Its
  <2>2. id \in Nat BY <2>1, FirebaseAssumption DEF Id
  <2>3. ~(next <= id) /\ id < next2 BY <2>1, <2>2
  <2>4. own2[id] = t BY <1>1, <2>1, <2>3
  <2> QED BY <2>1, <2>3, <2>4 DEF Its
<1>3. Owned(own2, s, n, q, tasks, rows, next2) BY <1>2, OwnedLater
<1>4. \A t \in Tables : Mine(own2, rows[t], t, next2) BY <1>3 DEF Owned
<1>5. u.tables \subseteq Tables BY UpdateFields
<1>6. ASSUME NEW id \in DOMAIN u.put PROVE Its(own2, id, u.put[id].table, next2)
  <2>1. id \in Id /\ u.put[id].table \in Tables BY UpdateFields
  <2>2. CASE next <= id /\ id < next2 BY <1>1, <2>1, <2>2 DEF Its
  <2>3. CASE id \in DOMAIN rows[u.put[id].table] BY <2>1, <2>3, <1>4 DEF Mine
  <2> QED BY <2>2, <2>3 DEF WritesKnown
<1>7. \A id \in u.gone : \E t \in u.tables : Its(own2, id, t, next2)
  BY <1>4, <1>5 DEF WritesKnown, Mine
<1>8. OwnsUpdate(own2, u, next2) BY <1>4, <1>5, <1>6, <1>7 DEF OwnsUpdate
<1>9. \A i \in 1 .. Len(q2) : OwnsUpdate(own2, q2[i], next2)
  <2>1. Len(q2) = Len(q) + 1 /\ q2[Len(q) + 1] = u /\ \A i \in 1 .. Len(q) : q2[i] = q[i]
    OBVIOUS
  <2>2. \A i \in 1 .. Len(q2) : i \in 1 .. Len(q) \/ i = Len(q) + 1 BY <2>1
  <2> QED BY <2>1, <2>2, <1>3, <1>8 DEF Owned
<1>10. ASSUME NEW t \in Tables PROVE Mine(own2, rows2[t], t, next2)
  <2>1. PICK g : g = RowsOf(u.put, t) OBVIOUS
  <2>2. \A id \in DOMAIN g : id \in DOMAIN u.put /\ u.put[id].table = t
    BY <2>1, RowsOfIs DEF IsRowsOf
  <2>3. \A id \in DOMAIN rows2[t] : id \in DOMAIN rows[t] \/ id \in DOMAIN g
    BY <2>1 DEF AfterTx, IsChanged
  <2> QED BY <2>2, <2>3, <1>4, <1>6 DEF Mine
<1> QED BY <1>0, <1>3, <1>9, <1>10 DEF Owned

\* The tables of an update have what they had before it.
LEMMA OwnedReloaded ==
    ASSUME NEW own, NEW next, NEW s, NEW n, NEW q, NEW tasks, NEW rows,
           Owned(own, s, n, q, tasks, rows, next), NEW i \in 1 .. Len(q), NEW rows2,
           \A t \in Tables : rows2[t] = IF t \in q[i].tables THEN q[i].before[t] ELSE rows[t]
    PROVE  Owned(own, s, n, q, tasks, rows2, next)
<1>1. ASSUME NEW t \in Tables PROVE Mine(own, rows2[t], t, next)
  <2>1. CASE t \in q[i].tables
    <3>1. rows2[t] = q[i].before[t] BY <2>1
    <3> QED BY <2>1, <3>1 DEF Owned, OwnsUpdate
  <2>2. CASE t \notin q[i].tables
    <3>1. rows2[t] = rows[t] BY <2>2
    <3> QED BY <3>1 DEF Owned
  <2> QED BY <2>1, <2>2
<1> QED BY <1>1 DEF Owned

\* A later version has reached the client, or a task has been scheduled.
LEMMA OwnedAt ==
    ASSUME NEW own, NEW next, NEW s \in Seq(Version), NEW n \in 1 .. Len(s), NEW q, NEW tasks,
           NEW rows, Owned(own, s, n, q, tasks, rows, next), NEW m \in n .. Len(s)
    PROVE  Owned(own, s, m, q, tasks, rows, next)
<1>1. \A v \in m .. Len(s) : v \in n .. Len(s) OBVIOUS
<1> QED BY <1>1 DEF Owned

LEMMA OwnedHeard ==
    ASSUME NEW own, NEW next, NEW s \in Seq(Version), NEW n \in 1 .. Len(s),
           NEW q \in Seq(Update), Apart(q), \E f : Split(q, f), NEW k \in Store, NEW rows,
           Owned(own, s, n, q, k.tasks, rows, next),
           NEW before \in Version, NEW e, e = k \/ e = Events(k, before, View(s[n], q))
    PROVE  Owned(own, s, n, q, e.tasks, rows, next)
<1>1. CASE e = k BY <1>1
<1>2. CASE e = Events(k, before, View(s[n], q))
  <2>1. PICK f : Split(q, f) OBVIOUS
  <2>2. n \in n .. Len(s) /\ s[n] \in Version OBVIOUS
  <2>3. InPlace(own, View(s[n], q), next) BY <2>1, <2>2, SeenOwned
  <2>4. View(s[n], q) \in Version BY <2>2, ViewTyped
  <2>5. OwnsTasks(own, k.tasks, next) BY DEF Owned
  <2>6. OwnsTasks(own, e.tasks, next) BY <1>2, <2>3, <2>4, <2>5, EventsOwned
  <2> QED BY <2>6 DEF Owned
<1> QED BY <1>1, <1>2

LEMMA WriterSplits ==
    ASSUME NEW s, NEW q, NEW n, NEW k, NEW rows, NEW gap, NEW next, NEW free,
           WriterState(free, s, n, q, k, rows, gap, next)
    PROVE  n \in 1 .. Len(s) /\ Apart(q) /\ \E f : Split(q, f)
BY DEF WriterState, Under, Count

\* What a writer knows, before and after a step.
Owning(c) == Writing(c) /\ OwnsClient(c) /\ WriterOK(c)' /\ store'[c] \in Store

LEMMA OwningHas ==
    ASSUME NEW c, Owning(c)
    PROVE  /\ \E own : Owned(own, server, at[c], sent[c], store[c].tasks, cache[c], nextId[c])
           /\ server \in Seq(Version) /\ sent[c] \in Seq(Update) /\ sent'[c] \in Seq(Update)
           /\ store[c] \in Store /\ nextId[c] \in Nat /\ nextId'[c] \in Nat
           /\ at[c] \in 1 .. Len(server) /\ Len(server) \in Nat /\ Now = server[Len(server)]
           /\ Apart(sent[c]) /\ \E f : Split(sent[c], f)
           /\ at'[c] \in 1 .. Len(server') /\ Apart(sent'[c]) /\ \E f : Split(sent'[c], f)
<1>1. Apart(sent[c]) /\ \E f : Split(sent[c], f)
  <2>1. WriterOK(c) BY DEF Owning, Writing
  <2> QED BY <2>1, WriterSplits DEF WriterOK
<1>2. at'[c] \in 1 .. Len(server') /\ Apart(sent'[c]) /\ \E f : Split(sent'[c], f)
  <2>1. WriterOK(c)' BY DEF Owning
  <2>2. WriterState(Free(c)', server', at'[c], sent'[c], store'[c], cache'[c], missed'[c], nextId'[c])
    BY ONLY <2>1 DEF WriterOK
  <2> QED BY ONLY <2>2, WriterSplits
<1> QED BY <1>1, <1>2 DEF Owning, Writing, OwnsClient

LEMMA OwningFirst ==
    ASSUME NEW c, Owning(c), NEW view, NEW k, IsFirstData(c, view, k)
    PROVE  OwnsClient(c)'
<1>1. PICK own : Owned(own, server, at[c], sent[c], store[c].tasks, cache[c], nextId[c])
  BY OwningHas
<1>2. /\ server \in Seq(Version) /\ sent[c] \in Seq(Update) /\ store[c] \in Store
      /\ at[c] \in 1 .. Len(server) /\ Len(server) \in Nat
      /\ Apart(sent[c]) /\ \E f : Split(sent[c], f)
  BY OwningHas
<1>3. /\ server' = server /\ at'[c] = Len(server) /\ store'[c] = k
      /\ view = View(server[Len(server)], sent[c]) /\ view \in Version
      /\ k = onChange_(store[c], Result(store[c], view))
      /\ cache'[c] = cache[c] /\ nextId'[c] = nextId[c] /\ sent'[c] = sent[c]
  BY OwningHas DEF IsFirstData, ServerStays
<1>4. Len(server) \in at[c] .. Len(server) /\ Len(server) \in 1 .. Len(server) BY ONLY <1>2
<1>5. PICK f : Split(sent[c], f) BY ONLY <1>2
<1>6. InPlace(own, view, nextId[c]) BY ONLY <1>1, <1>2, <1>3, <1>4, <1>5, SeenOwned
<1>7. OwnsTasks(own, store[c].tasks, nextId[c]) BY ONLY <1>1 DEF Owned
<1>8. OwnsTasks(own, k.tasks, nextId[c]) BY ONLY <1>2, <1>3, <1>6, <1>7, TasksOwned
<1>9. Owned(own, server, Len(server), sent[c], store[c].tasks, cache[c], nextId[c])
  BY ONLY <1>1, <1>2, <1>4, OwnedAt
<1>10. Owned(own, server, Len(server), sent[c], k.tasks, cache[c], nextId[c])
  BY ONLY <1>8, <1>9 DEF Owned
<1> QED BY ONLY <1>3, <1>10 DEF OwnsClient

LEMMA OwningDeliver ==
    ASSUME NEW c, Owning(c), NEW v \in at[c] + 1 .. Len(server), NEW b, NEW a,
           IsDeliver(c, v, b, a)
    PROVE  OwnsClient(c)'
<1>1. PICK own : Owned(own, server, at[c], sent[c], store[c].tasks, cache[c], nextId[c])
  BY OwningHas
<1>2. /\ server \in Seq(Version) /\ sent[c] \in Seq(Update) /\ store[c] \in Store
      /\ at[c] \in 1 .. Len(server) /\ Len(server) \in Nat
      /\ Apart(sent[c]) /\ \E f : Split(sent[c], f)
  BY OwningHas
<1>3. /\ server' = server /\ at'[c] = v /\ b \in Version /\ a = View(server[v], sent[c])
      /\ store'[c] = Events(store[c], b, a)
      /\ cache'[c] = cache[c] /\ nextId'[c] = nextId[c] /\ sent'[c] = sent[c]
  BY DEF IsDeliver, ServerStays, WasTold
<1>4. v \in at[c] .. Len(server) /\ v \in 1 .. Len(server)
  BY ONLY <1>2, v \in at[c] + 1 .. Len(server)
<1>5. Owned(own, server, v, sent[c], store[c].tasks, cache[c], nextId[c])
  BY ONLY <1>1, <1>2, <1>4, OwnedAt
<1>6. Owned(own, server, v, sent[c], store'[c].tasks, cache[c], nextId[c])
  BY ONLY <1>2, <1>3, <1>4, <1>5, OwnedHeard
<1> QED BY ONLY <1>3, <1>6 DEF OwnsClient

LEMMA OwningExternal ==
    ASSUME NEW c, Owning(c), NEW i, IsExternal(c, i)
    PROVE  OwnsClient(c)'
<1>1. PICK own : Owned(own, server, at[c], sent[c], store[c].tasks, cache[c], nextId[c])
  BY OwningHas
<1>2. /\ server' = server /\ at'[c] = at[c] /\ i \in 1 .. Len(store[c].tasks)
      /\ \A t \in Tables : Applied(cache'[c][t], cache[c][t], store[c].tasks[i], t)
      /\ store'[c].tasks = RemoveAt(store[c].tasks, i)
      /\ nextId'[c] = nextId[c] /\ sent'[c] = sent[c]
  BY DEF IsExternal, ServerStays
<1>3. store[c].tasks \in Seq(Task) BY OwningHas, StoreFields
<1>4. Owned(own, server, at[c], sent[c], store'[c].tasks, cache'[c], nextId[c])
  <2>1. PICK rows2 : rows2 = cache'[c] OBVIOUS
  <2>2. PICK tasks2 : tasks2 = store'[c].tasks OBVIOUS
  <2>3. Owned(own, server, at[c], sent[c], tasks2, rows2, nextId[c])
    BY ONLY <1>1, <1>2, <1>3, <2>1, <2>2, OwnedExternal
  <2> QED BY ONLY <2>1, <2>2, <2>3
<1> QED BY ONLY <1>2, <1>4 DEF OwnsClient

LEMMA OwningCommit ==
    ASSUME NEW c, Owning(c), NEW u, NEW k, NEW b, NEW a, IsCommit(c, u, k, b, a)
    PROVE  OwnsClient(c)'
<1>1. PICK own : Owned(own, server, at[c], sent[c], store[c].tasks, cache[c], nextId[c])
  BY OwningHas
<1>2. /\ server \in Seq(Version) /\ sent[c] \in Seq(Update) /\ sent'[c] \in Seq(Update)
      /\ at[c] \in 1 .. Len(server) /\ nextId[c] \in Nat /\ nextId'[c] \in Nat
      /\ Apart(sent'[c]) /\ \E f : Split(sent'[c], f)
  BY OwningHas
<1>3. /\ server' = server /\ at'[c] = at[c] /\ u \in Update /\ UpdateOK(u)
      /\ nextId[c] <= nextId'[c]
      /\ \A t \in u.tables : u.before[t] = cache[c][t]
      /\ \A t \in Tables : AfterTx(cache'[c][t], cache[c][t], u, t)
      /\ k \in Store /\ k.tasks = store[c].tasks
      /\ sent'[c] = Append(sent[c], u) /\ b \in Version
      /\ store'[c] = k \/ store'[c] = Events(k, b, View(server[at[c]], sent'[c]))
  BY OwningHas DEF IsCommit, WasTold
<1>4. WritesKnown(u, cache[c], nextId[c], nextId'[c])
  BY DEF IsCommit, FromCache, WritesKnown
<1>5. PICK own2 : Owned(own2, server, at[c], sent'[c], k.tasks, cache'[c], nextId'[c])
  <2>1. PICK rows2 : rows2 = cache'[c] OBVIOUS
  <2>2. PICK q2 : q2 = sent'[c] OBVIOUS
  <2>3. PICK next2 \in Nat : next2 = nextId'[c] BY <1>2
  <2>5. PICK q \in Seq(Update) : q = sent[c] BY <1>2
  <2>6. PICK rows : rows = cache[c] OBVIOUS
  <2>7. PICK next \in Nat : next = nextId[c] BY <1>2
  <2>8. /\ Owned(own, server, at[c], q, k.tasks, rows, next) /\ q \in Seq(Update)
        /\ next \in Nat /\ next2 \in Nat /\ next <= next2
        /\ u \in Update /\ UpdateOK(u) /\ WritesKnown(u, rows, next, next2)
        /\ \A t \in u.tables : u.before[t] = rows[t]
        /\ \A t \in Tables : AfterTx(rows2[t], rows[t], u, t)
        /\ q2 = Append(q, u)
    BY ONLY <1>1, <1>2, <1>3, <1>4, <2>1, <2>2, <2>3, <2>5, <2>6, <2>7
  <2>4. Owned(Owners(own, u, next), server, at[c], q2, k.tasks, rows2, next2)
    BY ONLY <2>8, OwnedCommit
  <2> QED BY ONLY <2>1, <2>2, <2>3, <2>4
<1>6. Owned(own2, server, at[c], sent'[c], store'[c].tasks, cache'[c], nextId'[c])
  <2>1. PICK q2 \in Seq(Update) : q2 = sent'[c] BY <1>2
  <2>2. PICK e : e = store'[c] OBVIOUS
  <2>3. Owned(own2, server, at[c], q2, e.tasks, cache'[c], nextId'[c])
    BY ONLY <1>2, <1>3, <1>5, <2>1, <2>2, OwnedHeard
  <2> QED BY ONLY <2>1, <2>2, <2>3
<1> QED BY ONLY <1>3, <1>6 DEF OwnsClient

LEMMA OwningAnswer ==
    ASSUME NEW c, Owning(c), NEW i, IsAccept(c, i) \/ IsRefuse(c, i)
    PROVE  OwnsClient(c)'
<1>1. PICK own : Owned(own, server, at[c], sent[c], store[c].tasks, cache[c], nextId[c])
  BY OwningHas
<1>2. /\ server \in Seq(Version) /\ sent[c] \in Seq(Update) /\ Now = server[Len(server)]
      /\ at[c] \in 1 .. Len(server) /\ Len(server) >= 1
  BY OwningHas
<1>3. /\ \E answer : Answered(sent'[c], sent[c], i, answer)
      /\ at'[c] = at[c] /\ store'[c] = store[c] /\ cache'[c] = cache[c]
      /\ nextId'[c] = nextId[c]
      /\ server' = server \/ server' = Append(server, Overlaid(Now, sent[c][i]))
  BY DEF IsAccept, IsRefuse, IsAnswer
<1>4. i \in 1 .. Len(sent[c]) BY ONLY <1>3 DEF Answered
<1>5. Owned(own, server', at[c], sent[c], store[c].tasks, cache[c], nextId[c])
  <2>1. CASE server' = server BY ONLY <1>1, <2>1
  <2>2. CASE server' = Append(server, Overlaid(Now, sent[c][i]))
    <3>1. PICK s2 : s2 = server' OBVIOUS
    <3>2. Owned(own, s2, at[c], sent[c], store[c].tasks, cache[c], nextId[c])
      BY ONLY <1>1, <1>2, <1>4, <2>2, <3>1, OwnedAccept
    <3> QED BY ONLY <3>1, <3>2
  <2> QED BY ONLY <1>3, <2>1, <2>2
<1>6. Owned(own, server', at[c], sent'[c], store[c].tasks, cache[c], nextId[c])
  BY ONLY <1>3, <1>5, OwnedAnswered
<1> QED BY ONLY <1>3, <1>6 DEF OwnsClient

LEMMA OwningAccepted ==
    ASSUME NEW c, Owning(c), NEW i, NEW b, NEW a, IsAccepted(c, i, b, a)
    PROVE  OwnsClient(c)'
<1>1. PICK own : Owned(own, server, at[c], sent[c], store[c].tasks, cache[c], nextId[c])
  BY OwningHas
<1>2. /\ server \in Seq(Version) /\ sent[c] \in Seq(Update) /\ sent'[c] \in Seq(Update)
      /\ store[c] \in Store /\ at[c] \in 1 .. Len(server) /\ Len(server) \in Nat
      /\ at'[c] \in 1 .. Len(server') /\ Apart(sent'[c]) /\ \E f : Split(sent'[c], f)
  BY OwningHas
<1>3. /\ server' = server /\ i \in 1 .. Len(sent[c]) /\ sent'[c] = RemoveAt(sent[c], i)
      /\ at'[c] >= at[c] /\ b \in Version
      /\ \/ store'[c] = store[c]
         \/ store'[c] = Events(store[c], b, View(server[at'[c]], sent'[c]))
      /\ cache'[c] = cache[c] /\ nextId'[c] = nextId[c]
  BY DEF IsAccepted, ServerStays, WasTold
<1>4. at'[c] \in 1 .. Len(server) /\ at'[c] \in at[c] .. Len(server) BY ONLY <1>2, <1>3
<1>5. Owned(own, server, at'[c], sent'[c], store[c].tasks, cache[c], nextId[c])
  <2>1. Owned(own, server, at'[c], sent[c], store[c].tasks, cache[c], nextId[c])
    BY ONLY <1>1, <1>2, <1>4, OwnedAt
  <2> QED BY ONLY <2>1, <1>2, <1>3, OwnedRemoved
<1>6. Owned(own, server, at'[c], sent'[c], store'[c].tasks, cache[c], nextId[c])
  BY ONLY <1>2, <1>3, <1>4, <1>5, OwnedHeard
<1> QED BY ONLY <1>3, <1>6 DEF OwnsClient

LEMMA OwningRefused ==
    ASSUME NEW c, Owning(c), NEW i, NEW b, NEW a, NEW h, IsRefused(c, i, b, a, h)
    PROVE  OwnsClient(c)'
<1>1. PICK own : Owned(own, server, at[c], sent[c], store[c].tasks, cache[c], nextId[c])
  BY OwningHas
<1>2. /\ server \in Seq(Version) /\ sent'[c] \in Seq(Update)
      /\ store[c] \in Store /\ at[c] \in 1 .. Len(server)
      /\ Apart(sent'[c]) /\ \E f : Split(sent'[c], f)
  BY OwningHas
<1>3. /\ server' = server /\ Answered(sent'[c], sent[c], i, "failed") /\ b \in Version
      /\ h = store[c] \/ h = Events(store[c], b, View(server[at[c]], sent'[c]))
      /\ store'[c].tasks = h.tasks
      /\ at'[c] = at[c] /\ cache'[c] = cache[c] /\ nextId'[c] = nextId[c]
  BY DEF IsRefused
<1>4. Owned(own, server, at[c], sent'[c], store[c].tasks, cache[c], nextId[c])
  BY ONLY <1>1, <1>3, OwnedAnswered
<1>5. Owned(own, server, at[c], sent'[c], h.tasks, cache[c], nextId[c])
  BY ONLY <1>2, <1>3, <1>4, OwnedHeard
<1> QED BY ONLY <1>3, <1>5 DEF OwnsClient

LEMMA OwningReloaded ==
    ASSUME NEW c, Owning(c), NEW i, NEW view, IsReloaded(c, i, view)
    PROVE  OwnsClient(c)'
<1>1. PICK own : Owned(own, server, at[c], sent[c], store[c].tasks, cache[c], nextId[c])
  BY OwningHas
<1>2. sent[c] \in Seq(Update) BY OwningHas
<1>3. /\ server' = server /\ i \in 1 .. Len(sent[c]) /\ sent'[c] = RemoveAt(sent[c], i)
      /\ \A t \in Tables : cache'[c][t] =
            IF t \in sent[c][i].tables THEN sent[c][i].before[t] ELSE cache[c][t]
      /\ store'[c].tasks = store[c].tasks /\ at'[c] = at[c] /\ nextId'[c] = nextId[c]
  BY DEF IsReloaded, ServerStays
<1>4. Owned(own, server, at[c], sent[c], store[c].tasks, cache'[c], nextId[c])
  BY ONLY <1>1, <1>3, OwnedReloaded
<1>5. Owned(own, server, at[c], sent'[c], store[c].tasks, cache'[c], nextId[c])
  BY ONLY <1>2, <1>3, <1>4, OwnedRemoved
<1> QED BY ONLY <1>3, <1>5 DEF OwnsClient

\* When it has connected, the ids are in the tables that the version has them in.
LEMMA OwningLoads ==
    ASSUME NEW c \in Clients, server \in Seq(Version), Len(server) >= 1, Now = server[Len(server)],
           LoadOK(c), sent[c] = <<>>, store[c].tasks = <<>>, IsLoaded(c)
    PROVE  OwnsClient(c)'
<1>1. /\ server' = server /\ sent'[c] = <<>> /\ at'[c] = Len(server) /\ store'[c].tasks = <<>>
      /\ cache'[c] = store[c].tables
      /\ \A t \in Tables : store[c].tables[t] = RowsOf(Now.rows, t)
      /\ \A t \in Tables : \A id \in DOMAIN store[c].tables[t] : id < nextId'[c]
  BY DEF IsLoaded, LoadOK, ServerStays
<1>2. PICK x : x = Now OBVIOUS
<1>3. x \in Version BY <1>2
<1>4. \A id \in DOMAIN x.rows : id \in Id /\ x.rows[id].table \in Tables
  BY <1>3, VersionFields
<1>5. PICK own : own = [id \in Id |-> IF id \in DOMAIN x.rows THEN x.rows[id].table ELSE {}]
  OBVIOUS
<1>6. ASSUME NEW id \in DOMAIN x.rows PROVE Its(own, id, x.rows[id].table, nextId'[c])
  <2>1. PICK t \in Tables : t = x.rows[id].table BY <1>4
  <2>2. store[c].tables[t] = RowsOf(x.rows, t) BY <1>1, <1>2
  <2>3. id \in DOMAIN RowsOf(x.rows, t) BY <2>1, RowsOfIs DEF IsRowsOf
  <2>4. id < nextId'[c] BY <1>1, <2>2, <2>3
  <2> QED BY <2>4, <1>4, <1>5 DEF Its
<1>7. \A v \in Len(server) .. Len(server) : InPlace(own, server[v], nextId'[c])
  <2>1. \A v \in Len(server) .. Len(server) : v = Len(server) OBVIOUS
  <2>2. InPlace(own, x, nextId'[c]) BY <1>6 DEF InPlace
  <2> QED BY <2>1, <2>2, <1>2
<1>8. ASSUME NEW t \in Tables PROVE Mine(own, cache'[c][t], t, nextId'[c])
  <2>1. cache'[c][t] = RowsOf(x.rows, t) BY <1>1, <1>2
  <2>2. \A id \in DOMAIN RowsOf(x.rows, t) : id \in DOMAIN x.rows /\ x.rows[id].table = t
    BY RowsOfIs DEF IsRowsOf
  <2> QED BY <2>1, <2>2, <1>6 DEF Mine
<1>9. \A i : i \notin 1 .. Len(sent'[c]) /\ i \notin 1 .. Len(store'[c].tasks) BY <1>1
<1>10. Owned(own, server', at'[c], sent'[c], store'[c].tasks, cache'[c], nextId'[c])
  BY <1>1, <1>7, <1>8, <1>9 DEF Owned, OwnsTasks
<1> QED BY <1>10 DEF OwnsClient

LEMMA OwnStep ==
    ASSUME OneWriter, Basics, Basics', LoadInv, OwnInv, WritersInv, WritersInv',
           NEW c \in Clients, StepOf(c)
    PROVE  OwnInv'
<1> SUFFICES ASSUME ~outOfStep', NEW d \in Writers, status'[d] = "ready" PROVE OwnsClient(d)'
  BY DEF OwnInv
<1>1. ~outOfStep BY StaysOut
<1>2. TypeInv /\ TypeInv' /\ ClientInv /\ SentInv BY DEF Basics
<1>3. \A e \in Writers :
         /\ e \in Clients /\ LoadOK(e)
         /\ status[e] = "ready" => WriterOK(e) /\ OwnsClient(e)
         /\ status'[e] = "ready" => WriterOK(e)'
  BY <1>1, WritersAreClients DEF WritersInv, LoadInv, OwnInv
<1>4. OthersStay(c) BY <1>2, StepGrows
<1>5. CASE d # c
  <2>1. c \notin Writers BY <1>5 DEF OneWriter
  <2>2. server' = server BY <2>1, ReaderQuiet
  <2>3. /\ status'[d] = status[d] /\ at'[d] = at[d] /\ store'[d] = store[d]
        /\ cache'[d] = cache[d] /\ nextId'[d] = nextId[d] /\ sent'[d] = sent[d]
    BY <1>3, <1>4, <1>5 DEF OthersStay
  <2>4. OwnsClient(d) BY <2>3, <1>3
  <2> QED BY ONLY <2>2, <2>3, <2>4 DEF OwnsClient
<1>6. SUFFICES ASSUME d = c PROVE OwnsClient(c)' BY <1>5
<1>7. c \in Writers /\ status'[c] = "ready" BY <1>6
<1>8. /\ server \in Seq(Version) /\ Len(server) >= 1 /\ Len(server) \in Nat
      /\ Now = server[Len(server)]
  BY <1>2 DEF TypeInv, Now
<1>9. ClientOK(c) /\ LoadOK(c) BY <1>2, <1>3, <1>7 DEF ClientInv
<1>10. CASE IsLoaded(c)
  <2>1. sent[c] = <<>> /\ store[c].tasks = <<>> BY <1>9, <1>10 DEF IsLoaded, ClientOK
  <2> QED BY <2>1, <1>8, <1>9, <1>10, OwningLoads
<1>11. ASSUME status[c] = "ready" PROVE Owning(c)
  <2>1. WriterOK(c) /\ OwnsClient(c) /\ WriterOK(c)' BY <1>3, <1>7, <1>11
  <2>2. /\ sent[c] \in Seq(Update) /\ store[c] \in Store /\ nextId[c] \in Nat
        /\ listening[c] \in BOOLEAN
    BY <1>2, ClientTyped DEF Typed
  <2>3. sent'[c] \in Seq(Update) /\ nextId'[c] \in Nat /\ store'[c] \in Store
    BY <1>2 DEF TypeInv
  <2>4. SentOK(sent[c], Len(server)) BY <1>2 DEF SentInv
  <2>5. at[c] \in 1 .. Len(server) BY <1>9 DEF ClientOK
  <2>6. Writing(c) BY <2>1, <2>2, <2>3, <2>4, <2>5, <1>8, <1>11 DEF Writing
  <2> QED BY <2>1, <2>3, <2>6 DEF Owning
<1>12. CASE IsConnect(c) \/ IsCrash(c) \/ \E t \in Tables : IsReload(c, t)
  BY <1>7, <1>12 DEF IsConnect, IsCrash, IsReload
<1>13. ASSUME NEW view, NEW k, IsFirstData(c, view, k) PROVE OwnsClient(c)'
  <2>1. Owning(c) BY <1>11, <1>13 DEF IsFirstData
  <2> QED BY <2>1, <1>13, OwningFirst
<1>14. ASSUME NEW v \in at[c] + 1 .. Len(server), NEW b, NEW a, IsDeliver(c, v, b, a)
       PROVE  OwnsClient(c)'
  <2>1. Owning(c) BY <1>11, <1>14 DEF IsDeliver
  <2> QED BY <2>1, <1>14, OwningDeliver
<1>15. ASSUME NEW i, IsExternal(c, i) PROVE OwnsClient(c)'
  <2>1. Owning(c) BY <1>11, <1>15 DEF IsExternal
  <2> QED BY <2>1, <1>15, OwningExternal
<1>16. ASSUME NEW u, NEW k, NEW b, NEW a, IsCommit(c, u, k, b, a) PROVE OwnsClient(c)'
  <2>1. Owning(c) BY <1>11, <1>16 DEF IsCommit
  <2> QED BY <2>1, <1>16, OwningCommit
<1>17. ASSUME NEW i \in DOMAIN sent[c],
              \/ IsAccept(c, i) \/ IsRefuse(c, i)
              \/ \E b, a : IsAccepted(c, i, b, a)
              \/ \E b, a, h : IsRefused(c, i, b, a, h)
              \/ \E view : IsReloaded(c, i, view)
       PROVE  OwnsClient(c)'
  <2>1. sent[c] # <<>> BY <1>17
  <2>2. Owning(c) BY <2>1, <1>9, <1>11 DEF ClientOK
  <2> QED BY <2>2, <1>17, OwningAnswer, OwningAccepted, OwningRefused, OwningReloaded
<1>18. ASSUME NEW tables, IsBegin(c, tables) \/ IsEnd(c, tables) PROVE OwnsClient(c)'
  <2>1. /\ server' = server /\ status'[c] = status[c] /\ at'[c] = at[c]
        /\ store'[c] = store[c] /\ cache'[c] = cache[c] /\ nextId'[c] = nextId[c]
        /\ sent'[c] = sent[c]
    BY <1>18 DEF IsBegin, IsEnd, Idle, ServerStays
  <2>2. OwnsClient(c) BY <2>1, <1>3, <1>7
  <2> QED BY ONLY <2>1, <2>2 DEF OwnsClient
<1> QED BY <1>10, <1>12, <1>13, <1>14, <1>15, <1>16, <1>17, <1>18 DEF StepOf

-----------------------------------------------------------------------------
(* The server stays or gets a new version.                                 *)

LEMMA ServerSame ==
    ASSUME NEW c, StepOf(c), ~\E i \in DOMAIN sent[c] : c \in Writers /\ IsAccept(c, i)
    PROVE  server' = server
<1>1. CASE c \notin Writers BY <1>1, ReaderQuiet
<1>2. CASE ServerStays BY <1>2 DEF ServerStays
<1>3. ASSUME NEW u, NEW k, NEW b, NEW a, IsCommit(c, u, k, b, a) PROVE server' = server
  BY <1>3 DEF IsCommit
<1>4. ASSUME NEW i, IsRefuse(c, i) PROVE server' = server BY <1>4 DEF IsRefuse
<1>5. ASSUME NEW i, NEW b, NEW a, NEW h, IsRefused(c, i, b, a, h) PROVE server' = server
  BY <1>5 DEF IsRefused
<1>6. ASSUME NEW i, NEW b, NEW a, IsAccepted(c, i, b, a) PROVE ServerStays
  BY <1>6 DEF IsAccepted
<1>7. ASSUME NEW i, NEW view, IsReloaded(c, i, view) PROVE ServerStays
  BY <1>7 DEF IsReloaded
<1> QED
  BY <1>1, <1>2, <1>3, <1>4, <1>5, <1>6, <1>7
  DEF StepOf, IsConnect, IsReload, IsLoaded, IsCrash, IsFirstData, IsDeliver, IsExternal,
      IsBegin, IsEnd, Idle

LEMMA VersionStep ==
    ASSUME OneWriter, Basics, Basics', VersionInv, WritersInv, NEW c \in Clients, StepOf(c)
    PROVE  VersionInv'
<1> SUFFICES ASSUME ~outOfStep' PROVE Tells(server') BY DEF VersionInv
<1>1. ~outOfStep BY StaysOut
<1>2. TypeInv /\ TypeInv' /\ ClientInv /\ SentInv BY DEF Basics
<1>3. Tells(server) BY <1>1 DEF VersionInv
<1>5. CASE \E i \in DOMAIN sent[c] : c \in Writers /\ IsAccept(c, i)
  <2>1. PICK i \in DOMAIN sent[c] : c \in Writers /\ IsAccept(c, i) BY <1>5
  <2>2. ClientOK(c) /\ c \in Writers BY <2>1, <1>2 DEF ClientInv
  <2>3. sent[c] # <<>> BY <2>1
  <2>4. status[c] = "ready" BY <2>2, <2>3 DEF ClientOK
  <2>5. /\ server \in Seq(Version) /\ Len(server) >= 1 /\ Len(server) \in Nat
        /\ Now = server[Len(server)]
    BY <1>2 DEF TypeInv, Now
  <2>6. WriterOK(c) BY <2>2, <2>4, <1>1 DEF WritersInv
  <2>7. /\ sent[c] \in Seq(Update) /\ store[c] \in Store /\ nextId[c] \in Nat
        /\ listening[c] \in BOOLEAN
    BY <1>2, ClientTyped DEF Typed
  <2>8. sent'[c] \in Seq(Update) /\ nextId'[c] \in Nat BY <1>2 DEF TypeInv
  <2>9. SentOK(sent[c], Len(server)) BY <1>2 DEF SentInv
  <2>10. at[c] \in 1 .. Len(server) BY <2>2 DEF ClientOK
  <2>11. Writing(c) BY <2>4, <2>5, <2>6, <2>7, <2>8, <2>9, <2>10 DEF Writing
  <2>12. IsAccept(c, i) BY <2>1
  <2>13. Now.rev < sent[c][i].rev BY <2>11, <2>12, WritingAccept
  <2>14. sent[c][i] \in Update BY <2>1, <2>7
  <2>15. server' = Append(server, Overlaid(server[Len(server)], sent[c][i]))
    BY <2>5, <2>12 DEF IsAccept
  <2>16. Tells(server')
    <3>1. PICK u \in Update : u = sent[c][i] BY <2>14
    <3>2. Tells(Append(server, Overlaid(server[Len(server)], u)))
      BY <3>1, <2>5, <2>13, <1>3, TellsAppended
    <3> QED BY ONLY <3>1, <3>2, <2>15
  <2> QED BY <2>16
<1>6. CASE ~\E i \in DOMAIN sent[c] : c \in Writers /\ IsAccept(c, i)
  <2>1. server' = server BY <1>6, ServerSame
  <2> QED BY <2>1, <1>3
<1> QED BY <1>5, <1>6

-----------------------------------------------------------------------------
(* Clients have a version of the server.                                   *)

LEMMA ExceptSame ==
    ASSUME NEW f, NEW g, NEW t, NEW ids, SameBut(f[t], g[t], t, ids)
    PROVE  Except(f, t, ids) = Except(g, t, ids)
<1>1. PICK d : d = {id \in DOMAIN f[t] : <<t, id>> \notin ids} OBVIOUS
<1>2. PICK e : e = {id \in DOMAIN g[t] : <<t, id>> \notin ids} OBVIOUS
<1>3. \A id : <<t, id>> \notin ids => /\ id \in DOMAIN f[t] <=> id \in DOMAIN g[t]
                                      /\ id \in DOMAIN f[t] => f[t][id] = g[t][id]
  BY DEF SameBut, SameAt
<1>4. d = e
  <2>1. \A id : id \in d <=> id \in DOMAIN f[t] /\ <<t, id>> \notin ids BY ONLY <1>1
  <2>2. \A id : id \in e <=> id \in DOMAIN g[t] /\ <<t, id>> \notin ids BY ONLY <1>2
  <2> QED BY ONLY <2>1, <2>2, <1>3
<1>5. \A id \in d : f[t][id] = g[t][id] BY ONLY <1>1, <1>3
<1>6. [id \in d |-> f[t][id]] = [id \in e |-> g[t][id]] BY ONLY <1>4, <1>5
<1> QED BY ONLY <1>1, <1>2, <1>6 DEF Except, Restrict

LEMMA SameIsHas ==
    ASSUME NEW c, NEW tables \in SUBSET Tables, NEW rows, NEW version,
           \A t \in tables : SameBut(rows[t], RowsOf(version.rows, t), t, missed[c])
    PROVE  Has(c, tables, rows, version)
<1> SUFFICES ASSUME NEW t \in tables
             PROVE  Except(rows, t, missed[c]) = Except(Contents(version.rows), t, missed[c])
  BY DEF Has
<1>1. Contents(version.rows)[t] = RowsOf(version.rows, t) BY DEF Contents
<1>2. SameBut(rows[t], Contents(version.rows)[t], t, missed[c]) BY <1>1
<1> QED BY <1>2, ExceptSame

LEMMA ReaderHas ==
    ASSUME Basics, TaskInv, ReaderInv, ~outOfStep, NEW c \in Clients, c \notin Writers,
           Settled(c), listening[c]
    PROVE  /\ Has(c, Tables \ overtaken[c], cache[c], server[at[c]])
           /\ Has(c, Tables, store[c].tables, server[at[c]])
<1>1. /\ ReaderOK(c) /\ status[c] = "ready" /\ store[c].tasks = <<>>
      /\ cache[c] \in [Tables -> TableRows] /\ store[c].tables \in [Tables -> TableRows]
  BY ClientTyped, StoreFields DEF Settled, Basics, Typed, ReaderInv
<1>2. \A t \in Tables : SameBut(store[c].tables[t], RowsOf(server[at[c]].rows, t), t, missed[c])
  BY <1>1 DEF ReaderOK, HasRows
<1>3. ASSUME NEW t \in Free(c), NEW id
      PROVE  SameAt(cache[c][t], store[c].tables[t], id)
  <2> t \in Tables BY DEF Free
  <2>1. CASE id \in Id
    <3>1. ~\E i : i \in 1 .. Len(store[c].tasks) BY <1>1
    <3>2. (\A i \in 1 .. Len(store[c].tasks) : ~Touches(store[c].tasks[i], t, id)) =>
                  SameAt(cache[c][t], store[c].tables[t], id)
      BY <1>1, <2>1 DEF TaskInv, LeadsClient, Leads, RowLeads
    <3> QED BY <3>1, <3>2
  <2>2. CASE id \notin Id
    <3>1. id \notin DOMAIN cache[c][t] /\ id \notin DOMAIN store[c].tables[t]
      BY <1>1, <2>2, TableRowsIs
    <3> QED BY <3>1 DEF SameAt
  <2> QED BY <2>1, <2>2
<1>4. \A t \in Free(c) : SameBut(cache[c][t], RowsOf(server[at[c]].rows, t), t, missed[c])
  BY <1>2, <1>3 DEF SameBut, SameAt, Free
<1>5. Has(c, Tables, store[c].tables, server[at[c]]) BY <1>2, SameIsHas
<1>6. Has(c, Free(c), cache[c], server[at[c]])
  <2>1. Free(c) \in SUBSET Tables BY DEF Free
  <2> QED BY <1>4, <2>1, SameIsHas
<1> QED BY <1>5, <1>6 DEF Free

LEMMA CloseIsSame ==
    ASSUME NEW rows, NEW rows2, NEW t, NEW gap, Close(rows, rows2, t, gap)
    PROVE  SameBut(rows, rows2, t, gap)
BY DEF Close, SameBut, SameAt

LEMMA WriterHas ==
    ASSUME Basics, WritersInv, ~outOfStep, NEW c \in Writers, Settled(c)
    PROVE  /\ Has(c, Tables \ overtaken[c], cache[c], server[at[c]])
           /\ Has(c, Tables, store[c].tables, server[at[c]])
<1>1. /\ server \in Seq(Version) /\ Len(server) \in Nat /\ Len(server) >= 1
  BY DEF Basics, TypeInv
<1>2. PICK x : x = server[Len(server)] OBVIOUS
<1>3. PICK q : q = sent[c] OBVIOUS
<1>4. x \in Version /\ q = <<>> /\ Len(q) = 0 /\ ~\E i : i \in 1 .. Len(q)
  BY <1>1, <1>2, <1>3 DEF Settled
<1>5. WriterOK(c) BY DEF WritersInv, Settled
<1>6. /\ Under(server, q, at[c]) /\ Copies(Tables, q, View(x, q), store[c].tables, missed[c])
      /\ Copies(Free(c), q, View(x, q), cache[c], missed[c])
  BY <1>2, <1>3, <1>5 DEF WriterOK, WriterState
<1>7. View(x, q) = x BY <1>4, ViewOfNone
<1>8. at[c] = Len(server)
  <2>1. at[c] \in 1 .. Len(server) BY <1>6 DEF Under
  <2>2. ~(Len(server) \in at[c] + 1 .. Len(server)) BY <1>4, <1>6 DEF Under
  <2> QED BY <2>1, <2>2, <1>1
<1>9. \A t : ~FailedIn(q, t) BY <1>4 DEF FailedIn
<1>10. ASSUME NEW t \in Tables PROVE SameBut(store[c].tables[t], RowsOf(x.rows, t), t, missed[c])
  <2>1. Copy(store[c].tables[t], x, t, missed[c]) BY <1>6, <1>7, <1>9 DEF Copies
  <2> QED BY <2>1, CloseIsSame DEF Copy
<1>11. ASSUME NEW t \in Free(c) PROVE SameBut(cache[c][t], RowsOf(x.rows, t), t, missed[c])
  <2>1. Copy(cache[c][t], x, t, missed[c]) BY <1>6, <1>7, <1>9 DEF Copies
  <2> QED BY <2>1, CloseIsSame DEF Copy
<1>12. Has(c, Tables, store[c].tables, server[at[c]]) BY <1>2, <1>8, <1>10, SameIsHas
<1>13. Has(c, Free(c), cache[c], server[at[c]])
  <2>1. Free(c) \in SUBSET Tables BY DEF Free
  <2> QED BY <2>1, <1>2, <1>8, <1>11, SameIsHas
<1> QED BY <1>12, <1>13 DEF Free

LEMMA TogetherHas == Together => CacheIsAVersion
<1> SUFFICES ASSUME Together, NEW c \in Clients, Settled(c), listening[c], ~outOfStep
             PROVE  /\ Has(c, Tables \ overtaken[c], cache[c], server[at[c]])
                    /\ Has(c, Tables, store[c].tables, server[at[c]])
  BY DEF CacheIsAVersion
<1>1. CASE c \in Writers BY <1>1, WriterHas DEF Together
<1>2. CASE c \notin Writers BY <1>2, ReaderHas DEF Together
<1> QED BY <1>1, <1>2

LEMMA InitTogether == Init => Together
<1> SUFFICES ASSUME Init PROVE Together OBVIOUS
<1>1. Basics BY InitTyped
<1>2. \A c \in Clients : status[c] = "closed" BY DEF Init
<1>3. VersionInv
  <2>1. PICK row : /\ row = [rev |-> 2, table |-> CHOOSE t \in Tables : TRUE, value |-> 0]
                   /\ server = <<[rev |-> 2, rows |-> Put(None, 1, row)]>>
    BY DEF Init
  <2>2. row.rev = 2 BY <2>1
  <2>3. PICK rows : rows = Put(None, 1, row) OBVIOUS
  <2>4. DOMAIN rows = {1} /\ rows[1] = row BY <2>3, NoneIs DEF Put
  <2>5. Len(server) = 1 /\ server[1].rev = 2 /\ server[1].rows = rows BY <2>1, <2>3
  <2>6. \A v : v \in 1 .. Len(server) <=> v = 1 BY <2>5
  <2>7. \A id \in DOMAIN server[1].rows : server[1].rows[id].rev = 2 BY <2>2, <2>4, <2>5
  <2>8. Tells(server) BY <2>5, <2>6, <2>7 DEF Tells
  <2> QED BY <2>8 DEF VersionInv
<1>4. TaskInv BY <1>2 DEF TaskInv, LeadsClient
<1>5. \A c \in Clients \ Writers : ReaderOK(c) BY <1>2 DEF ReaderOK
<1>6. ReaderInv BY <1>5 DEF ReaderInv
<1>7. LoadInv /\ OwnInv /\ WritersInv
  BY <1>2, WritersAreClients DEF LoadInv, LoadOK, OwnInv, WritersInv
<1> QED BY <1>1, <1>3, <1>4, <1>6, <1>7 DEF Together

LEMMA TogetherStays ==
    ASSUME Together, UNCHANGED vars
    PROVE  Together'
<1>1. Basics' BY BasicsStay DEF Together
<1>2. /\ server' = server /\ status' = status /\ loaded' = loaded /\ listening' = listening
      /\ at' = at /\ store' = store /\ cache' = cache /\ nextId' = nextId /\ sent' = sent
      /\ missed' = missed /\ outOfStep' = outOfStep /\ begun' = begun /\ overtaken' = overtaken
  BY DEF vars, connection, memory, writing, history
<1>3. VersionInv' /\ TaskInv' BY <1>2 DEF Together, VersionInv, TaskInv, LeadsClient, Free
<1>4. ReaderInv' BY <1>2 DEF Together, ReaderInv, ReaderOK
<1>5. LoadInv' BY <1>2 DEF Together, LoadInv, LoadOK, Now
<1>6. WritersInv' BY <1>2 DEF Together, WritersInv, WriterOK, Free
<1>7. OwnInv' BY <1>2 DEF Together, OwnInv, OwnsClient
<1> QED BY <1>1, <1>3, <1>4, <1>5, <1>6, <1>7 DEF Together

LEMMA TogetherStep ==
    ASSUME OneWriter, Together, Next
    PROVE  Together'
<1>1. /\ Basics /\ VersionInv /\ TaskInv /\ ReaderInv /\ LoadInv /\ OwnInv /\ WritersInv
      /\ Basics'
  BY BasicsStep DEF Together
<1>2. PICK c \in Clients : StepOf(c) BY <1>1, BasicsStep
<1>3. VersionInv' BY <1>1, <1>2, VersionStep
<1>4. TaskInv' BY <1>1, <1>2, TaskStep
<1>5. ReaderInv' BY <1>1, <1>2, ReaderStep
<1>6. LoadInv' BY <1>1, <1>2, LoadStep
<1>7. WritersInv' BY <1>1, <1>2, WritersStep
<1>8. OwnInv' BY <1>1, <1>2, <1>7, OwnStep
<1> QED BY <1>1, <1>3, <1>4, <1>5, <1>6, <1>7, <1>8 DEF Together

\* With one writer, a client that has nothing under way has the version of the server
\* that it sees: in its tables, and in its cache but for the tables in which a later
\* task or a transaction overtook an external change that waited; not so once an
\* update was refused while a later one was under way.
THEOREM ClientsHaveVersions == OneWriter => (Spec => []CacheIsAVersion)
<1> SUFFICES ASSUME OneWriter PROVE Spec => []CacheIsAVersion OBVIOUS
<1>1. Together /\ [Next]_vars => Together' BY TogetherStep, TogetherStays
<1> QED BY <1>1, InitTogether, TogetherHas, PTL DEF Spec
=============================================================================
