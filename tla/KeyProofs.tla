------------------------------ MODULE KeyProofs ------------------------------
(***************************************************************************)
(* Proofs about keys.                                                      *)
(*                                                                         *)
(* Of Constraints.tla, the keys by which rows refer to each other, in four *)
(* parts: that the rounds of detectCascadeDeletion find exactly the rows   *)
(* that depend on the deleted ones; what the statements do that succeed;   *)
(* that they orphan no row, which with the deferred checks is NoOrphans;   *)
(* and that cascades do what CASCADE promises, DeletesDependents and       *)
(* ReferencesFollow.  These theorems are about every schema, except for    *)
(* what their hypotheses say of it: there are schemas without these        *)
(* properties, and statements for them, with which the code does not keep  *)
(* its promises.                                                           *)
(*                                                                         *)
(* Of KeyRange.tla, what the operations on ranges do to the keys in them,  *)
(* for all ranges, also those with their bounds the wrong way round, which *)
(* have no keys.                                                           *)
(***************************************************************************)
EXTENDS Constraints, KeyRange, WellFoundedInduction, TLAPS

(* Of the numbers up to N those that have a property are all of them if 0  *)
(* has it and each passes it on to the next.                               *)
LEMMA UpTo ==
    ASSUME NEW N \in Nat, NEW T \in SUBSET (0..N), 0 \in T,
           \A n \in 1..N : n - 1 \in T => n \in T
    PROVE  T = 0..N
<1> DEFINE bad == (0..N) \ T
<1>1. SUFFICES ASSUME bad # {} PROVE FALSE
  OBVIOUS
<1>2. bad \in SUBSET Nat
  OBVIOUS
<1>3. IsWellFoundedOn(OpToRel(<, Nat), Nat)
  BY NatLessThanWellFounded
<1>4. PICK k \in bad : \A m \in bad : ~(<<m, k>> \in OpToRel(<, Nat))
  <2> HIDE DEF bad
  <2> QED BY <1>1, <1>2, <1>3, WFMin
<1>5. \A m \in bad : ~(m < k)
  BY <1>2, <1>4 DEF OpToRel
<1>6. k \in 1..N
  OBVIOUS
<1>7. k - 1 \in T
  <2>1. k - 1 \in 0..N /\ k - 1 < k
    BY <1>6
  <2>2. k - 1 \notin bad
    BY <1>5, <2>1
  <2> QED BY <2>1, <2>2
<1> QED BY <1>6, <1>7

-----------------------------------------------------------------------------
(* The state of detectCascadeDeletion.                                     *)
Found == [last : [Table -> SUBSET RowId], keys : Seq(Table), tables : Seq(Table),
          all : [Table -> SUBSET RowId], order : Seq(Table)]

\* A loop of N steps can be carried out.
LEMMA Iteration ==
    ASSUME NEW N \in Nat, NEW start \in Found, NEW step \in [1..N -> [Found -> Found]]
    PROVE  \E f \in [0..N -> Found] : f[0] = start /\ \A n \in 1..N : f[n] = step[n][f[n - 1]]
<1> DEFINE Good(k) == \E f \in [0..k -> Found] : f[0] = start /\ \A n \in 1..k : f[n] = step[n][f[n - 1]]
           T == {k \in 0..N : Good(k)}
<1>1. 0 \in T
  <2>1. [i \in 0..0 |-> start] \in [0..0 -> Found]
    OBVIOUS
  <2>2. [i \in 0..0 |-> start][0] = start
    OBVIOUS
  <2>3. 1..0 = {}
    OBVIOUS
  <2>4. Good(0)
    BY <2>1, <2>2, <2>3
  <2> QED BY <2>4
<1>2. ASSUME NEW k \in 1..N, k - 1 \in T PROVE k \in T
  <2>1. PICK f \in [0..(k-1) -> Found] : f[0] = start /\ \A n \in 1..(k-1) : f[n] = step[n][f[n - 1]]
    BY <1>2
  <2> DEFINE g == [n \in 0..k |-> IF n = k THEN step[k][f[k - 1]] ELSE f[n]]
  <2>2. f[k - 1] \in Found /\ step[k][f[k - 1]] \in Found
    OBVIOUS
  <2>3. g \in [0..k -> Found]
    BY <2>1, <2>2
  <2>4. \A n \in 1..k : g[n] = step[n][g[n - 1]]
    BY <2>1
  <2>5. g[0] = start
    BY <2>1
  <2>6. Good(k)
    <3> HIDE DEF g
    <3> QED BY <2>3, <2>4, <2>5
  <2> QED BY <2>6
<1>3. T = 0..N
  <2> HIDE DEF T
  <2>1. T \in SUBSET (0..N)
    BY DEF T
  <2>2. \A n \in 1..N : n - 1 \in T => n \in T
    BY <1>2
  <2> QED BY <1>1, <2>1, <2>2, UpTo
<1>4. N \in T
  <2> HIDE DEF T
  <2> QED BY <1>3
<1> QED BY <1>4

\* What AppendNew does.
LEMMA AppendNewAdds ==
    ASSUME NEW seq \in Seq(Table), NEW t \in Table
    PROVE  AppendNew(seq, t) \in Seq(Table) /\ ToSet(AppendNew(seq, t)) = ToSet(seq) \cup {t}
<1>1. CASE t \in ToSet(seq)
  BY <1>1 DEF AppendNew
<1>2. CASE t \notin ToSet(seq)
  <2>1. AppendNew(seq, t) = Append(seq, t)
    BY <1>2 DEF AppendNew
  <2>2. Append(seq, t) \in Seq(Table)
    OBVIOUS
  <2>3. ToSet(Append(seq, t)) = ToSet(seq) \cup {t}
    <3> DEFINE new == Append(seq, t)
    <3>1. /\ DOMAIN new = 1..(Len(seq) + 1) /\ DOMAIN seq = 1..Len(seq) /\ Len(seq) \in Nat
          /\ new[Len(seq) + 1] = t /\ \A i \in 1..Len(seq) : new[i] = seq[i]
      OBVIOUS
    <3> HIDE DEF new
    <3>2. ASSUME NEW x \in ToSet(new) PROVE x \in ToSet(seq) \cup {t}
      BY <3>1 DEF ToSet
    <3>3. ASSUME NEW x \in ToSet(seq) PROVE x \in ToSet(new)
      BY <3>1 DEF ToSet
    <3>4. t \in ToSet(new)
      BY <3>1 DEF ToSet
    <3>5. ToSet(new) = ToSet(seq) \cup {t}
      BY <3>2, <3>3, <3>4
    <3> QED BY <3>5 DEF new
  <2> QED BY <2>1, <2>2, <2>3
<1> QED BY <1>1, <1>2

\* A foreign key is of the schema.
LEMMA SpecFacts ==
    ASSUME NEW n \in 1..Len(ForeignKeys)
    PROVE  ForeignKeys[n] \in Specs /\ ForeignKeys[n].child \in Table /\ ForeignKeys[n].parent \in Table
<1>1. DOMAIN ForeignKeys = 1..Len(ForeignKeys)
  BY SchemaAssumption
<1>2. ForeignKeys[n] \in Specs
  BY <1>1 DEF Specs
<1> QED BY <1>2, SchemaAssumption

\* One foreign key keeps the state of the detection well formed.
LEMMA FindReferringTyped ==
    ASSUME NEW db, NEW t, NEW ids, NEW n \in 1..Len(ForeignKeys), NEW r \in Found
    PROVE  FindReferring(db, t, ids, ForeignKeys[n], r) \in Found
<1> DEFINE fk == ForeignKeys[n]
           hit == Referring(db, fk, ids)
<1>1. fk.child \in Table
  BY SpecFacts
<1> HIDE DEF fk
<1>2. hit \in SUBSET RowId
  BY DEF Referring, Present
<1> HIDE DEF hit
<1>3. [r.last EXCEPT ![fk.child] = @ \cup hit] \in [Table -> SUBSET RowId]
  BY <1>1, <1>2 DEF Found
<1>4. AppendNew(r.keys, fk.child) \in Seq(Table) /\ AppendNew(r.tables, fk.child) \in Seq(Table)
  BY <1>1, AppendNewAdds DEF Found
<1>5. \/ FindReferring(db, t, ids, fk, r) = r
      \/ FindReferring(db, t, ids, fk, r) =
           [r EXCEPT !.last[fk.child] = @ \cup hit,
                     !.keys = AppendNew(@, fk.child), !.tables = AppendNew(@, fk.child)]
  BY DEF FindReferring, hit
<1>6. [r EXCEPT !.last[fk.child] = @ \cup hit,
                !.keys = AppendNew(@, fk.child), !.tables = AppendNew(@, fk.child)] \in Found
  BY <1>3, <1>4 DEF Found
<1>7. FindReferring(db, t, ids, fk, r) \in Found
  BY <1>5, <1>6
<1> QED BY <1>7 DEF fk

\* What a visit to the table t has done with some foreign keys.
Visited(db, t, ids, fks, r, f) ==
    /\ f \in Found /\ f.order = r.order /\ f.all = r.all
    /\ ToSet(r.keys) \subseteq ToSet(f.keys)
    /\ \A c \in Table : r.last[c] \subseteq f.last[c]
    /\ \A c \in Table : f.last[c] # r.last[c] => c \in ToSet(f.keys) /\ c \in ToSet(f.tables)
    /\ \A fk \in fks : (fk.parent = t /\ fk.action = "CASCADE") =>
          Referring(db, fk, ids) \subseteq f.last[fk.child]
    /\ \A c \in Table : \A x \in f.last[c] : x \in r.last[c] \/ \E fk \in Specs :
          /\ fk.child = c /\ fk.parent = t /\ fk.action = "CASCADE"
          /\ x \in Referring(db, fk, ids)

\* One more foreign key of a table: what is found, and only what refers to its
\* rows.
LEMMA VisitStep ==
    ASSUME NEW db, NEW t, NEW ids, NEW n \in 1..Len(ForeignKeys), NEW fks \in SUBSET Specs,
           NEW r, NEW f, Visited(db, t, ids, fks, r, f)
    PROVE  Visited(db, t, ids, fks \cup {ForeignKeys[n]}, r,
                   FindReferring(db, t, ids, ForeignKeys[n], f))
<1> DEFINE fk == ForeignKeys[n]
           hit == Referring(db, fk, ids)
           g == FindReferring(db, t, ids, fk, f)
<1>1. fk \in Specs /\ fk.child \in Table
  BY SpecFacts
<1>2. f \in Found
  BY DEF Visited
<1>3. g \in Found
  BY <1>2, FindReferringTyped
<1> HIDE DEF fk
<1>4. CASE fk.parent # t \/ fk.action # "CASCADE" \/ hit = {}
  <2>1. g = f
    BY <1>4 DEF FindReferring
  <2>2. Visited(db, t, ids, fks \cup {fk}, r, f)
    BY <1>4 DEF Visited
  <2> QED BY <2>1, <2>2 DEF fk
<1>5. CASE ~(fk.parent # t \/ fk.action # "CASCADE" \/ hit = {})
  <2>1. g = [f EXCEPT !.last[fk.child] = @ \cup hit, !.keys = AppendNew(@, fk.child),
                      !.tables = AppendNew(@, fk.child)]
    BY <1>5 DEF FindReferring
  <2> HIDE DEF g, hit
  <2>2. g.order = f.order /\ g.all = f.all
    BY <1>2, <2>1 DEF Found
  <2>3. g.keys = AppendNew(f.keys, fk.child) /\ g.tables = AppendNew(f.tables, fk.child)
    BY <1>2, <2>1 DEF Found
  <2>4. \A c \in Table : g.last[c] = IF c = fk.child THEN f.last[c] \cup hit ELSE f.last[c]
    BY <1>2, <2>1 DEF Found
  <2>5. /\ ToSet(g.keys) = ToSet(f.keys) \cup {fk.child}
        /\ ToSet(g.tables) = ToSet(f.tables) \cup {fk.child}
    BY <1>1, <1>2, <2>3, AppendNewAdds DEF Found
  <2>6. \A c \in Table : g.last[c] # r.last[c] => c \in ToSet(g.keys) /\ c \in ToSet(g.tables)
    BY <2>4, <2>5 DEF Visited
  <2>7. \A other \in fks \cup {fk} : (other.parent = t /\ other.action = "CASCADE") =>
          Referring(db, other, ids) \subseteq g.last[other.child]
    <3> SUFFICES ASSUME NEW other \in fks \cup {fk}, other.parent = t, other.action = "CASCADE"
                 PROVE  Referring(db, other, ids) \subseteq g.last[other.child]
      OBVIOUS
    <3>1. CASE other = fk
      BY <1>1, <2>4, <3>1 DEF hit
    <3>2. CASE other # fk
      <4>1. Referring(db, other, ids) \subseteq f.last[other.child]
        BY <3>2 DEF Visited
      <4>2. other.child \in Table
        BY <3>2, SchemaAssumption
      <4> QED BY <2>4, <4>1, <4>2
    <3> QED BY <3>1, <3>2
  <2>8. ASSUME NEW c \in Table, NEW x \in g.last[c], x \notin r.last[c]
        PROVE  \E other \in Specs :
                  /\ other.child = c /\ other.parent = t /\ other.action = "CASCADE"
                  /\ x \in Referring(db, other, ids)
    <3>1. CASE x \in f.last[c]
      BY <2>8, <3>1 DEF Visited
    <3>2. CASE x \notin f.last[c]
      <4>1. c = fk.child /\ x \in hit
        BY <2>4, <2>8, <3>2
      <4> QED BY <1>1, <1>5, <4>1 DEF hit
    <3> QED BY <3>1, <3>2
  <2>9. \A c \in Table : r.last[c] \subseteq g.last[c]
    BY <2>4 DEF Visited
  <2>10. g.order = r.order /\ g.all = r.all /\ ToSet(r.keys) \subseteq ToSet(g.keys)
    BY <2>2, <2>5 DEF Visited
  <2>11. Visited(db, t, ids, fks \cup {fk}, r, g)
    BY <1>3, <2>6, <2>7, <2>8, <2>9, <2>10 DEF Visited
  <2> QED BY <2>11 DEF g, fk
<1> QED BY <1>4, <1>5

\* What the visits of a round to some tables have done.
RoundSoFar(db, seen, rowsOf, r, f) ==
    /\ f \in Found /\ f.all = r.all
    /\ ToSet(r.order) \subseteq ToSet(f.order)
    /\ \A c \in Table : f.last[c] # {} => c \in ToSet(f.keys) /\ c \in ToSet(f.order)
    /\ \A t \in seen : \A fk \in Specs : (fk.parent = t /\ fk.action = "CASCADE") =>
          Referring(db, fk, rowsOf[t]) \subseteq f.last[fk.child]
    /\ \A c \in Table : \A x \in f.last[c] : \E fk \in Specs :
          /\ fk.child = c /\ fk.action = "CASCADE"
          /\ x \in Referring(db, fk, rowsOf[fk.parent])

\* The elements of two sequences, one after the other.
LEMMA ToSetOfConcat ==
    ASSUME NEW S, NEW s \in Seq(S), NEW q \in Seq(S)
    PROVE  s \o q \in Seq(S) /\ ToSet(s \o q) = ToSet(s) \cup ToSet(q)
<1> DEFINE c == s \o q
<1>1. c \in Seq(S)
  OBVIOUS
<1>2. /\ DOMAIN c = 1..(Len(s) + Len(q)) /\ DOMAIN s = 1..Len(s) /\ DOMAIN q = 1..Len(q)
      /\ Len(s) \in Nat /\ Len(q) \in Nat
      /\ \A i \in 1..(Len(s) + Len(q)) : c[i] = IF i <= Len(s) THEN s[i] ELSE q[i - Len(s)]
  OBVIOUS
<1> HIDE DEF c
<1>3. ASSUME NEW x \in ToSet(c) PROVE x \in ToSet(s) \cup ToSet(q)
  <2>1. PICK i \in DOMAIN c : x = c[i]
    BY DEF ToSet
  <2>2. CASE i <= Len(s)
    BY <1>2, <2>1, <2>2 DEF ToSet
  <2>3. CASE ~(i <= Len(s))
    <3>1. i - Len(s) \in 1..Len(q) /\ x = q[i - Len(s)]
      BY <1>2, <2>1, <2>3
    <3> QED BY <1>2, <3>1 DEF ToSet
  <2> QED BY <2>2, <2>3
<1>4. ASSUME NEW x \in ToSet(s) PROVE x \in ToSet(c)
  BY <1>2 DEF ToSet
<1>5. ASSUME NEW x \in ToSet(q) PROVE x \in ToSet(c)
  <2>1. PICK i \in 1..Len(q) : x = q[i]
    BY <1>2 DEF ToSet
  <2>2. i + Len(s) \in 1..(Len(s) + Len(q)) /\ c[i + Len(s)] = q[i]
    BY <1>2
  <2> QED BY <1>2, <2>1, <2>2 DEF ToSet
<1>6. ToSet(c) = ToSet(s) \cup ToSet(q)
  BY <1>3, <1>4, <1>5
<1> QED BY <1>1, <1>6 DEF c

\* Where a visit starts, and what it does at its end.
NoTables(r) == [r EXCEPT !.tables = <<>>]
InFront(f)  == [f EXCEPT !.order = f.tables \o @]

\* The loop over the foreign keys of one table, after n of them.
LEMMA VisitLoop ==
    ASSUME NEW db, NEW t, NEW ids, NEW r \in Found
    PROVE  \E f : /\ Visited(db, t, ids, Specs, NoTables(r), f)
                  /\ VisitTable(db, t, ids, r) = InFront(f)
<1> DEFINE N == Len(ForeignKeys)
           start == NoTables(r)
           step == [n \in 1..N |-> [x \in Found |-> FindReferring(db, t, ids, ForeignKeys[n], x)]]
           V == CHOOSE g : g = [n \in 0..N |->
                    IF n = 0 THEN start ELSE FindReferring(db, t, ids, ForeignKeys[n], g[n - 1])]
           fks(n) == {ForeignKeys[m] : m \in 1..n}
<1>1. N \in Nat
  BY SchemaAssumption
<1>2. start \in Found
  <2>1. << >> \in Seq(Table)
    OBVIOUS
  <2> QED BY <2>1 DEF Found, NoTables
<1>3. VisitTable(db, t, ids, r) = InFront(V[N])
  BY DEF VisitTable, NoTables, InFront
<1>4. step \in [1..N -> [Found -> Found]]
  BY FindReferringTyped
<1>5. PICK g \in [0..N -> Found] : g[0] = start /\ \A n \in 1..N : g[n] = step[n][g[n - 1]]
  <2> HIDE DEF step, start, N
  <2> QED BY <1>1, <1>2, <1>4, Iteration
<1>6. \A n \in 1..N : g[n] = FindReferring(db, t, ids, ForeignKeys[n], g[n - 1])
  <2> SUFFICES ASSUME NEW n \in 1..N
               PROVE  g[n] = FindReferring(db, t, ids, ForeignKeys[n], g[n - 1])
    OBVIOUS
  <2>1. g[n - 1] \in Found
    BY <1>1, <1>5
  <2> QED BY <1>5, <2>1
<1>7. V = [n \in 0..N |->
              IF n = 0 THEN start ELSE FindReferring(db, t, ids, ForeignKeys[n], V[n - 1])]
  <2>1. g = [n \in 0..N |->
              IF n = 0 THEN start ELSE FindReferring(db, t, ids, ForeignKeys[n], g[n - 1])]
    <3> HIDE DEF start, N
    <3> QED BY <1>1, <1>5, <1>6
  <2> QED BY <2>1
<1> HIDE DEF V
<1>8. V[0] = start /\ \A n \in 1..N : V[n] = FindReferring(db, t, ids, ForeignKeys[n], V[n - 1])
  <2> HIDE DEF start, N
  <2> QED BY <1>1, <1>7
<1> DEFINE T == {n \in 0..N : Visited(db, t, ids, fks(n), start, V[n])}
<1>9. 0 \in T
  <2>1. fks(0) = {}
    OBVIOUS
  <2>2. Visited(db, t, ids, {}, start, start)
    <3> HIDE DEF start
    <3> QED BY <1>2 DEF Visited
  <2> HIDE DEF start, fks
  <2> QED BY <1>1, <1>8, <2>1, <2>2
<1>10. ASSUME NEW n \in 1..N, n - 1 \in T PROVE n \in T
  <2>1. fks(n - 1) \cup {ForeignKeys[n]} = fks(n)
    BY <1>1
  <2>2. fks(n - 1) \in SUBSET Specs
    BY <1>1, SpecFacts
  <2> HIDE DEF start, fks
  <2>3. Visited(db, t, ids, fks(n - 1), start, V[n - 1])
    BY <1>10
  <2>4. Visited(db, t, ids, fks(n - 1) \cup {ForeignKeys[n]}, start,
                FindReferring(db, t, ids, ForeignKeys[n], V[n - 1]))
    BY <2>2, <2>3, VisitStep
  <2>5. V[n] = FindReferring(db, t, ids, ForeignKeys[n], V[n - 1])
    BY <1>8
  <2> QED BY <1>1, <2>1, <2>4, <2>5
<1>11. N \in T
  <2> HIDE DEF T, N
  <2>1. T \in SUBSET (0..N)
    BY DEF T
  <2> QED BY <1>1, <1>9, <1>10, <2>1, UpTo
<1>12. fks(N) = Specs
  BY SchemaAssumption DEF Specs
<1> HIDE DEF start, fks
<1> QED BY <1>3, <1>11, <1>12 DEF start

\* VisitTable finds the rows that refer to those of one table.
LEMMA VisitTableDoes ==
    ASSUME NEW db, NEW t, NEW ids, NEW r \in Found
    PROVE  LET v == VisitTable(db, t, ids, r)
           IN  /\ v \in Found /\ v.all = r.all
               /\ ToSet(r.keys) \subseteq ToSet(v.keys)
               /\ ToSet(r.order) \subseteq ToSet(v.order)
               /\ \A c \in Table : r.last[c] \subseteq v.last[c]
               /\ \A c \in Table : v.last[c] # r.last[c] =>
                                      c \in ToSet(v.keys) /\ c \in ToSet(v.order)
               /\ \A fk \in Specs : (fk.parent = t /\ fk.action = "CASCADE") =>
                     Referring(db, fk, ids) \subseteq v.last[fk.child]
               /\ \A c \in Table : \A x \in v.last[c] : x \in r.last[c] \/ \E fk \in Specs :
                     /\ fk.child = c /\ fk.parent = t /\ fk.action = "CASCADE"
                     /\ x \in Referring(db, fk, ids)
<1> DEFINE start == NoTables(r)
<1>1. PICK f : Visited(db, t, ids, Specs, start, f) /\ VisitTable(db, t, ids, r) = InFront(f)
  BY VisitLoop
<1>2. start.order = r.order /\ start.all = r.all /\ start.keys = r.keys /\ start.last = r.last
  BY DEF Found, NoTables
<1> HIDE DEF start
<1>3. f \in Found
  BY <1>1 DEF Visited
<1> DEFINE v == VisitTable(db, t, ids, r)
<1>4. v = [f EXCEPT !.order = f.tables \o f.order]
  BY <1>1 DEF InFront
<1> HIDE DEF v
<1>5. f.tables \in Seq(Table) /\ f.order \in Seq(Table)
  BY <1>3 DEF Found
<1>6. /\ f.tables \o f.order \in Seq(Table)
      /\ ToSet(f.tables \o f.order) = ToSet(f.tables) \cup ToSet(f.order)
  BY <1>5, ToSetOfConcat
<1>7. /\ v \in Found /\ v.all = f.all /\ v.keys = f.keys /\ v.last = f.last
      /\ v.order = f.tables \o f.order
  BY <1>3, <1>4, <1>6 DEF Found
<1>8. ToSet(v.order) = ToSet(f.tables) \cup ToSet(r.order) /\ v.all = r.all
  BY <1>1, <1>2, <1>6, <1>7 DEF Visited
<1>9. \A c \in Table : v.last[c] # r.last[c] => c \in ToSet(v.keys) /\ c \in ToSet(v.order)
  BY <1>1, <1>2, <1>7, <1>8 DEF Visited
<1>10. /\ ToSet(r.keys) \subseteq ToSet(v.keys)
       /\ \A c \in Table : r.last[c] \subseteq v.last[c]
       /\ \A fk \in Specs : (fk.parent = t /\ fk.action = "CASCADE") =>
             Referring(db, fk, ids) \subseteq v.last[fk.child]
       /\ \A c \in Table : \A x \in v.last[c] : x \in r.last[c] \/ \E fk \in Specs :
             /\ fk.child = c /\ fk.parent = t /\ fk.action = "CASCADE"
             /\ x \in Referring(db, fk, ids)
  BY <1>1, <1>2, <1>7 DEF Visited
<1> QED BY <1>7, <1>8, <1>9, <1>10 DEF v

\* One more table of a round.
LEMMA RoundStep ==
    ASSUME NEW db, NEW seen, NEW t \in Table, NEW rowsOf, NEW r, NEW f,
           RoundSoFar(db, seen, rowsOf, r, f)
    PROVE  RoundSoFar(db, seen \cup {t}, rowsOf, r, VisitTable(db, t, rowsOf[t], f))
<1> DEFINE v == VisitTable(db, t, rowsOf[t], f)
<1>1. f \in Found /\ f.all = r.all /\ ToSet(r.order) \subseteq ToSet(f.order)
  BY DEF RoundSoFar
<1>2. /\ v \in Found /\ v.all = f.all
      /\ ToSet(f.keys) \subseteq ToSet(v.keys)
      /\ ToSet(f.order) \subseteq ToSet(v.order)
      /\ \A c \in Table : f.last[c] \subseteq v.last[c]
      /\ \A c \in Table : v.last[c] # f.last[c] => c \in ToSet(v.keys) /\ c \in ToSet(v.order)
      /\ \A fk \in Specs : (fk.parent = t /\ fk.action = "CASCADE") =>
            Referring(db, fk, rowsOf[t]) \subseteq v.last[fk.child]
      /\ \A c \in Table : \A x \in v.last[c] : x \in f.last[c] \/ \E fk \in Specs :
            /\ fk.child = c /\ fk.parent = t /\ fk.action = "CASCADE"
            /\ x \in Referring(db, fk, rowsOf[t])
  BY <1>1, VisitTableDoes
<1> HIDE DEF v
<1>3. \A c \in Table : v.last[c] # {} => c \in ToSet(v.keys) /\ c \in ToSet(v.order)
  BY <1>2 DEF RoundSoFar
<1>4. ASSUME NEW p \in seen \cup {t}, NEW fk \in Specs, fk.parent = p, fk.action = "CASCADE"
      PROVE  Referring(db, fk, rowsOf[p]) \subseteq v.last[fk.child]
  <2>1. CASE p = t
    BY <1>2, <1>4, <2>1
  <2>2. CASE p \in seen
    <3>1. Referring(db, fk, rowsOf[p]) \subseteq f.last[fk.child]
      BY <1>4, <2>2 DEF RoundSoFar
    <3>2. fk.child \in Table
      BY SchemaAssumption
    <3> QED BY <1>2, <3>1, <3>2
  <2> QED BY <2>1, <2>2
<1>5. ASSUME NEW c \in Table, NEW x \in v.last[c]
      PROVE  \E fk \in Specs : /\ fk.child = c /\ fk.action = "CASCADE"
                               /\ x \in Referring(db, fk, rowsOf[fk.parent])
  <2>1. CASE x \in f.last[c]
    BY <2>1 DEF RoundSoFar
  <2>2. CASE x \notin f.last[c]
    BY <1>2, <2>2
  <2> QED BY <2>1, <2>2
<1>6. RoundSoFar(db, seen \cup {t}, rowsOf, r, v)
  BY <1>1, <1>2, <1>3, <1>4, <1>5 DEF RoundSoFar
<1> QED BY <1>6 DEF v

\* The loop over the tables of a round, after n of them.
LEMMA RoundLoop ==
    ASSUME NEW db, NEW r \in Found
    PROVE  \E f : /\ RoundSoFar(db, ToSet(r.keys), r.last, r, f)
                  /\ NextRound(db, r) = [f EXCEPT !.all = [c \in Table |-> r.all[c] \cup f.last[c]]]
<1> DEFINE N == Len(r.keys)
           none == [c \in Table |-> {}]
           start == [r EXCEPT !.last = none, !.keys = <<>>]
           step == [n \in 1..N |-> [x \in Found |-> VisitTable(db, r.keys[n], r.last[r.keys[n]], x)]]
           V == CHOOSE g : g = [n \in 0..N |->
                    IF n = 0 THEN start ELSE VisitTable(db, r.keys[n], r.last[r.keys[n]], g[n - 1])]
           seen(n) == {r.keys[m] : m \in 1..n}
<1>0. r.keys \in Seq(Table)
  BY DEF Found
<1>1. N \in Nat /\ DOMAIN r.keys = 1..N
  BY <1>0
<1>2. start \in Found /\ start.all = r.all /\ start.order = r.order /\ start.last = none
  <2>1. << >> \in Seq(Table) /\ none \in [Table -> SUBSET RowId]
    OBVIOUS
  <2> HIDE DEF none
  <2> QED BY <2>1 DEF Found
<1>3. NextRound(db, r) = [V[N] EXCEPT !.all = [c \in Table |-> V[N].all[c] \cup V[N].last[c]]]
  BY DEF NextRound
<1>4. step \in [1..N -> [Found -> Found]]
  BY VisitTableDoes
<1>5. PICK g \in [0..N -> Found] : g[0] = start /\ \A n \in 1..N : g[n] = step[n][g[n - 1]]
  <2> HIDE DEF none, step, start, N, V, seen
  <2> QED BY <1>1, <1>2, <1>4, Iteration
<1>6. \A n \in 1..N : g[n] = VisitTable(db, r.keys[n], r.last[r.keys[n]], g[n - 1])
  <2> SUFFICES ASSUME NEW n \in 1..N
               PROVE  g[n] = VisitTable(db, r.keys[n], r.last[r.keys[n]], g[n - 1])
    OBVIOUS
  <2>1. g[n - 1] \in Found
    BY <1>1, <1>5
  <2> QED BY <1>5, <2>1
<1>7. V = [n \in 0..N |->
              IF n = 0 THEN start ELSE VisitTable(db, r.keys[n], r.last[r.keys[n]], V[n - 1])]
  <2>1. g = [n \in 0..N |->
              IF n = 0 THEN start ELSE VisitTable(db, r.keys[n], r.last[r.keys[n]], g[n - 1])]
    <3> HIDE DEF start, N
    <3> QED BY <1>1, <1>5, <1>6
  <2> QED BY <2>1
<1> HIDE DEF V
<1>8. /\ V[0] = start
      /\ \A n \in 1..N : V[n] = VisitTable(db, r.keys[n], r.last[r.keys[n]], V[n - 1])
  <2> HIDE DEF start, N
  <2> QED BY <1>1, <1>7
<1> DEFINE T == {n \in 0..N : RoundSoFar(db, seen(n), r.last, r, V[n])}
<1>9. 0 \in T
  <2>1. seen(0) = {}
    OBVIOUS
  <2>2. \A c \in Table : start.last[c] = {}
    BY <1>2
  <2>3. RoundSoFar(db, {}, r.last, r, start)
    <3> HIDE DEF start
    <3> QED BY <1>2, <2>2 DEF RoundSoFar
  <2>4. V[0] = start
    BY <1>8
  <2> HIDE DEF none, start, seen
  <2>5. RoundSoFar(db, seen(0), r.last, r, V[0])
    BY <2>1, <2>3, <2>4
  <2> QED BY <1>1, <2>5
<1>10. ASSUME NEW n \in 1..N, n - 1 \in T PROVE n \in T
  <2>1. seen(n - 1) \cup {r.keys[n]} = seen(n)
    BY <1>1
  <2>2. r.keys[n] \in Table
    BY <1>0, <1>1
  <2> HIDE DEF none, start, seen
  <2>3. RoundSoFar(db, seen(n - 1), r.last, r, V[n - 1])
    BY <1>10
  <2>4. RoundSoFar(db, seen(n - 1) \cup {r.keys[n]}, r.last, r,
                   VisitTable(db, r.keys[n], r.last[r.keys[n]], V[n - 1]))
    BY <2>2, <2>3, RoundStep
  <2>5. V[n] = VisitTable(db, r.keys[n], r.last[r.keys[n]], V[n - 1])
    BY <1>8
  <2>6. RoundSoFar(db, seen(n), r.last, r, V[n])
    BY <2>1, <2>4, <2>5
  <2> QED BY <1>1, <2>6
<1>11. N \in T
  <2> HIDE DEF T, N
  <2>1. T \in SUBSET (0..N)
    BY DEF T
  <2> QED BY <1>1, <1>9, <1>10, <2>1, UpTo
<1>12. seen(N) = ToSet(r.keys)
  BY <1>1 DEF ToSet
<1> HIDE DEF start, seen
<1>13. RoundSoFar(db, ToSet(r.keys), r.last, r, V[N])
  BY <1>11, <1>12
<1>14. V[N].all = r.all
  BY <1>13 DEF RoundSoFar
<1> QED BY <1>3, <1>13, <1>14

\* One round.
LEMMA NextRoundDoes ==
    ASSUME NEW db, NEW r \in Found
    PROVE  LET q == NextRound(db, r)
           IN  /\ q \in Found
               /\ \A c \in Table : q.all[c] = r.all[c] \cup q.last[c]
               /\ ToSet(r.order) \subseteq ToSet(q.order)
               /\ \A c \in Table : q.last[c] # {} => c \in ToSet(q.keys) /\ c \in ToSet(q.order)
               /\ \A t \in ToSet(r.keys) : \A fk \in Specs :
                     (fk.parent = t /\ fk.action = "CASCADE") =>
                         Referring(db, fk, r.last[t]) \subseteq q.last[fk.child]
               /\ \A c \in Table : \A x \in q.last[c] : \E fk \in Specs :
                     /\ fk.child = c /\ fk.action = "CASCADE"
                     /\ x \in Referring(db, fk, r.last[fk.parent])
<1> DEFINE q == NextRound(db, r)
<1>1. PICK f : /\ RoundSoFar(db, ToSet(r.keys), r.last, r, f)
               /\ q = [f EXCEPT !.all = [c \in Table |-> r.all[c] \cup f.last[c]]]
  BY RoundLoop
<1> HIDE DEF q
<1>2. f \in Found
  BY <1>1 DEF RoundSoFar
<1>3. [c \in Table |-> r.all[c] \cup f.last[c]] \in [Table -> SUBSET RowId]
  <2>1. r.all \in [Table -> SUBSET RowId] /\ f.last \in [Table -> SUBSET RowId]
    BY <1>2 DEF Found
  <2> QED BY <2>1
<1>4. /\ q \in Found /\ q.last = f.last /\ q.keys = f.keys /\ q.order = f.order
      /\ q.all = [c \in Table |-> r.all[c] \cup f.last[c]]
  BY <1>1, <1>2, <1>3 DEF Found
<1>5. \A c \in Table : q.all[c] = r.all[c] \cup q.last[c]
  BY <1>4
<1>6. /\ ToSet(r.order) \subseteq ToSet(q.order)
      /\ \A c \in Table : q.last[c] # {} => c \in ToSet(q.keys) /\ c \in ToSet(q.order)
      /\ \A t \in ToSet(r.keys) : \A fk \in Specs :
            (fk.parent = t /\ fk.action = "CASCADE") =>
                Referring(db, fk, r.last[t]) \subseteq q.last[fk.child]
      /\ \A c \in Table : \A x \in q.last[c] : \E fk \in Specs :
            /\ fk.child = c /\ fk.action = "CASCADE"
            /\ x \in Referring(db, fk, r.last[fk.parent])
  BY <1>1, <1>4 DEF RoundSoFar
<1> QED BY <1>4, <1>5, <1>6 DEF q

\* Sets of rows that CASCADE keeps together.
Closed(db, X) ==
    \A fk \in Specs : fk.action = "CASCADE" => 
        \A p \in X : TableOf[p] = fk.parent => Referring(db, fk, {p}) \subseteq X

\* What n rounds have done about the deletion of some rows of t.
Rounds(t, db, ids, depth, n, r) ==
    /\ r \in Found
    /\ \A c \in Table : r.last[c] \subseteq Present(db, c) /\ r.all[c] \subseteq Present(db, c)
    /\ \A c \in Table : r.last[c] # {} => c \in ToSet(r.keys) /\ n <= depth[c]
    /\ \A c \in Table : r.all[c] # {} => c \in ToSet(r.order)
    /\ \A fk \in Specs : fk.action = "CASCADE" => \A p \in RowId :
          (p \in r.all[fk.parent] \/ (fk.parent = t /\ p \in ids)) /\ p \notin r.last[fk.parent] =>
              Referring(db, fk, {p}) \subseteq r.all[fk.child]
    /\ \A X \in SUBSET RowId : (ids \subseteq X /\ Closed(db, X)) =>
          \A c \in Table : r.last[c] \subseteq X /\ r.all[c] \subseteq X

\* Nothing is found before the first round.
LEMMA RoundsStart ==
    ASSUME NEW t \in Table, NEW db, NEW ids \in SUBSET Present(db, t),
           NEW depth \in [Table -> Nat]
    PROVE  Rounds(t, db, ids, depth, 0, FirstRound(t, ids))
<1> DEFINE r == FirstRound(t, ids)
<1>1. << >> \in Seq(Table) /\ <<t>> \in Seq(Table) /\ ToSet(<<t>>) = {t}
  BY DEF ToSet
<1>2. ids \in SUBSET RowId
  BY DEF Present
<1>3. /\ r.last = [c \in Table |-> IF c = t THEN ids ELSE {}] /\ r.keys = <<t>>
      /\ r.tables = << >> /\ r.all = [c \in Table |-> {}] /\ r.order = << >>
  BY DEF FirstRound
<1>4. r.last \in [Table -> SUBSET RowId] /\ r.all \in [Table -> SUBSET RowId]
  BY <1>2, <1>3
<1>5. r \in Found
  BY <1>1, <1>3, <1>4 DEF FirstRound, Found
<1> HIDE DEF r
<1>6. \A c \in Table : r.last[c] = (IF c = t THEN ids ELSE {}) /\ r.all[c] = {}
  BY <1>3
<1>7. \A c \in Table : r.last[c] \subseteq Present(db, c) /\ r.all[c] \subseteq Present(db, c)
  BY <1>6
<1>8. \A c \in Table : r.last[c] # {} => c \in ToSet(r.keys) /\ 0 <= depth[c]
  BY <1>1, <1>3, <1>6
<1>9. \A fk \in Specs : fk.parent \in Table
  BY SchemaAssumption
<1>10. Rounds(t, db, ids, depth, 0, r)
  BY <1>5, <1>6, <1>7, <1>8, <1>9 DEF Rounds
<1> QED BY <1>10 DEF r

\* A round keeps what the rounds before it have established.
LEMMA RoundsStep ==
    ASSUME NEW t \in Table, NEW db, NEW ids \in SUBSET Present(db, t),
           NEW depth \in [Table -> Nat], NEW n \in Nat, NEW r,
           \A fk \in Specs : fk.child # fk.parent => depth[fk.parent] < depth[fk.child],
           Rounds(t, db, ids, depth, n, r)
    PROVE  Rounds(t, db, ids, depth, n + 1, NextRound(db, r))
<1> DEFINE q == NextRound(db, r)
<1>1. r \in Found
  BY DEF Rounds
<1>2. /\ q \in Found
      /\ \A c \in Table : q.all[c] = r.all[c] \cup q.last[c]
      /\ ToSet(r.order) \subseteq ToSet(q.order)
      /\ \A c \in Table : q.last[c] # {} => c \in ToSet(q.keys) /\ c \in ToSet(q.order)
      /\ \A p \in ToSet(r.keys) : \A fk \in Specs :
            (fk.parent = p /\ fk.action = "CASCADE") =>
                Referring(db, fk, r.last[p]) \subseteq q.last[fk.child]
      /\ \A c \in Table : \A x \in q.last[c] : \E fk \in Specs :
            /\ fk.child = c /\ fk.action = "CASCADE"
            /\ x \in Referring(db, fk, r.last[fk.parent])
  BY <1>1, NextRoundDoes
<1> HIDE DEF q
<1>3. \A fk \in Specs : fk.child \in Table /\ fk.parent \in Table /\
                        (fk.action = "CASCADE" => fk.child # fk.parent)
  BY SchemaAssumption, NoSelfCascade
<1>4. ASSUME NEW c \in Table, NEW x \in q.last[c]
      PROVE  /\ x \in Present(db, c) /\ n + 1 <= depth[c]
             /\ \E fk \in Specs : /\ fk.child = c /\ fk.action = "CASCADE"
                                  /\ \E p \in r.last[fk.parent] : x \in Referring(db, fk, {p})
  <2>1. PICK fk \in Specs : /\ fk.child = c /\ fk.action = "CASCADE"
                            /\ x \in Referring(db, fk, r.last[fk.parent])
    BY <1>2, <1>4
  <2>2. PICK p \in r.last[fk.parent] : x \in Referring(db, fk, {p})
    BY <2>1 DEF Referring
  <2>3. x \in Present(db, c)
    BY <2>1 DEF Referring
  <2>4. n <= depth[fk.parent] /\ depth[fk.parent] < depth[c]
    BY <1>3, <2>1, <2>2 DEF Rounds
  <2>5. depth[fk.parent] \in Nat /\ depth[c] \in Nat
    BY <1>3
  <2>6. n + 1 <= depth[c]
    BY <2>4, <2>5
  <2> QED BY <2>1, <2>2, <2>3, <2>6
<1>5. \A c \in Table : q.last[c] \subseteq Present(db, c) /\ q.all[c] \subseteq Present(db, c)
  BY <1>2, <1>4 DEF Rounds
<1>6. \A c \in Table : q.last[c] # {} => c \in ToSet(q.keys) /\ n + 1 <= depth[c]
  BY <1>2, <1>4
<1>7. \A c \in Table : q.all[c] # {} => c \in ToSet(q.order)
  BY <1>2 DEF Rounds
<1>8. ASSUME NEW fk \in Specs, fk.action = "CASCADE", NEW p \in RowId,
             p \in q.all[fk.parent] \/ (fk.parent = t /\ p \in ids), p \notin q.last[fk.parent]
      PROVE  Referring(db, fk, {p}) \subseteq q.all[fk.child]
  <2>1. p \in r.all[fk.parent] \/ (fk.parent = t /\ p \in ids)
    BY <1>2, <1>3, <1>8
  <2>2. CASE p \notin r.last[fk.parent]
    BY <1>2, <1>3, <1>8, <2>1, <2>2 DEF Rounds
  <2>3. CASE p \in r.last[fk.parent]
    <3>1. fk.parent \in ToSet(r.keys)
      BY <1>3, <2>3 DEF Rounds
    <3>2. Referring(db, fk, r.last[fk.parent]) \subseteq q.last[fk.child]
      BY <1>2, <1>8, <3>1
    <3>3. Referring(db, fk, {p}) \subseteq Referring(db, fk, r.last[fk.parent])
      BY <2>3 DEF Referring
    <3>4. fk.child \in Table /\ \A c \in Table : q.all[c] = r.all[c] \cup q.last[c]
      BY <1>2, <1>3
    <3>5. q.last[fk.child] \subseteq q.all[fk.child]
      BY ONLY <3>4
    <3> QED BY ONLY <3>2, <3>3, <3>5
  <2> QED BY <2>2, <2>3
<1>9. ASSUME NEW X \in SUBSET RowId, ids \subseteq X, Closed(db, X), NEW c \in Table
      PROVE  q.last[c] \subseteq X /\ q.all[c] \subseteq X
  <2>1. ASSUME NEW x \in q.last[c] PROVE x \in X
    <3>1. PICK fk \in Specs : /\ fk.child = c /\ fk.action = "CASCADE"
                              /\ \E p \in r.last[fk.parent] : x \in Referring(db, fk, {p})
      BY <1>4, <2>1
    <3>2. PICK p \in r.last[fk.parent] : x \in Referring(db, fk, {p})
      BY <3>1
    <3>3. p \in X /\ TableOf[p] = fk.parent
      BY <1>3, <1>9 DEF Rounds, Present
    <3> QED BY <1>9, <3>1, <3>2, <3>3 DEF Closed
  <2>2. r.all[c] \subseteq X
    BY <1>9 DEF Rounds
  <2> QED BY <1>2, <2>1, <2>2
<1>10. Rounds(t, db, ids, depth, n + 1, q)
  BY <1>2, <1>5, <1>6, <1>7, <1>8, <1>9 DEF Rounds
<1> QED BY <1>10 DEF q

\* A deletion takes what refers to deleted rows, and nothing that need not go.
LEMMA DetectsDependents ==
    ASSUME NEW t \in Table, NEW db, NEW ids \in SUBSET Present(db, t)
    PROVE  LET d == DetectCascadeDeletion(t, db, ids)
           IN  /\ d \in Found
               /\ \A c \in Table : d.all[c] \subseteq Present(db, c)
               /\ \A c \in Table : d.all[c] # {} => c \in ToSet(d.order)
               /\ \A fk \in Specs : fk.action = "CASCADE" => \A p \in RowId :
                     (p \in d.all[fk.parent] \/ (fk.parent = t /\ p \in ids)) =>
                         Referring(db, fk, {p}) \subseteq d.all[fk.child]
               /\ \A X \in SUBSET RowId : (ids \subseteq X /\ Closed(db, X)) =>
                     \A c \in Table : d.all[c] \subseteq X
<1> DEFINE N == Len(ForeignKeys)
           start == FirstRound(t, ids)
           step == [n \in 1..N |-> [x \in Found |-> NextRound(db, x)]]
           V == CHOOSE g : g = [n \in 0..N |-> IF n = 0 THEN start ELSE NextRound(db, g[n - 1])]
<1>1. N \in Nat
  BY SchemaAssumption
<1>2. PICK depth \in [Table -> 0..N] :
          \A fk \in Specs : fk.child # fk.parent => depth[fk.parent] < depth[fk.child]
  BY SchemaAssumption
<1>3. depth \in [Table -> Nat]
  BY <1>1, <1>2
<1>4. DetectCascadeDeletion(t, db, ids) = V[N]
  BY DEF DetectCascadeDeletion
<1>5. step \in [1..N -> [Found -> Found]]
  BY NextRoundDoes
<1>6. Rounds(t, db, ids, depth, 0, start)
  BY <1>3, RoundsStart
<1>7. start \in Found
  BY <1>6 DEF Rounds
<1>8. PICK g \in [0..N -> Found] : g[0] = start /\ \A n \in 1..N : g[n] = step[n][g[n - 1]]
  <2> HIDE DEF step, start, N, V
  <2> QED BY <1>1, <1>5, <1>7, Iteration
<1>9. \A n \in 1..N : g[n] = NextRound(db, g[n - 1])
  <2> SUFFICES ASSUME NEW n \in 1..N PROVE g[n] = NextRound(db, g[n - 1])
    OBVIOUS
  <2>1. g[n - 1] \in Found
    BY <1>1, <1>8
  <2> QED BY <1>8, <2>1
<1>10. V = [n \in 0..N |-> IF n = 0 THEN start ELSE NextRound(db, V[n - 1])]
  <2>1. g = [n \in 0..N |-> IF n = 0 THEN start ELSE NextRound(db, g[n - 1])]
    <3> HIDE DEF start, N
    <3> QED BY <1>1, <1>8, <1>9
  <2> QED BY <2>1
<1> HIDE DEF V
<1>11. V[0] = start /\ \A n \in 1..N : V[n] = NextRound(db, V[n - 1])
  <2> HIDE DEF start, N
  <2> QED BY <1>1, <1>10
<1> HIDE DEF start, step, N
<1> DEFINE T == {n \in 0..N : Rounds(t, db, ids, depth, n, V[n])}
<1>12. 0 \in T
  BY <1>1, <1>6, <1>11
<1>13. ASSUME NEW n \in 1..N, n - 1 \in T PROVE n \in T
  <2>1. n - 1 \in Nat /\ (n - 1) + 1 = n
    BY <1>1
  <2>2. Rounds(t, db, ids, depth, n - 1, V[n - 1])
    BY <1>13
  <2>3. Rounds(t, db, ids, depth, (n - 1) + 1, NextRound(db, V[n - 1]))
    BY <1>2, <1>3, <2>1, <2>2, RoundsStep
  <2>4. Rounds(t, db, ids, depth, n, V[n])
    BY <1>11, <2>1, <2>3
  <2> QED BY <1>1, <2>4
<1>14. N \in T
  <2> HIDE DEF T
  <2>1. T \in SUBSET (0..N)
    BY DEF T
  <2> QED BY <1>1, <1>12, <1>13, <2>1, UpTo
<1> DEFINE d == DetectCascadeDeletion(t, db, ids)
<1>15. Rounds(t, db, ids, depth, N, d)
  BY <1>4, <1>14
<1> HIDE DEF d, T
<1>16. /\ d \in Found
       /\ \A c \in Table : d.all[c] \subseteq Present(db, c)
       /\ \A c \in Table : d.all[c] # {} => c \in ToSet(d.order)
       /\ \A X \in SUBSET RowId : (ids \subseteq X /\ Closed(db, X)) =>
             \A c \in Table : d.all[c] \subseteq X
  BY <1>15 DEF Rounds
<1>17. ASSUME NEW fk \in Specs, fk.action = "CASCADE", NEW p \in RowId,
              p \in d.all[fk.parent] \/ (fk.parent = t /\ p \in ids)
       PROVE  Referring(db, fk, {p}) \subseteq d.all[fk.child]
  <2>1. d.last[fk.parent] = {}
    <3>1. fk.parent \in Table /\ fk.child \in Table /\ fk.child # fk.parent
      BY <1>17, SchemaAssumption, NoSelfCascade
    <3>2. depth[fk.parent] < depth[fk.child] /\ depth[fk.child] <= N /\ depth[fk.parent] \in Nat
          /\ depth[fk.child] \in Nat
      BY <1>1, <1>2, <3>1
    <3>3. ~(N <= depth[fk.parent])
      BY <1>1, <3>2
    <3> QED BY <1>15, <3>1, <3>3 DEF Rounds
  <2> QED BY <1>15, <1>17, <2>1 DEF Rounds
<1> QED BY <1>16, <1>17 DEF d

-----------------------------------------------------------------------------
(* Statements that succeed, on any rows.                                   *)

Typed(db) == /\ db = [id \in RowId |-> db[id]]
             /\ \A id \in RowId : db[id] = Absent \/ db[id] \in Row(TableOf[id])

\* Of a foreign key: some row has the key k that c refers to, and c refers to k.
HasParent(db, fk, k) ==
    \E p \in RowId : TableOf[p] = fk.parent /\ db[p] # Absent /\ db[p][fk.ref] = k

RefersTo(db, fk, c, k) ==
    TableOf[c] = fk.child /\ db[c] # Absent /\ db[c][fk.column] = k

\* Consistent, of the keys that rows refer to.
LEMMA ConsistentMeans ==
    ASSUME NEW db, NEW timings
    PROVE  Consistent(db, timings) <=>
             \A fk \in Specs : fk.timing \in timings => \A c \in RowId : \A k :
                (RefersTo(db, fk, c, k) /\ k # NullKey) => HasParent(db, fk, k)
BY DEF Consistent, Present, RowsWith, HasParent, RefersTo

\* An index has the rows of a key.
LEMMA RowsWithMeans ==
    ASSUME NEW db, NEW t, NEW column, NEW k
    PROVE  RowsWith(db, t, column, k) = {p \in RowId : TableOf[p] = t /\ db[p] # Absent /\ db[p][column] = k}
BY DEF RowsWith, Present

\* What a statement may have thrown.
Errors == {"null", "foreign", "unique"}

IsState(s) == s = [rows |-> s.rows, thrown |-> s.thrown] /\ s.thrown \in Errors \cup {"no"}

\* A statement begins with nothing thrown.
LEMMA RunningIsState ==
    ASSUME NEW db
    PROVE  IsState(Running(db)) /\ Running(db).rows = db /\ Running(db).thrown = "no"
BY DEF IsState, Running

\* A check that has not thrown held and changed nothing.
LEMMA CheckDoes ==
    ASSUME NEW s, IsState(s), NEW error \in Errors, NEW holds
    PROVE  /\ IsState(Check(s, error, holds))
           /\ Check(s, error, holds).thrown = "no" =>
                 s.thrown = "no" /\ holds /\ Check(s, error, holds) = s
<1>1. CASE s.thrown = "no" /\ ~holds
  <2>1. Check(s, error, holds) = [s EXCEPT !.thrown = error]
    BY <1>1, Zenon DEF Check
  <2>2. [s EXCEPT !.thrown = error] = [rows |-> s.rows, thrown |-> error]
    BY DEF IsState
  <2> QED BY <2>1, <2>2 DEF IsState, Errors
<1>2. CASE ~(s.thrown = "no" /\ ~holds)
  <2>1. Check(s, error, holds) = s
    BY <1>2, Zenon DEF Check
  <2> QED BY <1>2, <2>1
<1> QED BY <1>1, <1>2

\* modifyRow_ of all rows, if no index refused one.
LEMMA ModifyRowsDoes ==
    ASSUME NEW s, IsState(s), NEW mods
    PROVE  /\ IsState(ModifyRows(s, mods))
           /\ ModifyRows(s, mods).thrown = "no" =>
                 s.thrown = "no" /\ ModifyRows(s, mods).rows = With(s.rows, mods, DOMAIN mods)
<1> DEFINE Earlier(id) == {e \in DOMAIN mods : e < id}
           refused == {id \in DOMAIN mods :
                           Refuses(With(s.rows, mods, Earlier(id)), id, mods[id])}
           first == CHOOSE id \in refused : \A other \in refused : id <= other
<1>1. ModifyRows(s, mods) =
        IF s.thrown # "no" THEN s
        ELSE IF refused = {} THEN [s EXCEPT !.rows = With(@, mods, DOMAIN mods)]
        ELSE [rows |-> With(s.rows, mods, Earlier(first)), thrown |-> "unique"]
  BY DEF ModifyRows
<1> HIDE DEF refused, first, Earlier
<1>2. [s EXCEPT !.rows = With(s.rows, mods, DOMAIN mods)] =
        [rows |-> With(s.rows, mods, DOMAIN mods), thrown |-> s.thrown]
  BY DEF IsState
<1>3. CASE s.thrown # "no"
  BY <1>1, <1>3
<1>4. CASE s.thrown = "no" /\ refused = {}
  <2>1. ModifyRows(s, mods) = [s EXCEPT !.rows = With(s.rows, mods, DOMAIN mods)]
    BY <1>1, <1>4
  <2> QED BY <1>2, <1>4, <2>1 DEF IsState
<1>5. CASE s.thrown = "no" /\ refused # {}
  BY <1>1, <1>5 DEF IsState, Errors
<1> QED BY <1>3, <1>4, <1>5

\* updateByCascade_, if no index refused a row.
LEMMA UpdateByCascadeDoes ==
    ASSUME NEW s, IsState(s), NEW t, NEW mods
    PROVE  /\ IsState(UpdateByCascade(t, s, mods))
           /\ UpdateByCascade(t, s, mods).thrown = "no" =>
                 /\ s.thrown = "no"
                 /\ UpdateByCascade(t, s, mods).rows =
                       Followed(s.rows, mods, CascadeUpdates(t, s.rows, mods))
<1> DEFINE us == CascadeUpdates(t, s.rows, mods)
           Earlier(u) == {v \in us : DoneBefore(us, v, u)}
           Left(u) == Followed(s.rows, mods, Earlier(u))
           Next1(u) == Followed(s.rows, mods, Earlier(u) \cup {u})
           refused == {u \in us : Refuses(Left(u), u.id, Mod(Left(u)[u.id], Next1(u)[u.id]))}
           first == CHOOSE u \in refused : \A v \in refused : v = u \/ DoneBefore(us, u, v)
<1>1. UpdateByCascade(t, s, mods) =
        IF s.thrown # "no" THEN s
        ELSE IF refused = {} THEN [s EXCEPT !.rows = Followed(@, mods, us)]
        ELSE [rows |-> Left(first), thrown |-> "unique"]
  BY DEF UpdateByCascade
<1> HIDE DEF refused, first, Left, Next1, Earlier, us
<1>2. [s EXCEPT !.rows = Followed(s.rows, mods, us)] =
        [rows |-> Followed(s.rows, mods, us), thrown |-> s.thrown]
  BY DEF IsState
<1>3. CASE s.thrown # "no"
  BY <1>1, <1>3
<1>4. CASE s.thrown = "no" /\ refused = {}
  <2>1. UpdateByCascade(t, s, mods) = [rows |-> Followed(s.rows, mods, us), thrown |-> s.thrown]
    BY <1>1, <1>2, <1>4
  <2> QED BY <1>4, <2>1 DEF IsState, us
<1>5. CASE s.thrown = "no" /\ refused # {}
  BY <1>1, <1>5 DEF IsState, Errors
<1> QED BY <1>3, <1>4, <1>5

\* Modifications that leave no column null that may not be.
Fills(t, mods) ==
    \A id \in DOMAIN mods : \A column \in NotNullable[t] : mods[id].now[column] # NullKey

\* Modifications of rows of t that start from what is in db.
Modifies(db, t, mods) ==
    \A id \in DOMAIN mods : /\ id \in RowId /\ TableOf[id] = t
                            /\ mods[id].then = db[id] /\ mods[id].now \in Row(t)

\* What a row may contain is not its absence.
LEMMA RowPresent ==
    ASSUME NEW t \in Table, NEW v \in Row(t)
    PROVE  v # Absent
BY RowAssumption

\* Modifications of typed rows leave typed rows.
LEMMA WithTyped ==
    ASSUME NEW db, Typed(db), NEW t \in Table, NEW mods, NEW then, Modifies(then, t, mods)
    PROVE  Typed(With(db, mods, DOMAIN mods))
<1> DEFINE now == With(db, mods, DOMAIN mods)
<1>1. now = [id \in RowId |-> now[id]]
  BY DEF With
<1>2. ASSUME NEW id \in RowId PROVE now[id] = Absent \/ now[id] \in Row(TableOf[id])
  <2>1. now[id] = IF id \in DOMAIN mods THEN mods[id].now ELSE db[id]
    BY DEF With
  <2> HIDE DEF now
  <2> QED BY <2>1 DEF Typed, Modifies
<1> HIDE DEF now
<1>3. Typed(now)
  BY <1>1, <1>2 DEF Typed
<1> QED BY <1>3 DEF now

\* An insertion whose keys exist orphans nobody.
LEMMA InsertKeeps ==
    ASSUME NEW db, Consistent(db, {"IMMEDIATE"}), NEW t \in Table,
           NEW mods, Modifies(db, t, mods), \A id \in DOMAIN mods : db[id] = Absent,
           ReferredExist(t, db, mods, "IMMEDIATE")
    PROVE  Consistent(With(db, mods, DOMAIN mods), {"IMMEDIATE"})
<1> DEFINE now == With(db, mods, DOMAIN mods)
<1>1. \A id \in RowId : now[id] = IF id \in DOMAIN mods THEN mods[id].now ELSE db[id]
  BY DEF With
<1> HIDE DEF now
<1> SUFFICES ASSUME NEW fk \in Specs, fk.timing = "IMMEDIATE", NEW c \in RowId, NEW k,
                    RefersTo(now, fk, c, k), k # NullKey
             PROVE  HasParent(now, fk, k)
  BY ConsistentMeans DEF now
<1>2. HasParent(db, fk, k)
  <2>1. CASE c \in DOMAIN mods
    <3>1. fk.child = t /\ k = mods[c].now[fk.column] /\ Changed(mods[c], fk.column)
      BY <1>1, <2>1 DEF RefersTo, Modifies, Changed
    <3>2. RowsWith(db, fk.parent, fk.ref, k) # {}
      BY <2>1, <3>1 DEF ReferredExist
    <3> QED BY <3>2 DEF RowsWith, Present, HasParent
  <2>2. CASE c \notin DOMAIN mods
    <3>1. RefersTo(db, fk, c, k)
      BY <1>1, <2>2 DEF RefersTo
    <3> QED BY <3>1, ConsistentMeans
  <2> QED BY <2>1, <2>2
<1> QED BY <1>1, <1>2 DEF HasParent

\* What a cascading update is about: a row of another table whose key changes.
LEMMA CascadeUpdatesMeans ==
    ASSUME NEW db, NEW t \in Table, NEW mods, Modifies(db, t, mods),
           NEW u \in CascadeUpdates(t, db, mods)
    PROVE  LET fk == ForeignKeys[u.fk]
           IN  /\ fk \in Specs /\ fk.parent = t /\ fk.action = "CASCADE" /\ u.by \in DOMAIN mods
               /\ u.id \in RowId /\ TableOf[u.id] = fk.child /\ TableOf[u.id] # t
               /\ db[u.id] # Absent /\ Changed(mods[u.by], fk.ref)
               /\ db[u.id][fk.column] = mods[u.by].then[fk.ref]
               /\ mods[u.by].now[fk.ref] \in Key
<1> DEFINE fk == ForeignKeys[u.fk]
<1>1. fk \in Specs /\ u.by \in DOMAIN mods /\ u.id \in RowId
  BY DEF CascadeUpdates, Specs
<1>2. /\ fk.parent = t /\ fk.action = "CASCADE" /\ Changed(mods[u.by], fk.ref)
      /\ u.id \in RowsWith(db, fk.child, fk.column, mods[u.by].then[fk.ref])
  BY DEF CascadeUpdates
<1> HIDE DEF fk
<1>3. fk.child # fk.parent /\ fk.ref \in Columns(t)
  BY <1>1, <1>2, NoSelfCascade, SchemaAssumption
<1>4. mods[u.by].now \in [Columns(t) -> Key]
  BY <1>1 DEF Modifies, Row
<1>5. mods[u.by].now[fk.ref] \in Key
  BY <1>3, <1>4
<1>6. TableOf[u.id] = fk.child /\ db[u.id] # Absent /\ db[u.id][fk.column] = mods[u.by].then[fk.ref]
  BY <1>2 DEF RowsWith, Present
<1> QED BY <1>1, <1>2, <1>3, <1>5, <1>6 DEF fk

\* The rows that an update's cascade changes.
LEMMA FollowedMeans ==
    ASSUME NEW db, Typed(db), NEW t \in Table, NEW mods, Modifies(db, t, mods),
           NEW us, us = CascadeUpdates(t, db, mods), NEW f, f = Followed(db, mods, us)
    PROVE  /\ Typed(f)
           /\ \A id \in RowId : f[id] = Absent <=> db[id] = Absent
           /\ \A id \in RowId : TableOf[id] = t => f[id] = db[id]
           /\ \A id \in RowId : \A column \in Columns(TableOf[id]) : db[id] # Absent =>
                 \/ /\ \A u \in us : ~Sets(u, id, column)
                    /\ f[id][column] = db[id][column]
                 \/ \E u \in us : /\ Sets(u, id, column)
                                  /\ f[id][column] = mods[u.by].now[ForeignKeys[u.fk].ref]
<1>1. ASSUME NEW u \in us
      PROVE  LET fk == ForeignKeys[u.fk]
             IN  /\ fk \in Specs /\ fk.parent = t /\ fk.action = "CASCADE" /\ u.by \in DOMAIN mods
                 /\ u.id \in RowId /\ TableOf[u.id] = fk.child /\ TableOf[u.id] # t
                 /\ db[u.id] # Absent /\ Changed(mods[u.by], fk.ref)
                 /\ db[u.id][fk.column] = mods[u.by].then[fk.ref]
                 /\ mods[u.by].now[fk.ref] \in Key
  BY CascadeUpdatesMeans
<1>2. f = [id \in RowId |-> f[id]]
  BY DEF Followed
<1>3. ASSUME NEW id \in RowId, \A u \in us : u.id # id PROVE f[id] = db[id]
  BY <1>3 DEF Followed
<1>4. ASSUME NEW id \in RowId, NEW v \in us, v.id = id
      PROVE  f[id] = [column \in Columns(TableOf[id]) |->
                         IF \A u \in us : ~Sets(u, id, column) THEN db[id][column]
                         ELSE LET last == CHOOSE u \in us : Sets(u, id, column)
                              IN  mods[last.by].now[ForeignKeys[last.fk].ref]]
  BY <1>4 DEF Followed
<1>5. ASSUME NEW id \in RowId, NEW column \in Columns(TableOf[id]), db[id] # Absent
      PROVE  \/ /\ \A u \in us : ~Sets(u, id, column)
                /\ f[id][column] = db[id][column]
             \/ \E u \in us : /\ Sets(u, id, column)
                              /\ f[id][column] = mods[u.by].now[ForeignKeys[u.fk].ref]
  <2>1. CASE \A u \in us : u.id # id
    BY <1>3, <2>1 DEF Sets
  <2>2. ASSUME NEW v \in us, v.id = id, \A u \in us : ~Sets(u, id, column)
        PROVE  f[id][column] = db[id][column]
    BY <1>4, <2>2
  <2>3. ASSUME NEW v \in us, Sets(v, id, column)
        PROVE  \E u \in us : /\ Sets(u, id, column)
                             /\ f[id][column] = mods[u.by].now[ForeignKeys[u.fk].ref]
    <3> DEFINE last == CHOOSE u \in us : Sets(u, id, column)
    <3>1. last \in us /\ Sets(last, id, column)
      BY <2>3
    <3>2. v.id = id
      BY <2>3 DEF Sets
    <3>3. f[id][column] = mods[last.by].now[ForeignKeys[last.fk].ref]
      BY <1>4, <2>3, <3>2
    <3> HIDE DEF last
    <3> QED BY <3>1, <3>3
  <2> QED BY <2>1, <2>2, <2>3
<1>6. ASSUME NEW id \in RowId, NEW v \in us, v.id = id PROVE f[id] \in Row(TableOf[id])
  <2>1. db[id] # Absent
    BY <1>1, <1>6
  <2>2. db[id] \in Row(TableOf[id])
    BY <2>1 DEF Typed
  <2>3. \A column \in Columns(TableOf[id]) : f[id][column] \in Key
    <3> SUFFICES ASSUME NEW column \in Columns(TableOf[id]) PROVE f[id][column] \in Key
      OBVIOUS
    <3>1. db[id][column] \in Key
      BY <2>2 DEF Row
    <3> QED BY <1>1, <1>5, <2>1, <3>1
  <2>4. f[id] = [column \in Columns(TableOf[id]) |-> f[id][column]]
    BY <1>4, <1>6
  <2> QED BY <2>3, <2>4 DEF Row
<1>7. \A id \in RowId : TableOf[id] \in Table
  BY DEF Table
<1>8. \A id \in RowId : f[id] = Absent <=> db[id] = Absent
  BY <1>1, <1>3, <1>6, <1>7, RowPresent
<1>9. Typed(f)
  BY <1>2, <1>3, <1>6 DEF Typed
<1>10. \A id \in RowId : TableOf[id] = t => f[id] = db[id]
  BY <1>1, <1>3
<1> QED BY <1>5, <1>8, <1>9, <1>10

\* A column whose foreign key cascades has no other: the cascade gives it a
\* key of one parent and asks nobody about another.
CascadesOwnColumns ==
    \A f, g \in Specs :
        (f.action = "CASCADE" /\ f.child = g.child /\ f.column = g.column) => f = g

\* The modifications of Update.
Given(db, ids, column, key) == [id \in ids |-> Mod(db[id], [db[id] EXCEPT ![column] = key])]

\* What an update gives its rows.
LEMMA UpdateModifies ==
    ASSUME NEW db, Typed(db), NEW t \in Table,
           NEW ids \in SUBSET Present(db, t), NEW column \in Columns(t), NEW key \in Key,
           NEW mods, mods = Given(db, ids, column, key)
    PROVE  /\ Modifies(db, t, mods) /\ DOMAIN mods = ids
           /\ \A id \in ids : \A c \in Columns(t) :
                 mods[id].now[c] = IF c = column THEN key ELSE db[id][c]
<1>1. \A id \in ids : id \in RowId /\ TableOf[id] = t /\ db[id] # Absent /\ db[id] \in [Columns(t) -> Key]
  BY DEF Present, Typed, Row
<1>2. DOMAIN mods = ids
  BY DEF Given
<1>3. ASSUME NEW id \in ids
      PROVE  /\ mods[id].then = db[id] /\ mods[id].now \in [Columns(t) -> Key]
             /\ \A c \in Columns(t) : mods[id].now[c] = IF c = column THEN key ELSE db[id][c]
  BY <1>1 DEF Mod, Given
<1>4. Modifies(db, t, mods)
  BY <1>1, <1>2, <1>3 DEF Modifies, Row
<1> QED BY <1>2, <1>3, <1>4

\* An update that its checks let through orphans nobody: a key that still has
\* rows referring to it after the cascade keeps its own row.
LEMMA UpdateKeeps ==
    ASSUME CascadesOwnColumns,
           NEW db, Typed(db), Consistent(db, {"IMMEDIATE"}), NEW t \in Table,
           NEW ids \in SUBSET Present(db, t), NEW column \in Columns(t), NEW key \in Key,
           NEW mods, mods = Given(db, ids, column, key),
           NEW us, us = CascadeUpdates(t, db, mods), NEW f, f = Followed(db, mods, us),
           ReferredExist(t, f, mods, "IMMEDIATE"), NoneRefers(t, f, mods, "IMMEDIATE")
    PROVE  Consistent(With(f, mods, DOMAIN mods), {"IMMEDIATE"})
<1> DEFINE now == With(f, mods, DOMAIN mods)
<1>1. \A id \in ids : id \in RowId /\ TableOf[id] = t /\ db[id] # Absent /\ db[id] \in [Columns(t) -> Key]
  BY DEF Present, Typed, Row
<1>2. DOMAIN mods = ids
  BY DEF Given
<1>3. ASSUME NEW id \in ids
      PROVE  /\ mods[id].then = db[id] /\ mods[id].now \in [Columns(t) -> Key]
             /\ \A c \in Columns(t) : mods[id].now[c] = IF c = column THEN key ELSE db[id][c]
  BY <1>1 DEF Mod, Given
<1>4. Modifies(db, t, mods)
  BY <1>1, <1>2, <1>3 DEF Modifies, Row
<1>5. ASSUME NEW id \in ids PROVE mods[id].now # Absent
  BY <1>3, RowPresent DEF Row
<1>6. \A id \in RowId : now[id] = IF id \in ids THEN mods[id].now ELSE f[id]
  BY <1>2 DEF With
<1> HIDE DEF now
<1>7. /\ \A id \in RowId : f[id] = Absent <=> db[id] = Absent
      /\ \A id \in RowId : TableOf[id] = t => f[id] = db[id]
      /\ \A id \in RowId : \A c \in Columns(TableOf[id]) : db[id] # Absent =>
            \/ /\ \A u \in us : ~Sets(u, id, c)
               /\ f[id][c] = db[id][c]
            \/ \E u \in us : /\ Sets(u, id, c)
                             /\ f[id][c] = mods[u.by].now[ForeignKeys[u.fk].ref]
  <2>1. Typed(db) /\ t \in Table /\ us = CascadeUpdates(t, db, mods) /\ f = Followed(db, mods, us)
    OBVIOUS
  <2> QED BY ONLY <1>4, <2>1, FollowedMeans
<1>8. ASSUME NEW u \in us, NEW id, NEW c, Sets(u, id, c)
      PROVE  LET fk == ForeignKeys[u.fk]
             IN  /\ fk \in Specs /\ fk.child = TableOf[id] /\ fk.column = c
                 /\ fk.parent = t /\ fk.action = "CASCADE" /\ u.by \in ids
                 /\ Changed(mods[u.by], fk.ref) /\ db[id][c] = mods[u.by].then[fk.ref]
  <2>1. u \in CascadeUpdates(t, db, mods) /\ t \in Table
    OBVIOUS
  <2>2. LET fk == ForeignKeys[u.fk]
        IN  /\ fk \in Specs /\ fk.parent = t /\ fk.action = "CASCADE" /\ u.by \in DOMAIN mods
            /\ TableOf[u.id] = fk.child /\ Changed(mods[u.by], fk.ref)
            /\ db[u.id][fk.column] = mods[u.by].then[fk.ref]
    BY ONLY <1>4, <2>1, CascadeUpdatesMeans
  <2>3. u.id = id /\ ForeignKeys[u.fk].column = c
    BY ONLY <1>8 DEF Sets
  <2> QED BY ONLY <1>2, <2>2, <2>3
<1>9. ASSUME NEW fk \in Specs, NEW p \in RowId, TableOf[p] = fk.parent, db[p] # Absent
      PROVE  f[p][fk.ref] = db[p][fk.ref]
  <2>1. fk.ref \in Columns(TableOf[p])
    BY <1>9, SchemaAssumption
  <2>2. ASSUME NEW u \in us, Sets(u, p, fk.ref) PROVE FALSE
    <3> DEFINE g == ForeignKeys[u.fk]
    <3>1. g \in Specs /\ g.child = TableOf[p] /\ g.column = fk.ref
      BY ONLY <1>8, <2>2
    <3> HIDE DEF g
    <3> QED BY <1>9, <3>1, SchemaAssumption
  <2> QED BY <1>7, <1>9, <2>1, <2>2
<1>10. SUFFICES ASSUME NEW fk \in Specs, fk.timing = "IMMEDIATE", NEW c \in RowId, NEW k,
                     RefersTo(now, fk, c, k), k # NullKey
              PROVE  HasParent(now, fk, k)
  BY ConsistentMeans DEF now
<1>11. /\ fk.column \in Columns(fk.child) /\ fk.ref \in Columns(fk.parent)
       /\ fk.action \in {"RESTRICT", "CASCADE"}
       /\ ~(fk.child = fk.parent /\ fk.column = fk.ref)
       /\ fk.action = "CASCADE" => fk.child # fk.parent
       /\ TableOf[c] = fk.child /\ now[c] # Absent /\ now[c][fk.column] = k
  BY <1>10, SchemaAssumption, NoSelfCascade DEF RefersTo
\* A parent before the statement is one afterwards, unless its key changes.
<1>12. ASSUME NEW p \in RowId, TableOf[p] = fk.parent, f[p] # Absent, f[p][fk.ref] = k,
              ~(p \in ids /\ fk.ref = column /\ key # db[p][column])
       PROVE  HasParent(now, fk, k)
  <2>1. CASE p \notin ids
    BY <1>6, <1>12, <2>1 DEF HasParent
  <2>2. CASE p \in ids
    <3>1. f[p] = db[p] /\ fk.parent = t
      BY <1>1, <1>7, <1>12, <2>2
    <3>2. mods[p].now[fk.ref] = IF fk.ref = column THEN key ELSE db[p][fk.ref]
      BY <1>3, <1>11, <2>2, <3>1
    <3>3. mods[p].now[fk.ref] = k
      BY <1>12, <2>2, <3>1, <3>2
    <3> QED BY <1>5, <1>6, <1>12, <2>2, <3>3 DEF HasParent
  <2> QED BY <2>1, <2>2
\* A key that is still referred to after the cascade keeps its row.
<1>13. ASSUME RefersTo(f, fk, c, k), RefersTo(db, fk, c, k), \A u \in us : ~Sets(u, c, fk.column)
       PROVE  HasParent(now, fk, k)
  <2>1. PICK p \in RowId : TableOf[p] = fk.parent /\ db[p] # Absent /\ db[p][fk.ref] = k
    BY <1>10, <1>13, ConsistentMeans DEF HasParent
  <2>2. f[p] # Absent /\ f[p][fk.ref] = k
    BY <1>7, <1>9, <2>1
  <2>3. ~(p \in ids /\ fk.ref = column /\ key # db[p][column])
    <3> SUFFICES ASSUME p \in ids, fk.ref = column, key # db[p][column] PROVE FALSE
      OBVIOUS
    <3>1. fk.parent = t /\ Changed(mods[p], fk.ref) /\ mods[p].then[fk.ref] = k
      BY <1>1, <1>3, <2>1 DEF Changed
    <3>2. CASE fk.action = "RESTRICT"
      <4>1. RowsWith(f, fk.child, fk.column, k) = {}
        BY <1>2, <1>10, <3>1, <3>2 DEF NoneRefers
      <4> QED BY <1>13, <4>1, RowsWithMeans DEF RefersTo
    <3>3. CASE fk.action = "CASCADE"
      <4>1. PICK n \in DOMAIN ForeignKeys : fk = ForeignKeys[n]
        BY DEF Specs
      <4> DEFINE u == [fk |-> n, by |-> p, id |-> c]
      <4>2. c \in RowsWith(db, fk.child, fk.column, mods[p].then[fk.ref])
        BY <1>13, <3>1, RowsWithMeans DEF RefersTo
      <4>3. u \in us
        BY <1>2, <3>1, <3>3, <4>1, <4>2 DEF CascadeUpdates
      <4>4. Sets(u, c, fk.column)
        BY <4>1 DEF Sets
      <4> QED BY <1>13, <4>3, <4>4
    <3> QED BY <1>11, <3>2, <3>3
  <2> QED BY <1>12, <2>1, <2>2, <2>3
<1>14. CASE c \in ids
  <2>1. /\ fk.child = t /\ k = mods[c].now[fk.column] /\ f[c] = db[c] /\ db[c] # Absent
        /\ mods[c].then = db[c]
    BY <1>1, <1>3, <1>6, <1>7, <1>11, <1>14
  <2>2. CASE Changed(mods[c], fk.column)
    <3>1. fk.column = column
      BY <1>3, <1>5, <1>11, <1>14, <2>1, <2>2 DEF Changed
    <3>2. RowsWith(f, fk.parent, fk.ref, k) # {}
      BY <1>2, <1>10, <1>14, <2>1, <2>2 DEF ReferredExist
    <3>3. PICK p \in RowId : TableOf[p] = fk.parent /\ f[p] # Absent /\ f[p][fk.ref] = k
      BY <3>2, RowsWithMeans
    <3>4. ~(p \in ids /\ fk.ref = column)
      BY <1>1, <1>11, <2>1, <3>1, <3>3
    <3> QED BY <1>12, <3>3, <3>4
  <2>3. CASE ~Changed(mods[c], fk.column)
    <3>1. RefersTo(f, fk, c, k) /\ RefersTo(db, fk, c, k)
      BY <1>11, <2>1, <2>3 DEF Changed, RefersTo
    <3>2. \A u \in us : ~Sets(u, c, fk.column)
      <4> SUFFICES ASSUME NEW u \in us, Sets(u, c, fk.column) PROVE FALSE
        OBVIOUS
      <4> DEFINE g == ForeignKeys[u.fk]
      <4>1. g \in Specs /\ g.child = t /\ g.parent = t /\ g.action = "CASCADE"
        BY <1>8, <1>11, <2>1
      <4> HIDE DEF g
      <4> QED BY <4>1, NoSelfCascade
    <3> QED BY <1>13, <3>1, <3>2
  <2> QED BY <2>2, <2>3
<1>15. CASE c \notin ids
  <2>1. now[c] = f[c] /\ db[c] # Absent
    BY <1>6, <1>7, <1>11, <1>15
  <2>2. ASSUME NEW u \in us, Sets(u, c, fk.column), f[c][fk.column] = mods[u.by].now[ForeignKeys[u.fk].ref]
        PROVE  HasParent(now, fk, k)
    <3> DEFINE g == ForeignKeys[u.fk]
    <3>0. /\ g \in Specs /\ g.child = TableOf[c] /\ g.column = fk.column
          /\ g.parent = t /\ u.by \in ids /\ g.action = "CASCADE"
      BY <1>8, <2>2, SMTT(20)
    <3>1. /\ g \in Specs /\ g.child = fk.child /\ g.column = fk.column
          /\ g.parent = t /\ u.by \in ids /\ g.action = "CASCADE"
      BY <1>11, <3>0
    <3>2. g = fk
      <4> HIDE DEF g
      <4> QED BY <3>1 DEF CascadesOwnColumns
    <3>3. mods[u.by].now[fk.ref] = k /\ fk.parent = t
      BY <1>11, <2>1, <2>2, <3>1, <3>2
    <3>4. u.by \in RowId /\ TableOf[u.by] = fk.parent /\ now[u.by] = mods[u.by].now
      BY <1>1, <1>6, <3>1, <3>3
    <3>5. now[u.by] # Absent
      BY <1>5, <3>1, <3>4
    <3> QED BY <3>3, <3>4, <3>5 DEF HasParent
  <2>3. CASE f[c][fk.column] = db[c][fk.column] /\ \A u \in us : ~Sets(u, c, fk.column)
    <3>1. RefersTo(f, fk, c, k) /\ RefersTo(db, fk, c, k)
      BY <1>11, <2>1, <2>3 DEF RefersTo
    <3> QED BY <1>13, <2>3, <3>1
  <2> QED BY <1>7, <1>11, <2>1, <2>2, <2>3
<1> QED BY <1>14, <1>15

\* insertOrReplace does not cascade: it is only used where rows keep the keys
\* that others refer to, or where RESTRICT looks after them.
ReplacesKeepKeys ==
    \A fk \in Specs :
        (fk.parent \in Replaceable /\ fk.timing = "IMMEDIATE" /\ fk.ref # PrimaryKey[fk.parent]) =>
            fk.action = "RESTRICT" /\ fk.child # fk.parent

\* An insertOrReplace that its checks let through orphans nobody.
LEMMA ReplaceKeeps ==
    ASSUME ReplacesKeepKeys,
           NEW db, Typed(db), Consistent(db, {"IMMEDIATE"}),
           NEW t \in Table, t \in Replaceable, NEW there \in Present(db, t), NEW row \in Row(t),
           db[there][PrimaryKey[t]] = row[PrimaryKey[t]],
           NEW mods, mods = [e \in {there} |-> Mod(db[e], row)],
           ReferredExist(t, db, mods, "IMMEDIATE"), NoneRefers(t, db, mods, "IMMEDIATE")
    PROVE  Consistent(With(db, mods, DOMAIN mods), {"IMMEDIATE"})
<1> DEFINE now == With(db, mods, DOMAIN mods)
<1>1. there \in RowId /\ TableOf[there] = t /\ db[there] # Absent /\ row # Absent
  BY RowPresent DEF Present
<1>2. DOMAIN mods = {there} /\ mods[there].then = db[there] /\ mods[there].now = row
  BY DEF Mod
<1>4. \A id \in RowId : now[id] = IF id = there THEN row ELSE db[id]
  BY <1>2 DEF With
<1> HIDE DEF now
<1>5. SUFFICES ASSUME NEW fk \in Specs, fk.timing = "IMMEDIATE", NEW c \in RowId, NEW k,
                    RefersTo(now, fk, c, k), k # NullKey
             PROVE  HasParent(now, fk, k)
  BY ConsistentMeans DEF now
<1>6. ASSUME NEW p \in RowId, TableOf[p] = fk.parent, db[p] # Absent, db[p][fk.ref] = k,
             \/ c # there /\ RefersTo(db, fk, c, k)
             \/ c = there
      PROVE  HasParent(now, fk, k)
  <2>1. CASE p # there \/ row[fk.ref] = k
    BY <1>1, <1>4, <1>6, <2>1 DEF HasParent
  <2>2. CASE p = there /\ row[fk.ref] # k
    <3>1. fk.parent = t /\ fk.ref # PrimaryKey[t]
      BY <1>1, <1>6, <2>2
    <3>2. fk.action = "RESTRICT" /\ fk.child # t
      BY <1>5, <3>1 DEF ReplacesKeepKeys
    <3>3. c # there
      BY <1>1, <1>5, <3>2 DEF RefersTo
    <3>4. Changed(mods[there], fk.ref)
      BY <1>2, <1>6, <2>2 DEF Changed
    <3>5. RowsWith(db, fk.child, fk.column, k) = {}
      BY <1>2, <1>5, <1>6, <2>2, <3>1, <3>2, <3>4 DEF NoneRefers
    <3> QED BY <1>6, <3>3, <3>5, RowsWithMeans DEF RefersTo
  <2> QED BY <2>1, <2>2
<1>7. CASE c = there
  <2>1. fk.child = t /\ row[fk.column] = k
    BY <1>1, <1>4, <1>5, <1>7 DEF RefersTo
  <2>2. CASE Changed(mods[there], fk.column)
    <3>1. RowsWith(db, fk.parent, fk.ref, k) # {}
      BY <1>2, <1>5, <2>1, <2>2 DEF ReferredExist
    <3> QED BY <1>6, <1>7, <3>1, RowsWithMeans
  <2>3. CASE ~Changed(mods[there], fk.column)
    <3>1. RefersTo(db, fk, c, k)
      BY <1>1, <1>2, <1>7, <2>1, <2>3 DEF Changed, RefersTo
    <3>2. HasParent(db, fk, k)
      BY <1>5, <3>1, ConsistentMeans
    <3> QED BY <1>6, <1>7, <3>2 DEF HasParent
  <2> QED BY <2>2, <2>3
<1>8. CASE c # there
  <2>1. RefersTo(db, fk, c, k)
    BY <1>4, <1>5, <1>8 DEF RefersTo
  <2>2. HasParent(db, fk, k)
    BY <1>5, <2>1, ConsistentMeans
  <2> QED BY <1>6, <1>8, <2>1, <2>2 DEF HasParent
<1> QED BY <1>7, <1>8

\* A cascading deletion ends, or throws, like any statement.
LEMMA RemoveIsState ==
    ASSUME NEW t, NEW db, NEW ids
    PROVE  IsState(RemoveByCascade(t, db, ids))
<1> DEFINE found == DetectCascadeDeletion(t, db, ids)
           Left(n) == [id \in RowId |-> IF \E m \in 1..(n - 1) : id \in found.all[found.order[m]]
                                        THEN Absent ELSE db[id]]
           fails == {n \in 1..Len(found.order) :
                        LET c == found.order[n]
                        IN  ~NoneRefers(c, Left(n), Deletions(Left(n), found.all[c]), "IMMEDIATE")}
           first == CHOOSE n \in fails : \A m \in fails : n <= m
           end == Len(found.order) + 1
<1>1. RemoveByCascade(t, db, ids) = IF fails = {} THEN Running(Left(end))
                                    ELSE [rows |-> Left(first), thrown |-> "foreign"]
  BY DEF RemoveByCascade
<1> HIDE DEF found, Left, fails, first, end
<1> QED BY <1>1 DEF IsState, Errors, Running

\* removeByCascade_: all that was detected goes, and nobody else refers to it.
LEMMA RemovesDetected ==
    ASSUME NEW t \in Table, NEW db, NEW ids \in SUBSET Present(db, t),
           NEW d, d = DetectCascadeDeletion(t, db, ids),
           NEW s, s = RemoveByCascade(t, db, ids), s.thrown = "no"
    PROVE  /\ s.rows = [id \in RowId |-> IF \E c \in Table : id \in d.all[c] THEN Absent ELSE db[id]]
           /\ \A c \in Table : \A p \in d.all[c] : \A fk \in Specs :
                 (fk.parent = c /\ fk.action = "RESTRICT" /\ fk.timing = "IMMEDIATE") =>
                     \A x \in RowId : ~RefersTo(s.rows, fk, x, db[p][fk.ref])
<1> DEFINE N == Len(d.order)
           Left(n) == [id \in RowId |-> IF \E m \in 1..(n - 1) : id \in d.all[d.order[m]]
                                        THEN Absent ELSE db[id]]
           fails == {n \in 1..N :
                        ~NoneRefers(d.order[n], Left(n), Deletions(Left(n), d.all[d.order[n]]), "IMMEDIATE")}
           first == CHOOSE n \in fails : \A m \in fails : n <= m
<1>1. /\ d \in Found
      /\ \A c \in Table : d.all[c] \subseteq Present(db, c)
      /\ \A c \in Table : d.all[c] # {} => c \in ToSet(d.order)
  BY DetectsDependents
<1>2. d.order \in Seq(Table) /\ N \in Nat /\ DOMAIN d.order = 1..N
  BY <1>1 DEF Found
<1>3. s = IF fails = {} THEN Running(Left(N + 1)) ELSE [rows |-> Left(first), thrown |-> "foreign"]
  BY DEF RemoveByCascade
<1>4. fails = {} /\ s = Running(Left(N + 1))
  <2> HIDE DEF fails, Left, first, N
  <2> QED BY <1>3
<1>5. s.rows = Left(N + 1)
  BY <1>4 DEF Running
<1>6. \A id \in RowId : (\E m \in 1..((N + 1) - 1) : id \in d.all[d.order[m]])
                           <=> \E c \in Table : id \in d.all[c]
  <2> SUFFICES ASSUME NEW id \in RowId
               PROVE  (\E m \in 1..((N + 1) - 1) : id \in d.all[d.order[m]])
                           <=> \E c \in Table : id \in d.all[c]
    OBVIOUS
  <2>0. (N + 1) - 1 = N
    BY <1>2
  <2>1. ASSUME NEW m \in 1..((N + 1) - 1), id \in d.all[d.order[m]]
        PROVE  \E c \in Table : id \in d.all[c]
    <3>1. d.order[m] \in Table
      BY <1>2, <2>0
    <3> QED BY <2>1, <3>1
  <2>2. ASSUME NEW c \in Table, id \in d.all[c]
        PROVE  \E m \in 1..((N + 1) - 1) : id \in d.all[d.order[m]]
    <3>1. c \in ToSet(d.order)
      BY <1>1, <2>2
    <3>2. PICK m \in 1..N : d.order[m] = c
      BY <1>2, <3>1 DEF ToSet
    <3> QED BY <2>0, <2>2, <3>2
  <2> QED BY <2>1, <2>2
<1>7. s.rows = [id \in RowId |-> IF \E c \in Table : id \in d.all[c] THEN Absent ELSE db[id]]
  BY <1>5, <1>6
<1>8. ASSUME NEW c \in Table, NEW p \in d.all[c], NEW fk \in Specs, fk.parent = c,
             fk.action = "RESTRICT", fk.timing = "IMMEDIATE",
             NEW x \in RowId, RefersTo(s.rows, fk, x, db[p][fk.ref])
      PROVE  FALSE
  <2>1. c \in ToSet(d.order)
    BY <1>1
  <2>2. PICK n \in 1..N : d.order[n] = c
    BY <1>2, <2>1 DEF ToSet
  <2>3. NoneRefers(c, Left(n), Deletions(Left(n), d.all[c]), "IMMEDIATE")
    BY <1>4, <2>2
  <2>4. p \in RowId
    BY <1>1 DEF Present
  <2>5. /\ \A id \in RowId : Left(n)[id] = Absent \/ Left(n)[id] = db[id]
        /\ \A id \in RowId : (\A e \in Table : id \notin d.all[e]) => Left(n)[id] = db[id]
    <3>1. \A m \in 1..(n - 1) : d.order[m] \in Table
      BY <1>2
    <3> QED BY <3>1
  <2> HIDE DEF Left
  <2> DEFINE mods == Deletions(Left(n), d.all[c])
  <2>6. p \in DOMAIN mods /\ mods[p].then = Left(n)[p] /\ mods[p].now = Absent
    BY DEF Deletions, Mod
  <2> HIDE DEF mods
  <2>7. NoneRefers(c, Left(n), mods, "IMMEDIATE")
    BY <2>3 DEF mods
  <2>8. /\ mods[p].then # Absent
        /\ Changed(mods[p], fk.ref) => RowsWith(Left(n), fk.child, fk.column, mods[p].then[fk.ref]) = {}
    BY <1>8, <2>6, <2>7 DEF NoneRefers
  <2>9. Changed(mods[p], fk.ref) /\ mods[p].then = db[p]
    BY <2>4, <2>5, <2>6, <2>8 DEF Changed
  <2>10. RowsWith(Left(n), fk.child, fk.column, db[p][fk.ref]) = {}
    BY <2>8, <2>9
  <2>11. s.rows[x] = db[x] /\ \A e \in Table : x \notin d.all[e]
    BY <1>7, <1>8 DEF RefersTo
  <2>12. Left(n)[x] = s.rows[x]
    BY <2>5, <2>11
  <2> QED BY <1>8, <2>10, <2>12, RowsWithMeans DEF RefersTo
<1> QED BY <1>7, <1>8

\* The rows after a deletion and its cascade.
LEMMA RemoveTakes ==
    ASSUME NEW db, NEW t \in Table, NEW ids \in SUBSET Present(db, t),
           NEW d, d = DetectCascadeDeletion(t, db, ids),
           NEW s, s = RemoveByCascade(t, db, ids), s.thrown = "no",
           NEW mods, mods = Deletions(db, ids)
    PROVE  With(s.rows, mods, DOMAIN mods) =
             [id \in RowId |-> IF id \in ids \/ \E c \in Table : id \in d.all[c]
                               THEN Absent ELSE db[id]]
<1>1. s.rows = [id \in RowId |-> IF \E c \in Table : id \in d.all[c] THEN Absent ELSE db[id]]
  BY RemovesDetected
<1>2. DOMAIN mods = ids /\ \A id \in ids : mods[id].now = Absent
  BY DEF Deletions, Mod
<1> QED BY <1>1, <1>2 DEF With

\* A deletion that its checks let through orphans nobody.
LEMMA RemoveKeeps ==
    ASSUME NEW db, Consistent(db, {"IMMEDIATE"}),
           NEW t \in Table, NEW ids \in SUBSET Present(db, t),
           NEW d, d = DetectCascadeDeletion(t, db, ids),
           NEW s, s = RemoveByCascade(t, db, ids), s.thrown = "no",
           NEW mods, mods = Deletions(db, ids), NoneRefers(t, s.rows, mods, "IMMEDIATE"),
           NEW now, now = [id \in RowId |-> IF id \in ids \/ \E c \in Table : id \in d.all[c]
                                            THEN Absent ELSE db[id]]
    PROVE  Consistent(now, {"IMMEDIATE"})
<1>1. /\ s.rows = [id \in RowId |-> IF \E c \in Table : id \in d.all[c] THEN Absent ELSE db[id]]
      /\ \A c \in Table : \A p \in d.all[c] : \A fk \in Specs :
            (fk.parent = c /\ fk.action = "RESTRICT" /\ fk.timing = "IMMEDIATE") =>
                \A x \in RowId : ~RefersTo(s.rows, fk, x, db[p][fk.ref])
  BY RemovesDetected
<1>2. /\ \A c \in Table : d.all[c] \subseteq Present(db, c)
      /\ \A fk \in Specs : fk.action = "CASCADE" => \A p \in RowId :
            (p \in d.all[fk.parent] \/ (fk.parent = t /\ p \in ids)) =>
                Referring(db, fk, {p}) \subseteq d.all[fk.child]
  BY DetectsDependents
<1>3. /\ DOMAIN mods = ids
      /\ \A id \in ids : mods[id].then = db[id] /\ mods[id].now = Absent
                         /\ TableOf[id] = t /\ id \in RowId
  BY DEF Deletions, Mod, Present
<1>4. now = [id \in RowId |-> IF id \in ids \/ \E c \in Table : id \in d.all[c] THEN Absent ELSE db[id]]
  OBVIOUS
<1>6. SUFFICES ASSUME NEW fk \in Specs, fk.timing = "IMMEDIATE", NEW c \in RowId, NEW k,
                    RefersTo(now, fk, c, k), k # NullKey
             PROVE  HasParent(now, fk, k)
  BY ConsistentMeans
<1>7. /\ c \notin ids /\ \A e \in Table : c \notin d.all[e]
      /\ now[c] = db[c] /\ s.rows[c] = db[c] /\ RefersTo(db, fk, c, k) /\ RefersTo(s.rows, fk, c, k)
  BY <1>1, <1>4, <1>6 DEF RefersTo
<1>8. PICK p \in RowId : TableOf[p] = fk.parent /\ db[p] # Absent /\ db[p][fk.ref] = k
  BY <1>6, <1>7, ConsistentMeans DEF HasParent
<1>9. fk.parent \in Table /\ fk.child \in Table /\ fk.action \in {"RESTRICT", "CASCADE"}
  BY SchemaAssumption
<1>10. p \notin ids
  <2> SUFFICES ASSUME p \in ids PROVE FALSE
    OBVIOUS
  <2>0. fk.parent = t
    BY <1>3, <1>8
  <2>1. CASE fk.action = "CASCADE"
    <3>1. c \in Referring(db, fk, {p})
      BY <1>7, <1>8 DEF RefersTo, Referring, Present
    <3> QED BY <1>2, <1>7, <1>9, <2>0, <2>1, <3>1
  <2>2. CASE fk.action = "RESTRICT"
    <3>1. Changed(mods[p], fk.ref)
      BY <1>3 DEF Changed
    <3>2. RowsWith(s.rows, fk.child, fk.column, k) = {}
      BY <1>3, <1>6, <1>8, <2>0, <2>2, <3>1 DEF NoneRefers
    <3> QED BY <1>7, <3>2, RowsWithMeans DEF RefersTo
  <2> QED BY <1>9, <2>1, <2>2
<1>11. ASSUME NEW e \in Table, p \in d.all[e] PROVE FALSE
  <2>0. e = fk.parent
    BY <1>2, <1>8, <1>11 DEF Present
  <2>1. CASE fk.action = "CASCADE"
    <3>1. c \in Referring(db, fk, {p})
      BY <1>7, <1>8 DEF RefersTo, Referring, Present
    <3> QED BY <1>2, <1>7, <1>9, <1>11, <2>0, <2>1, <3>1
  <2>2. CASE fk.action = "RESTRICT"
    BY <1>1, <1>6, <1>7, <1>8, <1>11, <2>0, <2>2
  <2> QED BY <1>9, <2>1, <2>2
<1>12. now[p] = db[p]
  BY <1>4, <1>10, <1>11
<1> QED BY <1>8, <1>12 DEF HasParent

\* Journal.checkDeferredConstraints: what was so before the transaction and
\* holds of the net difference is so after it.
LEMMA DeferredChecksSuffice ==
    ASSUME Consistent(before, {"DEFERRABLE"}), DeferredHold
    PROVE  Consistent(rows, {"DEFERRABLE"})
<1> SUFFICES ASSUME NEW fk \in Specs, fk.timing = "DEFERRABLE", NEW c \in RowId, NEW k,
                    RefersTo(rows, fk, c, k), k # NullKey
             PROVE  HasParent(rows, fk, k)
  BY ConsistentMeans
<1>1. fk.child \in Table /\ fk.parent \in Table /\ fk.action = "RESTRICT"
  BY SchemaAssumption
<1>2. TableOf[c] = fk.child /\ rows[c] # Absent /\ rows[c][fk.column] = k
  BY DEF RefersTo
<1>3. CASE before[c] = Absent \/ before[c][fk.column] # k
  <2> DEFINE mods == Net(Added(fk.child) \cup Modified(fk.child))
  <2>1. c \in DOMAIN mods /\ mods[c].then = before[c] /\ mods[c].now = rows[c]
    BY <1>2, <1>3 DEF Net, Mod, Added, Modified, RowsOf
  <2>2. ReferredExist(fk.child, rows, mods, "DEFERRABLE")
    BY <1>1 DEF DeferredHold
  <2> HIDE DEF mods
  <2>3. Changed(mods[c], fk.column)
    BY <1>2, <1>3, <2>1 DEF Changed
  <2>4. RowsWith(rows, fk.parent, fk.ref, k) # {}
    BY <1>2, <2>1, <2>2, <2>3 DEF ReferredExist
  <2> QED BY <2>4, RowsWithMeans DEF HasParent
<1>4. CASE before[c] # Absent /\ before[c][fk.column] = k
  <2>1. PICK p \in RowId : TableOf[p] = fk.parent /\ before[p] # Absent /\ before[p][fk.ref] = k
    BY <1>2, <1>4, ConsistentMeans DEF HasParent, RefersTo
  <2>2. CASE rows[p] # Absent /\ rows[p][fk.ref] = k
    BY <2>1, <2>2 DEF HasParent
  <2>3. CASE rows[p] = Absent \/ rows[p][fk.ref] # k
    <3> DEFINE mods == Net(Deleted(fk.parent) \cup Modified(fk.parent))
    <3>1. p \in DOMAIN mods /\ mods[p].then = before[p] /\ mods[p].now = rows[p]
      BY <2>1, <2>3 DEF Net, Mod, Deleted, Modified, RowsOf
    <3>2. NoneRefers(fk.parent, rows, mods, "DEFERRABLE")
      BY <1>1 DEF DeferredHold
    <3> HIDE DEF mods
    <3>3. Changed(mods[p], fk.ref)
      BY <2>1, <2>3, <3>1 DEF Changed
    <3>4. RowsWith(rows, fk.child, fk.column, k) = {}
      BY <1>1, <2>1, <3>1, <3>2, <3>3 DEF NoneRefers
    <3> QED BY <1>2, <3>4, RowsWithMeans
  <2> QED BY <2>2, <2>3
<1> QED BY <1>3, <1>4

-----------------------------------------------------------------------------
(* The statements, the end of a transaction and the next one.              *)

\* What a statement that succeeds leaves.
Sound(db) == Typed(db) /\ Consistent(db, {"IMMEDIATE"})

\* A statement that leaves the transaction open has not thrown.
LEMMA SuccessfulEnd ==
    ASSUME NEW s, IsState(s), Ends(s), status' = "open"
    PROVE  s.thrown = "no" /\ rows' = s.rows
BY DEF Ends, IsState, Errors

\* A successful Journal.insert: its modifications, and the checks they passed.
LEMMA InsertDoes ==
    ASSUME Typed(rows), NEW t \in Table, NEW ids \in SUBSET (RowsOf(t) \ Present(rows, t)),
           NEW new \in [ids -> UNION {ValuesOf[id] : id \in ids}],
           \A id \in ids : new[id] \in ValuesOf[id], Insert(t, new), status' = "open"
    PROVE  LET mods == [id \in DOMAIN new |-> Mod(Absent, new[id])]
           IN  /\ Modifies(rows, t, mods) /\ Fills(t, mods)
               /\ \A id \in DOMAIN mods : rows[id] = Absent
               /\ ReferredExist(t, rows, mods, "IMMEDIATE")
               /\ rows' = With(rows, mods, DOMAIN mods) /\ Typed(rows')
<1> DEFINE mods == [id \in DOMAIN new |-> Mod(Absent, new[id])]
           s == CheckNotNullable(t, Running(rows), mods)
           checked == CheckForeignKeysForInsert(t, s, mods, "IMMEDIATE")
<1>1. Ends(ModifyRows(checked, mods))
  BY DEF Insert
<1>2. IsState(Running(rows)) /\ Running(rows).rows = rows
  BY RunningIsState
<1>3. IsState(s) /\ (s.thrown = "no" => s = Running(rows) /\ Fills(t, mods))
  BY <1>2, CheckDoes DEF CheckNotNullable, Errors, Fills
<1>4. /\ IsState(checked)
      /\ checked.thrown = "no" => /\ s.thrown = "no" /\ checked = s
                                  /\ ReferredExist(t, s.rows, mods, "IMMEDIATE")
  <2> HIDE DEF s
  <2> QED BY <1>3, CheckDoes DEF CheckForeignKeysForInsert, Errors
<1>5. /\ \A id \in RowId : rows[id] = Absent \/ rows[id] \in Row(TableOf[id])
      /\ Modifies(rows, t, mods) /\ \A id \in DOMAIN mods : rows[id] = Absent
  <2>1. \A id \in ids : id \in RowId /\ TableOf[id] = t /\ rows[id] = Absent
    BY DEF RowsOf, Present
  <2>2. \A id \in ids : new[id] \in Row(t)
    BY <2>1, RowAssumption
  <2>3. DOMAIN mods = ids /\ \A id \in ids : mods[id].then = Absent /\ mods[id].now = new[id]
    BY DEF Mod
  <2> HIDE DEF mods
  <2> QED BY <2>1, <2>2, <2>3 DEF Modifies, Typed
<1> HIDE DEF mods, checked, s
<1>6. /\ checked.thrown = "no"
      /\ rows' = With(checked.rows, mods, DOMAIN mods)
  BY <1>1, <1>4, ModifyRowsDoes, SuccessfulEnd
<1>7. checked.rows = rows /\ ReferredExist(t, rows, mods, "IMMEDIATE") /\ Fills(t, mods)
  BY <1>2, <1>3, <1>4, <1>6
<1>8. rows' = With(rows, mods, DOMAIN mods)
  BY <1>6, <1>7
<1>9. Typed(With(rows, mods, DOMAIN mods))
  BY <1>5, WithTyped
<1> QED BY <1>5, <1>7, <1>8, <1>9 DEF mods

\* A successful Journal.update, and its cascade.
LEMMA UpdateDoes ==
    ASSUME Typed(rows), NEW t \in Table, NEW ids \in SUBSET Present(rows, t),
           NEW column \in Columns(t), NEW key \in Key, Update(t, ids, column, key), status' = "open"
    PROVE  LET mods == Given(rows, ids, column, key)
               f    == Followed(rows, mods, CascadeUpdates(t, rows, mods))
           IN  /\ Modifies(rows, t, mods) /\ Fills(t, mods)
               /\ ReferredExist(t, f, mods, "IMMEDIATE") /\ NoneRefers(t, f, mods, "IMMEDIATE")
               /\ rows' = With(f, mods, ids) /\ Typed(rows')
<1> DEFINE mods == Given(rows, ids, column, key)
           first == CheckNotNullable(t, Running(rows), mods)
           s == UpdateByCascade(t, first, mods)
           checked == CheckForeignKeysForUpdate(t, s, mods, "IMMEDIATE")
           us == CascadeUpdates(t, rows, mods)
           f == Followed(rows, mods, us)
<1>1. Ends(ModifyRows(checked, mods))
  BY DEF Update, Given
<1>2. IsState(Running(rows)) /\ Running(rows).rows = rows
  BY RunningIsState
<1>m. DOMAIN mods = ids
  BY DEF Given
<1> HIDE DEF mods
<1>3. IsState(first) /\ (first.thrown = "no" => first = Running(rows) /\ Fills(t, mods))
  BY <1>2, CheckDoes DEF CheckNotNullable, Errors, Fills
<1>4. /\ IsState(s)
      /\ s.thrown = "no" => first.thrown = "no"
                            /\ s.rows = Followed(first.rows, mods, CascadeUpdates(t, first.rows, mods))
  <2> HIDE DEF first
  <2> QED BY <1>3, UpdateByCascadeDoes
<1>5. /\ IsState(checked)
      /\ checked.thrown = "no" => /\ s.thrown = "no" /\ checked = s
                                  /\ ReferredExist(t, s.rows, mods, "IMMEDIATE")
                                  /\ NoneRefers(t, s.rows, mods, "IMMEDIATE")
  <2> HIDE DEF s
  <2> QED BY <1>4, CheckDoes DEF CheckForeignKeysForUpdate, Errors
<1> HIDE DEF checked, s, first
<1>6. checked.thrown = "no" /\ rows' = With(checked.rows, mods, DOMAIN mods)
  BY <1>1, <1>5, ModifyRowsDoes, SuccessfulEnd
<1>7. /\ checked.rows = f /\ Fills(t, mods)
      /\ ReferredExist(t, f, mods, "IMMEDIATE") /\ NoneRefers(t, f, mods, "IMMEDIATE")
  BY <1>2, <1>3, <1>4, <1>5, <1>6
<1>8. rows' = With(f, mods, DOMAIN mods)
  BY <1>6, <1>7
<1>9. /\ Typed(rows) /\ t \in Table
      /\ ids \in SUBSET Present(rows, t) /\ column \in Columns(t) /\ key \in Key
      /\ mods = Given(rows, ids, column, key)
      /\ us = CascadeUpdates(t, rows, mods) /\ f = Followed(rows, mods, us)
  BY DEF mods
<1> HIDE DEF us, f
<1>10. Modifies(rows, t, mods)
  BY ONLY <1>9, UpdateModifies
<1>11. Typed(f)
  BY ONLY <1>9, <1>10, FollowedMeans
<1>12. Typed(With(f, mods, DOMAIN mods))
  BY <1>10, <1>11, WithTyped
<1> QED BY <1>m, <1>7, <1>8, <1>10, <1>12 DEF mods, us, f

\* What an insertOrReplace that succeeds does to the row that is there.
Replaced(t, there, now) ==
    LET mods == [e \in {there} |-> Mod(rows[e], now)]
    IN  /\ t \in Replaceable /\ Modifies(rows, t, mods) /\ Fills(t, mods)
        /\ ReferredExist(t, rows, mods, "IMMEDIATE")
        /\ rows[there] # Absent => /\ rows[there][PrimaryKey[t]] = now[PrimaryKey[t]]
                                   /\ NoneRefers(t, rows, mods, "IMMEDIATE")
        /\ rows' = [rows EXCEPT ![there] = now]
        /\ rows' = With(rows, mods, DOMAIN mods) /\ Typed(rows')

\* A successful Journal.insertOrReplace.
LEMMA ReplaceDoes ==
    ASSUME Typed(rows), NEW t \in Table, NEW id \in RowsOf(t) \ Present(rows, t),
           NEW now \in ValuesOf[id], InsertOrReplace(t, id, now), status' = "open"
    PROVE  \E there \in RowsOf(t) : Replaced(t, there, now)
<1> DEFINE existing == RowsWith(rows, t, PrimaryKey[t], now[PrimaryKey[t]])
           there == IF existing = {} THEN id ELSE CHOOSE e \in existing : TRUE
           mods  == [e \in {there} |-> Mod(rows[e], now)]
           s     == CheckNotNullable(t, Running(rows), mods)
           checked == IF existing = {}
                      THEN CheckForeignKeysForInsert(t, s, mods, "IMMEDIATE")
                      ELSE CheckForeignKeysForUpdate(t, s, mods, "IMMEDIATE")
<1>1. Ends(ModifyRows(checked, mods)) /\ t \in Replaceable
  BY DEF InsertOrReplace
<1>2. IsState(Running(rows)) /\ Running(rows).rows = rows
  BY RunningIsState
<1>3. now \in Row(t)
  BY RowAssumption DEF RowsOf
<1>4. /\ existing = {} => there = id /\ rows[id] = Absent
      /\ existing # {} => /\ there \in Present(rows, t)
                          /\ rows[there][PrimaryKey[t]] = now[PrimaryKey[t]]
  BY RowsWithMeans DEF Present, RowsOf
<1>5. /\ mods = [e \in {there} |-> Mod(rows[e], now)]
      /\ DOMAIN mods = {there} /\ mods[there].then = rows[there] /\ mods[there].now = now
  BY DEF Mod
<1> HIDE DEF mods, existing, there
<1>6. there \in RowId /\ TableOf[there] = t
  BY <1>4 DEF RowsOf, Present
<1>7. Modifies(rows, t, mods)
  BY <1>3, <1>5, <1>6 DEF Modifies
<1>8. IsState(s) /\ (s.thrown = "no" => s = Running(rows) /\ Fills(t, mods))
  BY <1>2, CheckDoes DEF CheckNotNullable, Errors, Fills
<1>9. /\ IsState(checked)
      /\ checked.thrown = "no" => /\ s.thrown = "no" /\ checked = s
                                  /\ ReferredExist(t, s.rows, mods, "IMMEDIATE")
                                  /\ existing # {} => NoneRefers(t, s.rows, mods, "IMMEDIATE")
  <2> HIDE DEF s
  <2>1. CASE existing = {}
    BY <1>8, <2>1, CheckDoes DEF CheckForeignKeysForInsert, Errors
  <2>2. CASE existing # {}
    BY <1>8, <2>2, CheckDoes DEF CheckForeignKeysForUpdate, Errors
  <2> QED BY <2>1, <2>2
<1> HIDE DEF checked, s
<1>10. checked.thrown = "no" /\ rows' = With(checked.rows, mods, DOMAIN mods)
  BY <1>1, <1>9, ModifyRowsDoes, SuccessfulEnd
<1>11. /\ checked.rows = rows /\ ReferredExist(t, rows, mods, "IMMEDIATE") /\ Fills(t, mods)
       /\ existing # {} => NoneRefers(t, rows, mods, "IMMEDIATE")
  BY <1>2, <1>8, <1>9, <1>10
<1>12. rows' = With(rows, mods, DOMAIN mods)
  BY <1>10, <1>11
<1>13. Typed(With(rows, mods, DOMAIN mods))
  BY <1>7, WithTyped
<1>14. With(rows, mods, DOMAIN mods) = [rows EXCEPT ![there] = now]
  <2>1. rows = [e \in RowId |-> rows[e]]
    BY DEF Typed
  <2>2. With(rows, mods, DOMAIN mods) = [e \in RowId |-> IF e = there THEN now ELSE rows[e]]
    BY <1>5 DEF With
  <2> QED BY <1>6, <2>1, <2>2
<1>15. rows[there] # Absent => /\ rows[there][PrimaryKey[t]] = now[PrimaryKey[t]]
                               /\ NoneRefers(t, rows, mods, "IMMEDIATE")
  BY <1>4, <1>11
<1>16. there \in RowsOf(t)
  BY <1>6 DEF RowsOf
<1> QED BY <1>1, <1>5, <1>7, <1>11, <1>12, <1>13, <1>14, <1>15, <1>16 DEF Replaced

\* A successful Journal.remove, and its cascade.
LEMMA RemoveDoes ==
    ASSUME Typed(rows), NEW t \in Table, NEW ids \in SUBSET Present(rows, t),
           Remove1(t, ids), status' = "open"
    PROVE  LET d == DetectCascadeDeletion(t, rows, ids)
               s == RemoveByCascade(t, rows, ids)
           IN  /\ s.thrown = "no"
               /\ NoneRefers(t, s.rows, Deletions(rows, ids), "IMMEDIATE")
               /\ rows' = [id \in RowId |-> IF id \in ids \/ \E c \in Table : id \in d.all[c]
                                           THEN Absent ELSE rows[id]]
               /\ Typed(rows')
<1> DEFINE mods == Deletions(rows, ids)
           d == DetectCascadeDeletion(t, rows, ids)
           s == RemoveByCascade(t, rows, ids)
           checked == CheckForeignKeysForDelete(t, s, mods, "IMMEDIATE")
<1>1. Ends(ModifyRows(checked, mods))
  BY DEF Remove1
<1>2. IsState(s)
  BY RemoveIsState
<1>3. /\ IsState(checked)
      /\ checked.thrown = "no" => /\ s.thrown = "no" /\ checked = s
                                  /\ NoneRefers(t, s.rows, mods, "IMMEDIATE")
  <2> HIDE DEF s
  <2> QED BY <1>2, CheckDoes DEF CheckForeignKeysForDelete, Errors
<1> HIDE DEF checked
<1>4. checked.thrown = "no" /\ rows' = With(checked.rows, mods, DOMAIN mods)
  BY <1>1, <1>3, ModifyRowsDoes, SuccessfulEnd
<1>5. /\ s.thrown = "no" /\ NoneRefers(t, s.rows, mods, "IMMEDIATE")
      /\ rows' = With(s.rows, mods, DOMAIN mods)
  BY <1>3, <1>4
<1>6. rows' = [id \in RowId |-> IF id \in ids \/ \E c \in Table : id \in d.all[c]
                                THEN Absent ELSE rows[id]]
  BY <1>5, RemoveTakes
<1> HIDE DEF d
<1>7. Typed(rows')
  BY <1>6 DEF Typed
<1> QED BY <1>5, <1>6, <1>7 DEF mods, s, d

\* The inductive invariant: the rows the transaction found were consistent,
\* and those it has are between its statements.
Invariant ==
    /\ status \in Errors \cup {"open", "committed", "rolledBack", "rollbackFailed"}
    /\ Typed(before) /\ Consistent(before, {"IMMEDIATE"}) /\ Consistent(before, {"DEFERRABLE"})
    /\ status \in {"open", "committed"} => Sound(rows)
    /\ status = "committed" => Consistent(rows, {"DEFERRABLE"})
    /\ status = "rolledBack" => rows = before

\* The invariant says what NoOrphans says.
LEMMA InvariantImplies == Invariant => NoOrphans
BY DEF Invariant, NoOrphans, Sound

\* The invariant holds of an empty database.
LEMMA InvariantInit == Init => Invariant
<1> SUFFICES ASSUME Init PROVE Invariant
  OBVIOUS
<1>1. \A id \in RowId : rows[id] = Absent
  BY DEF Init
<1>2. \A timings : Consistent(rows, timings)
  BY <1>1 DEF Consistent, Present
<1>3. rows = [id \in RowId |-> rows[id]]
  BY DEF Init
<1>4. Typed(rows)
  BY <1>1, <1>3 DEF Typed
<1> QED BY <1>2, <1>4 DEF Init, Invariant, Sound, Errors

\* The guards and the frame of every statement.
LEMMA StatementFrame ==
    ASSUME NEW t \in Table, Statement(t)
    PROVE  /\ status = "open" /\ before' = before
           /\ status' \in Errors \cup {"open"}
<1>1. ASSUME NEW s, IsState(s), Ends(s)
      PROVE  before' = before /\ status' \in Errors \cup {"open"}
  BY <1>1 DEF Ends, IsState
<1>2. ASSUME NEW new, Insert(t, new)
      PROVE  status = "open" /\ before' = before /\ status' \in Errors \cup {"open"}
  <2> DEFINE mods == [id \in DOMAIN new |-> Mod(Absent, new[id])]
             s == CheckNotNullable(t, Running(rows), mods)
             checked == CheckForeignKeysForInsert(t, s, mods, "IMMEDIATE")
  <2>1. status = "open" /\ Ends(ModifyRows(checked, mods))
    BY <1>2 DEF Insert, CanExecute
  <2>2. IsState(s)
    BY RunningIsState, CheckDoes DEF CheckNotNullable, Errors
  <2>3. IsState(checked)
    <3> HIDE DEF s
    <3> QED BY <2>2, CheckDoes DEF CheckForeignKeysForInsert, Errors
  <2> HIDE DEF checked
  <2>4. IsState(ModifyRows(checked, mods))
    BY <2>3, ModifyRowsDoes
  <2> QED BY <1>1, <2>1, <2>4
<1>3. ASSUME NEW ids, NEW column, NEW key, Update(t, ids, column, key)
      PROVE  status = "open" /\ before' = before /\ status' \in Errors \cup {"open"}
  <2> DEFINE mods == Given(rows, ids, column, key)
             first == CheckNotNullable(t, Running(rows), mods)
             s == UpdateByCascade(t, first, mods)
             checked == CheckForeignKeysForUpdate(t, s, mods, "IMMEDIATE")
  <2>1. status = "open" /\ Ends(ModifyRows(checked, mods))
    BY <1>3 DEF Update, CanExecute, Given
  <2> HIDE DEF mods
  <2>2. IsState(first)
    BY RunningIsState, CheckDoes DEF CheckNotNullable, Errors
  <2>3. IsState(s)
    <3> HIDE DEF first
    <3> QED BY <2>2, UpdateByCascadeDoes
  <2>4. IsState(checked)
    <3> HIDE DEF s
    <3> QED BY <2>3, CheckDoes DEF CheckForeignKeysForUpdate, Errors
  <2> HIDE DEF checked
  <2>5. IsState(ModifyRows(checked, mods))
    BY <2>4, ModifyRowsDoes
  <2> QED BY <1>1, <2>1, <2>5
<1>4. ASSUME NEW id, NEW now, InsertOrReplace(t, id, now)
      PROVE  status = "open" /\ before' = before /\ status' \in Errors \cup {"open"}
  <2> DEFINE existing == RowsWith(rows, t, PrimaryKey[t], now[PrimaryKey[t]])
             there == IF existing = {} THEN id ELSE CHOOSE e \in existing : TRUE
             mods  == [e \in {there} |-> Mod(rows[e], now)]
             s     == CheckNotNullable(t, Running(rows), mods)
             checked == IF existing = {}
                        THEN CheckForeignKeysForInsert(t, s, mods, "IMMEDIATE")
                        ELSE CheckForeignKeysForUpdate(t, s, mods, "IMMEDIATE")
  <2>1. status = "open" /\ Ends(ModifyRows(checked, mods))
    BY <1>4 DEF InsertOrReplace, CanExecute
  <2> HIDE DEF existing, mods
  <2>2. IsState(s)
    BY RunningIsState, CheckDoes DEF CheckNotNullable, Errors
  <2>3. IsState(checked)
    <3> HIDE DEF s
    <3>1. IsState(CheckForeignKeysForInsert(t, s, mods, "IMMEDIATE"))
      BY <2>2, CheckDoes DEF CheckForeignKeysForInsert, Errors
    <3>2. IsState(CheckForeignKeysForUpdate(t, s, mods, "IMMEDIATE"))
      BY <2>2, CheckDoes DEF CheckForeignKeysForUpdate, Errors
    <3> QED BY <3>1, <3>2
  <2> HIDE DEF checked
  <2>4. IsState(ModifyRows(checked, mods))
    BY <2>3, ModifyRowsDoes
  <2> QED BY <1>1, <2>1, <2>4
<1>5. ASSUME NEW ids, Remove1(t, ids)
      PROVE  status = "open" /\ before' = before /\ status' \in Errors \cup {"open"}
  <2> DEFINE mods == Deletions(rows, ids)
             s == RemoveByCascade(t, rows, ids)
             checked == CheckForeignKeysForDelete(t, s, mods, "IMMEDIATE")
  <2>1. status = "open" /\ Ends(ModifyRows(checked, mods))
    BY <1>5 DEF Remove1, CanExecute
  <2>2. IsState(s)
    BY RemoveIsState
  <2>3. IsState(checked)
    <3> HIDE DEF s
    <3> QED BY <2>2, CheckDoes DEF CheckForeignKeysForDelete, Errors
  <2> HIDE DEF checked, mods
  <2>4. IsState(ModifyRows(checked, mods))
    BY <2>3, ModifyRowsDoes
  <2> QED BY <1>1, <2>1, <2>4
<1> QED BY <1>2, <1>3, <1>4, <1>5 DEF Statement

\* The keys that an update gives are keys of rows.
LEMMA UpdateKeysAreKeys ==
    ASSUME NEW t, NEW column \in Columns(t),
           NEW key \in {v[column] : v \in UNION {ValuesOf[id] : id \in RowsOf(t)}}
    PROVE  key \in Key
<1>1. PICK v \in UNION {ValuesOf[id] : id \in RowsOf(t)} : key = v[column]
  OBVIOUS
<1>2. PICK id \in RowsOf(t) : v \in ValuesOf[id]
  OBVIOUS
<1>3. v \in [Columns(t) -> Key]
  BY <1>2, RowAssumption DEF RowsOf, Row
<1> QED BY <1>1, <1>3

\* A statement by which of the four it is.
LEMMA StatementIs ==
    ASSUME NEW t \in Table, Statement(t)
    PROVE  \/ \E ids \in SUBSET (RowsOf(t) \ Present(rows, t)) :
                 \E new \in [ids -> UNION {ValuesOf[id] : id \in ids}] :
                     (\A id \in ids : new[id] \in ValuesOf[id]) /\ Insert(t, new)
           \/ \E ids \in SUBSET Present(rows, t), column \in Columns(t), key \in Key :
                 Update(t, ids, column, key)
           \/ \E id \in RowsOf(t) \ Present(rows, t) : \E now \in ValuesOf[id] :
                 InsertOrReplace(t, id, now)
           \/ \E ids \in (SUBSET Present(rows, t)) \ {{}} : Remove1(t, ids)
<1>1. ASSUME NEW column \in Columns(t),
             NEW key \in {v[column] : v \in UNION {ValuesOf[id] : id \in RowsOf(t)}}
      PROVE  key \in Key
  BY UpdateKeysAreKeys
<1> QED BY <1>1 DEF Statement

\* Statements that succeed leave rows that their tables may contain.
LEMMA StatementKeepsTyped ==
    ASSUME Typed(rows), NEW t \in Table, Statement(t), status' = "open"
    PROVE  Typed(rows')
<1>1. ASSUME NEW id \in RowsOf(t) \ Present(rows, t), NEW now \in ValuesOf[id],
             InsertOrReplace(t, id, now)
      PROVE  Typed(rows')
  BY <1>1, ReplaceDoes DEF Replaced
<1> QED BY <1>1, StatementIs, InsertDoes, UpdateDoes, RemoveDoes

\* Statements that succeed orphan nobody.
LEMMA StatementKeepsConsistent ==
    ASSUME CascadesOwnColumns, ReplacesKeepKeys, Typed(rows), Consistent(rows, {"IMMEDIATE"}),
           NEW t \in Table, Statement(t), status' = "open"
    PROVE  Consistent(rows', {"IMMEDIATE"})
<1>1. ASSUME NEW ids \in SUBSET (RowsOf(t) \ Present(rows, t)),
             NEW new \in [ids -> UNION {ValuesOf[id] : id \in ids}],
             \A id \in ids : new[id] \in ValuesOf[id], Insert(t, new)
      PROVE  Consistent(rows', {"IMMEDIATE"})
  <2> DEFINE mods == [id \in DOMAIN new |-> Mod(Absent, new[id])]
  <2>1. /\ Modifies(rows, t, mods) /\ \A id \in DOMAIN mods : rows[id] = Absent
        /\ ReferredExist(t, rows, mods, "IMMEDIATE") /\ rows' = With(rows, mods, DOMAIN mods)
    BY <1>1, InsertDoes
  <2> HIDE DEF mods
  <2>2. Consistent(With(rows, mods, DOMAIN mods), {"IMMEDIATE"})
    BY <2>1, InsertKeeps
  <2> QED BY <2>1, <2>2
<1>2. ASSUME NEW ids \in SUBSET Present(rows, t), NEW column \in Columns(t), NEW key \in Key,
             Update(t, ids, column, key)
      PROVE  Consistent(rows', {"IMMEDIATE"})
  <2> DEFINE mods == Given(rows, ids, column, key)
             us == CascadeUpdates(t, rows, mods)
             f == Followed(rows, mods, us)
  <2>1. /\ ReferredExist(t, f, mods, "IMMEDIATE") /\ NoneRefers(t, f, mods, "IMMEDIATE")
        /\ rows' = With(f, mods, ids)
    BY <1>2, UpdateDoes
  <2>2. DOMAIN mods = ids
    BY DEF Given
  <2>3. /\ CascadesOwnColumns /\ Typed(rows) /\ Consistent(rows, {"IMMEDIATE"}) /\ t \in Table
        /\ ids \in SUBSET Present(rows, t) /\ column \in Columns(t) /\ key \in Key
        /\ mods = Given(rows, ids, column, key) /\ us = CascadeUpdates(t, rows, mods)
        /\ f = Followed(rows, mods, us)
    OBVIOUS
  <2> HIDE DEF mods, us, f
  <2>4. Consistent(With(f, mods, DOMAIN mods), {"IMMEDIATE"})
    BY ONLY <2>1, <2>3, UpdateKeeps
  <2> QED BY <2>1, <2>2, <2>4
<1>3. ASSUME NEW id \in RowsOf(t) \ Present(rows, t), NEW now \in ValuesOf[id],
             InsertOrReplace(t, id, now)
      PROVE  Consistent(rows', {"IMMEDIATE"})
  <2>0. PICK there \in RowsOf(t) : Replaced(t, there, now)
    BY <1>3, ReplaceDoes
  <2> DEFINE mods == [e \in {there} |-> Mod(rows[e], now)]
  <2>1. /\ t \in Replaceable /\ Modifies(rows, t, mods)
        /\ ReferredExist(t, rows, mods, "IMMEDIATE")
        /\ rows[there] # Absent => /\ rows[there][PrimaryKey[t]] = now[PrimaryKey[t]]
                                   /\ NoneRefers(t, rows, mods, "IMMEDIATE")
        /\ rows' = With(rows, mods, DOMAIN mods)
    BY <2>0 DEF Replaced
  <2>2. DOMAIN mods = {there} /\ mods = [e \in {there} |-> Mod(rows[e], now)]
    OBVIOUS
  <2>3. now \in Row(t)
    BY RowAssumption DEF RowsOf
  <2>4. CASE rows[there] = Absent
    <3>1. \A e \in DOMAIN mods : rows[e] = Absent
      BY <2>2, <2>4
    <3>2. Consistent(With(rows, mods, DOMAIN mods), {"IMMEDIATE"})
      <4> HIDE DEF mods
      <4> QED BY <2>1, <3>1, InsertKeeps DEF mods
    <3> QED BY <2>1, <3>2
  <2>5. CASE rows[there] # Absent
    <3>1. there \in Present(rows, t)
      BY <2>5 DEF Present, RowsOf
    <3>2. Consistent(With(rows, mods, DOMAIN mods), {"IMMEDIATE"})
      BY <2>1, <2>2, <2>3, <2>5, <3>1, ReplaceKeeps
    <3> QED BY <2>1, <3>2
  <2> QED BY <2>4, <2>5
<1>4. ASSUME NEW ids \in SUBSET Present(rows, t), Remove1(t, ids)
      PROVE  Consistent(rows', {"IMMEDIATE"})
  <2> DEFINE d == DetectCascadeDeletion(t, rows, ids)
             s == RemoveByCascade(t, rows, ids)
             mods == Deletions(rows, ids)
  <2>1. /\ s.thrown = "no" /\ NoneRefers(t, s.rows, mods, "IMMEDIATE")
        /\ rows' = [id \in RowId |-> IF id \in ids \/ \E c \in Table : id \in d.all[c]
                                    THEN Absent ELSE rows[id]]
    BY <1>4, RemoveDoes
  <2>2. /\ d = DetectCascadeDeletion(t, rows, ids) /\ s = RemoveByCascade(t, rows, ids)
        /\ mods = Deletions(rows, ids) /\ Consistent(rows, {"IMMEDIATE"}) /\ t \in Table
        /\ ids \in SUBSET Present(rows, t)
    OBVIOUS
  <2> HIDE DEF d, s, mods
  <2> DEFINE now == [id \in RowId |-> IF id \in ids \/ \E c \in Table : id \in d.all[c]
                                    THEN Absent ELSE rows[id]]
  <2>3. now = [id \in RowId |-> IF id \in ids \/ \E c \in Table : id \in d.all[c]
                                THEN Absent ELSE rows[id]]
    OBVIOUS
  <2> HIDE DEF now
  <2>4. Consistent(now, {"IMMEDIATE"})
    BY ONLY <2>1, <2>2, <2>3, RemoveKeeps
  <2> QED BY <2>1, <2>3, <2>4
<1> QED BY <1>1, <1>2, <1>3, <1>4, StatementIs

\* Every step keeps the invariant.
LEMMA InvariantNext ==
    ASSUME CascadesOwnColumns, ReplacesKeepKeys, Invariant, [Next]_vars
    PROVE  Invariant'
<1>1. ASSUME NEW t \in Table, Statement(t)
      PROVE  Invariant'
  <2>1. /\ status = "open" /\ before' = before /\ status' \in Errors \cup {"open"}
    BY <1>1, StatementFrame
  <2>2. Typed(before') /\ Consistent(before', {"IMMEDIATE"}) /\ Consistent(before', {"DEFERRABLE"})
    BY <2>1 DEF Invariant
  <2>3. status' = "open" => Sound(rows')
    BY <1>1, <2>1, StatementKeepsTyped, StatementKeepsConsistent DEF Invariant, Sound
  <2> QED BY <2>1, <2>2, <2>3 DEF Invariant, Errors
<1>2. CASE Commit
  <2>1. status = "open" /\ rows' = rows /\ before' = before
    BY <1>2 DEF Commit
  <2>2. CASE DeferredHold
    <3>1. status' = "committed"
      BY <1>2, <2>2 DEF Commit
    <3>2. Consistent(rows, {"DEFERRABLE"})
      BY <2>2, DeferredChecksSuffice DEF Invariant
    <3> QED BY <2>1, <3>1, <3>2 DEF Invariant
  <2>3. CASE ~DeferredHold
    <3>1. status' = "foreign"
      BY <1>2, <2>3 DEF Commit
    <3> QED BY <2>1, <3>1 DEF Invariant, Errors
  <2> QED BY <2>2, <2>3
<1>3. CASE Rollback
  BY <1>3 DEF Rollback, Invariant
<1>4. CASE RollbackThrows
  BY <1>4 DEF RollbackThrows, Invariant
<1>5. CASE Begin
  BY <1>5 DEF Begin, Invariant, Sound
<1>6. CASE UNCHANGED vars
  BY <1>6 DEF vars, Invariant
<1> QED BY <1>1, <1>2, <1>3, <1>4, <1>5, <1>6 DEF Next

\* The rows are as their tables allow and consistent whenever a statement or
\* a transaction may begin.
THEOREM ConstraintsInvariant ==
    ASSUME CascadesOwnColumns, ReplacesKeepKeys
    PROVE  Spec => []Invariant
<1>1. Invariant /\ [Next]_vars => Invariant'
  BY InvariantNext
<1> QED BY <1>1, InvariantInit, PTL DEF Spec

\* Between statements every immediate foreign key holds, and after a
\* transaction the deferrable ones do too, in every schema in which a
\* cascading column has no other foreign key and insertOrReplace() only meets
\* keys that it keeps.
THEOREM NoOrphansHolds ==
    ASSUME CascadesOwnColumns, ReplacesKeepKeys
    PROVE  Spec => []NoOrphans
BY ConstraintsInvariant, InvariantImplies, PTL

-----------------------------------------------------------------------------
(* What CASCADE promises.                                                  *)

\* A key that cascades is never null: otherwise a row whose key is null takes
\* those that refer to nothing with it.
CascadesFromKeys ==
    \A fk \in Specs : fk.action = "CASCADE" => fk.ref \in NotNullable[fk.parent]

KeysPresent(db) ==
    \A fk \in Specs : fk.action = "CASCADE" =>
        \A p \in Present(db, fk.parent) : db[p][fk.ref] # NullKey

\* Modifications that checkNotNullable let through leave the keys that cascade.
LEMMA FillsKeepsKeys ==
    ASSUME CascadesFromKeys, NEW db, KeysPresent(db), NEW t \in Table, NEW mods, NEW then,
           Modifies(then, t, mods), Fills(t, mods)
    PROVE  KeysPresent(With(db, mods, DOMAIN mods))
<1> DEFINE now == With(db, mods, DOMAIN mods)
<1>1. \A id \in RowId : now[id] = IF id \in DOMAIN mods THEN mods[id].now ELSE db[id]
  BY DEF With
<1> HIDE DEF now
<1>2. ASSUME NEW fk \in Specs, fk.action = "CASCADE", NEW p \in Present(now, fk.parent)
      PROVE  now[p][fk.ref] # NullKey
  <2>1. CASE p \in DOMAIN mods
    <3>1. fk.parent = t
      BY <1>2, <2>1 DEF Modifies, Present
    <3>2. fk.ref \in NotNullable[t]
      BY <1>2, <3>1 DEF CascadesFromKeys
    <3> QED BY <1>1, <1>2, <2>1, <3>2 DEF Fills, Present
  <2>2. CASE p \notin DOMAIN mods
    BY <1>1, <1>2, <2>2 DEF KeysPresent, Present
  <2> QED BY <2>1, <2>2
<1>3. KeysPresent(now)
  BY <1>2 DEF KeysPresent
<1> QED BY <1>3 DEF now

\* A row that others refer to keeps its key when it follows a third.
LEMMA FollowedKeepsReferred ==
    ASSUME NEW db, Typed(db), NEW t \in Table, NEW mods, Modifies(db, t, mods),
           NEW us, us = CascadeUpdates(t, db, mods), NEW f, f = Followed(db, mods, us),
           NEW fk \in Specs, NEW p \in RowId, TableOf[p] = fk.parent, db[p] # Absent
    PROVE  f[p][fk.ref] = db[p][fk.ref]
<1>1. fk.ref \in Columns(TableOf[p])
  BY SchemaAssumption
<1>2. ASSUME NEW u \in us, Sets(u, p, fk.ref) PROVE FALSE
  <2> DEFINE g == ForeignKeys[u.fk]
  <2>1. g \in Specs /\ g.child = TableOf[p] /\ g.column = fk.ref
    BY <1>2, CascadeUpdatesMeans DEF Sets
  <2> HIDE DEF g
  <2> QED BY <2>1, SchemaAssumption
<1>3. \A column \in Columns(TableOf[p]) :
         \/ /\ \A u \in us : ~Sets(u, p, column)
            /\ f[p][column] = db[p][column]
         \/ \E u \in us : /\ Sets(u, p, column)
                          /\ f[p][column] = mods[u.by].now[ForeignKeys[u.fk].ref]
  BY FollowedMeans
<1> QED BY <1>1, <1>2, <1>3

\* Statements that succeed leave the keys that cascade.
LEMMA StatementKeepsKeys ==
    ASSUME CascadesFromKeys, Typed(rows), KeysPresent(rows),
           NEW t \in Table, Statement(t), status' = "open"
    PROVE  KeysPresent(rows')
<1>1. ASSUME NEW ids \in SUBSET (RowsOf(t) \ Present(rows, t)),
             NEW new \in [ids -> UNION {ValuesOf[id] : id \in ids}],
             \A id \in ids : new[id] \in ValuesOf[id], Insert(t, new)
      PROVE  KeysPresent(rows')
  <2> DEFINE mods == [id \in DOMAIN new |-> Mod(Absent, new[id])]
  <2>1. Modifies(rows, t, mods) /\ Fills(t, mods) /\ rows' = With(rows, mods, DOMAIN mods)
    BY <1>1, InsertDoes
  <2> HIDE DEF mods
  <2>2. KeysPresent(With(rows, mods, DOMAIN mods))
    BY <2>1, FillsKeepsKeys
  <2> QED BY <2>1, <2>2
<1>2. ASSUME NEW ids \in SUBSET Present(rows, t), NEW column \in Columns(t), NEW key \in Key,
             Update(t, ids, column, key)
      PROVE  KeysPresent(rows')
  <2> DEFINE mods == Given(rows, ids, column, key)
             us == CascadeUpdates(t, rows, mods)
             f == Followed(rows, mods, us)
  <2>1. Modifies(rows, t, mods) /\ Fills(t, mods) /\ rows' = With(f, mods, ids)
    BY <1>2, UpdateDoes
  <2>2. /\ us = CascadeUpdates(t, rows, mods) /\ f = Followed(rows, mods, us)
        /\ Typed(rows) /\ t \in Table
    OBVIOUS
  <2>3. ids = DOMAIN mods
    BY DEF Given
  <2> HIDE DEF mods, us, f
  <2>4. \A id \in RowId : f[id] = Absent <=> rows[id] = Absent
    BY ONLY <2>1, <2>2, FollowedMeans
  <2>5. ASSUME NEW fk \in Specs, NEW p \in RowId, TableOf[p] = fk.parent, rows[p] # Absent
        PROVE  f[p][fk.ref] = rows[p][fk.ref]
    BY ONLY <2>1, <2>2, <2>5, FollowedKeepsReferred
  <2>6. KeysPresent(f)
    BY <2>4, <2>5 DEF KeysPresent, Present
  <2>7. KeysPresent(With(f, mods, DOMAIN mods))
    BY <2>1, <2>6, FillsKeepsKeys
  <2> QED BY <2>1, <2>3, <2>7
<1>3. ASSUME NEW id \in RowsOf(t) \ Present(rows, t), NEW now \in ValuesOf[id],
             InsertOrReplace(t, id, now)
      PROVE  KeysPresent(rows')
  <2>1. PICK there \in RowsOf(t) : Replaced(t, there, now)
    BY <1>3, ReplaceDoes
  <2> DEFINE mods == [e \in {there} |-> Mod(rows[e], now)]
  <2>2. Modifies(rows, t, mods) /\ Fills(t, mods) /\ rows' = With(rows, mods, DOMAIN mods)
    BY <2>1 DEF Replaced
  <2> HIDE DEF mods
  <2>3. KeysPresent(With(rows, mods, DOMAIN mods))
    BY <2>2, FillsKeepsKeys
  <2> QED BY <2>2, <2>3
<1>4. ASSUME NEW ids \in SUBSET Present(rows, t), Remove1(t, ids)
      PROVE  KeysPresent(rows')
  <2>1. \A id \in RowId : rows'[id] = Absent \/ rows'[id] = rows[id]
    BY <1>4, RemoveDoes
  <2> QED BY <2>1 DEF KeysPresent, Present
<1> QED BY <1>1, <1>2, <1>3, <1>4, StatementIs

\* The keys that cascade are there, between statements.
KeysInvariant ==
    /\ status \in Errors \cup {"open", "committed", "rolledBack", "rollbackFailed"}
    /\ Typed(before) /\ KeysPresent(before)
    /\ status \in {"open", "committed"} => Typed(rows) /\ KeysPresent(rows)
    /\ status = "rolledBack" => rows = before

\* No row, no key.
LEMMA KeysInvariantInit == Init => KeysInvariant
BY InvariantInit DEF KeysInvariant, Invariant, Sound, Init, KeysPresent, Present

\* Every step keeps the keys that cascade.
LEMMA KeysInvariantNext ==
    ASSUME CascadesFromKeys, KeysInvariant, [Next]_vars
    PROVE  KeysInvariant'
<1>1. ASSUME NEW t \in Table, Statement(t)
      PROVE  KeysInvariant'
  <2>1. /\ status = "open" /\ before' = before /\ status' \in Errors \cup {"open"}
    BY <1>1, StatementFrame
  <2>2. status' = "open" => Typed(rows') /\ KeysPresent(rows')
    BY <1>1, <2>1, StatementKeepsTyped, StatementKeepsKeys DEF KeysInvariant
  <2> QED BY <2>1, <2>2 DEF KeysInvariant, Errors
<1>2. CASE Commit
  BY <1>2 DEF Commit, KeysInvariant, Errors
<1>3. CASE Rollback
  BY <1>3 DEF Rollback, KeysInvariant
<1>4. CASE RollbackThrows
  BY <1>4 DEF RollbackThrows, KeysInvariant
<1>5. CASE Begin
  BY <1>5 DEF Begin, KeysInvariant
<1>6. CASE UNCHANGED vars
  BY <1>6 DEF vars, KeysInvariant
<1> QED BY <1>1, <1>2, <1>3, <1>4, <1>5, <1>6 DEF Next

\* Whenever a statement or a transaction may begin no key that cascades is
\* null.
THEOREM KeysStay ==
    ASSUME CascadesFromKeys
    PROVE  Spec => []KeysInvariant
<1>1. KeysInvariant /\ [Next]_vars => KeysInvariant'
  BY KeysInvariantNext
<1> QED BY <1>1, KeysInvariantInit, PTL DEF Spec

\* detectCascadeDeletion finds the rows that depend on those that a statement
\* deletes and no others, through any number of tables.
THEOREM DetectsExactlyDependents ==
    ASSUME NEW db, KeysPresent(db), NEW t \in Table, NEW ids \in SUBSET Present(db, t),
           NEW S, S = {id \in RowId : id \in ids
                          \/ \E c \in Table : id \in DetectCascadeDeletion(t, db, ids).all[c]}
    PROVE  S = Dependents(db, ids)
<1> DEFINE d == DetectCascadeDeletion(t, db, ids)
           closed == {X \in SUBSET RowId : ids \subseteq X /\
                         \A c \in RowId \ X : \A p \in X : ~Refers(db, c, p)}
<1>1. /\ \A c \in Table : d.all[c] \subseteq Present(db, c)
      /\ \A fk \in Specs : fk.action = "CASCADE" => \A p \in RowId :
            (p \in d.all[fk.parent] \/ (fk.parent = t /\ p \in ids)) =>
                Referring(db, fk, {p}) \subseteq d.all[fk.child]
      /\ \A X \in SUBSET RowId : (ids \subseteq X /\ Closed(db, X)) =>
            \A c \in Table : d.all[c] \subseteq X
  BY DetectsDependents
<1>2. S = {id \in RowId : id \in ids \/ \E c \in Table : id \in d.all[c]}
  OBVIOUS
<1> HIDE DEF d
<1>3. S \in closed
  <2>1. S \subseteq RowId /\ ids \subseteq S
    BY <1>2 DEF Present
  <2>2. ASSUME NEW c \in RowId \ S, NEW p \in S, Refers(db, c, p) PROVE FALSE
    <3>1. PICK fk \in Specs : RefersBy(fk, db, c, p)
      BY <2>2 DEF Refers
    <3>2. c \in Referring(db, fk, {p})
      BY <3>1 DEF RefersBy, Referring, Present
    <3>3. p \in d.all[fk.parent] \/ (fk.parent = t /\ p \in ids)
      BY <1>1, <1>2, <3>1 DEF RefersBy, Present
    <3>4. c \in d.all[fk.child] /\ fk.child \in Table /\ p \in RowId
      BY <1>1, <1>2, <3>1, <3>2, <3>3, SchemaAssumption DEF RefersBy
    <3> QED BY <1>2, <2>2, <3>4
  <2> QED BY <2>1, <2>2
<1>4. ASSUME NEW X \in closed PROVE S \subseteq X
  <2>1. ASSUME NEW fk \in Specs, fk.action = "CASCADE", NEW p \in X, TableOf[p] = fk.parent,
               NEW c \in Referring(db, fk, {p}), db[p] # Absent
        PROVE  c \in X
    <3>1. c \in RowId /\ TableOf[c] = fk.child /\ db[c] # Absent /\ db[c][fk.column] = db[p][fk.ref]
      BY DEF Referring, Present
    <3>2. db[p][fk.ref] # NullKey
      BY <2>1 DEF KeysPresent, Present
    <3>3. Refers(db, c, p)
      BY <2>1, <3>1, <3>2 DEF Refers, RefersBy
    <3> QED BY <3>1, <3>3
  <2> DEFINE Y == {id \in X : db[id] # Absent}
  <2>2. Y \in SUBSET RowId /\ ids \subseteq Y
    BY DEF Present
  <2>3. Closed(db, Y)
    <3>1. ASSUME NEW fk \in Specs, fk.action = "CASCADE", NEW p \in Y, TableOf[p] = fk.parent,
                 NEW c \in Referring(db, fk, {p})
          PROVE  c \in Y
      BY <2>1, <3>1 DEF Referring, Present
    <3> QED BY <3>1 DEF Closed
  <2> HIDE DEF Y
  <2>4. \A c \in Table : d.all[c] \subseteq Y
    BY <1>1, <2>2, <2>3
  <2> QED BY <1>2, <2>2, <2>4 DEF Y
<1>5. Dependents(db, ids) = CHOOSE X \in closed : \A other \in closed : X \subseteq other
  BY DEF Dependents
<1> HIDE DEF closed
<1>6. \A other \in closed : S \subseteq other
  BY <1>4
<1>7. \A X \in closed : (\A other \in closed : X \subseteq other) => X = S
  BY <1>3, <1>6
<1> QED BY <1>3, <1>5, <1>6, <1>7

\* A deletion that succeeds takes exactly the rows that depend on the deleted
\* ones, in every schema whose cascading keys are never null.
THEOREM DeletesDependentsHolds ==
    ASSUME CascadesFromKeys
    PROVE  Spec => DeletesDependents
<1> DEFINE A == \A t \in Table : \A ids \in (SUBSET Present(rows, t)) \ {{}} :
                    (Remove1(t, ids) /\ status' = "open") =>
                        rows' = [id \in RowId |-> IF id \in Dependents(rows, ids)
                                                  THEN Absent ELSE rows[id]]
<1>1. Spec => []KeysInvariant
  BY KeysStay
<1>2. ASSUME KeysInvariant, NEW t \in Table, NEW ids \in SUBSET Present(rows, t),
             Remove1(t, ids), status' = "open"
      PROVE  rows' = [id \in RowId |-> IF id \in Dependents(rows, ids)
                                       THEN Absent ELSE rows[id]]
  <2>1. status = "open"
    BY <1>2 DEF Remove1, CanExecute
  <2>2. Typed(rows) /\ KeysPresent(rows)
    BY <1>2, <2>1 DEF KeysInvariant
  <2> DEFINE S == {id \in RowId : id \in ids
                      \/ \E c \in Table : id \in DetectCascadeDeletion(t, rows, ids).all[c]}
  <2>3. rows' = [id \in RowId |-> IF id \in S THEN Absent ELSE rows[id]]
    BY <1>2, <2>2, RemoveDoes
  <2>4. S = Dependents(rows, ids)
    BY <2>2, DetectsExactlyDependents
  <2> HIDE DEF S
  <2> QED BY <2>3, <2>4
<1>3. KeysInvariant => [A]_vars
  BY <1>2
<1>4. DeletesDependents <=> [][A]_vars
  BY DEF DeletesDependents
<1> HIDE DEF A
<1> QED BY <1>1, <1>3, <1>4, PTL DEF Spec

\* No row that a cascade follows is itself in a table that one of its own
\* dependents cascades to.
LEMMA NoCycle ==
    ASSUME NEW f \in Specs, NEW g \in Specs, f.action = "CASCADE", g.action = "CASCADE",
           f.child = g.parent, g.child = f.parent
    PROVE  FALSE
<1>1. PICK depth \in [Table -> 0..Len(ForeignKeys)] :
         \A fk \in Specs : fk.child # fk.parent => depth[fk.parent] < depth[fk.child]
  BY SchemaAssumption
<1>2. f.child # f.parent /\ g.child # g.parent
  BY NoSelfCascade
<1>3. depth[f.parent] \in Int /\ depth[f.child] \in Int
  BY <1>1, SchemaAssumption
<1>4. depth[f.parent] < depth[f.child] /\ depth[f.child] < depth[f.parent]
  BY <1>1, <1>2
<1> QED BY <1>3, <1>4

\* What ReferencesFollow asks of the rows before and after a statement.
Follows(db, then) ==
    \A fk \in Specs : \A c, p \in RowId : RefersBy(fk, db, c, p) =>
        \/ RefersBy(fk, then, c, p)
        \/ then[c] # db[c] /\ then[p] = db[p]

\* An update and its cascade: the rows that referred to a row still do, or got
\* another key themselves.
LEMMA UpdateFollows ==
    ASSUME CascadesOwnColumns, CascadesFromKeys,
           NEW db, Typed(db), NEW t \in Table,
           NEW ids \in SUBSET Present(db, t), NEW column \in Columns(t), NEW key \in Key,
           NEW mods, mods = Given(db, ids, column, key), Fills(t, mods),
           NEW us, us = CascadeUpdates(t, db, mods), NEW f, f = Followed(db, mods, us),
           NEW now, now = With(f, mods, ids)
    PROVE  Follows(db, now)
<1> SUFFICES ASSUME NEW fk \in Specs, NEW c \in RowId, NEW p \in RowId, RefersBy(fk, db, c, p)
             PROVE  \/ RefersBy(fk, now, c, p)
                    \/ now[c] # db[c] /\ now[p] = db[p]
  BY DEF Follows
<1>1. /\ Typed(db) /\ t \in Table /\ ids \in SUBSET Present(db, t) /\ column \in Columns(t)
      /\ key \in Key /\ mods = Given(db, ids, column, key) /\ us = CascadeUpdates(t, db, mods)
      /\ f = Followed(db, mods, us) /\ fk \in Specs /\ c \in RowId /\ p \in RowId
  OBVIOUS
<1>2. /\ fk.action = "CASCADE" /\ TableOf[c] = fk.child /\ TableOf[p] = fk.parent
      /\ db[c] # Absent /\ db[p] # Absent
      /\ db[c][fk.column] = db[p][fk.ref] /\ db[p][fk.ref] # NullKey
  BY DEF RefersBy
<1>3. /\ fk.child # fk.parent /\ fk.column \in Columns(TableOf[c]) /\ fk.ref \in Columns(TableOf[p])
  BY <1>2, SchemaAssumption, NoSelfCascade
<1>4. /\ Modifies(db, t, mods) /\ DOMAIN mods = ids
      /\ \A id \in ids : \A x \in Columns(t) :
            mods[id].now[x] = IF x = column THEN key ELSE db[id][x]
  BY ONLY <1>1, UpdateModifies
<1>5. \A id \in ids : /\ TableOf[id] = t /\ mods[id].then = db[id] /\ mods[id].now # Absent
                      /\ db[id] # Absent
  BY <1>4, RowPresent DEF Modifies, Present
<1>6. \A id \in RowId : now[id] = IF id \in ids THEN mods[id].now ELSE f[id]
  BY DEF With
<1>7. /\ \A id \in RowId : f[id] = Absent <=> db[id] = Absent
      /\ \A id \in RowId : TableOf[id] = t => f[id] = db[id]
      /\ \A id \in RowId : \A x \in Columns(TableOf[id]) : db[id] # Absent =>
            \/ /\ \A u \in us : ~Sets(u, id, x)
               /\ f[id][x] = db[id][x]
            \/ \E u \in us : /\ Sets(u, id, x)
                             /\ f[id][x] = mods[u.by].now[ForeignKeys[u.fk].ref]
  BY ONLY <1>1, <1>4, FollowedMeans
<1>8. ASSUME NEW u \in us, NEW id, NEW x, Sets(u, id, x)
      PROVE  LET g == ForeignKeys[u.fk]
             IN  /\ g \in Specs /\ g.child = TableOf[id] /\ g.column = x
                 /\ g.parent = t /\ g.action = "CASCADE" /\ u.by \in ids
                 /\ Changed(mods[u.by], g.ref) /\ db[id][x] = mods[u.by].then[g.ref]
  <2>1. u \in CascadeUpdates(t, db, mods)
    OBVIOUS
  <2>2. LET g == ForeignKeys[u.fk]
        IN  /\ g \in Specs /\ g.parent = t /\ g.action = "CASCADE" /\ u.by \in DOMAIN mods
            /\ TableOf[u.id] = g.child /\ Changed(mods[u.by], g.ref)
            /\ db[u.id][g.column] = mods[u.by].then[g.ref]
    BY ONLY <1>1, <1>4, <2>1, CascadeUpdatesMeans
  <2>3. u.id = id /\ ForeignKeys[u.fk].column = x
    BY ONLY <1>8 DEF Sets
  <2> QED BY ONLY <1>4, <2>2, <2>3
<1>9. f[p][fk.ref] = db[p][fk.ref]
  BY ONLY <1>1, <1>2, <1>4, FollowedKeepsReferred
\* An update of the row's own foreign key is one of a row that was modified.
<1>10. ASSUME NEW u \in us, Sets(u, c, fk.column)
       PROVE  /\ ForeignKeys[u.fk] = fk /\ fk.parent = t /\ u.by \in ids /\ fk.ref = column
              /\ key # db[p][fk.ref] /\ mods[u.by].now[fk.ref] = key
  <2> DEFINE g == ForeignKeys[u.fk]
  <2>1. /\ g \in Specs /\ g.child = TableOf[c] /\ g.column = fk.column /\ g.parent = t
        /\ g.action = "CASCADE" /\ u.by \in ids
        /\ Changed(mods[u.by], g.ref) /\ db[c][fk.column] = mods[u.by].then[g.ref]
    BY ONLY <1>8, <1>10
  <2> HIDE DEF g
  <2>2. g = fk
    BY <1>2, <2>1 DEF CascadesOwnColumns
  <2>3. mods[u.by].then[fk.ref] # mods[u.by].now[fk.ref]
    BY <1>5, <2>1, <2>2 DEF Changed
  <2>4. fk.ref \in Columns(t)
    BY <1>2, <1>3, <2>1, <2>2
  <2>5. fk.ref = column
    BY <1>4, <1>5, <2>1, <2>3, <2>4
  <2>6. mods[u.by].now[fk.ref] = key
    BY <1>4, <2>1, <2>4, <2>5
  <2>7. mods[u.by].then[fk.ref] = db[p][fk.ref]
    BY <1>2, <2>1, <2>2
  <2> QED BY <2>1, <2>2, <2>3, <2>5, <2>6, <2>7 DEF g
<1>11. f[c][fk.column] = db[c][fk.column] \/ \E u \in us : /\ Sets(u, c, fk.column)
                                                           /\ f[c][fk.column] = key
  BY <1>2, <1>3, <1>7, <1>10
<1>12. CASE p \in ids
  <2>1. fk.parent = t /\ c \notin ids /\ now[c] = f[c] /\ now[c] # Absent
    BY <1>2, <1>3, <1>5, <1>6, <1>7, <1>12
  <2>2. /\ now[p] = mods[p].now /\ now[p] # Absent
        /\ now[p][fk.ref] = IF fk.ref = column THEN key ELSE db[p][fk.ref]
    BY <1>2, <1>3, <1>4, <1>5, <1>6, <1>12
  <2>3. now[c][fk.column] = now[p][fk.ref]
    <3>1. CASE fk.ref = column /\ key # db[p][fk.ref]
      <4>1. PICK n \in DOMAIN ForeignKeys : fk = ForeignKeys[n]
        BY <1>1 DEF Specs
      <4> DEFINE u == [fk |-> n, by |-> p, id |-> c]
      <4>2. Changed(mods[p], fk.ref)
        BY <1>5, <1>12, <2>2, <3>1 DEF Changed
      <4>3. c \in RowsWith(db, fk.child, fk.column, mods[p].then[fk.ref])
        BY <1>2, <1>5, <1>12, RowsWithMeans
      <4>4. u \in us
        BY <1>1, <1>2, <1>4, <1>12, <2>1, <4>1, <4>2, <4>3 DEF CascadeUpdates
      <4>5. Sets(u, c, fk.column)
        BY <4>1 DEF Sets
      <4> HIDE DEF u
      <4>6. \E v \in us : /\ Sets(v, c, fk.column)
                          /\ f[c][fk.column] = mods[v.by].now[ForeignKeys[v.fk].ref]
        BY <1>2, <1>3, <1>7, <4>4, <4>5
      <4>7. f[c][fk.column] = key
        BY <1>10, <4>6
      <4> QED BY <2>1, <2>2, <3>1, <4>7
    <3>2. CASE ~(fk.ref = column /\ key # db[p][fk.ref])
      <4>1. f[c][fk.column] = db[c][fk.column]
        BY <1>2, <1>3, <1>7, <1>10, <3>2
      <4> QED BY <1>2, <2>1, <2>2, <3>2, <4>1
    <3> QED BY <3>1, <3>2
  <2>4. now[p][fk.ref] # NullKey
    <3>1. fk.ref \in NotNullable[t]
      BY <1>2, <2>1 DEF CascadesFromKeys
    <3> QED BY <1>4, <1>12, <2>2, <3>1 DEF Fills
  <2> QED BY <1>2, <2>1, <2>2, <2>3, <2>4 DEF RefersBy
<1>13. CASE p \notin ids
  <2>1. /\ now[p] = f[p] /\ now[p] # Absent /\ now[p][fk.ref] = db[p][fk.ref]
    BY <1>2, <1>6, <1>7, <1>9, <1>13
  <2>2. CASE c \notin ids
    <3>1. now[c] = f[c] /\ now[c] # Absent
      BY <1>2, <1>6, <1>7, <2>2
    <3>2. CASE f[c][fk.column] = db[c][fk.column]
      BY <1>2, <2>1, <3>1, <3>2 DEF RefersBy
    <3>3. ASSUME NEW u \in us, Sets(u, c, fk.column), f[c][fk.column] = key
          PROVE  now[c] # db[c] /\ now[p] = db[p]
      <4>1. fk.parent = t /\ key # db[p][fk.ref]
        BY <1>10, <3>3
      <4>2. f[c] # db[c]
        BY <1>2, <3>3, <4>1
      <4>3. f[p] = db[p]
        BY <1>2, <1>7, <4>1
      <4> QED BY <2>1, <3>1, <4>2, <4>3
    <3> QED BY <1>11, <3>2, <3>3
  <2>3. CASE c \in ids
    <3>1. /\ now[c] = mods[c].now /\ now[c] # Absent /\ fk.child = t
          /\ now[c][fk.column] = IF fk.column = column THEN key ELSE db[c][fk.column]
      BY <1>2, <1>3, <1>4, <1>5, <1>6, <2>3
    <3>2. CASE now[c][fk.column] = db[c][fk.column]
      BY <1>2, <2>1, <3>1, <3>2 DEF RefersBy
    <3>3. CASE now[c][fk.column] # db[c][fk.column]
      <4>1. ASSUME NEW u \in us, u.id = p PROVE FALSE
        <5> DEFINE g == ForeignKeys[u.fk]
        <5>1. Sets(u, p, g.column)
          BY <4>1 DEF Sets
        <5>2. g \in Specs /\ g.child = TableOf[p] /\ g.parent = t /\ g.action = "CASCADE"
          BY ONLY <1>8, <5>1, u \in us
        <5> HIDE DEF g
        <5>3. g.child = fk.parent /\ g.parent = fk.child
          BY <1>2, <3>1, <5>2
        <5> QED BY <1>1, <1>2, <5>2, <5>3, NoCycle
      <4>2. f[p] = db[p]
        BY <1>1, <4>1 DEF Followed
      <4> QED BY <2>1, <3>3, <4>2
    <3> QED BY <3>2, <3>3
  <2> QED BY <2>2, <2>3
<1> QED BY <1>12, <1>13

\* A successful statement that deletes nothing lets the rows follow.
LEMMA StatementFollows ==
    ASSUME CascadesOwnColumns, ReplacesKeepKeys, CascadesFromKeys, Typed(rows),
           NEW t \in Table, Statement(t), status' = "open",
           \A id \in RowId : rows[id] # Absent => rows'[id] # Absent
    PROVE  Follows(rows, rows')
<1>1. ASSUME NEW ids \in SUBSET (RowsOf(t) \ Present(rows, t)),
             NEW new \in [ids -> UNION {ValuesOf[id] : id \in ids}],
             \A id \in ids : new[id] \in ValuesOf[id], Insert(t, new)
      PROVE  Follows(rows, rows')
  <2> DEFINE mods == [id \in DOMAIN new |-> Mod(Absent, new[id])]
  <2>1. /\ \A id \in DOMAIN mods : rows[id] = Absent
        /\ rows' = With(rows, mods, DOMAIN mods)
    BY <1>1, InsertDoes
  <2> HIDE DEF mods
  <2>2. \A id \in RowId : rows[id] # Absent => rows'[id] = rows[id]
    BY <2>1 DEF With
  <2> QED BY <2>2 DEF Follows, RefersBy
<1>2. ASSUME NEW ids \in SUBSET Present(rows, t), NEW column \in Columns(t), NEW key \in Key,
             Update(t, ids, column, key)
      PROVE  Follows(rows, rows')
  <2> DEFINE mods == Given(rows, ids, column, key)
             us == CascadeUpdates(t, rows, mods)
             f == Followed(rows, mods, us)
             now == With(f, mods, ids)
  <2>1. Fills(t, mods) /\ rows' = now
    BY <1>2, UpdateDoes
  <2>2. /\ CascadesOwnColumns /\ CascadesFromKeys /\ Typed(rows) /\ t \in Table
        /\ ids \in SUBSET Present(rows, t) /\ column \in Columns(t) /\ key \in Key
        /\ mods = Given(rows, ids, column, key) /\ us = CascadeUpdates(t, rows, mods)
        /\ f = Followed(rows, mods, us) /\ now = With(f, mods, ids)
    OBVIOUS
  <2> HIDE DEF mods, us, f, now
  <2>3. Follows(rows, now)
    BY ONLY <2>1, <2>2, UpdateFollows
  <2> QED BY <2>1, <2>3
<1>3. ASSUME NEW id \in RowsOf(t) \ Present(rows, t), NEW now \in ValuesOf[id],
             InsertOrReplace(t, id, now)
      PROVE  Follows(rows, rows')
  <2>1. PICK there \in RowsOf(t) : Replaced(t, there, now)
    BY <1>3, ReplaceDoes
  <2>2. /\ t \in Replaceable /\ rows' = [rows EXCEPT ![there] = now]
        /\ rows[there] # Absent => rows[there][PrimaryKey[t]] = now[PrimaryKey[t]]
    BY <2>1 DEF Replaced
  <2>3. rows = [e \in RowId |-> rows[e]]
    BY DEF Typed
  <2>4. /\ \A e \in RowId : rows'[e] = IF e = there THEN now ELSE rows[e]
        /\ TableOf[there] = t /\ there \in RowId /\ now \in Row(t)
    BY <2>2, <2>3, RowAssumption DEF RowsOf
  <2>5. now # Absent
    BY <2>4, RowPresent
  <2> SUFFICES ASSUME NEW fk \in Specs, NEW c \in RowId, NEW p \in RowId, RefersBy(fk, rows, c, p)
               PROVE  \/ RefersBy(fk, rows', c, p)
                      \/ rows'[c] # rows[c] /\ rows'[p] = rows[p]
    BY DEF Follows
  <2>6. fk.child # fk.parent /\ fk.timing = "IMMEDIATE" /\ fk.action = "CASCADE"
    BY SchemaAssumption, NoSelfCascade DEF RefersBy
  <2>7. CASE c # there /\ p # there
    BY <2>4, <2>7 DEF RefersBy
  <2>8. CASE p = there
    <3>1. c # there /\ fk.parent = t /\ rows[there] # Absent
      BY <2>6, <2>8, <2>4 DEF RefersBy
    <3>2. fk.ref = PrimaryKey[t]
      BY <2>2, <2>6, <3>1 DEF ReplacesKeepKeys
    <3>3. rows'[p][fk.ref] = rows[p][fk.ref] /\ rows'[p] # Absent /\ rows'[c] = rows[c]
      BY <2>2, <2>4, <2>5, <2>8, <3>1, <3>2
    <3> QED BY <3>3 DEF RefersBy
  <2>9. CASE c = there /\ p # there
    <3>1. rows'[p] = rows[p]
      BY <2>4, <2>9
    <3> QED BY <3>1 DEF RefersBy
  <2> QED BY <2>7, <2>8, <2>9
<1>4. ASSUME NEW ids \in (SUBSET Present(rows, t)) \ {{}}, Remove1(t, ids)
      PROVE  Follows(rows, rows')
  <2>1. PICK id \in ids : id \in RowId /\ rows[id] # Absent
    BY DEF Present
  <2>2. rows'[id] = Absent
    BY <1>4, <2>1, RemoveDoes
  <2> QED BY <2>1, <2>2
<1> QED BY <1>1, <1>2, <1>3, <1>4, StatementIs

\* A row that refers to another by a key that cascades does so after any
\* statement that deletes nothing, unless that statement gave the row itself
\* another key, in every schema in which a cascading column has no other
\* foreign key, cascading keys are never null, and insertOrReplace() only
\* meets keys that it keeps.
THEOREM ReferencesFollowHolds ==
    ASSUME CascadesOwnColumns, ReplacesKeepKeys, CascadesFromKeys
    PROVE  Spec => ReferencesFollow
<1> DEFINE A == (status = "open" /\ status' = "open" /\ before' = before /\
                 \A id \in RowId : rows[id] # Absent => rows'[id] # Absent) =>
                    \A fk \in Specs : \A c, p \in RowId : RefersBy(fk, rows, c, p) =>
                        \/ RefersBy(fk, rows', c, p)
                        \/ rows'[c] # rows[c] /\ rows'[p] = rows[p]
<1>1. Spec => []KeysInvariant
  BY KeysStay
<1>2. ASSUME KeysInvariant, [Next]_vars, status = "open", status' = "open",
             \A id \in RowId : rows[id] # Absent => rows'[id] # Absent
      PROVE  Follows(rows, rows')
  <2>1. ASSUME NEW t \in Table, Statement(t)
        PROVE  Follows(rows, rows')
    BY <1>2, <2>1, StatementFollows DEF KeysInvariant
  <2>2. CASE UNCHANGED vars
    BY <2>2 DEF vars, Follows
  <2>3. ~Commit /\ ~Rollback /\ ~RollbackThrows /\ ~Begin
    BY <1>2 DEF Commit, Rollback, RollbackThrows, Begin
  <2> QED BY <1>2, <2>1, <2>2, <2>3 DEF Next
<1>3. KeysInvariant /\ [Next]_vars => [A]_vars
  BY <1>2 DEF Follows
<1>4. ReferencesFollow <=> [][A]_vars
  BY DEF ReferencesFollow
<1> HIDE DEF A
<1> QED BY <1>1, <1>3, <1>4, PTL DEF Spec

-----------------------------------------------------------------------------
(* Ranges of keys.                                                         *)

\* The fields of a range, for the steps that split on them.
LEMMA RangeFields ==
    ASSUME NEW r \in SingleKeyRange
    PROVE  /\ r.from \in Int \/ r.from = Unbound
           /\ r.to \in Int \/ r.to = Unbound
           /\ r.excludeLower \in BOOLEAN
           /\ r.excludeUpper \in BOOLEAN
           /\ r.from = Unbound => ~r.excludeLower
           /\ r.to = Unbound => ~r.excludeUpper
BY DEF SingleKeyRange, Bound

\* The keys of the lower part of a complement.
LEMMA KeysBelow ==
    ASSUME NEW r \in SingleKeyRange, r.from \in Int, NEW key \in Int
    PROVE  ContainsKey(ComplementLow(r), key) <=> key < r.from \/ (key = r.from /\ r.excludeLower)
<1>1. r.from # Unbound /\ r.excludeLower \in BOOLEAN
  BY UnboundAssumption, RangeFields
<1>2. ComplementLow(r).from = Unbound /\ ComplementLow(r).to = r.from
  BY DEF ComplementLow, UpperBound, MakeRange
<1>3. ComplementLow(r).excludeUpper = ~r.excludeLower
  BY <1>1, Zenon DEF ComplementLow, UpperBound, MakeRange
<1>4. CASE r.excludeLower = TRUE
  BY <1>1, <1>2, <1>3, <1>4 DEF ContainsKey
<1>5. CASE r.excludeLower = FALSE
  BY <1>1, <1>2, <1>3, <1>5 DEF ContainsKey
<1> QED BY <1>1, <1>4, <1>5

\* The keys of the upper part of a complement.
LEMMA KeysAbove ==
    ASSUME NEW r \in SingleKeyRange, r.to \in Int, NEW key \in Int
    PROVE  ContainsKey(ComplementHigh(r), key) <=> key > r.to \/ (key = r.to /\ r.excludeUpper)
<1>1. r.to # Unbound /\ r.excludeUpper \in BOOLEAN
  BY UnboundAssumption, RangeFields
<1>2. ComplementHigh(r).from = r.to /\ ComplementHigh(r).to = Unbound
  BY DEF ComplementHigh, LowerBound, MakeRange
<1>3. ComplementHigh(r).excludeLower = ~r.excludeUpper
  BY <1>1, Zenon DEF ComplementHigh, LowerBound, MakeRange
<1>4. CASE r.excludeUpper = TRUE
  BY <1>1, <1>2, <1>3, <1>4 DEF ContainsKey
<1>5. CASE r.excludeUpper = FALSE
  BY <1>1, <1>2, <1>3, <1>5 DEF ContainsKey
<1> QED BY <1>1, <1>4, <1>5

(* A range and its complement have every key between them                  *)
(* (SingleKeyRange.complement, used for negated predicates).               *)
THEOREM ComplementCovers ==
    ASSUME NEW r \in SingleKeyRange, NEW key \in Int
    PROVE  \/ ContainsKey(r, key)
           \/ r.from # Unbound /\ ContainsKey(ComplementLow(r), key)
           \/ r.to # Unbound /\ ContainsKey(ComplementHigh(r), key)
<1>1. SUFFICES ASSUME ~ContainsKey(r, key)
               PROVE  \/ r.from # Unbound /\ ContainsKey(ComplementLow(r), key)
                      \/ r.to # Unbound /\ ContainsKey(ComplementHigh(r), key)
  OBVIOUS
<1>2. CASE /\ r.from # Unbound
           /\ ~(key > r.from \/ (key = r.from /\ ~r.excludeLower))
  <2>1. r.from \in Int BY <1>2, RangeFields
  <2>2. key < r.from \/ (key = r.from /\ r.excludeLower) BY <1>2, <2>1
  <2> QED BY <1>2, <2>1, <2>2, KeysBelow
<1>3. CASE /\ r.to # Unbound
           /\ ~(key < r.to \/ (key = r.to /\ ~r.excludeUpper))
  <2>1. r.to \in Int BY <1>3, RangeFields
  <2>2. key > r.to \/ (key = r.to /\ r.excludeUpper) BY <1>3, <2>1
  <2> QED BY <1>3, <2>1, <2>2, KeysAbove
<1> QED BY <1>1, <1>2, <1>3 DEF ContainsKey

(* A range and its complement have no key in common.                       *)
THEOREM ComplementIsDisjoint ==
    ASSUME NEW r \in SingleKeyRange, NEW key \in Int, ContainsKey(r, key)
    PROVE  /\ r.from # Unbound => ~ContainsKey(ComplementLow(r), key)
           /\ r.to # Unbound => ~ContainsKey(ComplementHigh(r), key)
<1>1. ASSUME r.from # Unbound PROVE ~ContainsKey(ComplementLow(r), key)
  <2>1. r.from \in Int BY <1>1, RangeFields
  <2>2. key > r.from \/ (key = r.from /\ ~r.excludeLower) BY <1>1 DEF ContainsKey
  <2>3. ~(key < r.from \/ (key = r.from /\ r.excludeLower)) BY <2>1, <2>2
  <2> QED BY <2>1, <2>3, KeysBelow
<1>2. ASSUME r.to # Unbound PROVE ~ContainsKey(ComplementHigh(r), key)
  <2>1. r.to \in Int BY <1>2, RangeFields
  <2>2. key < r.to \/ (key = r.to /\ ~r.excludeUpper) BY <1>2 DEF ContainsKey
  <2>3. ~(key > r.to \/ (key = r.to /\ r.excludeUpper)) BY <2>1, <2>2
  <2> QED BY <2>1, <2>3, KeysAbove
<1> QED BY <1>1, <1>2

(* Ranges that do not overlap have no key in common                        *)
(* (SingleKeyRange.overlaps, on which range sets rely to stay disjoint).   *)
THEOREM OverlapsFindsCommonKeys ==
    ASSUME NEW r1 \in SingleKeyRange, NEW r2 \in SingleKeyRange, NEW key \in Int,
           ContainsKey(r1, key), ContainsKey(r2, key)
    PROVE  Overlaps(r1, r2)
<1>1. ASSUME NEW s1 \in SingleKeyRange, NEW s2 \in SingleKeyRange,
             ContainsKey(s1, key), ContainsKey(s2, key)
      PROVE  ReachesInto(s1, s2) \/ s2.from = Unbound
  <2>1. SUFFICES ASSUME s1.to \in Int, s2.from \in Int
                 PROVE  ReachesInto(s1, s2)
    BY RangeFields DEF ReachesInto
  <2>2. key < s1.to \/ (key = s1.to /\ ~s1.excludeUpper)
    BY <1>1, <2>1, UnboundAssumption DEF ContainsKey
  <2>3. key > s2.from \/ (key = s2.from /\ ~s2.excludeLower)
    BY <1>1, <2>1, UnboundAssumption DEF ContainsKey
  <2> QED BY <2>1, <2>2, <2>3 DEF ReachesInto
<1>2. CompareLower(r1, r2) \in {RHS, TIE, LHS}
  BY DEF CompareLower, CompareKey, TieOf, Flip, RHS, TIE, LHS
<1>3. CASE CompareLower(r1, r2) = TIE
  BY <1>3 DEF Overlaps
<1>4. CASE CompareLower(r1, r2) = RHS
  <2>1. CASE r2.from # Unbound BY <1>1, <1>4, <2>1 DEF Overlaps
  <2>2. CASE r2.from = Unbound
    BY <1>4, <2>2, RangeFields DEF CompareLower, CompareKey, TieOf, Flip, RHS, TIE, LHS
  <2> QED BY <2>1, <2>2
<1>5. CASE CompareLower(r1, r2) = LHS
  <2>1. CASE r1.from # Unbound BY <1>1, <1>5, <2>1 DEF Overlaps
  <2>2. CASE r1.from = Unbound
    BY <1>5, <2>2, RangeFields DEF CompareLower, CompareKey, TieOf, Flip, RHS, TIE, LHS
  <2> QED BY <2>1, <2>2
<1> QED BY <1>2, <1>3, <1>4, <1>5

\* What each end of a range admits.
FromAdmits(from, exclude, key) == from = Unbound \/ key > from \/ (key = from /\ ~exclude)
ToAdmits(to, exclude, key) == to = Unbound \/ key < to \/ (key = to /\ ~exclude)

(* The intersection of two ranges has the keys of both                     *)
(* (SingleKeyRange.and, used when several predicates bound one column).    *)
THEOREM AndIsIntersection ==
    ASSUME NEW r1 \in SingleKeyRange, NEW r2 \in SingleKeyRange, NEW key \in Int
    PROVE  ContainsKey(And(r1, r2), key) <=> ContainsKey(r1, key) /\ ContainsKey(r2, key)
<1> DEFINE lower == AndLower(r1, r2)
           upper == AndUpper(r1, r2)
<1>1. FromAdmits(lower.from, lower.excludeLower, key) <=>
          /\ FromAdmits(r1.from, r1.excludeLower, key)
          /\ FromAdmits(r2.from, r2.excludeLower, key)
  BY UnboundAssumption, RangeFields
  DEF FromAdmits, AndLower, CompareKey, TieOf, Flip, RHS, TIE, LHS
<1>2. ToAdmits(upper.to, upper.excludeUpper, key) <=>
          ToAdmits(r1.to, r1.excludeUpper, key) /\ ToAdmits(r2.to, r2.excludeUpper, key)
  BY UnboundAssumption, RangeFields
  DEF ToAdmits, AndUpper, CompareKey, TieOf, Flip, RHS, TIE, LHS
<1> HIDE DEF lower, upper
<1>3. /\ And(r1, r2).from = lower.from /\ And(r1, r2).excludeLower = lower.excludeLower
      /\ And(r1, r2).to = upper.to /\ And(r1, r2).excludeUpper = upper.excludeUpper
  BY DEF And, lower, upper
<1>4. \A r : ContainsKey(r, key) <=> /\ FromAdmits(r.from, r.excludeLower, key)
                                     /\ ToAdmits(r.to, r.excludeUpper, key)
  BY DEF ContainsKey, FromAdmits, ToAdmits
<1> QED BY <1>1, <1>2, <1>3, <1>4

(* The bounding range of two ranges has the keys of both.                  *)
THEOREM BoundingCovers ==
    ASSUME NEW r1 \in SingleKeyRange, NEW r2 \in SingleKeyRange, NEW key \in Int,
           ContainsKey(r1, key) \/ ContainsKey(r2, key)
    PROVE  ContainsKey(BoundingRange(r1, r2), key)
<1> DEFINE lower == BoundingLower(r1, r2)
           upper == BoundingUpper(r1, r2)
<1>1. FromAdmits(lower.key, lower.exclude, key)
  <2>1. FromAdmits(r1.from, r1.excludeLower, key) \/ FromAdmits(r2.from, r2.excludeLower, key)
    BY DEF ContainsKey, FromAdmits
  <2> QED BY <2>1, UnboundAssumption, RangeFields
          DEF FromAdmits, BoundingLower, CompareKey, TieOf, Flip, RHS, TIE, LHS
<1>2. ToAdmits(upper.key, upper.exclude, key)
  <2>1. ToAdmits(r1.to, r1.excludeUpper, key) \/ ToAdmits(r2.to, r2.excludeUpper, key)
    BY DEF ContainsKey, ToAdmits
  <2> QED BY <2>1, UnboundAssumption, RangeFields
          DEF ToAdmits, BoundingUpper, CompareKey, TieOf, Flip, RHS, TIE, LHS
<1> HIDE DEF lower, upper
<1>3. /\ BoundingRange(r1, r2).from = lower.key /\ BoundingRange(r1, r2).excludeLower = lower.exclude
      /\ BoundingRange(r1, r2).to = upper.key /\ BoundingRange(r1, r2).excludeUpper = upper.exclude
  BY DEF BoundingRange, lower, upper
<1> QED BY <1>1, <1>2, <1>3 DEF ContainsKey, FromAdmits, ToAdmits
=============================================================================
