---------------------------- MODULE StoresProofs ----------------------------
(***************************************************************************)
(* Proofs about Stores.tla for any finite set of tables, any values, page  *)
(* size, versions and bounds, and every kind of native store.  The heart   *)
(* is ConvergesTo: what is in a native store and the requests still queued *)
(* for it together determine what it is to become, however far the store   *)
(* has got, and serving a request, with what its callback adds, keeps that *)
(* (ServedHere).  mergeTableChanges makes requests that converge to the    *)
(* rows of the cache (TableConverges), and a queue that is empty means     *)
(* that the store has become them (DataSettled).                           *)
(***************************************************************************)
EXTENDS Stores, WellFoundedInduction, FiniteSetTheorems, FunctionTheorems,
        SequenceTheorems, TLAPS

-----------------------------------------------------------------------------
(* Numbers and sequences.                                                  *)

\* A set of natural numbers that is not empty has a least element.
LEMMA LeastNat ==
    ASSUME NEW T \in SUBSET Nat, T # {}
    PROVE  \E x \in T : \A y \in T : x <= y
<1> DEFINE R == OpToRel(<, Nat)
<1>1. IsWellFoundedOn(R, Nat) BY NatLessThanWellFounded
<1>2. \E x \in T : \A y \in T : ~ (<<y, x>> \in R)
  <2> HIDE DEF R
  <2> QED BY <1>1, WFMin
<1>3. \A x, y \in Nat : x < y => <<x, y>> \in R
  BY DEF OpToRel
<1>4. PICK x \in T : \A y \in T : ~ (<<y, x>> \in R) BY <1>2
<1>5. ASSUME NEW y \in T PROVE x <= y
  <2>1. ~(y < x) BY <1>3, <1>4
  <2> QED BY <2>1
<1> QED BY <1>5

\* So what holds of 0, and of n + 1 whenever of n, holds of every number.
LEMMA Induction ==
    ASSUME NEW S, 0 \in S, \A n \in Nat : n \in S => n + 1 \in S
    PROVE  \A n \in Nat : n \in S
<1> SUFFICES ASSUME NEW n \in Nat, n \notin S PROVE FALSE OBVIOUS
<1> DEFINE T == Nat \ S
<1>0. T \in SUBSET Nat /\ T # {} OBVIOUS
<1>1. PICK x \in T : \A y \in T : x <= y
  <2> HIDE DEF T
  <2> QED BY <1>0, LeastNat
<1>2. x # 0 BY <1>1
<1>3. x - 1 \in Nat /\ x - 1 \notin T BY <1>1, <1>2
<1>4. x - 1 \in S BY <1>3
<1> QED BY <1>4, <1>1, <1>2

\* A set of numbers that is bounded has a greatest element, and Max is it.
LEMMA MaxIs ==
    ASSUME NEW S, S # {}, NEW b \in Nat, S \subseteq 0 .. b
    PROVE  Max(S) \in S /\ \A y \in S : Max(S) >= y
<1> DEFINE T == {n \in Nat : b - n \in S}
<1>0. T \in SUBSET Nat /\ T # {}
  <2>1. PICK y \in S : TRUE OBVIOUS
  <2>2. b - y \in Nat /\ b - (b - y) = y BY <2>1
  <2> QED BY <2>1, <2>2
<1>1. PICK n \in T : \A m \in T : n <= m
  <2> HIDE DEF T
  <2> QED BY <1>0, LeastNat
<1>2. b - n \in S /\ \A y \in S : b - n >= y
  <2>1. ASSUME NEW y \in S PROVE b - n >= y
    <3>1. b - y \in Nat /\ b - (b - y) = y BY <2>1
    <3>2. b - y \in T BY <3>1
    <3> QED BY <1>1, <3>1, <3>2
  <2> QED BY <2>1, <1>1
<1> QED BY <1>2 DEF Max

\* SetToSeq lists the members of a finite set, each once.
LEMMA SetToSeqIs ==
    ASSUME NEW S, IsFiniteSet(S)
    PROVE  /\ SetToSeq(S) \in Seq(S)
           /\ Range(SetToSeq(S)) = S
           /\ \A i, j \in DOMAIN SetToSeq(S) : SetToSeq(S)[i] = SetToSeq(S)[j] => i = j
<1> DEFINE n == Cardinality(S)
           f == SetToSeq(S)
<1>1. n \in Nat /\ ExistsBijection(1 .. n, S) BY FS_CardinalityType
<1>2. PICK g \in Bijection(1 .. n, S) : TRUE BY <1>1, Fun_ExistsBij
<1>3. g \in [1 .. n -> S] /\ IsInjective(g)
  BY <1>2 DEF Bijection, Injection
<1>4. f \in [1 .. n -> S] /\ IsInjective(f)
  BY <1>3 DEF SetToSeq
<1>5. f \in Injection(1 .. n, S) BY <1>4 DEF Injection
<1>6. IsFiniteSet(1 .. n) /\ Cardinality(1 .. n) = n
  BY <1>1, FS_Interval
<1>7. f \in Surjection(1 .. n, S)
  <2> HIDE DEF f
  <2> QED BY <1>5, <1>6, FS_Injection
<1>8. Range(f) = S
  <2> HIDE DEF f
  <2> QED BY <1>7, Fun_SurjectionProperties
<1> QED BY <1>1, <1>4, <1>8 DEF IsInjective

\* Of any two members, the earlier and the later are related.
Ordered(s, R) == \A i, j \in DOMAIN s : i < j => <<s[i], s[j]>> \in R

\* Order in a concatenation.
LEMMA ConcatIs ==
    ASSUME NEW X, NEW s \in Seq(X), NEW t \in Seq(X)
    PROVE  /\ s \o t \in Seq(X)
           /\ Range(s \o t) = Range(s) \cup Range(t)
           /\ \A R : /\ Ordered(s, R) /\ Ordered(t, R)
                     /\ \A x \in Range(s), y \in Range(t) : <<x, y>> \in R
                     => Ordered(s \o t, R)
<1>1. s \o t \in Seq(X) /\ Len(s \o t) = Len(s) + Len(t)
  OBVIOUS
<1>2. \A i \in DOMAIN (s \o t) : (s \o t)[i] = IF i <= Len(s) THEN s[i] ELSE t[i - Len(s)]
  OBVIOUS
<1>3. DOMAIN s = 1 .. Len(s) /\ DOMAIN t = 1 .. Len(t)
      /\ DOMAIN (s \o t) = 1 .. (Len(s) + Len(t)) /\ Len(s) \in Nat /\ Len(t) \in Nat
  OBVIOUS
<1> DEFINE u == s \o t
<1> HIDE DEF u
<1>4. Range(u) = Range(s) \cup Range(t)
  <2>1. ASSUME NEW i \in DOMAIN u PROVE u[i] \in Range(s) \cup Range(t)
    <3>1. CASE i <= Len(s) BY <2>1, <3>1, <1>2, <1>3 DEF u, Range
    <3>2. CASE ~(i <= Len(s))
      <4>1. i - Len(s) \in DOMAIN t BY <2>1, <3>2, <1>3 DEF u
      <4> QED BY <4>1, <2>1, <3>2, <1>2 DEF u, Range
    <3> QED BY <3>1, <3>2
  <2>2. ASSUME NEW i \in DOMAIN s PROVE s[i] \in Range(u)
    <3>1. i \in DOMAIN u /\ u[i] = s[i] BY <2>2, <1>2, <1>3 DEF u
    <3> QED BY <3>1 DEF Range
  <2>3. ASSUME NEW i \in DOMAIN t PROVE t[i] \in Range(u)
    <3>1. i + Len(s) \in DOMAIN u /\ u[i + Len(s)] = t[i] BY <2>3, <1>2, <1>3 DEF u
    <3> QED BY <3>1 DEF Range
  <2> QED BY <2>1, <2>2, <2>3 DEF Range
<1>5. ASSUME NEW R, Ordered(s, R), Ordered(t, R),
             \A x \in Range(s), y \in Range(t) : <<x, y>> \in R
      PROVE  Ordered(u, R)
  <2> SUFFICES ASSUME NEW i \in DOMAIN u, NEW j \in DOMAIN u, i < j
               PROVE  <<u[i], u[j]>> \in R
    BY DEF Ordered
  <2>0. i \in Int /\ j \in Int BY <1>3 DEF u
  <2>1. CASE j <= Len(s)
    <3>1. i \in DOMAIN s /\ j \in DOMAIN s /\ u[i] = s[i] /\ u[j] = s[j]
      BY <2>1, <1>2, <1>3 DEF u
    <3> QED BY <3>1, <1>5 DEF Ordered
  <2>2. CASE i > Len(s)
    <3>1. i - Len(s) \in DOMAIN t /\ j - Len(s) \in DOMAIN t
          /\ i - Len(s) < j - Len(s)
          /\ u[i] = t[i - Len(s)] /\ u[j] = t[j - Len(s)]
      BY <2>2, <1>2, <1>3 DEF u
    <3> QED BY <3>1, <1>5 DEF Ordered
  <2>3. CASE i <= Len(s) /\ j > Len(s)
    <3>1. i \in DOMAIN s /\ j - Len(s) \in DOMAIN t
          /\ u[i] = s[i] /\ u[j] = t[j - Len(s)]
      BY <2>3, <1>2, <1>3 DEF u
    <3> QED BY <3>1, <1>5 DEF Range
  <2> QED BY <2>0, <1>3, <2>1, <2>2, <2>3
<1> QED BY <1>1, <1>4, <1>5 DEF u

\* The function by which FlattenSeq is defined.
Flattening(f, seqs) ==
    f = [i \in 1 .. Len(seqs) |-> IF i = 1 THEN seqs[i] ELSE f[i - 1] \o seqs[i]]

\* That function exists for any sequence of sequences.
LEMMA FlatteningExists ==
    ASSUME NEW X, NEW seqs \in Seq(X)
    PROVE  \E f : Flattening(f, seqs)
<1> DEFINE Upto(n, f) == f = [i \in 1 .. n |-> IF i = 1 THEN seqs[i] ELSE f[i - 1] \o seqs[i]]
           S == {n \in Nat : \E f : Upto(n, f)}
<1>1. 0 \in S
  <2>1. Upto(0, [i \in 1 .. 0 |-> seqs[i]]) OBVIOUS
  <2> QED BY <2>1
<1>2. ASSUME NEW n \in Nat, n \in S PROVE n + 1 \in S
  <2>1. PICK f : Upto(n, f) BY <1>2
  <2> DEFINE last == IF n = 0 THEN seqs[1] ELSE f[n] \o seqs[n + 1]
             g == [i \in 1 .. n + 1 |-> IF i = n + 1 THEN last ELSE f[i]]
  <2>2. ASSUME NEW i \in 1 .. n + 1
        PROVE  g[i] = IF i = 1 THEN seqs[i] ELSE g[i - 1] \o seqs[i]
    <3>1. CASE i = n + 1
      <4>1. CASE n = 0 BY <3>1, <4>1
      <4>2. CASE n # 0
        <5>1. i - 1 = n /\ n \in 1 .. n + 1 /\ n # n + 1 BY <3>1, <4>2
        <5>2. g[n] = f[n] BY <5>1
        <5>3. g[i] = f[n] \o seqs[n + 1] BY <3>1, <4>2
        <5>4. i # 1 /\ seqs[i] = seqs[n + 1] /\ g[i - 1] = f[n] BY <3>1, <4>2, <5>1, <5>2
        <5> HIDE DEF g
        <5> QED BY <5>3, <5>4
      <4> QED BY <4>1, <4>2
    <3>2. CASE i # n + 1
      <4>1. i \in 1 .. n BY <3>2
      <4>2. f[i] = IF i = 1 THEN seqs[i] ELSE f[i - 1] \o seqs[i] BY <2>1, <4>1
      <4>3. CASE i = 1 BY <4>2, <4>3, <4>1
      <4>4. CASE i # 1
        <5>1. i - 1 \in 1 .. n + 1 /\ i - 1 # n + 1 BY <4>1, <4>4
        <5>2. g[i - 1] = f[i - 1] /\ g[i] = f[i] BY <5>1, <3>2
        <5> QED BY <5>2, <4>2, <4>4
      <4> QED BY <4>3, <4>4
    <3> QED BY <3>1, <3>2
  <2>3. Upto(n + 1, g)
    <3> HIDE DEF last
    <3>1. g = [i \in 1 .. n + 1 |-> g[i]] OBVIOUS
    <3> HIDE DEF g
    <3> QED BY <2>2, <3>1
  <2> HIDE DEF g, Upto
  <2> QED BY <2>3
<1>3. \A n \in Nat : n \in S
  <2> HIDE DEF S
  <2> QED BY <1>1, <1>2, Induction
<1>4. Len(seqs) \in Nat OBVIOUS
<1> QED BY <1>3, <1>4 DEF Flattening

\* FlattenSeq has the members of its parts, in their order.
LEMMA FlattenSeqIs ==
    ASSUME NEW X, NEW seqs \in Seq(Seq(X))
    PROVE  /\ FlattenSeq(seqs) \in Seq(X)
           /\ Range(FlattenSeq(seqs)) = UNION {Range(seqs[i]) : i \in 1 .. Len(seqs)}
           /\ \A R : /\ \A i \in 1 .. Len(seqs) : Ordered(seqs[i], R)
                     /\ \A i, j \in 1 .. Len(seqs) : i < j =>
                            \A x \in Range(seqs[i]), y \in Range(seqs[j]) : <<x, y>> \in R
                     => Ordered(FlattenSeq(seqs), R)
<1>0. Len(seqs) \in Nat OBVIOUS
<1>1. CASE Len(seqs) = 0
  <2>1. FlattenSeq(seqs) = seqs BY <1>1 DEF FlattenSeq
  <2>2. seqs = <<>> BY <1>1
  <2>3. seqs \in Seq(X) /\ DOMAIN seqs = {} BY <2>2
  <2> QED BY <2>1, <2>3, <1>1 DEF Range, Ordered
<1>2. CASE Len(seqs) # 0
  <2> DEFINE f == CHOOSE f : Flattening(f, seqs)
  <2>1. Flattening(f, seqs) BY FlatteningExists
  <2>2. FlattenSeq(seqs) = f[Len(seqs)] BY <1>2 DEF FlattenSeq, Flattening
  <2> HIDE DEF f
  <2>3. \A i \in 1 .. Len(seqs) : f[i] = IF i = 1 THEN seqs[i] ELSE f[i - 1] \o seqs[i]
    BY <2>1 DEF Flattening
  <2>4. \A i \in 1 .. Len(seqs) : seqs[i] \in Seq(X) OBVIOUS
  <2> DEFINE Good(m) ==
                /\ f[m] \in Seq(X)
                /\ Range(f[m]) = UNION {Range(seqs[i]) : i \in 1 .. m}
                /\ \A R : /\ \A i \in 1 .. m : Ordered(seqs[i], R)
                          /\ \A i, j \in 1 .. m : i < j =>
                                \A x \in Range(seqs[i]), y \in Range(seqs[j]) : <<x, y>> \in R
                          => Ordered(f[m], R)
             S == {n \in Nat : n + 1 \in 1 .. Len(seqs) => Good(n + 1)}
  <2>5. Good(1)
    <3>1. f[1] = seqs[1] /\ 1 \in 1 .. Len(seqs) BY <2>3, <1>0, <1>2
    <3>2. 1 .. 1 = {1} OBVIOUS
    <3> QED BY <3>1, <3>2, <2>4
  <2>6. ASSUME NEW m \in 1 .. Len(seqs), m + 1 \in 1 .. Len(seqs), Good(m)
        PROVE  Good(m + 1)
    <3>0. m + 1 # 1 /\ (m + 1) - 1 = m OBVIOUS
    <3>1. f[m + 1] = f[m] \o seqs[m + 1]
      <4> HIDE DEF Good
      <4>1. f[m + 1] = f[(m + 1) - 1] \o seqs[m + 1] BY <2>3, <2>6, <3>0
      <4> QED BY <4>1, <3>0
    <3>2. f[m] \in Seq(X) /\ seqs[m + 1] \in Seq(X) BY <2>4, <2>6
    <3>3. 1 .. m + 1 = (1 .. m) \cup {m + 1} OBVIOUS
    <3>4. Range(f[m + 1]) = Range(f[m]) \cup Range(seqs[m + 1])
      BY <3>1, <3>2, ConcatIs
    <3>5. Range(f[m + 1]) = UNION {Range(seqs[i]) : i \in 1 .. m + 1}
      BY <3>3, <3>4, <2>6
    <3>6. ASSUME NEW R, \A i \in 1 .. m + 1 : Ordered(seqs[i], R),
                 \A i, j \in 1 .. m + 1 : i < j =>
                     \A x \in Range(seqs[i]), y \in Range(seqs[j]) : <<x, y>> \in R
          PROVE  Ordered(f[m + 1], R)
      <4>1. Ordered(f[m], R) BY <3>6, <3>3, <2>6
      <4>2. Ordered(seqs[m + 1], R) BY <3>6, <3>3
      <4>3. ASSUME NEW x \in Range(f[m]), NEW y \in Range(seqs[m + 1])
            PROVE  <<x, y>> \in R
        <5>1. PICK i \in 1 .. m : x \in Range(seqs[i]) BY <4>3, <2>6
        <5>2. i < m + 1 /\ i \in 1 .. m + 1 /\ m + 1 \in 1 .. m + 1 OBVIOUS
        <5> QED BY <5>1, <5>2, <3>6, <4>3
      <4>4. Ordered(f[m] \o seqs[m + 1], R)
        BY ONLY <4>1, <4>2, <4>3, <3>2, ConcatIs
      <4> QED BY <4>4, <3>1
    <3>7. f[m + 1] \in Seq(X) BY ONLY <3>1, <3>2, ConcatIs
    <3>8. \A R : /\ \A i \in 1 .. m + 1 : Ordered(seqs[i], R)
                 /\ \A i, j \in 1 .. m + 1 : i < j =>
                       \A x \in Range(seqs[i]), y \in Range(seqs[j]) : <<x, y>> \in R
                 => Ordered(f[m + 1], R)
      BY ONLY <3>6
    <3> QED BY ONLY <3>5, <3>7, <3>8
  <2>7. 0 \in S
    <3> HIDE DEF Good
    <3> QED BY <2>5
  <2>8. ASSUME NEW n \in Nat, n \in S PROVE n + 1 \in S
    <3> HIDE DEF Good
    <3> QED BY <2>6, <2>8
  <2>9. Good(Len(seqs))
    <3>1. \A n \in Nat : n \in S
      <4> HIDE DEF S, Good
      <4> QED BY ONLY <2>7, <2>8, Induction
    <3>2. Len(seqs) - 1 \in S
      <4> HIDE DEF S
      <4> QED BY <3>1, <1>0, <1>2
    <3> HIDE DEF Good
    <3> QED BY <3>2, <1>0, <1>2
  <2> QED BY <2>2, <2>9
<1> QED BY <1>1, <1>2

-----------------------------------------------------------------------------
(* What the stores and memory hold: the parts of the inductive invariant.  *)

\* Rows by row id.
RowMap == UNION {[ids -> Row] : ids \in SUBSET RowId}

\* A record of a data store: a row, or for the bundled store a page that is not
\* empty and has no rows but its own.
RecordOK(k, key, record) ==
    /\ key \in RowId
    /\ IF k = "bundled"
       THEN /\ record \in RowMap
            /\ DOMAIN record # {}
            /\ DOMAIN record \subseteq getPageRange(key)
       ELSE record \in Row

\* A data store.
StoreOK(k, n) ==
    /\ DOMAIN n \subseteq RowId
    /\ n = [key \in DOMAIN n |-> n[key]]
    /\ \A key \in DOMAIN n : RecordOK(k, key, n[key])

\* The record in which a persisted index is stored.
IndexRecord(k, ids) == IF k = "bundled" THEN Serialized(ids) ELSE ids

\* The index store, of a RowId index that holds ids.
IndexImage(k, ids) == Put(None, ROW_ID, IndexRecord(k, ids))

\* The index store is empty or holds one RowId index.
IndexOK(k, n) == n = None \/ \E ids \in SUBSET RowId : n = IndexImage(k, ids)

\* A native request: puts are of records as they should be, deletes and counts of
\* row ids; an index is only rewritten.
RequestOK(k, r) ==
    /\ r.op \in {"put", "delete", "clear", "count"}
    /\ r.store \in Stores
    /\ r.op = "put" => /\ \A t \in Tables : r.store = Data(t) => RecordOK(k, r.key, r.record)
                       /\ \A t \in Tables : r.store = Index(t) =>
                             /\ r.key = ROW_ID
                             /\ \E ids \in SUBSET RowId : r.record = IndexRecord(k, ids)
    /\ r.op = "delete" => /\ r.keys \subseteq RowId
                          /\ \A t \in Tables : r.store # Index(t)
    /\ r.op = "count" => /\ k = "indexed_db"
                         /\ r.ids \subseteq RowId
                         /\ \A t \in Tables : r.store = Index(t) => r.ids = {}

\* The types of the variables.
TypeInv ==
    /\ kind \in Kinds
    /\ disk = [s \in Stores |-> disk[s]] /\ native = [s \in Stores |-> native[s]]
    /\ kind # "memory" =>
          \A t \in Tables :
             /\ StoreOK(kind, disk[Data(t)]) /\ StoreOK(kind, native[Data(t)])
             /\ IndexOK(kind, disk[Index(t)]) /\ IndexOK(kind, native[Index(t)])
    /\ version \in 0 .. MaxVersion /\ schema \in 1 .. MaxVersion
    /\ {made, unwritten, lost, halfUpgraded} \subseteq BOOLEAN
    /\ status \in {"closed", "failed", "versioned", "upgrading", "idle", "active",
                   "committing", "importing", "written"}
    /\ cache \in [Tables -> RowMap]
    /\ rowIds \in [Tables -> SUBSET RowId]
    /\ nextId \in 0 .. MaxRowId
    /\ before \in [cache : [Tables -> RowMap], rowIds : [Tables -> SUBSET RowId]]
    /\ touched \subseteq Tables
    /\ dropped \subseteq Persistent
    /\ requests \in Seq(Range(requests))
    /\ \A i \in DOMAIN requests : RequestOK(kind, requests[i])

\* The states of a connection: not there, there, and with requests under way.
Away == {"closed", "failed", "versioned", "upgrading"}
Live == {"idle", "active", "committing", "importing", "written"}
Sending == {"committing", "importing"}

\* What the state of the connection says of the rest: nothing is in memory when
\* it is closed, nothing is queued unless a transaction is being sent, and the native
\* transaction and the medium differ only then or when WebSQL has yet to commit.
StatusInv ==
    /\ unwritten => kind = "web_sql" /\ status \in {"closed", "idle", "active"} \cup Sending
    /\ status \notin Sending => requests = <<>>
    /\ status \notin Sending /\ ~unwritten => native = disk
    /\ status \in Away => /\ cache = NoRows /\ before.cache = NoRows
                          /\ rowIds = [t \in Tables |-> {}]
                          /\ before.rowIds = [t \in Tables |-> {}]
    /\ status \notin {"active", "committing", "written"} => touched = {}
    /\ kind = "memory" => /\ status \notin Sending \cup {"versioned", "upgrading", "failed"}
                          /\ ~lost
                          /\ status = "closed" => disk = EmptyDisk /\ expected = {NoRows}
    /\ status \in {"versioned", "upgrading"} => kind = "web_sql"
    /\ status = "written" => kind # "web_sql"
    /\ status # "closed" /\ kind # "memory" => version = schema

\* The rows of a table as a medium has them.
RowsAt(stores, t) == GetAll(kind, stores[Data(t)])

\* Rows of these ids, with columns of these versions.
Within(rows, ids, versions) ==
    \A id \in DOMAIN rows : id \in ids /\ rows[id].cols \in versions

\* The rows of a record.
RecordRows(k, key, record) == IF k = "bundled" THEN record ELSE Put(None, key, record)

\* So for the rows in queued requests, in memory and on the medium.
RequestsWithin(t, ids, versions) ==
    \A i \in DOMAIN requests :
        requests[i].op = "put" /\ requests[i].store = Data(t) =>
            Within(RecordRows(kind, requests[i].key, requests[i].record), ids, versions)

\* The schema versions.
Versions == 1 .. MaxVersion

\* Rows in memory, now and when the transaction began, and in requests.
MemoryWithin(t, ids, versions) ==
    /\ Within(cache[t], ids, versions)
    /\ Within(before.cache[t], ids, versions)
    /\ RequestsWithin(t, ids, versions)

\* Rows on the medium, and in the native transaction.
DiskWithin(t, ids, versions) ==
    /\ Within(RowsAt(disk, t), ids, versions)
    /\ Within(RowsAt(native, t), ids, versions)

\* No row id belongs to two tables.
Disjoint(own) == \A t, u \in Tables : t # u => own[t] \cap own[u] = {}

\* Each table owns row ids, all its rows are of these, wherever they are, and while
\* there is a connection they are all below nextId.
Owns(own) ==
    /\ own \in [Tables -> SUBSET RowId]
    /\ Disjoint(own)
    /\ \A t \in Tables : MemoryWithin(t, own[t], Versions)
    /\ kind # "memory" => \A t \in Tables : DiskWithin(t, own[t], Versions)
    /\ status \in Live => \A t \in Tables : \A id \in own[t] : id < nextId

\* Row ids can be dealt out to the tables like that.
OwnInv == \E own \in [Tables -> SUBSET RowId] : Owns(own)

\* Every row has the columns of the schema, once the stored version is that of it.
ColsInv ==
    kind # "memory" /\ ~halfUpgraded => \A t \in Tables :
        /\ MemoryWithin(t, RowId, {schema})
        /\ version = schema /\ status \notin {"versioned", "upgrading"} =>
               DiskWithin(t, RowId, {schema})

\* The data store that holds these rows.
Image(k, rows) == IF k = "bundled" THEN getDataTablePage(rows, DOMAIN rows) ELSE rows

\* The request, or its callback, takes away the record under a key.
Removes(r, key) ==
    \/ r.op = "delete" /\ key \in r.keys
    \/ r.op = "clear"
    \/ r.op = "count" /\ key \in r.ids

\* The request does not spoil what a store is to become: it puts what is to be
\* there, it deletes what is not, and what it clears is put again.
Harmless(k, r, n, reqs, s, target) ==
    CASE r.op = "put"    -> r.key \in DOMAIN target /\ r.record = target[r.key]
      [] r.op = "delete" -> r.keys \cap DOMAIN target = {}
      [] r.op = "clear"  -> /\ \A key \in DOMAIN target : PutRequest(s, key, target[key]) \in reqs
                            /\ k = "indexed_db" => DOMAIN target = {}
      [] r.op = "count"  -> /\ r.ids # {} /\ r.ids \cap DOMAIN target = {}
                            /\ DOMAIN n = r.ids \cup DOMAIN target
                            /\ \A q \in reqs : q.store = s => q = r

\* Once the requests are served the store is target: what is missing is put, what
\* is too much is removed, and no request does harm.
ConvergesTo(k, n, reqs, s, target) ==
    /\ \A key \in DOMAIN target :
          \/ key \in DOMAIN n /\ n[key] = target[key]
          \/ PutRequest(s, key, target[key]) \in reqs
    /\ \A key \in DOMAIN n \ DOMAIN target : \E r \in reqs : r.store = s /\ Removes(r, key)
    /\ \A r \in reqs : r.store = s => Harmless(k, r, n, reqs, s, target)

\* One request may follow another to the same store.
Follows(k, q, r) ==
    /\ k # "indexed_db" => ~(q.op = "put" /\ r.op = "clear")
    /\ ~(q.op = "count" /\ r.op = "count")

\* No request undoes an earlier one: no put is cleared, and nothing is counted twice.
Tidy(k, queue) ==
    \A i, j \in DOMAIN queue :
        i < j /\ queue[i].store = queue[j].store => Follows(k, queue[i], queue[j])

\* What the medium holds of a table can be relied on.
Sound(t) == ~lost \/ t \in Persistent \ dropped

\* The medium holds the rows of the cache, or those of when the transaction began;
\* during a commit the requests turn these into those.
ReplicaOf(t) ==
    /\ status = "idle" => RowsAt(native, t) = cache[t]
    /\ status = "active" => RowsAt(native, t) = before.cache[t]
    /\ status \in Sending =>
          /\ ConvergesTo(kind, native[Data(t)], Range(requests), Data(t), Image(kind, cache[t]))
          /\ RowsAt(IF unwritten THEN native ELSE disk, t) = before.cache[t]
    /\ status = "written" => RowsAt(native, t) = cache[t]

\* So for the tables that are sound; and tables without a diff have not changed.
ReplicaInv ==
    /\ \A t \in Tables : Sound(t) => ReplicaOf(t)
    /\ Tidy(kind, requests)
    /\ status = "active" => \A t \in Tables \ touched :
                               cache[t] = before.cache[t] /\ rowIds[t] = before.rowIds[t]
    /\ status = "importing" => \A t \in Persistent \ dropped :
                               cache[t] = before.cache[t] /\ rowIds[t] = before.rowIds[t]

\* What is on the medium is among what a restart may bring back.
ExpectedInv ==
    kind # "memory" /\ ~lost =>
        /\ OnDisk(disk) \in expected
        /\ status \in Sending \cup {"written"} => Contents(cache) \in expected

\* The ids that a persisted index is read back as.
IndexRead(k, n) ==
    IF DOMAIN GetAll(k, n) = {} THEN {} ELSE Deserialized(GetAll(k, n))

\* The persisted index of a table.
IndexAt(stores, t) == IndexRead(kind, stores[Index(t)])

\* The requests turn the persisted index into the one in memory.
IndexSettles(t) ==
    \/ /\ IndexAt(native, t) = rowIds[t]
       /\ \A r \in Range(requests) : r.store # Index(t)
    \/ ConvergesTo(kind, native[Index(t)], Range(requests), Index(t),
                   IndexImage(kind, rowIds[t]))

\* The RowId index knows the rows, in memory and persisted, for every table whose
\* rows never went without their persisted index.
IndexInv ==
    \A t \in Tables : (t \in Persistent => t \notin dropped /\ kind # "indexed_db") =>
        /\ rowIds[t] = DOMAIN cache[t] /\ before.rowIds[t] = DOMAIN before.cache[t]
        /\ kind # "memory" /\ t \in Persistent =>
            /\ status = "closed" => IndexAt(native, t) = DOMAIN RowsAt(native, t)
            /\ IndexAt(disk, t) = DOMAIN RowsAt(disk, t)
            /\ status \in {"idle", "written"} => IndexAt(native, t) = rowIds[t]
            /\ status = "active" => IndexAt(native, t) = before.rowIds[t]
            /\ status \in Sending =>
                /\ IndexSettles(t)
                /\ IndexAt(IF unwritten THEN native ELSE disk, t) = before.rowIds[t]

-----------------------------------------------------------------------------
(* Rows, pages and records.                                                *)

\* A RowMap is a function on row ids whose values are rows.
LEMMA RowMapIs ==
    ASSUME NEW f
    PROVE  f \in RowMap <=> /\ DOMAIN f \subseteq RowId
                            /\ f = [id \in DOMAIN f |-> f[id]]
                            /\ \A id \in DOMAIN f : f[id] \in Row
<1>1. ASSUME f \in RowMap
      PROVE  DOMAIN f \subseteq RowId /\ f = [id \in DOMAIN f |-> f[id]]
             /\ \A id \in DOMAIN f : f[id] \in Row
  <2>1. PICK ids \in SUBSET RowId : f \in [ids -> Row] BY <1>1 DEF RowMap
  <2> QED BY <2>1
<1>2. ASSUME DOMAIN f \subseteq RowId, f = [id \in DOMAIN f |-> f[id]],
             \A id \in DOMAIN f : f[id] \in Row
      PROVE  f \in RowMap
  <2>1. f \in [DOMAIN f -> Row] BY <1>2
  <2> QED BY <2>1, <1>2 DEF RowMap
<1> QED BY <1>1, <1>2

\* Every row id is on one page.
LEMMA PageIs ==
    ASSUME NEW id \in Nat
    PROVE  /\ toPageId(id) \in Nat
           /\ toPageId(id) <= id
           /\ id \in getPageRange(toPageId(id))
           /\ \A p \in Nat : id \in getPageRange(p) => p = toPageId(id)
<1> DEFINE q == id \div PageSize
           r == id % PageSize
<1>0. PageSize \in Nat /\ PageSize >= 1 BY PageSizeAssumption
<1>1. q \in Int /\ r \in 0 .. PageSize - 1 /\ id = PageSize * q + r
  BY <1>0
<1> HIDE DEF q, r
<1>2. q >= 0
  <2> SUFFICES ASSUME q <= -1 PROVE FALSE BY <1>1
  <2>1. PageSize * q <= PageSize * (-1) BY <1>0, <1>1
  <2> QED BY <2>1, <1>1, <1>0
<1>3. q <= id
  <2>1. PageSize * q >= 1 * q BY <1>0, <1>1, <1>2
  <2>2. PageSize * q \in Int BY <1>0, <1>1
  <2> QED BY <2>1, <2>2, <1>1, <1>0
<1>4. id \in (q * PageSize) .. ((q + 1) * PageSize - 1)
  <2>1. (q + 1) * PageSize = PageSize * q + PageSize /\ q * PageSize = PageSize * q
    BY <1>0, <1>1
  <2>2. PageSize * q \in Int BY <1>0, <1>1
  <2> QED BY <2>1, <2>2, <1>1, <1>0
<1>5. ASSUME NEW p \in Nat, id \in (p * PageSize) .. ((p + 1) * PageSize - 1)
      PROVE  p = q
  <2>1. (p + 1) * PageSize = PageSize * p + PageSize /\ p * PageSize = PageSize * p
        /\ PageSize * p \in Int /\ PageSize * q \in Int
    BY <1>0, <1>1
  <2>2. CASE p <= q - 1
    <3>1. PageSize * p <= PageSize * (q - 1) BY <2>2, <1>0, <1>1
    <3>2. PageSize * (q - 1) = PageSize * q - PageSize BY <1>0, <1>1
    <3> QED BY <3>1, <3>2, <2>1, <1>5, <1>1, <1>0
  <2>3. CASE p >= q + 1
    <3>1. PageSize * p >= PageSize * (q + 1) BY <2>3, <1>0, <1>1
    <3>2. PageSize * (q + 1) = PageSize * q + PageSize BY <1>0, <1>1
    <3> QED BY <3>1, <3>2, <2>1, <1>5, <1>1, <1>0
  <2> QED BY <2>2, <2>3, <1>1
<1> QED BY <1>1, <1>2, <1>3, <1>4, <1>5 DEF toPageId, getPageRange, q

\* Pages are numbered like row ids.
LEMMA RowIdPages ==
    ASSUME NEW id \in RowId
    PROVE  id \in Nat /\ toPageId(id) \in RowId
<1>1. MaxRowId \in Nat BY StoresAssumption
<1>2. id \in Nat /\ id <= MaxRowId - 1 BY <1>1 DEF RowId
<1> QED BY <1>1, <1>2, PageIs DEF RowId

\* The rows of all pages together.
LEMMA BundledGetAllIs ==
    ASSUME NEW n, StoreOK("bundled", n)
    PROVE  /\ BundledGetAll(n) \in RowMap
           /\ \A id : id \in DOMAIN BundledGetAll(n) <=>
                /\ id \in RowId /\ toPageId(id) \in DOMAIN n
                /\ id \in DOMAIN n[toPageId(id)]
           /\ \A id \in DOMAIN BundledGetAll(n) : BundledGetAll(n)[id] = n[toPageId(id)][id]
<1> DEFINE all == BundledGetAll(n)
<1>1. DOMAIN all = UNION {DOMAIN n[p] : p \in DOMAIN n} BY DEF BundledGetAll
<1>2. ASSUME NEW p \in DOMAIN n, NEW id \in DOMAIN n[p]
      PROVE  id \in RowId /\ p = toPageId(id) /\ n[p][id] \in Row
  <2>1. /\ p \in RowId /\ n[p] \in RowMap /\ DOMAIN n[p] \subseteq getPageRange(p)
    BY DEF StoreOK, RecordOK
  <2>2. id \in RowId /\ n[p][id] \in Row BY <2>1, RowMapIs
  <2>3. id \in Nat /\ p \in Nat BY <2>1, <2>2, RowIdPages
  <2> QED BY <2>1, <2>2, <2>3, PageIs
<1>3. ASSUME NEW id \in DOMAIN all
      PROVE  /\ id \in RowId /\ toPageId(id) \in DOMAIN n /\ id \in DOMAIN n[toPageId(id)]
             /\ all[id] = n[toPageId(id)][id] /\ all[id] \in Row
  <2>1. PICK p \in DOMAIN n : id \in DOMAIN n[p] BY <1>1, <1>3
  <2>2. p = toPageId(id) /\ id \in RowId BY <2>1, <1>2
  <2> DEFINE c == CHOOSE x \in DOMAIN n : id \in DOMAIN n[x]
  <2>3. c \in DOMAIN n /\ id \in DOMAIN n[c] BY <2>1
  <2>4. all[id] = n[c][id] BY <1>3, <1>1 DEF BundledGetAll
  <2> HIDE DEF c
  <2>5. c = toPageId(id) /\ n[c][id] \in Row BY <2>3, <1>2
  <2> QED BY <2>1, <2>2, <2>4, <2>5
<1>4. ASSUME NEW id, toPageId(id) \in DOMAIN n, id \in DOMAIN n[toPageId(id)]
      PROVE  id \in DOMAIN all
  BY <1>1, <1>4
<1>5. all = [id \in DOMAIN all |-> all[id]] BY DEF BundledGetAll
<1> HIDE DEF all
<1>6. all \in RowMap BY <1>3, <1>5, RowMapIs
<1> QED BY <1>3, <1>4, <1>6 DEF all

\* A store is read as rows.
LEMMA GetAllTyped ==
    ASSUME NEW k, NEW n, StoreOK(k, n)
    PROVE  GetAll(k, n) \in RowMap
<1>1. CASE k = "bundled" BY <1>1, BundledGetAllIs DEF GetAll
<1>2. CASE k # "bundled"
  <2>1. n \in RowMap BY <1>2, RowMapIs DEF StoreOK, RecordOK
  <2> QED BY <1>2, <2>1 DEF GetAll
<1> QED BY <1>1, <1>2

\* These pages hold those of the rows whose ids are on a page of one of the ids.
PagesFit(pages, rows, ids) ==
    /\ DOMAIN pages = {toPageId(id) : id \in ids}
    /\ \A p \in DOMAIN pages :
          /\ p \in RowId
          /\ pages[p] \in RowMap
          /\ \A id : id \in DOMAIN pages[p] <=> id \in DOMAIN rows /\ toPageId(id) = p
          /\ \A id \in DOMAIN pages[p] : pages[p][id] = rows[id]
          /\ DOMAIN pages[p] \subseteq getPageRange(p)

\* getDataTablePage makes such pages.
LEMMA PageOf ==
    ASSUME NEW rows \in RowMap, NEW ids, ids \subseteq RowId
    PROVE  PagesFit(getDataTablePage(rows, ids), rows, ids)
<1> DEFINE pages == getDataTablePage(rows, ids)
<1>1. DOMAIN pages = {toPageId(id) : id \in ids} BY DEF getDataTablePage, PagesOf
<1>2. DOMAIN rows \subseteq RowId /\ \A id \in DOMAIN rows : rows[id] \in Row
  BY RowMapIs
<1>3. ASSUME NEW p \in DOMAIN pages
      PROVE  /\ p \in RowId
             /\ pages[p] \in RowMap
             /\ \A id : id \in DOMAIN pages[p] <=> id \in DOMAIN rows /\ toPageId(id) = p
             /\ \A id \in DOMAIN pages[p] : pages[p][id] = rows[id]
             /\ DOMAIN pages[p] \subseteq getPageRange(p)
  <2>1. p \in RowId BY <1>1, <1>3, RowIdPages
  <2>2. pages[p] = [id \in DOMAIN rows \cap getPageRange(p) |-> rows[id]]
    BY <1>3 DEF getDataTablePage, Restrict
  <2>3. \A id \in DOMAIN rows : id \in getPageRange(p) <=> toPageId(id) = p
    <3> TAKE id \in DOMAIN rows
    <3>1. id \in Nat /\ p \in Nat BY <1>2, <2>1, RowIdPages
    <3> QED BY <3>1, PageIs
  <2> HIDE DEF pages
  <2>4. pages[p] \in RowMap
    <3>1. DOMAIN pages[p] \subseteq RowId BY <2>2, <1>2
    <3>2. pages[p] = [id \in DOMAIN pages[p] |-> pages[p][id]] BY <2>2
    <3>3. \A id \in DOMAIN pages[p] : pages[p][id] \in Row BY <2>2, <1>2
    <3> QED BY <3>1, <3>2, <3>3, RowMapIs
  <2> QED BY <2>1, <2>2, <2>3, <2>4
<1> HIDE DEF pages
<1>4. PagesFit(pages, rows, ids) BY <1>1, <1>3 DEF PagesFit
<1> QED BY <1>4 DEF pages

\* The image of rows is a store, from which these rows are read.
LEMMA ImageIs ==
    ASSUME NEW k, NEW rows \in RowMap
    PROVE  StoreOK(k, Image(k, rows)) /\ GetAll(k, Image(k, rows)) = rows
<1>1. DOMAIN rows \subseteq RowId /\ rows = [id \in DOMAIN rows |-> rows[id]]
      /\ \A id \in DOMAIN rows : rows[id] \in Row
  BY RowMapIs
<1>2. CASE k # "bundled" BY <1>1, <1>2 DEF Image, StoreOK, RecordOK, GetAll
<1>3. CASE k = "bundled"
  <2> DEFINE pages == getDataTablePage(rows, DOMAIN rows)
  <2>1. Image(k, rows) = pages BY <1>3 DEF Image
  <2>2. pages = [p \in DOMAIN pages |-> pages[p]] BY DEF getDataTablePage
  <2>3. PagesFit(pages, rows, DOMAIN rows) BY <1>1, PageOf
  <2>4. /\ DOMAIN pages = {toPageId(id) : id \in DOMAIN rows}
        /\ \A p \in DOMAIN pages :
           /\ p \in RowId
           /\ pages[p] \in RowMap
           /\ \A id : id \in DOMAIN pages[p] <=> id \in DOMAIN rows /\ toPageId(id) = p
           /\ \A id \in DOMAIN pages[p] : pages[p][id] = rows[id]
           /\ DOMAIN pages[p] \subseteq getPageRange(p)
    <3> HIDE DEF pages
    <3> QED BY <2>3 DEF PagesFit
  <2> HIDE DEF pages
  <2>5. StoreOK("bundled", pages)
    <3>1. \A p \in DOMAIN pages : DOMAIN pages[p] # {} BY <2>4
    <3> QED BY <2>2, <2>4, <3>1 DEF StoreOK, RecordOK
  <2>6. /\ BundledGetAll(pages) \in RowMap
        /\ \A id : id \in DOMAIN BundledGetAll(pages) <=>
             /\ id \in RowId /\ toPageId(id) \in DOMAIN pages
             /\ id \in DOMAIN pages[toPageId(id)]
        /\ \A id \in DOMAIN BundledGetAll(pages) :
              BundledGetAll(pages)[id] = pages[toPageId(id)][id]
    BY <2>5, BundledGetAllIs
  <2> DEFINE all == BundledGetAll(pages)
  <2> HIDE DEF all
  <2>7. all = [id \in DOMAIN all |-> all[id]] BY <2>6, RowMapIs DEF all
  <2>8. DOMAIN all = DOMAIN rows
    <3>1. ASSUME NEW id \in DOMAIN all PROVE id \in DOMAIN rows
      BY <3>1, <2>6, <2>4 DEF all
    <3>2. ASSUME NEW id \in DOMAIN rows PROVE id \in DOMAIN all
      <4>1. toPageId(id) \in DOMAIN pages /\ id \in RowId BY <3>2, <2>4, <1>1
      <4> QED BY <4>1, <3>2, <2>4, <2>6 DEF all
    <3> QED BY <3>1, <3>2
  <2>9. \A id \in DOMAIN all : all[id] = rows[id] BY <2>6, <2>4 DEF all
  <2>10. all = rows BY <2>7, <2>8, <2>9, <1>1
  <2> QED BY <2>10, <2>1, <2>5, <1>3 DEF GetAll, all
<1> QED BY <1>2, <1>3

\* A store is the image of its rows.
LEMMA ImageOfAll ==
    ASSUME NEW k, NEW n, StoreOK(k, n)
    PROVE  Image(k, GetAll(k, n)) = n
<1>1. CASE k # "bundled" BY <1>1 DEF Image, GetAll
<1>2. CASE k = "bundled"
  <2> DEFINE all == BundledGetAll(n)
             pages == getDataTablePage(all, DOMAIN all)
  <2>1. Image(k, GetAll(k, n)) = pages BY <1>2 DEF Image, GetAll
  <2>2. /\ all \in RowMap
        /\ \A id : id \in DOMAIN all <=>
             /\ id \in RowId /\ toPageId(id) \in DOMAIN n
             /\ id \in DOMAIN n[toPageId(id)]
        /\ \A id \in DOMAIN all : all[id] = n[toPageId(id)][id]
    BY <1>2, BundledGetAllIs
  <2>3. pages = [p \in DOMAIN pages |-> pages[p]] BY DEF getDataTablePage
  <2> HIDE DEF all
  <2>4. DOMAIN all \subseteq RowId BY <2>2, RowMapIs
  <2>5. /\ DOMAIN pages = {toPageId(id) : id \in DOMAIN all}
        /\ \A p \in DOMAIN pages :
           /\ p \in RowId
           /\ pages[p] \in RowMap
           /\ \A id : id \in DOMAIN pages[p] <=> id \in DOMAIN all /\ toPageId(id) = p
           /\ \A id \in DOMAIN pages[p] : pages[p][id] = all[id]
    <3>1. PagesFit(pages, all, DOMAIN all) BY <2>2, <2>4, PageOf
    <3> HIDE DEF pages
    <3> QED BY <3>1 DEF PagesFit
  <2> HIDE DEF pages
  <2>6. ASSUME NEW p \in DOMAIN n
        PROVE  /\ n[p] \in RowMap /\ DOMAIN n[p] # {} /\ p \in RowId
               /\ \A id \in DOMAIN n[p] : id \in DOMAIN all /\ toPageId(id) = p
    <3>1. /\ n[p] \in RowMap /\ DOMAIN n[p] # {} /\ p \in RowId
          /\ DOMAIN n[p] \subseteq getPageRange(p)
      BY <1>2, <2>6 DEF StoreOK, RecordOK
    <3>2. ASSUME NEW id \in DOMAIN n[p] PROVE id \in DOMAIN all /\ toPageId(id) = p
      <4>1. id \in RowId BY <3>1, <3>2, RowMapIs
      <4>2. toPageId(id) = p BY <3>1, <3>2, <4>1, PageIs, RowIdPages
      <4> QED BY <4>1, <4>2, <2>2, <2>6
    <3> QED BY <3>1, <3>2
  <2>7. DOMAIN pages = DOMAIN n
    <3>1. ASSUME NEW p \in DOMAIN n PROVE p \in DOMAIN pages
      BY <2>5, <2>6
    <3> QED BY <2>5, <2>2, <3>1
  <2>8. ASSUME NEW p \in DOMAIN n PROVE pages[p] = n[p]
    <3>1. pages[p] = [id \in DOMAIN pages[p] |-> pages[p][id]] BY <2>5, <2>7, RowMapIs
    <3>2. n[p] = [id \in DOMAIN n[p] |-> n[p][id]] BY <2>6, RowMapIs
    <3>3. DOMAIN pages[p] = DOMAIN n[p]
      <4>1. ASSUME NEW id \in DOMAIN pages[p] PROVE id \in DOMAIN n[p]
        BY <2>5, <2>7, <2>2
      <4>2. ASSUME NEW id \in DOMAIN n[p] PROVE id \in DOMAIN pages[p]
        BY <2>5, <2>6, <2>7
      <4> QED BY <4>1, <4>2
    <3>4. \A id \in DOMAIN pages[p] : pages[p][id] = n[p][id]
      BY <2>5, <2>7, <2>2
    <3> QED BY <3>1, <3>2, <3>3, <3>4
  <2>9. n = [p \in DOMAIN n |-> n[p]] BY DEF StoreOK
  <2> QED BY <2>1, <2>3, <2>7, <2>8, <2>9
<1> QED BY <1>1, <1>2

-----------------------------------------------------------------------------
(* A request served.                                                       *)

\* There are finitely many row ids.
LEMMA RowIdFinite ==
    ASSUME NEW ids, ids \subseteq RowId
    PROVE  IsFiniteSet(ids)
<1>1. MaxRowId \in Nat BY StoresAssumption
<1>2. IsFiniteSet(RowId) BY <1>1, FS_Interval DEF RowId
<1> QED BY <1>2, FS_Subset

\* Puts has one put for each record.
LEMMA PutsIs ==
    ASSUME NEW store, NEW records, IsFiniteSet(DOMAIN records)
    PROVE  /\ Puts(store, records) \in Seq(Range(Puts(store, records)))
           /\ Range(Puts(store, records)) =
                 {PutRequest(store, key, records[key]) : key \in DOMAIN records}
<1> DEFINE keys == SetToSeq(DOMAIN records)
           s == [i \in 1 .. Len(keys) |-> PutRequest(store, keys[i], records[keys[i]])]
<1>1. keys \in Seq(DOMAIN records) /\ Range(keys) = DOMAIN records BY SetToSeqIs
<1>2. Puts(store, records) = s BY DEF Puts
<1> HIDE DEF keys
<1>3. Len(keys) \in Nat /\ DOMAIN keys = 1 .. Len(keys) BY <1>1
<1>4. s \in Seq(Range(s)) BY <1>3 DEF Range
<1>5. Range(s) = {PutRequest(store, key, records[key]) : key \in DOMAIN records}
  BY <1>1, <1>3 DEF Range
<1> QED BY <1>2, <1>4, <1>5

\* A request leaves a store a store.
LEMMA AppliedOK ==
    ASSUME NEW k, NEW n, StoreOK(k, n), NEW r, r.op \in {"put", "delete", "clear", "count"},
           r.op = "put" => RecordOK(k, r.key, r.record)
    PROVE  StoreOK(k, Applied(n, r))
<1>1. CASE r.op = "put"
  <2>1. Applied(n, r) = Put(n, r.key, r.record) BY <1>1 DEF Applied
  <2> QED BY <1>1, <2>1 DEF StoreOK, Put, RecordOK
<1>2. CASE r.op = "delete"
  <2>1. Applied(n, r) = [key \in DOMAIN n \ r.keys |-> n[key]]
    BY <1>2 DEF Applied, Without, Restrict
  <2> QED BY <2>1 DEF StoreOK
<1>3. CASE r.op = "clear"
  <2>1. Applied(n, r) = None BY <1>3 DEF Applied
  <2> QED BY <2>1 DEF StoreOK, None
<1>4. CASE r.op = "count"
  <2>1. Applied(n, r) = n BY <1>4 DEF Applied
  <2> QED BY <2>1
<1> QED BY <1>1, <1>2, <1>3, <1>4

\* Rows are within bounds when those of every record are.
LEMMA WithinRecords ==
    ASSUME NEW k, NEW n, StoreOK(k, n), NEW ids, NEW versions
    PROVE  Within(GetAll(k, n), ids, versions)
           <=> \A key \in DOMAIN n : Within(RecordRows(k, key, n[key]), ids, versions)
<1>1. CASE k # "bundled"
  BY <1>1 DEF Within, RecordRows, GetAll, Put, None
<1>2. CASE k = "bundled"
  <2> DEFINE all == BundledGetAll(n)
  <2>1. /\ all \in RowMap
        /\ \A id : id \in DOMAIN all <=>
             /\ id \in RowId /\ toPageId(id) \in DOMAIN n
             /\ id \in DOMAIN n[toPageId(id)]
        /\ \A id \in DOMAIN all : all[id] = n[toPageId(id)][id]
    BY <1>2, BundledGetAllIs
  <2>2. GetAll(k, n) = all BY <1>2 DEF GetAll
  <2> HIDE DEF all
  <2>3. ASSUME NEW p \in DOMAIN n, NEW id \in DOMAIN n[p]
        PROVE  id \in DOMAIN all /\ p = toPageId(id)
    <3>1. p \in RowId /\ n[p] \in RowMap /\ DOMAIN n[p] \subseteq getPageRange(p)
      BY <1>2 DEF StoreOK, RecordOK
    <3>2. id \in RowId BY <3>1, <2>3, RowMapIs
    <3>3. p = toPageId(id) BY <3>1, <3>2, <2>3, PageIs, RowIdPages
    <3> QED BY <3>2, <3>3, <2>1, <2>3
  <2> QED BY <1>2, <2>1, <2>2, <2>3 DEF Within, RecordRows
<1> QED BY <1>1, <1>2

\* A request adds no rows but its own.
LEMMA AppliedWithin ==
    ASSUME NEW k, NEW n, StoreOK(k, n), NEW r, r.op \in {"put", "delete", "clear", "count"},
           r.op = "put" => RecordOK(k, r.key, r.record),
           NEW ids, NEW versions, Within(GetAll(k, n), ids, versions),
           r.op = "put" => Within(RecordRows(k, r.key, r.record), ids, versions)
    PROVE  Within(GetAll(k, Applied(n, r)), ids, versions)
<1>1. StoreOK(k, Applied(n, r)) BY AppliedOK
<1>2. \A key \in DOMAIN n : Within(RecordRows(k, key, n[key]), ids, versions)
  BY WithinRecords
<1>3. ASSUME NEW key \in DOMAIN Applied(n, r)
      PROVE  \/ key \in DOMAIN n /\ Applied(n, r)[key] = n[key]
             \/ r.op = "put" /\ key = r.key /\ Applied(n, r)[key] = r.record
  BY <1>3 DEF Applied, Put, Without, Restrict, None
<1>4. \A key \in DOMAIN Applied(n, r) : Within(RecordRows(k, key, Applied(n, r)[key]), ids, versions)
  BY <1>2, <1>3
<1> QED BY <1>1, <1>4, WithinRecords

\* No request behind this one undoes it.
Serving(k, r, n, rest) ==
    /\ r.op = "put" /\ k # "indexed_db" => \A q \in rest : q.store = r.store => q.op # "clear"
    /\ r.op = "count" => k = "indexed_db" /\ \A q \in rest : q.store = r.store => q.op # "count"

\* The fields of requests.
LEMMA RequestFields ==
    ASSUME NEW s, NEW x, NEW y
    PROVE  /\ PutRequest(s, x, y).op = "put" /\ PutRequest(s, x, y).store = s
           /\ PutRequest(s, x, y).key = x /\ PutRequest(s, x, y).record = y
           /\ DeleteRequest(s, x).op = "delete" /\ DeleteRequest(s, x).store = s
           /\ DeleteRequest(s, x).keys = x
           /\ ClearRequest(s).op = "clear" /\ ClearRequest(s).store = s
           /\ CountRequest(s, x).op = "count" /\ CountRequest(s, x).store = s
           /\ CountRequest(s, x).ids = x
BY DEF PutRequest, DeleteRequest, ClearRequest, CountRequest

\* What the callback of a count adds to the queue.
LEMMA FollowUpMembers ==
    ASSUME NEW m, NEW r, NEW f \in Range(FollowUp(m, r))
    PROVE  /\ r.op = "count" /\ f.store = r.store
           /\ \/ /\ f.op = "clear"
                 /\ r.ids = {} \/ Cardinality(DOMAIN m) = Cardinality(r.ids)
              \/ f.op = "delete" /\ f.keys = r.ids
<1>1. CASE r.op # "count" BY <1>1 DEF FollowUp, Range
<1>2. CASE r.op = "count" /\ (r.ids = {} \/ Cardinality(DOMAIN m) = Cardinality(r.ids))
  <2>1. FollowUp(m, r) = <<ClearRequest(r.store)>> BY <1>2 DEF FollowUp
  <2>2. f = ClearRequest(r.store) BY <2>1 DEF Range
  <2> QED BY <1>2, <2>2 DEF ClearRequest
<1>3. CASE r.op = "count" /\ ~(r.ids = {} \/ Cardinality(DOMAIN m) = Cardinality(r.ids))
  <2>1. FollowUp(m, r) = <<DeleteRequest(r.store, r.ids)>> BY <1>3 DEF FollowUp
  <2>2. f = DeleteRequest(r.store, r.ids) BY <2>1 DEF Range
  <2> QED BY <1>3, <2>2 DEF DeleteRequest
<1> QED BY <1>1, <1>2, <1>3

\* A request to another store changes nothing about what a store converges to.
LEMMA ServedElsewhere ==
    ASSUME NEW k, NEW n, NEW r, NEW rest, NEW s, NEW target,
           \A q \in rest : q.op \in {"put", "delete", "clear", "count"},
           NEW reqs, reqs = {r} \cup rest, ConvergesTo(k, n, reqs, s, target),
           r.store # s,
           NEW m, NEW new, new = rest \cup Range(FollowUp(m, r))
    PROVE  ConvergesTo(k, n, new, s, target)
<1>p. \A key, record : /\ PutRequest(s, key, record).op = "put"
                       /\ PutRequest(s, key, record).key = key
                       /\ PutRequest(s, key, record).record = record
                       /\ PutRequest(s, key, record).store = s
  BY DEF PutRequest
<1>c. /\ \A key \in DOMAIN target :
            \/ key \in DOMAIN n /\ n[key] = target[key]
            \/ PutRequest(s, key, target[key]) \in reqs
      /\ \A key \in DOMAIN n \ DOMAIN target : \E q \in reqs : q.store = s /\ Removes(q, key)
      /\ \A q \in reqs : q.store = s => Harmless(k, q, n, reqs, s, target)
  BY DEF ConvergesTo
<1>1. \A q \in new : q.store = s => q \in rest BY FollowUpMembers
<1>2. \A q \in reqs : q.store = s => q \in rest OBVIOUS
<1>3. \A key, record : PutRequest(s, key, record) \in reqs => PutRequest(s, key, record) \in new
  BY <1>p, <1>2
<1>4. \A key \in DOMAIN target :
          \/ key \in DOMAIN n /\ n[key] = target[key]
          \/ PutRequest(s, key, target[key]) \in new
  BY <1>c, <1>3
<1>5. \A key \in DOMAIN n \ DOMAIN target : \E q \in new : q.store = s /\ Removes(q, key)
  BY <1>c, <1>2
<1>6. ASSUME NEW q \in new, q.store = s PROVE Harmless(k, q, n, new, s, target)
  <2>1. q \in rest /\ Harmless(k, q, n, reqs, s, target) BY <1>1, <1>6, <1>c
  <2>2. \A x \in new : x.store = s => x \in reqs BY <1>1
  <2> QED BY <2>1, <2>2, <1>3 DEF Harmless
<1> QED BY <1>4, <1>5, <1>6 DEF ConvergesTo

\* Nor does one to the store itself: with its follow-up and the rest of the queue
\* the store still converges.
LEMMA ServedHere ==
    ASSUME NEW k, NEW n, IsFiniteSet(DOMAIN n), NEW r, NEW rest, NEW s, NEW target,
           r.op \in {"put", "delete", "clear", "count"},
           \A q \in rest : q.op \in {"put", "delete", "clear", "count"},
           NEW reqs, reqs = {r} \cup rest, ConvergesTo(k, n, reqs, s, target),
           Serving(k, r, n, rest), r.store = s,
           NEW left, left = rest \cup Range(FollowUp(n, r))
    PROVE  ConvergesTo(k, Applied(n, r), left, s, target)
<1>f. ASSUME NEW m, NEW f \in Range(FollowUp(m, r))
      PROVE  /\ r.op = "count" /\ f.store = r.store
             /\ \/ /\ f.op = "clear"
                   /\ r.ids = {} \/ Cardinality(DOMAIN m) = Cardinality(r.ids)
                \/ f.op = "delete" /\ f.keys = r.ids
  BY <1>f, FollowUpMembers
<1>g. ASSUME r.op = "count" PROVE \E f \in Range(FollowUp(n, r)) : TRUE
  <2>1. CASE r.ids = {} \/ Cardinality(DOMAIN n) = Cardinality(r.ids)
    BY <2>1, <1>g DEF FollowUp, Range
  <2>2. CASE ~(r.ids = {} \/ Cardinality(DOMAIN n) = Cardinality(r.ids))
    BY <2>2, <1>g DEF FollowUp, Range
  <2> QED BY <2>1, <2>2
<1>p. \A key, record : /\ PutRequest(s, key, record).op = "put"
                       /\ PutRequest(s, key, record).key = key
                       /\ PutRequest(s, key, record).record = record
                       /\ PutRequest(s, key, record).store = s
  BY DEF PutRequest
<1>c. /\ \A key \in DOMAIN target :
            \/ key \in DOMAIN n /\ n[key] = target[key]
            \/ PutRequest(s, key, target[key]) \in reqs
      /\ \A key \in DOMAIN n \ DOMAIN target : \E q \in reqs : q.store = s /\ Removes(q, key)
      /\ \A q \in reqs : q.store = s => Harmless(k, q, n, reqs, s, target)
  BY DEF ConvergesTo
<1>2. r.store = s OBVIOUS
<1>3. ConvergesTo(k, Applied(n, r), rest \cup Range(FollowUp(n, r)), s, target)
  <2> DEFINE new == rest \cup Range(FollowUp(n, r))
             after == Applied(n, r)
  <2>h. Harmless(k, r, n, reqs, s, target) BY <1>c, <1>2
  <2>1. CASE r.op = "put"
    <3>1. \A m : Range(FollowUp(m, r)) = {} BY <2>1, <1>f
    <3>2. new = rest BY <3>1
    <3>3. r.key \in DOMAIN target /\ r.record = target[r.key] BY <2>1, <2>h DEF Harmless
    <3>4. after = [x \in DOMAIN n \cup {r.key} |-> IF x = r.key THEN r.record ELSE n[x]]
      BY <2>1 DEF Applied, Put
    <3> HIDE DEF after, new
    <3>5. ASSUME NEW key \in DOMAIN target
          PROVE  \/ key \in DOMAIN after /\ after[key] = target[key]
                 \/ PutRequest(s, key, target[key]) \in new
      <4>1. CASE key = r.key BY <4>1, <3>3, <3>4
      <4>2. CASE key # r.key BY <4>2, <3>2, <3>4, <1>c, <1>p
      <4> QED BY <4>1, <4>2
    <3>6. ASSUME NEW key \in DOMAIN after \ DOMAIN target
          PROVE  \E q \in new : q.store = s /\ Removes(q, key)
      <4>1. key \in DOMAIN n BY <3>3, <3>4, <3>6
      <4>2. PICK q \in reqs : q.store = s /\ Removes(q, key) BY <4>1, <3>6, <1>c
      <4>3. q # r BY <4>2, <2>1 DEF Removes
      <4> QED BY <4>2, <4>3, <3>2
    <3>7. ASSUME NEW q \in new, q.store = s PROVE Harmless(k, q, after, new, s, target)
      <4>1. Harmless(k, q, n, reqs, s, target) /\ q \in rest BY <3>2, <3>7, <1>c
      <4>2. q.op \in {"put", "delete", "clear", "count"} BY <4>1
      <4>3. CASE q.op = "put" BY <4>1, <4>3 DEF Harmless
      <4>4. CASE q.op = "delete" BY <4>1, <4>4 DEF Harmless
      <4>5. CASE q.op = "clear"
        <5>1. k = "indexed_db" BY <4>5, <4>1, <2>1, <1>2, <3>7 DEF Serving
        <5>2. DOMAIN target = {} BY <4>1, <4>5, <5>1 DEF Harmless
        <5> QED BY <5>2, <3>3
      <4>6. CASE q.op = "count"
        <5>1. r = q BY <4>1, <4>6, <1>2 DEF Harmless
        <5> QED BY <5>1, <4>6, <2>1
      <4> QED BY <4>2, <4>3, <4>4, <4>5, <4>6
    <3> QED BY <3>5, <3>6, <3>7 DEF ConvergesTo, new, after
  <2>2. CASE r.op = "delete"
    <3>1. \A m : Range(FollowUp(m, r)) = {} BY <2>2, <1>f
    <3>2. new = rest BY <3>1
    <3>3. r.keys \cap DOMAIN target = {} BY <2>2, <2>h DEF Harmless
    <3>4. after = [x \in DOMAIN n \ r.keys |-> n[x]] BY <2>2 DEF Applied, Without, Restrict
    <3> HIDE DEF after, new
    <3>5. ASSUME NEW key \in DOMAIN target
          PROVE  \/ key \in DOMAIN after /\ after[key] = target[key]
                 \/ PutRequest(s, key, target[key]) \in new
      BY <3>2, <3>3, <3>4, <1>c, <1>p, <2>2
    <3>6. ASSUME NEW key \in DOMAIN after \ DOMAIN target
          PROVE  \E q \in new : q.store = s /\ Removes(q, key)
      <4>1. key \in DOMAIN n /\ key \notin r.keys BY <3>4, <3>6
      <4>2. PICK q \in reqs : q.store = s /\ Removes(q, key) BY <4>1, <3>6, <1>c
      <4>3. q # r BY <4>1, <4>2, <2>2 DEF Removes
      <4> QED BY <4>2, <4>3, <3>2
    <3>7. ASSUME NEW q \in new, q.store = s PROVE Harmless(k, q, after, new, s, target)
      <4>1. Harmless(k, q, n, reqs, s, target) /\ q \in rest BY <3>2, <3>7, <1>c
      <4>2. q.op \in {"put", "delete", "clear", "count"} BY <4>1
      <4>3. CASE q.op = "put" BY <4>1, <4>3 DEF Harmless
      <4>4. CASE q.op = "delete" BY <4>1, <4>4 DEF Harmless
      <4>5. CASE q.op = "clear"
        <5>1. \A key \in DOMAIN target : PutRequest(s, key, target[key]) \in new
          BY <4>1, <4>5, <3>2, <1>p, <2>2 DEF Harmless
        <5> QED BY <4>1, <4>5, <5>1 DEF Harmless
      <4>6. CASE q.op = "count"
        <5>1. r = q BY <4>1, <4>6, <1>2 DEF Harmless
        <5> QED BY <5>1, <4>6, <2>2
      <4> QED BY <4>2, <4>3, <4>4, <4>5, <4>6
    <3> QED BY <3>5, <3>6, <3>7 DEF ConvergesTo, new, after
  <2>3. CASE r.op = "clear"
    <3>1. \A m : Range(FollowUp(m, r)) = {} BY <2>3, <1>f
    <3>2. new = rest BY <3>1
    <3>3. \A key \in DOMAIN target : PutRequest(s, key, target[key]) \in new
      BY <2>3, <2>h, <3>2, <1>p DEF Harmless
    <3>4. DOMAIN after = {} BY <2>3 DEF Applied, None
    <3> HIDE DEF after, new
    <3>7. ASSUME NEW q \in new, q.store = s PROVE Harmless(k, q, after, new, s, target)
      <4>1. Harmless(k, q, n, reqs, s, target) /\ q \in rest BY <3>2, <3>7, <1>c
      <4>2. q.op \in {"put", "delete", "clear", "count"} BY <4>1
      <4>3. CASE q.op = "put" BY <4>1, <4>3 DEF Harmless
      <4>4. CASE q.op = "delete" BY <4>1, <4>4 DEF Harmless
      <4>5. CASE q.op = "clear" BY <4>1, <4>5, <3>3 DEF Harmless
      <4>6. CASE q.op = "count"
        <5>1. r = q BY <4>1, <4>6, <1>2 DEF Harmless
        <5> QED BY <5>1, <4>6, <2>3
      <4> QED BY <4>2, <4>3, <4>4, <4>5, <4>6
    <3> QED BY <3>3, <3>4, <3>7 DEF ConvergesTo, new, after
  <2>4. CASE r.op = "count"
    <3>1. after = n BY <2>4 DEF Applied
    <3>2. /\ r.ids # {} /\ r.ids \cap DOMAIN target = {}
          /\ DOMAIN n = r.ids \cup DOMAIN target
          /\ \A q \in reqs : q.store = s => q = r
      BY <2>4, <2>h DEF Harmless
    <3>3. \A q \in rest : q.store # s
      BY <3>2, <2>4, <1>2 DEF Serving
    <3>4. PICK f \in Range(FollowUp(n, r)) : TRUE BY <1>g, <2>4
    <3>5. \A key \in DOMAIN target : key \in DOMAIN n /\ n[key] = target[key]
      BY <1>c, <3>2, <1>p, <2>4
    <3>6. ASSUME NEW q \in new, q.store = s
          PROVE  q \in Range(FollowUp(n, r))
                 /\ \/ q.op = "clear" /\ DOMAIN target = {}
                    \/ q.op = "delete" /\ q.keys = r.ids
      <4>1. q \in Range(FollowUp(n, r)) BY <3>6, <3>3
      <4>2. CASE q.op = "clear"
        <5>1. Cardinality(DOMAIN n) = Cardinality(r.ids) BY <4>1, <4>2, <3>2, <1>f
        <5>2. r.ids \in SUBSET DOMAIN n BY <3>2
        <5>3. DOMAIN n = r.ids BY <5>1, <5>2, FS_Subset
        <5> QED BY <5>3, <3>2, <4>1, <4>2
      <4> QED BY <4>1, <4>2, <1>f
    <3>7. \A q \in Range(FollowUp(n, r)) : q \in new /\ q.store = s
      BY <1>f, <1>2
    <3>8. ASSUME NEW key \in DOMAIN n \ DOMAIN target
          PROVE  \E q \in new : q.store = s /\ Removes(q, key)
      <4>1. key \in r.ids BY <3>2, <3>8
      <4>2. f \in new /\ f.store = s /\ (f.op = "clear" \/ (f.op = "delete" /\ f.keys = r.ids))
        BY <3>6, <3>7, <3>4
      <4> QED BY <4>1, <4>2 DEF Removes
    <3>9. ASSUME NEW q \in new, q.store = s PROVE Harmless(k, q, n, new, s, target)
      <4> HIDE DEF new
      <4> QED BY <3>6, <3>9, <3>2 DEF Harmless
    <3> QED BY <3>1, <3>5, <3>8, <3>9 DEF ConvergesTo
  <2> QED BY <2>1, <2>2, <2>3, <2>4
<1> QED BY <1>3

-----------------------------------------------------------------------------
(* A queue served.                                                         *)

\* What is stored after each request of a queue.
ServedBy(after, stores, queue) ==
    /\ after[0] = stores
    /\ \A n \in 1 .. Len(queue) : after[n] = AppliedTo(after[n - 1], queue[n])

\* Served is the last of these.
LEMMA ServedIs ==
    ASSUME NEW X, NEW queue \in Seq(X), NEW stores
    PROVE  \E after : /\ ServedBy(after, stores, queue)
                      /\ Served(stores, queue) = after[Len(queue)]
<1> DEFINE Eq(n, f) == f = [i \in 0 .. n |-> IF i = 0 THEN stores ELSE AppliedTo(f[i - 1], queue[i])]
           S == {n \in Nat : \E f : Eq(n, f)}
<1>1. 0 \in S
  <2>1. Eq(0, [i \in 0 .. 0 |-> stores]) OBVIOUS
  <2> QED BY <2>1
<1>2. ASSUME NEW n \in Nat, n \in S PROVE n + 1 \in S
  <2>1. PICK f : Eq(n, f) BY <1>2
  <2> DEFINE last == AppliedTo(f[n], queue[n + 1])
             g == [i \in 0 .. n + 1 |-> IF i = n + 1 THEN last ELSE f[i]]
  <2>2. ASSUME NEW i \in 0 .. n + 1
        PROVE  g[i] = IF i = 0 THEN stores ELSE AppliedTo(g[i - 1], queue[i])
    <3> HIDE DEF last
    <3>1. CASE i = n + 1
      <4>1. g[i] = last BY <3>1
      <4>2. i # 0 /\ i - 1 = n /\ n \in 0 .. n + 1 /\ n # n + 1 BY <3>1
      <4>3. g[i - 1] = f[n] BY <4>2
      <4> HIDE DEF g
      <4> QED BY <3>1, <4>1, <4>2, <4>3 DEF last
    <3>2. CASE i # n + 1
      <4>1. i \in 0 .. n BY <3>2
      <4>2. f[i] = IF i = 0 THEN stores ELSE AppliedTo(f[i - 1], queue[i]) BY <2>1, <4>1
      <4>3. CASE i = 0 BY <4>2, <4>3, <4>1
      <4>4. CASE i # 0
        <5>1. i - 1 \in 0 .. n + 1 /\ i - 1 # n + 1 BY <4>1, <4>4
        <5>2. g[i - 1] = f[i - 1] /\ g[i] = f[i] BY <5>1, <3>2
        <5> HIDE DEF g
        <5> QED BY <5>2, <4>2, <4>4
      <4> QED BY <4>3, <4>4
    <3> QED BY <3>1, <3>2
  <2>3. Eq(n + 1, g)
    <3> HIDE DEF last
    <3>1. g = [i \in 0 .. n + 1 |-> g[i]] OBVIOUS
    <3> HIDE DEF g
    <3> QED BY <2>2, <3>1
  <2> HIDE DEF g, Eq
  <2> QED BY <2>3
<1>3. \A n \in Nat : n \in S
  <2> HIDE DEF S
  <2> QED BY <1>1, <1>2, Induction
<1>4. Len(queue) \in Nat OBVIOUS
<1> DEFINE after == CHOOSE f : Eq(Len(queue), f)
<1>5. Eq(Len(queue), after)
  <2> HIDE DEF Eq
  <2>1. \E f : Eq(Len(queue), f) BY <1>3, <1>4
  <2> QED BY <2>1
<1>6. Served(stores, queue) = after[Len(queue)] BY DEF Served
<1> HIDE DEF after
<1>7. \A n \in 0 .. Len(queue) :
         after[n] = IF n = 0 THEN stores ELSE AppliedTo(after[n - 1], queue[n])
  BY <1>5
<1>8. after[0] = stores BY <1>7, <1>4
<1>9. \A n \in 1 .. Len(queue) : after[n] = AppliedTo(after[n - 1], queue[n])
  <2> TAKE n \in 1 .. Len(queue)
  <2>1. n \in 0 .. Len(queue) /\ n # 0 BY <1>4
  <2> QED BY <2>1, <1>7
<1> QED BY <1>6, <1>8, <1>9 DEF ServedBy

\* The pairs of requests that may follow each other.
FollowPairs(k, U) ==
    {p \in U \X U : p[1].store = p[2].store => Follows(k, p[1], p[2])}

\* Tidy is an order of requests.
LEMMA TidyIsOrdered ==
    ASSUME NEW k, NEW U, NEW s, Range(s) \subseteq U
    PROVE  Tidy(k, s) <=> Ordered(s, FollowPairs(k, U))
<1>1. \A i, j \in DOMAIN s : s[i] \in U /\ s[j] \in U BY DEF Range
<1>2. \A i, j \in DOMAIN s : <<s[i], s[j]>> \in FollowPairs(k, U)
                              <=> (s[i].store = s[j].store => Follows(k, s[i], s[j]))
  BY <1>1 DEF FollowPairs
<1> QED BY <1>2 DEF Tidy, Ordered

\* Queues of no request, and of one.
LEMMA EmptyBlock ==
    /\ <<>> \in Seq({}) /\ Range(<<>>) = {}
    /\ \A k : Tidy(k, <<>>)
BY DEF Range, Tidy

LEMMA SingleBlock ==
    ASSUME NEW r
    PROVE  <<r>> \in Seq({r}) /\ Range(<<r>>) = {r} /\ \A k : Tidy(k, <<r>>)
<1>1. DOMAIN <<r>> = {1} /\ <<r>>[1] = r OBVIOUS
<1> QED BY <1>1 DEF Range, Tidy

(* A queue whose requests all come before puts stays tidy.                 *)
LEMMA ThenPuts ==
    ASSUME NEW k, NEW X, NEW s \in Seq(X), NEW t \in Seq(X), Tidy(k, s),
           \A r \in Range(t) : r.op = "put"
    PROVE  /\ s \o t \in Seq(X) /\ Range(s \o t) = Range(s) \cup Range(t)
           /\ Tidy(k, s \o t)
<1> DEFINE U == Range(s) \cup Range(t)
<1>1. s \o t \in Seq(X) /\ Range(s \o t) = U BY ConcatIs
<1>2. Ordered(s, FollowPairs(k, U)) BY TidyIsOrdered
<1>3. ASSUME NEW x \in U, NEW y \in Range(t) PROVE <<x, y>> \in FollowPairs(k, U)
  <2>1. y.op = "put" /\ y \in U OBVIOUS
  <2>2. Follows(k, x, y) BY <2>1 DEF Follows
  <2> QED BY <2>1, <2>2 DEF FollowPairs
<1>4. Ordered(t, FollowPairs(k, U))
  <2>1. \A i \in DOMAIN t : t[i] \in Range(t) BY DEF Range
  <2> HIDE DEF U
  <2>2. \A i \in DOMAIN t : t[i] \in U BY <2>1 DEF U
  <2> QED BY <1>3, <2>1, <2>2 DEF Ordered
<1>5. Ordered(s \o t, FollowPairs(k, U))
  <2> DEFINE R == FollowPairs(k, U)
  <2>1. \A x \in Range(s), y \in Range(t) : <<x, y>> \in R BY <1>3
  <2>2. Ordered(s, R) /\ Ordered(t, R) BY <1>2, <1>4
  <2> HIDE DEF R
  <2>3. Ordered(s \o t, R) BY ONLY <2>1, <2>2, s \in Seq(X), t \in Seq(X), ConcatIs
  <2> QED BY <2>3 DEF R
<1>6. Tidy(k, s \o t)
  <2> HIDE DEF U
  <2>1. Range(s \o t) \subseteq U BY <1>1
  <2> QED BY <1>5, <2>1, TidyIsOrdered
<1> QED BY <1>1, <1>6

-----------------------------------------------------------------------------
(* The requests for one table.                                             *)

\* No two tables share a native store.
LEMMA DataIsNotIndex == \A t, u \in Tables : /\ Data(t) # Index(u)
                                             /\ Data(t) = Data(u) => t = u
                                             /\ Index(t) = Index(u) => t = u
                                             /\ Data(t) \in Stores /\ Index(t) \in Stores
BY DEF Data, Index, Stores

\* The keys under which rows of these ids are stored.
KeysOf(k, ids) == IF k = "bundled" THEN {toPageId(id) : id \in ids} ELSE ids

\* The keys of an image and its records.
LEMMA ImageKeys ==
    ASSUME NEW k, NEW rows \in RowMap
    PROVE  /\ DOMAIN Image(k, rows) = KeysOf(k, DOMAIN rows)
           /\ \A key \in DOMAIN Image(k, rows) : RecordOK(k, key, Image(k, rows)[key])
<1>1. StoreOK(k, Image(k, rows)) BY ImageIs
<1>2. DOMAIN rows \subseteq RowId BY RowMapIs
<1>3. DOMAIN Image(k, rows) = KeysOf(k, DOMAIN rows)
  <2>1. PagesFit(getDataTablePage(rows, DOMAIN rows), rows, DOMAIN rows) BY <1>2, PageOf
  <2>2. DOMAIN getDataTablePage(rows, DOMAIN rows) = {toPageId(id) : id \in DOMAIN rows}
    BY <2>1 DEF PagesFit
  <2> QED BY <2>2 DEF Image, KeysOf
<1> QED BY <1>1, <1>3 DEF StoreOK

\* The puts of some records of an image.
PutsOf(k, t, now, keys) == {PutRequest(Data(t), key, Image(k, now)[key]) : key \in keys}

\* PutRows puts the records of the rows to put.
LEMMA PutRowsIs ==
    ASSUME NEW k, NEW t, NEW now \in RowMap, NEW ids, ids \subseteq DOMAIN now
    PROVE  LET q == PutRows(k, t, Restrict(now, ids), now)
           IN  q \in Seq(Range(q)) /\ Range(q) = PutsOf(k, t, now, KeysOf(k, ids))
<1> DEFINE rows == Restrict(now, ids)
           q == PutRows(k, t, rows, now)
<1>0. DOMAIN rows = ids /\ \A id \in ids : rows[id] = now[id] BY DEF Restrict
<1>1. DOMAIN now \subseteq RowId /\ ids \subseteq RowId BY RowMapIs
<1>2. CASE ids = {}
  <2>1. q = <<>> BY <1>2, <1>0 DEF PutRows
  <2>2. KeysOf(k, ids) = {} BY <1>2 DEF KeysOf
  <2> QED BY <2>1, <2>2, EmptyBlock DEF PutsOf
<1>3. CASE ids # {} /\ k # "bundled"
  <2>1. q = Puts(Data(t), rows) BY <1>3, <1>0 DEF PutRows, ObjectStorePut
  <2>2. IsFiniteSet(DOMAIN rows) BY <1>0, <1>1, RowIdFinite
  <2> HIDE DEF rows
  <2>3. q \in Seq(Range(q)) /\ Range(q) = {PutRequest(Data(t), key, rows[key]) : key \in DOMAIN rows}
    BY <2>1, <2>2, PutsIs
  <2>4. Range(q) = PutsOf(k, t, now, KeysOf(k, ids))
    BY <2>3, <1>0, <1>3 DEF PutsOf, KeysOf, Image
  <2> QED BY <2>3, <2>4 DEF rows
<1>4. CASE ids # {} /\ k = "bundled"
  <2> DEFINE pages == getDataTablePage(now, ids)
             filled == [p \in DOMAIN pages |->
                        [id \in DOMAIN pages[p] \cup {r \in DOMAIN rows : toPageId(r) = p} |->
                            IF id \in DOMAIN rows THEN rows[id] ELSE pages[p][id]]]
             image == Image(k, now)
  <2>1. q = Puts(Data(t), filled) BY <1>4, <1>0 DEF PutRows, BundledPut
  <2>2. /\ DOMAIN pages = {toPageId(id) : id \in ids}
        /\ \A p \in DOMAIN pages :
             /\ p \in RowId
             /\ pages[p] \in RowMap
             /\ \A id : id \in DOMAIN pages[p] <=> id \in DOMAIN now /\ toPageId(id) = p
             /\ \A id \in DOMAIN pages[p] : pages[p][id] = now[id]
    <3>1. PagesFit(pages, now, ids) BY <1>1, PageOf
    <3> HIDE DEF pages
    <3> QED BY <3>1 DEF PagesFit
  <2>3. /\ DOMAIN image = {toPageId(id) : id \in DOMAIN now}
        /\ \A p \in DOMAIN image :
             /\ image[p] \in RowMap
             /\ \A id : id \in DOMAIN image[p] <=> id \in DOMAIN now /\ toPageId(id) = p
             /\ \A id \in DOMAIN image[p] : image[p][id] = now[id]
    <3>1. PagesFit(getDataTablePage(now, DOMAIN now), now, DOMAIN now) BY <1>1, PageOf
    <3>2. image = getDataTablePage(now, DOMAIN now) BY <1>4 DEF Image
    <3> HIDE DEF image
    <3>3. PagesFit(image, now, DOMAIN now) BY <3>1, <3>2
    <3> QED BY <3>3 DEF PagesFit
  <2> HIDE DEF pages, image, rows
  <2>4. DOMAIN filled = KeysOf(k, ids) /\ DOMAIN filled \subseteq DOMAIN image
    BY <2>2, <2>3, <1>4 DEF KeysOf
  <2>5. ASSUME NEW p \in DOMAIN filled PROVE filled[p] = image[p]
    <3>1. p \in DOMAIN pages /\ p \in DOMAIN image BY <2>4, <2>5
    <3>2. image[p] = [id \in DOMAIN image[p] |-> image[p][id]] BY <2>3, <3>1, RowMapIs
    <3>3. DOMAIN pages[p] \cup {r \in DOMAIN rows : toPageId(r) = p} = DOMAIN image[p]
      BY <2>2, <2>3, <3>1, <1>0
    <3>4. filled[p] = [id \in DOMAIN image[p] |-> IF id \in DOMAIN rows THEN rows[id] ELSE pages[p][id]]
      BY <3>1, <3>3
    <3>5. \A id \in DOMAIN image[p] : (IF id \in DOMAIN rows THEN rows[id] ELSE pages[p][id]) = image[p][id]
      BY <2>2, <2>3, <3>1, <1>0
    <3> HIDE DEF filled
    <3> QED BY <3>2, <3>4, <3>5
  <2>6. IsFiniteSet(DOMAIN filled)
    <3>1. DOMAIN filled \subseteq RowId BY <2>2
    <3> QED BY <3>1, RowIdFinite
  <2> HIDE DEF filled
  <2>7. q \in Seq(Range(q)) /\ Range(q) = {PutRequest(Data(t), key, filled[key]) : key \in DOMAIN filled}
    BY <2>1, <2>6, PutsIs
  <2>8. Range(q) = PutsOf(k, t, now, KeysOf(k, ids))
    BY <2>7, <2>5, <2>4 DEF PutsOf, image
  <2> QED BY <2>7, <2>8 DEF rows
<1> QED BY <1>2, <1>3, <1>4

\* The bundled store deletes the pages that are empty now, and puts the others.
LEMMA BundledRemoveIs ==
    ASSUME NEW t, NEW now \in RowMap, NEW ids \in SUBSET RowId, ids # {},
           ids \cap DOMAIN now = {}
    PROVE  LET q    == BundledRemove(Data(t), ids, getDataTablePage(now, ids))
               gone == KeysOf("bundled", ids) \ KeysOf("bundled", DOMAIN now)
               kept == KeysOf("bundled", ids) \cap KeysOf("bundled", DOMAIN now)
           IN  /\ q \in Seq(Range(q))
               /\ Range(q) = (IF gone = {} THEN {} ELSE {DeleteRequest(Data(t), gone)})
                             \cup PutsOf("bundled", t, now, kept)
               /\ Tidy("bundled", q)
<1> DEFINE q == BundledRemove(Data(t), ids, getDataTablePage(now, ids))
           gone == KeysOf("bundled", ids) \ KeysOf("bundled", DOMAIN now)
           kept == KeysOf("bundled", ids) \cap KeysOf("bundled", DOMAIN now)
           pages == getDataTablePage(now, ids)
           left == [p \in DOMAIN pages |-> Without(pages[p], ids)]
           empty == {p \in DOMAIN left : DOMAIN left[p] = {}}
           first == IF empty = {} THEN <<>> ELSE <<DeleteRequest(Data(t), empty)>>
           second == Puts(Data(t), Without(left, empty))
           image == Image("bundled", now)
<1>1. q = first \o second BY DEF BundledRemove
<1>2. DOMAIN now \subseteq RowId BY RowMapIs
<1>3. /\ DOMAIN pages = {toPageId(id) : id \in ids}
      /\ \A p \in DOMAIN pages :
           /\ p \in RowId
           /\ pages[p] \in RowMap
           /\ \A id : id \in DOMAIN pages[p] <=> id \in DOMAIN now /\ toPageId(id) = p
           /\ \A id \in DOMAIN pages[p] : pages[p][id] = now[id]
  <2>1. PagesFit(pages, now, ids) BY PageOf
  <2> HIDE DEF pages
  <2> QED BY <2>1 DEF PagesFit
<1>4. /\ DOMAIN image = {toPageId(id) : id \in DOMAIN now}
      /\ \A p \in DOMAIN image :
           /\ image[p] \in RowMap
           /\ \A id : id \in DOMAIN image[p] <=> id \in DOMAIN now /\ toPageId(id) = p
           /\ \A id \in DOMAIN image[p] : image[p][id] = now[id]
  <2>1. PagesFit(getDataTablePage(now, DOMAIN now), now, DOMAIN now) BY <1>2, PageOf
  <2>2. image = getDataTablePage(now, DOMAIN now) BY DEF Image
  <2> HIDE DEF image
  <2>3. PagesFit(image, now, DOMAIN now) BY <2>1, <2>2
  <2> QED BY <2>3 DEF PagesFit
<1> HIDE DEF image, q
<1>5. ASSUME NEW p \in DOMAIN pages
      PROVE  /\ p \in DOMAIN image => left[p] = image[p]
             /\ p \notin DOMAIN image => DOMAIN left[p] = {}
             /\ p \in DOMAIN image => DOMAIN left[p] # {}
  <2> HIDE DEF pages
  <2>1. DOMAIN pages[p] \cap ids = {} BY <1>3
  <2>2. left[p] = [id \in DOMAIN pages[p] |-> pages[p][id]]
    <3>1. DOMAIN pages[p] \ ids = DOMAIN pages[p]
          /\ DOMAIN pages[p] \ (DOMAIN pages[p] \cap ids) = DOMAIN pages[p] BY <2>1
    <3> QED BY <3>1 DEF Without, Restrict
  <2>3. pages[p] = [id \in DOMAIN pages[p] |-> pages[p][id]] BY <1>3, RowMapIs
  <2>4. left[p] = pages[p] BY <2>2, <2>3
  <2>5. ASSUME p \in DOMAIN image PROVE pages[p] = image[p]
    <3>1. image[p] = [id \in DOMAIN image[p] |-> image[p][id]] BY <1>4, <2>5, RowMapIs
    <3>2. DOMAIN image[p] = DOMAIN pages[p] BY <1>3, <1>4, <2>5
    <3>3. \A id \in DOMAIN image[p] : image[p][id] = pages[p][id] BY <1>3, <1>4, <2>5, <3>2
    <3> QED BY <2>3, <3>1, <3>2, <3>3
  <2>6. ASSUME p \notin DOMAIN image PROVE DOMAIN pages[p] = {} BY <1>3, <1>4, <2>6
  <2>7. ASSUME p \in DOMAIN image PROVE DOMAIN pages[p] # {}
    BY <1>3, <1>4, <2>7
  <2> HIDE DEF left
  <2> QED BY <2>4, <2>5, <2>6, <2>7
<1>6. DOMAIN left = DOMAIN pages OBVIOUS
<1> HIDE DEF left, pages
<1>7. empty = gone /\ DOMAIN left \ empty = kept
  BY <1>3, <1>4, <1>5, <1>6 DEF KeysOf
<1> HIDE DEF empty, gone, kept
<1>8. Without(left, empty) = [p \in kept |-> image[p]]
  <2>1. kept \subseteq DOMAIN left /\ kept \subseteq DOMAIN image
    BY <1>3, <1>4, <1>6 DEF KeysOf, kept
  <2>2. Without(left, empty) = [p \in kept |-> left[p]] BY <1>7 DEF Without, Restrict
  <2>3. \A p \in kept : left[p] = image[p] BY <2>1, <1>5, <1>6
  <2> QED BY <2>2, <2>3
<1>9. second \in Seq(Range(second)) /\ Range(second) = PutsOf("bundled", t, now, kept)
  <2> DEFINE records == [p \in kept |-> image[p]]
  <2>1. DOMAIN records = kept /\ \A p \in kept : records[p] = image[p] OBVIOUS
  <2>2. IsFiniteSet(DOMAIN records)
    <3>1. kept \subseteq RowId BY <1>3 DEF KeysOf, kept
    <3> QED BY <3>1, RowIdFinite
  <2>3. second = Puts(Data(t), records) BY <1>8
  <2> HIDE DEF records
  <2>4. /\ second \in Seq(Range(second))
        /\ Range(second) = {PutRequest(Data(t), p, records[p]) : p \in DOMAIN records}
    BY <2>2, <2>3, PutsIs
  <2> QED BY <2>1, <2>4 DEF PutsOf, image
<1> HIDE DEF second
<1>10. /\ first \in Seq(Range(first)) /\ Tidy("bundled", first)
       /\ Range(first) = IF gone = {} THEN {} ELSE {DeleteRequest(Data(t), gone)}
  BY <1>7, EmptyBlock, SingleBlock
<1> HIDE DEF first
<1>11. \A r \in Range(second) : r.op = "put" BY <1>9 DEF PutsOf, PutRequest
<1> DEFINE X == Range(first) \cup Range(second)
<1>12. first \in Seq(X) /\ second \in Seq(X) BY <1>9, <1>10
<1> HIDE DEF X
<1>13. /\ first \o second \in Seq(X) /\ Range(first \o second) = Range(first) \cup Range(second)
       /\ Tidy("bundled", first \o second)
  BY ONLY <1>10, <1>11, <1>12, ThenPuts
<1>14. q \in Seq(Range(q)) /\ Range(q) = Range(first) \cup Range(second) /\ Tidy("bundled", q)
  BY <1>1, <1>13 DEF X
<1> QED BY <1>14, <1>9, <1>10 DEF q, gone, kept

\* The requests of lf.Table.remove, as a set.
RemovesOf(k, t, ids, size, now, disable) ==
    CASE k = "memory"  -> {IF Cardinality(ids) = size THEN ClearRequest(Data(t))
                           ELSE DeleteRequest(Data(t), ids)}
      [] k = "web_sql" -> {DeleteRequest(Data(t), ids)}
      [] k = "indexed_db" -> {IF disable THEN DeleteRequest(Data(t), ids)
                              ELSE CountRequest(Data(t), ids)}
      [] k = "bundled" ->
            LET gone == KeysOf(k, ids) \ KeysOf(k, DOMAIN now)
            IN  (IF gone = {} THEN {} ELSE {DeleteRequest(Data(t), gone)})
                \cup PutsOf(k, t, now, KeysOf(k, ids) \cap KeysOf(k, DOMAIN now))

\* RemoveRows makes these requests, and they are tidy.
LEMMA RemoveRowsIs ==
    ASSUME NEW k \in Kinds, NEW t, NEW now \in RowMap, NEW ids \in SUBSET RowId, ids # {},
           ids \cap DOMAIN now = {}, NEW size, NEW disable \in BOOLEAN
    PROVE  LET q == RemoveRows(k, t, ids, size, now, disable)
           IN  /\ q \in Seq(Range(q)) /\ Tidy(k, q)
               /\ Range(q) = RemovesOf(k, t, ids, size, now, disable)
<1> DEFINE q == RemoveRows(k, t, ids, size, now, disable)
<1>1. CASE k = "memory"
  <2>1. q = <<IF Cardinality(ids) = size THEN ClearRequest(Data(t))
              ELSE DeleteRequest(Data(t), ids)>>
    BY <1>1 DEF RemoveRows, MemoryRemove
  <2>2. RemovesOf(k, t, ids, size, now, disable)
            = {IF Cardinality(ids) = size THEN ClearRequest(Data(t))
               ELSE DeleteRequest(Data(t), ids)}
    BY <1>1 DEF RemovesOf
  <2> QED BY <2>1, <2>2, SingleBlock
<1>2. CASE k = "web_sql"
  <2>1. q = <<DeleteRequest(Data(t), ids)>> BY <1>2 DEF RemoveRows, WebSqlRemove
  <2>2. RemovesOf(k, t, ids, size, now, disable) = {DeleteRequest(Data(t), ids)}
    BY <1>2 DEF RemovesOf
  <2> QED BY <2>1, <2>2, SingleBlock
<1>3. CASE k = "indexed_db"
  <2>1. q = <<IF disable THEN DeleteRequest(Data(t), ids) ELSE CountRequest(Data(t), ids)>>
    BY <1>3 DEF RemoveRows, ObjectStoreRemove
  <2>2. RemovesOf(k, t, ids, size, now, disable)
            = {IF disable THEN DeleteRequest(Data(t), ids) ELSE CountRequest(Data(t), ids)}
    BY <1>3 DEF RemovesOf
  <2> QED BY <2>1, <2>2, SingleBlock
<1>4. CASE k = "bundled"
  <2> DEFINE b == BundledRemove(Data(t), ids, getDataTablePage(now, ids))
             gone == KeysOf("bundled", ids) \ KeysOf("bundled", DOMAIN now)
             set == (IF gone = {} THEN {} ELSE {DeleteRequest(Data(t), gone)})
                    \cup PutsOf("bundled", t, now,
                                KeysOf("bundled", ids) \cap KeysOf("bundled", DOMAIN now))
  <2>1. q = b BY <1>4 DEF RemoveRows
  <2>2. RemovesOf(k, t, ids, size, now, disable) = set BY <1>4 DEF RemovesOf
  <2>3. b \in Seq(Range(b)) /\ Range(b) = set /\ Tidy("bundled", b)
    BY BundledRemoveIs
  <2> QED BY <2>1, <2>2, <2>3, <1>4
<1> QED BY <1>1, <1>2, <1>3, <1>4 DEF Kinds

\* The rows that a diff adds or modifies, and those it deletes.
Changed(old, now) == {id \in DOMAIN now : id \in DOMAIN old => old[id] # now[id]}
Deleted(old, now) == DOMAIN old \ DOMAIN now

\* mergeTableChanges as a function of what it reads.
TableRequests(k, t, old, now, size) ==
    (IF Deleted(old, now) = {} THEN <<>>
     ELSE RemoveRows(k, t, Deleted(old, now), size, now, Changed(old, now) # {}))
    \o PutRows(k, t, Restrict(now, Changed(old, now)), now)

\* The requests for a table as a set.
TableSet(k, t, old, now, size) ==
    (IF Deleted(old, now) = {} THEN {}
     ELSE RemovesOf(k, t, Deleted(old, now), size, now, Changed(old, now) # {}))
    \cup PutsOf(k, t, now, KeysOf(k, Changed(old, now)))

\* mergeTableChanges is this function of before and cache.
LEMMA MergeTableIs ==
    ASSUME NEW t \in Tables
    PROVE  mergeTableChanges(t) = TableRequests(kind, t, before.cache[t], cache[t],
                                                Cardinality(DOMAIN native[Data(t)]))
<1>1. DOMAIN Restrict(cache[t], Changed(before.cache[t], cache[t]))
          = Changed(before.cache[t], cache[t])
  BY DEF Restrict
<1> QED BY <1>1 DEF mergeTableChanges, TableRequests, Changed, Deleted

\* The requests for a table are tidy, and this set.
LEMMA TableRequestsAre ==
    ASSUME NEW k \in Kinds, NEW t, NEW old \in RowMap, NEW now \in RowMap, NEW size
    PROVE  LET q == TableRequests(k, t, old, now, size)
           IN  /\ q \in Seq(Range(q)) /\ Tidy(k, q)
               /\ Range(q) = TableSet(k, t, old, now, size)
<1> DEFINE ids == Deleted(old, now)
           put == Changed(old, now)
           disable == put # {}
           first == IF ids = {} THEN <<>> ELSE RemoveRows(k, t, ids, size, now, put # {})
           second == PutRows(k, t, Restrict(now, put), now)
           firsts == IF ids = {} THEN {} ELSE RemovesOf(k, t, ids, size, now, put # {})
           seconds == PutsOf(k, t, now, KeysOf(k, put))
<1>0. /\ ids \in SUBSET RowId /\ ids \cap DOMAIN now = {} /\ put \subseteq DOMAIN now
      /\ disable \in BOOLEAN
  BY RowMapIs DEF Deleted, Changed
<1>1. first \in Seq(Range(first)) /\ Tidy(k, first) /\ Range(first) = firsts
  <2>1. CASE ids = {} BY <2>1, EmptyBlock
  <2>2. CASE ids # {}
    <3> DEFINE rm == RemoveRows(k, t, ids, size, now, disable)
               rs == RemovesOf(k, t, ids, size, now, disable)
    <3>1. rm \in Seq(Range(rm)) /\ Tidy(k, rm) /\ Range(rm) = rs
      <4> HIDE DEF ids, disable
      <4> QED BY <2>2, <1>0, RemoveRowsIs
    <3>2. first = rm /\ firsts = rs BY <2>2
    <3> HIDE DEF rm, rs, first, firsts
    <3> QED BY <3>1, <3>2
  <2> QED BY <2>1, <2>2
<1>2. second \in Seq(Range(second)) /\ Range(second) = seconds
  <2> HIDE DEF put
  <2> QED BY <1>0, PutRowsIs
<1>3. \A r \in Range(second) : r.op = "put"
  <2> HIDE DEF second
  <2> QED BY <1>2 DEF PutsOf, PutRequest
<1>4. TableRequests(k, t, old, now, size) = first \o second BY DEF TableRequests
<1>5. TableSet(k, t, old, now, size) = firsts \cup seconds BY DEF TableSet
<1> DEFINE X == Range(first) \cup Range(second)
<1> HIDE DEF ids, put, first, second, firsts, seconds
<1>6. first \in Seq(X) /\ second \in Seq(X) BY <1>1, <1>2
<1> HIDE DEF X
<1>7. /\ first \o second \in Seq(X) /\ Range(first \o second) = Range(first) \cup Range(second)
      /\ Tidy(k, first \o second)
  BY ONLY <1>1, <1>3, <1>6, ThenPuts
<1> QED BY <1>1, <1>2, <1>4, <1>5, <1>7 DEF X

\* What the requests for a table are: puts of what is to be there, or removals.
IsPut(k, t, now, r) ==
    \E key \in DOMAIN Image(k, now) : r = PutRequest(Data(t), key, Image(k, now)[key])

IsRemoval(k, t, old, now, size, r) ==
    \/ /\ r.op = "delete" /\ r.keys \subseteq RowId
       /\ r.keys \cap DOMAIN Image(k, now) = {}
    \/ r.op = "clear" /\ k = "memory" /\ Cardinality(Deleted(old, now)) = size
    \/ /\ r.op = "count" /\ k = "indexed_db" /\ r.ids = Deleted(old, now)
       /\ Deleted(old, now) # {} /\ Changed(old, now) = {}

\* The puts of a table are of its image.
LEMMA PutsAre ==
    ASSUME NEW k, NEW t, NEW now \in RowMap, NEW keys, keys \subseteq KeysOf(k, DOMAIN now),
           NEW r \in PutsOf(k, t, now, keys)
    PROVE  r.store = Data(t) /\ IsPut(k, t, now, r)
<1>1. PICK key \in keys : r = PutRequest(Data(t), key, Image(k, now)[key])
  BY DEF PutsOf
<1>2. key \in DOMAIN Image(k, now) BY ImageKeys
<1> QED BY <1>1, <1>2, RequestFields DEF IsPut

\* Every request for a table is one or the other.
LEMMA TableSetMembers ==
    ASSUME NEW k \in Kinds, NEW t, NEW old \in RowMap, NEW now \in RowMap, NEW size,
           NEW r \in TableSet(k, t, old, now, size)
    PROVE  r.store = Data(t) /\ (IsPut(k, t, now, r) \/ IsRemoval(k, t, old, now, size, r))
<1> DEFINE ids == Deleted(old, now)
           put == Changed(old, now)
<1>0. /\ ids \subseteq RowId /\ ids \cap DOMAIN now = {} /\ put \subseteq DOMAIN now
      /\ \A id \in RowId : toPageId(id) \in RowId
  BY RowMapIs, RowIdPages DEF Deleted, Changed
<1>i. DOMAIN Image(k, now) = KeysOf(k, DOMAIN now) BY ImageKeys
<1>1. CASE r \in PutsOf(k, t, now, KeysOf(k, put))
  <2>1. KeysOf(k, put) \subseteq KeysOf(k, DOMAIN now) BY <1>0 DEF KeysOf
  <2> QED BY <2>1, <1>1, PutsAre
<1>2. CASE ids # {} /\ r \in RemovesOf(k, t, ids, size, now, put # {})
  <2>1. CASE k = "memory"
    <3>1. r \in {IF Cardinality(ids) = size THEN ClearRequest(Data(t))
                 ELSE DeleteRequest(Data(t), ids)}
      BY <1>2, <2>1 DEF RemovesOf
    <3>2. CASE Cardinality(ids) = size
      BY <3>1, <3>2, <2>1, RequestFields DEF IsRemoval
    <3>3. CASE Cardinality(ids) # size
      <4>1. r = DeleteRequest(Data(t), ids) BY <3>1, <3>3
      <4>2. ids \cap DOMAIN Image(k, now) = {} BY <1>0, <1>i, <2>1 DEF KeysOf
      <4> QED BY <4>1, <4>2, <1>0, RequestFields DEF IsRemoval
    <3> QED BY <3>2, <3>3
  <2>2. CASE k = "web_sql"
    <3>1. r = DeleteRequest(Data(t), ids) BY <1>2, <2>2 DEF RemovesOf
    <3>2. ids \cap DOMAIN Image(k, now) = {} BY <1>0, <1>i, <2>2 DEF KeysOf
    <3> QED BY <3>1, <3>2, <1>0, RequestFields DEF IsRemoval
  <2>3. CASE k = "indexed_db"
    <3>1. r = IF put # {} THEN DeleteRequest(Data(t), ids) ELSE CountRequest(Data(t), ids)
      BY <1>2, <2>3 DEF RemovesOf
    <3>2. ids \cap DOMAIN Image(k, now) = {} BY <1>0, <1>i, <2>3 DEF KeysOf
    <3>3. CASE put # {}
      BY <3>1, <3>2, <3>3, <1>0, RequestFields DEF IsRemoval
    <3>4. CASE put = {}
      BY <3>1, <3>4, <2>3, <1>2, RequestFields DEF IsRemoval
    <3> QED BY <3>3, <3>4
  <2>4. CASE k = "bundled"
    <3> DEFINE gone == KeysOf(k, ids) \ KeysOf(k, DOMAIN now)
               kept == KeysOf(k, ids) \cap KeysOf(k, DOMAIN now)
    <3>1. r \in (IF gone = {} THEN {} ELSE {DeleteRequest(Data(t), gone)})
                \cup PutsOf(k, t, now, kept)
      BY <1>2, <2>4 DEF RemovesOf
    <3>2. CASE r \in PutsOf(k, t, now, kept) BY <3>2, PutsAre
    <3>3. CASE r = DeleteRequest(Data(t), gone)
      <4>1. gone \subseteq RowId BY <2>4, <1>0 DEF KeysOf
      <4>2. gone \cap DOMAIN Image(k, now) = {} BY <1>i
      <4> QED BY <3>3, <4>1, <4>2, RequestFields DEF IsRemoval
    <3> QED BY <3>1, <3>2, <3>3
  <2> QED BY <2>1, <2>2, <2>3, <2>4 DEF Kinds
<1> QED BY <1>1, <1>2 DEF TableSet

\* An image, by the kind of store.
LEMMA ImageAt ==
    ASSUME NEW k, NEW rows \in RowMap
    PROVE  IF k = "bundled" THEN PagesFit(Image(k, rows), rows, DOMAIN rows)
           ELSE Image(k, rows) = rows
<1>1. DOMAIN rows \subseteq RowId BY RowMapIs
<1> QED BY <1>1, PageOf DEF Image

(* A page is the same in two images when the same rows are on it.          *)
LEMMA SamePage ==
    ASSUME NEW a \in RowMap, NEW b \in RowMap, NEW p,
           \A id \in RowId : toPageId(id) = p =>
               /\ id \in DOMAIN a <=> id \in DOMAIN b
               /\ id \in DOMAIN a => a[id] = b[id],
           p \in DOMAIN Image("bundled", b)
    PROVE  p \in DOMAIN Image("bundled", a)
           /\ Image("bundled", a)[p] = Image("bundled", b)[p]
<1> DEFINE ia == Image("bundled", a)
           ib == Image("bundled", b)
<1>1. PagesFit(ia, a, DOMAIN a) /\ PagesFit(ib, b, DOMAIN b) BY ImageAt
<1>2. DOMAIN a \subseteq RowId /\ DOMAIN b \subseteq RowId BY RowMapIs
<1> HIDE DEF ia, ib
<1>3. p \in DOMAIN ib BY DEF ib
<1>4. PICK id \in DOMAIN b : toPageId(id) = p BY <1>1, <1>3 DEF PagesFit
<1>5. p \in DOMAIN ia BY <1>4, <1>1, <1>2 DEF PagesFit
<1>6. ia[p] \in RowMap /\ ib[p] \in RowMap BY <1>1, <1>3, <1>5 DEF PagesFit
<1>7. ia[p] = [x \in DOMAIN ia[p] |-> ia[p][x]] /\ ib[p] = [x \in DOMAIN ib[p] |-> ib[p][x]]
  BY <1>6, RowMapIs
<1>8. DOMAIN ia[p] = DOMAIN ib[p]
  <2>1. ASSUME NEW x \in DOMAIN ia[p] PROVE x \in DOMAIN ib[p]
    BY <2>1, <1>1, <1>2, <1>3, <1>5 DEF PagesFit
  <2>2. ASSUME NEW x \in DOMAIN ib[p] PROVE x \in DOMAIN ia[p]
    BY <2>2, <1>1, <1>2, <1>3, <1>5 DEF PagesFit
  <2> QED BY <2>1, <2>2
<1>9. \A x \in DOMAIN ia[p] : ia[p][x] = ib[p][x]
  BY <1>1, <1>2, <1>3, <1>5, <1>8 DEF PagesFit
<1> QED BY <1>5, <1>7, <1>8, <1>9 DEF ia, ib

\* The requests for a table turn the store of its old rows into that of its new
\* ones, whatever the kind of store.
LEMMA TableConverges ==
    ASSUME NEW k \in Kinds, NEW t, NEW old \in RowMap, NEW now \in RowMap,
           NEW n, n = Image(k, old),
           NEW reqs, reqs = TableSet(k, t, old, now, Cardinality(DOMAIN n))
    PROVE  ConvergesTo(k, n, reqs, Data(t), Image(k, now))
<1> DEFINE ids == Deleted(old, now)
           put == Changed(old, now)
           s == Data(t)
           target == Image(k, now)
           size == Cardinality(DOMAIN n)
<1>0. /\ DOMAIN old \subseteq RowId /\ DOMAIN now \subseteq RowId
      /\ ids = DOMAIN old \ DOMAIN now
      /\ put = {id \in DOMAIN now : id \in DOMAIN old => old[id] # now[id]}
  BY RowMapIs DEF Deleted, Changed
<1>i. DOMAIN target = KeysOf(k, DOMAIN now) /\ DOMAIN n = KeysOf(k, DOMAIN old) BY ImageKeys
<1>p. \A key \in KeysOf(k, put) : PutRequest(s, key, target[key]) \in reqs
  BY DEF TableSet, PutsOf
<1>r. ids # {} => RemovesOf(k, t, ids, size, now, put # {}) \subseteq reqs
  BY DEF TableSet
<1>1. ASSUME NEW key \in DOMAIN target
      PROVE  \/ key \in DOMAIN n /\ n[key] = target[key]
             \/ PutRequest(s, key, target[key]) \in reqs
  <2>1. CASE k # "bundled"
    <3>1. target = now /\ n = old BY <2>1 DEF Image
    <3>2. CASE key \in put BY <3>2, <1>p, <2>1 DEF KeysOf
    <3>3. CASE key \notin put
      <4>1. key \in DOMAIN now BY <3>1, <1>1
      <4>2. key \in DOMAIN old /\ old[key] = now[key] BY <4>1, <3>3, <1>0
      <4> QED BY <4>2, <3>1
    <3> QED BY <3>2, <3>3
  <2>2. CASE k = "bundled"
    <3>1. CASE key \in KeysOf(k, put) BY <3>1, <1>p
    <3>2. CASE key \notin KeysOf(k, put) /\ key \in KeysOf(k, ids)
      <4> DEFINE kept == KeysOf(k, ids) \cap KeysOf(k, DOMAIN now)
      <4>1. ids # {} BY <3>2, <2>2 DEF KeysOf
      <4>2. key \in kept BY <3>2, <1>1, <1>i
      <4>3. PutsOf(k, t, now, kept) \subseteq reqs BY <4>1, <1>r, <2>2 DEF RemovesOf
      <4> QED BY <4>2, <4>3 DEF PutsOf
    <3>3. CASE key \notin KeysOf(k, put) /\ key \notin KeysOf(k, ids)
      <4>1. \A id \in RowId : toPageId(id) = key =>
               /\ id \in DOMAIN old <=> id \in DOMAIN now
               /\ id \in DOMAIN old => old[id] = now[id]
        BY <3>3, <2>2, <1>0 DEF KeysOf
      <4>2. key \in DOMAIN Image("bundled", now) BY <1>1, <2>2
      <4> HIDE DEF target, ids, put
      <4>3. key \in DOMAIN Image("bundled", old)
            /\ Image("bundled", old)[key] = Image("bundled", now)[key]
        BY <4>1, <4>2, SamePage
      <4> QED BY <4>3, <2>2 DEF target
    <3> QED BY <3>1, <3>2, <3>3
  <2> QED BY <2>1, <2>2
<1>2. ASSUME NEW key \in DOMAIN n \ DOMAIN target
      PROVE  \E r \in reqs : r.store = s /\ Removes(r, key)
  <2>1. CASE k # "bundled"
    <3>1. key \in ids BY <1>2, <1>i, <1>0, <2>1 DEF KeysOf
    <3>2. ids # {} BY <3>1
    <3>3. CASE k = "memory" /\ Cardinality(ids) = size
      <4>1. ClearRequest(s) \in reqs BY <3>2, <3>3, <1>r DEF RemovesOf
      <4> QED BY <4>1, RequestFields DEF Removes
    <3>4. CASE (k = "memory" /\ Cardinality(ids) # size) \/ k = "web_sql" \/ (k = "indexed_db" /\ put # {})
      <4>1. DeleteRequest(s, ids) \in reqs BY <3>2, <3>4, <1>r DEF RemovesOf
      <4> QED BY <3>1, <4>1, RequestFields DEF Removes
    <3>5. CASE k = "indexed_db" /\ put = {}
      <4>1. CountRequest(s, ids) \in reqs BY <3>2, <3>5, <1>r DEF RemovesOf
      <4> QED BY <3>1, <4>1, RequestFields DEF Removes
    <3> QED BY <3>3, <3>4, <3>5, <2>1 DEF Kinds
  <2>2. CASE k = "bundled"
    <3> DEFINE gone == KeysOf(k, ids) \ KeysOf(k, DOMAIN now)
    <3>1. key \in KeysOf(k, DOMAIN old) /\ key \notin KeysOf(k, DOMAIN now) BY <1>2, <1>i
    <3>2. PICK id \in DOMAIN old : key = toPageId(id) BY <3>1, <2>2 DEF KeysOf
    <3>3. id \in ids BY <3>1, <3>2, <1>0, <2>2 DEF KeysOf
    <3>4. key \in gone /\ ids # {} BY <3>1, <3>2, <3>3, <2>2 DEF KeysOf
    <3>5. DeleteRequest(s, gone) \in reqs BY <3>4, <1>r, <2>2 DEF RemovesOf
    <3> QED BY <3>4, <3>5, RequestFields DEF Removes
  <2> QED BY <2>1, <2>2
<1>3. ASSUME NEW r \in reqs, r.store = s PROVE Harmless(k, r, n, reqs, s, target)
  <2>1. IsPut(k, t, now, r) \/ IsRemoval(k, t, old, now, size, r)
    BY <1>3, TableSetMembers
  <2>2. CASE IsPut(k, t, now, r)
    <3>1. r.op = "put" /\ r.key \in DOMAIN target /\ r.record = target[r.key]
      BY <2>2, RequestFields DEF IsPut
    <3> QED BY <3>1 DEF Harmless
  <2>3. CASE IsRemoval(k, t, old, now, size, r) /\ r.op = "delete"
    <3>1. r.keys \cap DOMAIN target = {} BY <2>3 DEF IsRemoval
    <3> QED BY <3>1, <2>3 DEF Harmless
  <2>4. CASE IsRemoval(k, t, old, now, size, r) /\ r.op = "clear"
    <3>1. k = "memory" /\ Cardinality(ids) = Cardinality(DOMAIN n) BY <2>4 DEF IsRemoval
    <3>2. n = old /\ target = now BY <3>1 DEF Image
    <3>3. ids \in SUBSET DOMAIN old /\ IsFiniteSet(DOMAIN old) BY <1>0, RowIdFinite
    <3>4. ids = DOMAIN old
      <4> HIDE DEF ids
      <4> QED BY <3>1, <3>2, <3>3, FS_Subset
    <3>5. \A key \in DOMAIN target : key \in put BY <3>4, <3>2, <1>0
    <3>6. \A key \in DOMAIN target : PutRequest(s, key, target[key]) \in reqs
      BY <3>5, <1>p, <3>1 DEF KeysOf
    <3> QED BY <3>1, <3>6, <2>4 DEF Harmless
  <2>5. CASE IsRemoval(k, t, old, now, size, r) /\ r.op = "count"
    <3>1. k = "indexed_db" /\ r.ids = ids /\ ids # {} /\ put = {} BY <2>5 DEF IsRemoval
    <3>2. n = old /\ target = now BY <3>1 DEF Image
    <3>3. DOMAIN n = ids \cup DOMAIN target
      <4>1. DOMAIN now \subseteq DOMAIN old BY <3>1, <1>0
      <4> QED BY <4>1, <3>2, <1>0
    <3>4. r.ids \cap DOMAIN target = {} BY <3>1, <3>2, <1>0
    <3>5. reqs = {CountRequest(s, ids)}
      <4>1. PutsOf(k, t, now, KeysOf(k, put)) = {} BY <3>1 DEF PutsOf, KeysOf
      <4>2. RemovesOf(k, t, ids, size, now, put # {}) = {CountRequest(s, ids)}
        BY <3>1 DEF RemovesOf
      <4> HIDE DEF ids, put
      <4>3. reqs = RemovesOf(k, t, ids, size, now, put # {}) \cup PutsOf(k, t, now, KeysOf(k, put))
        BY <3>1 DEF TableSet, ids, put
      <4> QED BY <4>1, <4>2, <4>3
    <3>6. \A q \in reqs : q = r BY <3>5, <1>3
    <3> QED BY <3>1, <3>3, <3>4, <3>6, <2>5 DEF Harmless
  <2> QED BY <2>1, <2>2, <2>3, <2>4, <2>5 DEF IsRemoval
<1> QED BY <1>1, <1>2, <1>3 DEF ConvergesTo

\* And each is as it should be.
LEMMA TableRequestOK ==
    ASSUME NEW k \in Kinds, NEW t \in Tables, NEW old \in RowMap, NEW now \in RowMap, NEW size,
           NEW r \in TableSet(k, t, old, now, size)
    PROVE  /\ RequestOK(k, r) /\ r.store = Data(t)
           /\ r.op = "put" => /\ RecordOK(k, r.key, r.record)
                              /\ \A ids, versions : Within(now, ids, versions) =>
                                     Within(RecordRows(k, r.key, r.record), ids, versions)
<1>1. r.store = Data(t) /\ (IsPut(k, t, now, r) \/ IsRemoval(k, t, old, now, size, r))
  BY TableSetMembers
<1>2. /\ Data(t) \in Stores
      /\ \A u \in Tables : Data(t) # Index(u)
      /\ \A u \in Tables : Data(t) = Data(u) => t = u
  BY DataIsNotIndex
<1>3. CASE IsPut(k, t, now, r)
  <2>1. PICK key \in DOMAIN Image(k, now) : r = PutRequest(Data(t), key, Image(k, now)[key])
    BY <1>3 DEF IsPut
  <2>2. /\ r.op = "put" /\ r.key = key /\ r.record = Image(k, now)[key]
    BY <2>1, RequestFields
  <2>3. RecordOK(k, r.key, r.record) BY <2>2, ImageKeys
  <2>4. ASSUME NEW ids, NEW versions, Within(now, ids, versions)
        PROVE  Within(RecordRows(k, r.key, r.record), ids, versions)
    <3>1. StoreOK(k, Image(k, now)) /\ GetAll(k, Image(k, now)) = now BY ImageIs
    <3>2. Within(RecordRows(k, key, Image(k, now)[key]), ids, versions)
      BY <3>1, <2>4, WithinRecords
    <3> QED BY <3>2, <2>2
  <2>5. RequestOK(k, r) BY <1>1, <1>2, <2>2, <2>3 DEF RequestOK
  <2> QED BY <1>1, <2>3, <2>4, <2>5
<1>4. CASE IsRemoval(k, t, old, now, size, r)
  <2>1. Deleted(old, now) \subseteq RowId BY RowMapIs DEF Deleted
  <2>2. RequestOK(k, r) /\ r.op # "put" BY <1>1, <1>2, <1>4, <2>1 DEF RequestOK, IsRemoval
  <2> QED BY <1>1, <2>2
<1> QED BY <1>1, <1>3, <1>4

-----------------------------------------------------------------------------
(* The requests for one persisted index.                                   *)

\* The row id of a persisted index is on page 0.
LEMMA PageZero == toPageId(0) = 0 /\ getIndexTablePage({ROW_ID}) = [p \in {0} |-> None]
<1>1. toPageId(0) = 0
  <2>1. toPageId(0) \in Nat /\ toPageId(0) <= 0 BY PageIs
  <2> QED BY <2>1
<1> QED BY <1>1 DEF getIndexTablePage, PagesOf, ROW_ID

\* The requests for a persisted index.
IndexSet(k, t, ids) ==
    {IF k = "indexed_db" THEN CountRequest(Index(t), {}) ELSE ClearRequest(Index(t)),
     PutRequest(Index(t), ROW_ID, IndexRecord(k, ids))}

\* A single put.
LEMMA OnePut ==
    ASSUME NEW s, NEW records, NEW x, DOMAIN records = {x}
    PROVE  /\ Puts(s, records) \in Seq(Range(Puts(s, records)))
           /\ Range(Puts(s, records)) = {PutRequest(s, x, records[x])}
<1>1. IsFiniteSet(DOMAIN records) BY FS_Singleton
<1> QED BY <1>1, PutsIs

\* RewriteIndex makes these requests.
LEMMA RewriteIndexIs ==
    ASSUME NEW k \in Kinds, NEW t, NEW ids, NEW size
    PROVE  LET q == RewriteIndex(k, t, ids, size)
           IN  /\ q \in Seq(Range(q)) /\ Tidy(k, q)
               /\ Range(q) = IndexSet(k, t, ids)
<1> DEFINE q == RewriteIndex(k, t, ids, size)
           r == IF k = "indexed_db" THEN CountRequest(Index(t), {}) ELSE ClearRequest(Index(t))
           p == PutRequest(Index(t), ROW_ID, IndexRecord(k, ids))
           second == IF k = "bundled"
                     THEN BundledPut(Index(t), Serialized(ids), getIndexTablePage({ROW_ID}))
                     ELSE ObjectStorePut(Index(t), Serialized(ids))
<1>0. /\ DOMAIN Serialized(ids) = {ROW_ID} /\ Serialized(ids)[ROW_ID] = ids
      /\ Serialized(ids) = [x \in {ROW_ID} |-> ids]
  BY DEF Serialized, Put, None
<1>1. q = <<r>> \o second
  BY DEF RewriteIndex, MemoryRemove, WebSqlRemove, ObjectStoreRemove, BundledRemove, Kinds
<1>2. second \in Seq(Range(second)) /\ Range(second) = {p}
  <2>1. CASE k # "bundled"
    <3>1. second = Puts(Index(t), Serialized(ids)) BY <2>1 DEF ObjectStorePut
    <3>2. p = PutRequest(Index(t), ROW_ID, Serialized(ids)[ROW_ID])
      BY <1>0, <2>1 DEF IndexRecord
    <3> DEFINE rows == Serialized(ids)
    <3>3. /\ Puts(Index(t), rows) \in Seq(Range(Puts(Index(t), rows)))
          /\ Range(Puts(Index(t), rows)) = {PutRequest(Index(t), ROW_ID, rows[ROW_ID])}
      <4>1. DOMAIN rows = {ROW_ID} BY <1>0
      <4> HIDE DEF rows
      <4> QED BY <4>1, OnePut
    <3> HIDE DEF second, p
    <3> QED BY <3>1, <3>2, <3>3
  <2>2. CASE k = "bundled"
    <3> DEFINE pages == [x \in {0} |-> None]
               rows == Serialized(ids)
               filled == [x \in DOMAIN pages |->
                          [id \in DOMAIN pages[x] \cup {y \in DOMAIN rows : toPageId(y) = x} |->
                              IF id \in DOMAIN rows THEN rows[id] ELSE pages[x][id]]]
    <3>1. second = Puts(Index(t), filled) BY <2>2, PageZero DEF BundledPut
    <3>2. DOMAIN filled = {ROW_ID} BY DEF ROW_ID
    <3>3. filled[ROW_ID] = rows
      <4>1. DOMAIN pages[0] = {} BY DEF None
      <4>2. {y \in DOMAIN rows : toPageId(y) = 0} = {ROW_ID} BY <1>0, PageZero DEF ROW_ID
      <4>3. filled[0] = [id \in DOMAIN pages[0] \cup {y \in DOMAIN rows : toPageId(y) = 0} |->
                              IF id \in DOMAIN rows THEN rows[id] ELSE pages[0][id]]
        OBVIOUS
      <4> HIDE DEF filled, pages, rows
      <4>4. filled[0] = [id \in {ROW_ID} |->
                              IF id \in DOMAIN rows THEN rows[id] ELSE pages[0][id]]
        BY <4>1, <4>2, <4>3
      <4>5. filled[0] = [id \in {ROW_ID} |-> ids] BY <4>4, <1>0 DEF rows
      <4> QED BY <4>5, <1>0 DEF rows, ROW_ID
    <3>4. p = PutRequest(Index(t), ROW_ID, rows) BY <2>2 DEF IndexRecord
    <3> HIDE DEF filled, second, p, rows
    <3>5. /\ Puts(Index(t), filled) \in Seq(Range(Puts(Index(t), filled)))
          /\ Range(Puts(Index(t), filled)) = {PutRequest(Index(t), ROW_ID, filled[ROW_ID])}
      BY <3>2, OnePut
    <3> QED BY <3>1, <3>3, <3>4, <3>5
  <2> QED BY <2>1, <2>2
<1>3. <<r>> \in Seq({r}) /\ Range(<<r>>) = {r} /\ Tidy(k, <<r>>) BY SingleBlock
<1>4. \A x \in Range(second) : x.op = "put"
  <2>1. p.op = "put" BY RequestFields
  <2> HIDE DEF second, p
  <2> QED BY <1>2, <2>1
<1> DEFINE X == {r, p}
<1>5. <<r>> \in Seq(X) /\ second \in Seq(X) BY <1>2, <1>3
<1> HIDE DEF X, second, r, p
<1>6. /\ <<r>> \o second \in Seq(X) /\ Range(<<r>> \o second) = Range(<<r>>) \cup Range(second)
      /\ Tidy(k, <<r>> \o second)
  BY ONLY <1>3, <1>4, <1>5, ThenPuts
<1>7. Range(q) = X BY <1>1, <1>2, <1>3, <1>6 DEF X
<1>8. q \in Seq(Range(q)) /\ Tidy(k, q) BY <1>1, <1>6, <1>7
<1> QED BY <1>7, <1>8 DEF X, r, p, IndexSet

\* They turn any index store into that of the index, but for the unbundled
\* IndexedDB, whose clear comes behind the put.
LEMMA IndexConverges ==
    ASSUME NEW k \in Kinds, k # "indexed_db", NEW t, NEW n, IndexOK(k, n), NEW ids
    PROVE  ConvergesTo(k, n, IndexSet(k, t, ids), Index(t), IndexImage(k, ids))
<1> DEFINE s == Index(t)
           target == IndexImage(k, ids)
           r == ClearRequest(s)
           p == PutRequest(s, ROW_ID, IndexRecord(k, ids))
<1>1. DOMAIN target = {ROW_ID} /\ target[ROW_ID] = IndexRecord(k, ids)
  BY DEF IndexImage, Put, None
<1>2. IndexSet(k, t, ids) = {r, p} BY DEF IndexSet
<1>3. \A key \in DOMAIN target : PutRequest(s, key, target[key]) \in {r, p}
  BY <1>1
<1>4. r.op = "clear" /\ r.store = s /\ p.op = "put" /\ p.key = ROW_ID
      /\ p.record = IndexRecord(k, ids)
  BY RequestFields
<1> HIDE DEF target, r, p
<1>5. \A key : Removes(r, key) BY <1>4 DEF Removes
<1>6. Harmless(k, r, n, {r, p}, s, target) BY <1>3, <1>4 DEF Harmless
<1>7. Harmless(k, p, n, {r, p}, s, target) BY <1>1, <1>4 DEF Harmless
<1> QED BY <1>2, <1>3, <1>4, <1>5, <1>6, <1>7 DEF ConvergesTo, target

\* Each is as it should be.
LEMMA IndexRequestOK ==
    ASSUME NEW k \in Kinds, NEW t \in Tables, NEW ids \in SUBSET RowId,
           NEW r \in IndexSet(k, t, ids)
    PROVE  RequestOK(k, r) /\ r.store = Index(t)
<1>1. /\ Index(t) \in Stores
      /\ \A u \in Tables : Data(u) # Index(t)
  BY DataIsNotIndex
<1>2. CASE r = PutRequest(Index(t), ROW_ID, IndexRecord(k, ids))
  <2>1. /\ r.op = "put" /\ r.store = Index(t) /\ r.key = ROW_ID
        /\ r.record = IndexRecord(k, ids)
    BY <1>2, RequestFields
  <2> QED BY <1>1, <2>1 DEF RequestOK
<1>3. CASE r = CountRequest(Index(t), {}) /\ k = "indexed_db"
  <2>1. r.op = "count" /\ r.store = Index(t) /\ r.ids = {} BY <1>3, RequestFields
  <2> QED BY <1>1, <1>3, <2>1 DEF RequestOK
<1>4. CASE r = ClearRequest(Index(t))
  <2>1. r.op = "clear" /\ r.store = Index(t) BY <1>4, RequestFields
  <2> QED BY <1>1, <2>1 DEF RequestOK
<1> QED BY <1>2, <1>3, <1>4 DEF IndexSet

\* An index is read back as it was written.
LEMMA IndexDeserialized ==
    ASSUME NEW k \in Kinds, NEW ids
    PROVE  LET rows == GetAll(k, IndexImage(k, ids))
           IN  DOMAIN rows = {ROW_ID} /\ Deserialized(rows) = ids
<1>1. DOMAIN IndexImage(k, ids) = {ROW_ID}
      /\ IndexImage(k, ids)[ROW_ID] = IndexRecord(k, ids)
  BY DEF IndexImage, Put, None
<1>2. DOMAIN Serialized(ids) = {ROW_ID} /\ Serialized(ids)[ROW_ID] = ids
  BY DEF Serialized, Put, None
<1>3. CASE k # "bundled" BY <1>1, <1>3 DEF GetAll, Deserialized, IndexRecord
<1>4. CASE k = "bundled"
  <2> DEFINE n == IndexImage(k, ids)
  <2>1. DOMAIN n = {ROW_ID} /\ n[ROW_ID] = Serialized(ids) BY <1>1, <1>4 DEF IndexRecord
  <2> HIDE DEF n
  <2>2. UNION {DOMAIN n[p] : p \in DOMAIN n} = {ROW_ID} BY <2>1, <1>2
  <2> DEFINE c == CHOOSE p \in DOMAIN n : ROW_ID \in DOMAIN n[p]
  <2>3. c = ROW_ID BY <2>1, <1>2
  <2>4. BundledGetAll(n)[ROW_ID] = n[c][ROW_ID] BY <2>2 DEF BundledGetAll
  <2>5. DOMAIN BundledGetAll(n) = {ROW_ID} BY <2>2 DEF BundledGetAll
  <2> QED BY <2>1, <2>3, <2>4, <2>5, <1>2, <1>4 DEF GetAll, Deserialized, n
<1> QED BY <1>3, <1>4

(* Queues made of one block for each of a finite set of stores.            *)
IsBlock(k, q, store) ==
    /\ q \in Seq(Range(q)) /\ Tidy(k, q)
    /\ \A r \in Range(q) : r.store = store

-----------------------------------------------------------------------------
(* The requests of a transaction.                                          *)

\* Tidy queues of requests, each to a store of its own.
InBlocks(k, S, F, at) ==
    /\ \A t \in S : IsBlock(k, F[t], at[t])
    /\ \A t, u \in S : at[t] = at[u] => t = u

\* These one after the other.
BlocksQueue(S, F) ==
    LET order == SetToSeq(S)
    IN  FlattenSeq([i \in 1 .. Len(order) |-> F[order[i]]])

\* A tidy queue of all of them.
MadeOfBlocks(k, S, F, q) ==
    /\ q \in Seq(Range(q)) /\ Tidy(k, q)
    /\ Range(q) = UNION {Range(F[t]) : t \in S}

\* Tidy queues to different stores make a tidy queue.
LEMMA Blocks ==
    ASSUME NEW k, NEW S, IsFiniteSet(S), NEW F, NEW at, InBlocks(k, S, F, at)
    PROVE  MadeOfBlocks(k, S, F, BlocksQueue(S, F))
<1> DEFINE order == SetToSeq(S)
           q == BlocksQueue(S, F)
<1>0. /\ \A t \in S : /\ F[t] \in Seq(Range(F[t])) /\ Tidy(k, F[t])
                      /\ \A r \in Range(F[t]) : r.store = at[t]
      /\ \A t, u \in S : at[t] = at[u] => t = u
  BY DEF InBlocks, IsBlock
<1>z. q = FlattenSeq([i \in 1 .. Len(order) |-> F[order[i]]]) BY DEF BlocksQueue
<1> HIDE DEF q
<1> DEFINE X == UNION {Range(F[t]) : t \in S}
           seqs == [i \in 1 .. Len(order) |-> F[order[i]]]
           R == FollowPairs(k, X)
<1>1. /\ order \in Seq(S) /\ Range(order) = S
      /\ \A i, j \in DOMAIN order : order[i] = order[j] => i = j
  BY SetToSeqIs
<1> HIDE DEF order
<1>2. Len(order) \in Nat /\ DOMAIN order = 1 .. Len(order) BY <1>1
<1>3. Len(seqs) = Len(order) /\ \A i \in 1 .. Len(order) : seqs[i] = F[order[i]] /\ order[i] \in S
  BY <1>1, <1>2 DEF Range
<1>4. \A t \in S : Range(F[t]) \subseteq X OBVIOUS
<1>5. seqs \in Seq(Seq(X))
  <2>1. \A t \in S : F[t] \in Seq(X)
    <3> TAKE t \in S
    <3>1. F[t] \in Seq(Range(F[t])) /\ Range(F[t]) \subseteq X BY <1>0, <1>4
    <3> HIDE DEF X
    <3> QED BY <3>1
  <2> HIDE DEF X
  <2> QED BY <2>1, <1>3, <1>2
<1>6. UNION {Range(seqs[i]) : i \in 1 .. Len(seqs)} = X
  <2>1. ASSUME NEW i \in 1 .. Len(seqs) PROVE Range(seqs[i]) \subseteq X
    <3>1. seqs[i] = F[order[i]] /\ order[i] \in S BY <1>3
    <3> HIDE DEF seqs
    <3> QED BY <3>1
  <2>2. ASSUME NEW t \in S PROVE \E i \in 1 .. Len(seqs) : Range(F[t]) = Range(seqs[i])
    <3>1. PICK i \in DOMAIN order : order[i] = t BY <1>1 DEF Range
    <3>2. i \in 1 .. Len(seqs) /\ seqs[i] = F[t] BY <3>1, <1>2, <1>3
    <3> HIDE DEF seqs
    <3> QED BY <3>2
  <2> HIDE DEF seqs
  <2> QED BY <2>1, <2>2
<1>7. \A i \in 1 .. Len(seqs) : Ordered(seqs[i], R)
  <2> TAKE i \in 1 .. Len(seqs)
  <2>1. seqs[i] = F[order[i]] /\ order[i] \in S BY <1>3
  <2>2. Tidy(k, seqs[i]) /\ Range(seqs[i]) \subseteq X BY <2>1, <1>0, <1>4
  <2> HIDE DEF seqs, X
  <2> QED BY <2>2, TidyIsOrdered
<1>8. \A i, j \in 1 .. Len(seqs) : i < j =>
          \A x \in Range(seqs[i]), y \in Range(seqs[j]) : <<x, y>> \in R
  <2> SUFFICES ASSUME NEW i \in 1 .. Len(seqs), NEW j \in 1 .. Len(seqs), i < j,
                      NEW x \in Range(seqs[i]), NEW y \in Range(seqs[j])
               PROVE  <<x, y>> \in R
    OBVIOUS
  <2>1. /\ seqs[i] = F[order[i]] /\ order[i] \in S
        /\ seqs[j] = F[order[j]] /\ order[j] \in S
    BY <1>3
  <2>2. order[i] # order[j]
    <3>1. i \in DOMAIN order /\ j \in DOMAIN order /\ i # j BY <1>2, <1>3
    <3> HIDE DEF seqs
    <3> QED BY <3>1, <1>1
  <2>3. x \in Range(F[order[i]]) /\ y \in Range(F[order[j]]) BY <2>1
  <2>4. x.store = at[order[i]] /\ y.store = at[order[j]] BY <2>1, <2>3, <1>0
  <2>5. x \in X /\ y \in X BY <2>1, <2>3
  <2>6. x.store # y.store BY <2>1, <2>2, <2>4, <1>0
  <2> HIDE DEF X, seqs
  <2> QED BY <2>5, <2>6 DEF FollowPairs
<1> HIDE DEF X, R
<1>9. q = FlattenSeq(seqs) BY <1>z
<1> HIDE DEF seqs
<1>10. /\ q \in Seq(X)
       /\ Range(q) = UNION {Range(seqs[i]) : i \in 1 .. Len(seqs)}
       /\ Ordered(q, R)
  BY ONLY <1>5, <1>7, <1>8, <1>9, FlattenSeqIs
<1>11. Range(q) = X BY <1>6, <1>10
<1>12. Tidy(k, q) BY <1>10, <1>11, TidyIsOrdered DEF R
<1> QED BY <1>10, <1>11, <1>12 DEF X, q, MadeOfBlocks

\* The requests of a transaction: for the rows of its tables, then for their indices.
DataSets(k, S, old, now, size) == UNION {TableSet(k, t, old[t], now[t], size[t]) : t \in S}

IndexSets(k, P, ids) == UNION {IndexSet(k, t, ids[t]) : t \in P}

\* The first part of the queue.
DataQueue(k, S, old, now, size) ==
    LET order == SetToSeq(S)
    IN  FlattenSeq([i \in 1 .. Len(order) |->
            TableRequests(k, order[i], old[order[i]], now[order[i]], size[order[i]])])

\* It is tidy, and has the requests of every table.
LEMMA DataQueueIs ==
    ASSUME NEW k \in Kinds, NEW S \in SUBSET Tables, NEW old \in [Tables -> RowMap],
           NEW now \in [Tables -> RowMap], NEW size,
           NEW q, q = DataQueue(k, S, old, now, size)
    PROVE  /\ q \in Seq(Range(q)) /\ Tidy(k, q)
           /\ Range(q) = DataSets(k, S, old, now, size)
<1> DEFINE order == SetToSeq(S)
           F == [t \in S |-> TableRequests(k, t, old[t], now[t], size[t])]
           at == [t \in S |-> Data(t)]
           seqs == [i \in 1 .. Len(order) |-> F[order[i]]]
<1>1. IsFiniteSet(S) BY TablesAssumption, FS_Subset
<1>2. order \in Seq(S) BY <1>1, SetToSeqIs
<1>3. \A i \in 1 .. Len(order) : order[i] \in S BY <1>2
<1>4. q = FlattenSeq(seqs)
  <2> DEFINE other == [i \in 1 .. Len(order) |->
                TableRequests(k, order[i], old[order[i]], now[order[i]], size[order[i]])]
  <2>1. q = FlattenSeq(other) BY DEF DataQueue
  <2>2. other = seqs
    <3> HIDE DEF order
    <3> QED BY <1>3
  <2> QED BY <2>1, <2>2
<1>5. \A t \in S : /\ F[t] \in Seq(Range(F[t])) /\ Tidy(k, F[t])
                   /\ Range(F[t]) = TableSet(k, t, old[t], now[t], size[t])
  <2> TAKE t \in S
  <2> DEFINE f == TableRequests(k, t, old[t], now[t], size[t])
  <2>1. old[t] \in RowMap /\ now[t] \in RowMap OBVIOUS
  <2>2. f \in Seq(Range(f)) /\ Tidy(k, f) /\ Range(f) = TableSet(k, t, old[t], now[t], size[t])
    BY <2>1, TableRequestsAre
  <2>3. F[t] = f OBVIOUS
  <2> HIDE DEF F, f
  <2> QED BY <2>2, <2>3
<1>6. \A t \in S : \A r \in Range(F[t]) : r.store = at[t]
  <2> TAKE t \in S
  <2> TAKE r \in Range(F[t])
  <2>1. r \in TableSet(k, t, old[t], now[t], size[t]) BY <1>5
  <2>2. old[t] \in RowMap /\ now[t] \in RowMap OBVIOUS
  <2>3. r.store = Data(t) BY <2>1, <2>2, TableSetMembers
  <2> QED BY <2>3
<1>7. \A t, u \in S : at[t] = at[u] => t = u BY DataIsNotIndex
<1>8. \A t \in S : /\ F[t] \in Seq(Range(F[t])) /\ Tidy(k, F[t])
                   /\ \A r \in Range(F[t]) : r.store = at[t]
  <2> HIDE DEF F, at
  <2> QED BY <1>5, <1>6
<1>u. UNION {Range(F[t]) : t \in S} = DataSets(k, S, old, now, size)
  <2> HIDE DEF F
  <2> QED BY <1>5 DEF DataSets
<1>o. q = BlocksQueue(S, F) BY <1>4 DEF BlocksQueue
<1> HIDE DEF F, at, order
<1>9. InBlocks(k, S, F, at) BY <1>8, <1>7 DEF InBlocks, IsBlock
<1>10. MadeOfBlocks(k, S, F, q) BY <1>1, <1>9, <1>o, Blocks
<1> QED BY <1>10, <1>u DEF MadeOfBlocks

\* So is the concatenation of queues that share no store.
LEMMA Alongside ==
    ASSUME NEW k, NEW s, s \in Seq(Range(s)), NEW t, t \in Seq(Range(t)), Tidy(k, s), Tidy(k, t),
           \A x \in Range(s), y \in Range(t) : x.store # y.store
    PROVE  /\ s \o t \in Seq(Range(s \o t)) /\ Tidy(k, s \o t)
           /\ Range(s \o t) = Range(s) \cup Range(t)
<1> DEFINE U == Range(s) \cup Range(t)
           R == FollowPairs(k, U)
<1>1. s \in Seq(U) /\ t \in Seq(U) /\ Range(s) \subseteq U /\ Range(t) \subseteq U OBVIOUS
<1>2. \A x \in Range(s), y \in Range(t) : <<x, y>> \in R BY DEF FollowPairs
<1> HIDE DEF U
<1>3. Ordered(s, R) /\ Ordered(t, R) BY <1>1, TidyIsOrdered
<1> HIDE DEF R
<1>4. /\ s \o t \in Seq(U) /\ Range(s \o t) = Range(s) \cup Range(t)
      /\ Ordered(s \o t, R)
  BY ONLY <1>1, <1>2, <1>3, ConcatIs
<1>5. Range(s \o t) = U BY <1>4 DEF U
<1>6. Tidy(k, s \o t) BY <1>4, <1>5, TidyIsOrdered DEF R
<1> QED BY <1>4, <1>5, <1>6

\* The number of records per table.
Sizes == [t \in Tables |-> Cardinality(DOMAIN native[Data(t)])]

\* All requests of a commit.
MergedSet == DataSets(kind, touched, before.cache, cache, Sizes)
             \cup IndexSets(kind, touched \cap Persistent, rowIds)

\* mergeIntoBackstore is tidy, and has these requests.
LEMMA MergeIs ==
    ASSUME kind \in Kinds, touched \subseteq Tables, cache \in [Tables -> RowMap],
           before.cache \in [Tables -> RowMap],
           NEW q, q = mergeIntoBackstore
    PROVE  /\ q \in Seq(Range(q)) /\ Tidy(kind, q) /\ Range(q) = MergedSet
<1> DEFINE order == SetToSeq(touched)
           first == FlattenSeq([i \in 1 .. Len(order) |-> mergeTableChanges(order[i])])
           F == [t \in touched |-> mergeIndexChanges(t)]
           at == [t \in touched |-> Index(t)]
           second == FlattenSeq([i \in 1 .. Len(order) |-> F[order[i]]])
<1>1. IsFiniteSet(touched) BY TablesAssumption, FS_Subset
<1>2. order \in Seq(touched) BY <1>1, SetToSeqIs
<1>3. \A i \in 1 .. Len(order) : order[i] \in touched BY <1>2
<1>4. q = first \o second
  <2> DEFINE a == [i \in 1 .. Len(order) |-> mergeIndexChanges(order[i])]
             b == [i \in 1 .. Len(order) |-> F[order[i]]]
  <2>1. q = first \o FlattenSeq(a) BY DEF mergeIntoBackstore
  <2>2. a = b
    <3> HIDE DEF order
    <3> QED BY <1>3
  <2> QED BY <2>1, <2>2
<1>5. first = DataQueue(kind, touched, before.cache, cache, Sizes)
  <2> DEFINE a == [i \in 1 .. Len(order) |-> mergeTableChanges(order[i])]
             b == [i \in 1 .. Len(order) |->
                     TableRequests(kind, order[i], before.cache[order[i]], cache[order[i]],
                                   Sizes[order[i]])]
  <2>1. \A t \in touched : mergeTableChanges(t) =
                TableRequests(kind, t, before.cache[t], cache[t], Sizes[t])
    <3> TAKE t \in touched
    <3>1. t \in Tables OBVIOUS
    <3>2. Sizes[t] = Cardinality(DOMAIN native[Data(t)]) BY <3>1 DEF Sizes
    <3> QED BY <3>1, <3>2, MergeTableIs
  <2>2. a = b
    <3> HIDE DEF order
    <3> QED BY <1>3, <2>1
  <2> QED BY <2>2 DEF DataQueue
<1>6. /\ first \in Seq(Range(first)) /\ Tidy(kind, first)
      /\ Range(first) = DataSets(kind, touched, before.cache, cache, Sizes)
  <2> HIDE DEF first
  <2> QED BY <1>5, DataQueueIs
<1>7. \A t \in touched : /\ F[t] \in Seq(Range(F[t])) /\ Tidy(kind, F[t])
                         /\ Range(F[t]) = IF t \in Persistent THEN IndexSet(kind, t, rowIds[t])
                                          ELSE {}
  <2> TAKE t \in touched
  <2>1. CASE t \notin Persistent
    <3>1. F[t] = <<>> BY <2>1 DEF mergeIndexChanges
    <3> HIDE DEF F
    <3> QED BY <3>1, <2>1, EmptyBlock
  <2>2. CASE t \in Persistent
    <3> DEFINE f == RewriteIndex(kind, t, rowIds[t], Cardinality(DOMAIN native[Index(t)]))
    <3>1. F[t] = f BY <2>2 DEF mergeIndexChanges
    <3>2. f \in Seq(Range(f)) /\ Tidy(kind, f) /\ Range(f) = IndexSet(kind, t, rowIds[t])
      BY RewriteIndexIs
    <3> HIDE DEF F, f
    <3> QED BY <3>1, <3>2, <2>2
  <2> QED BY <2>1, <2>2
<1>8. \A t \in touched : \A r \in Range(F[t]) : r.store = at[t]
  <2> TAKE t \in touched
  <2> TAKE r \in Range(F[t])
  <2>1. r \in IndexSet(kind, t, rowIds[t]) BY <1>7
  <2>2. r.store = Index(t) BY <2>1, RequestFields DEF IndexSet
  <2> QED BY <2>2
<1>9. \A t, u \in touched : at[t] = at[u] => t = u BY DataIsNotIndex
<1>10. \A t \in touched : /\ F[t] \in Seq(Range(F[t])) /\ Tidy(kind, F[t])
                          /\ \A r \in Range(F[t]) : r.store = at[t]
  <2> HIDE DEF F, at
  <2> QED BY <1>7, <1>8
<1>11. UNION {Range(F[t]) : t \in touched} = IndexSets(kind, touched \cap Persistent, rowIds)
  <2> HIDE DEF F
  <2> QED BY <1>7 DEF IndexSets
<1>12. \A r \in Range(first) : \E t \in Tables : r.store = Data(t)
  <2> HIDE DEF first
  <2> TAKE r \in Range(first)
  <2>1. PICK t \in touched : r \in TableSet(kind, t, before.cache[t], cache[t], Sizes[t])
    BY <1>6 DEF DataSets
  <2>2. before.cache[t] \in RowMap /\ cache[t] \in RowMap /\ t \in Tables BY <2>1
  <2>3. r.store = Data(t) BY <2>1, <2>2, TableSetMembers
  <2> QED BY <2>2, <2>3
<1>13. \A r \in UNION {Range(F[t]) : t \in touched} : \E t \in Tables : r.store = Index(t)
  <2> HIDE DEF F
  <2>1. \A t \in touched : at[t] = Index(t) /\ t \in Tables OBVIOUS
  <2> HIDE DEF at
  <2> QED BY <1>10, <2>1
<1>o. second = BlocksQueue(touched, F) BY DEF BlocksQueue
<1> HIDE DEF F, at, order, second
<1>14. /\ second \in Seq(Range(second)) /\ Tidy(kind, second)
       /\ Range(second) = UNION {Range(F[t]) : t \in touched}
  <2>1. InBlocks(kind, touched, F, at) BY <1>10, <1>9 DEF InBlocks, IsBlock
  <2>2. MadeOfBlocks(kind, touched, F, second) BY <1>1, <2>1, <1>o, Blocks
  <2> QED BY <2>2 DEF MadeOfBlocks
<1> HIDE DEF first
<1>15. \A x \in Range(first), y \in Range(second) : x.store # y.store
  <2> TAKE x \in Range(first), y \in Range(second)
  <2>1. PICK t \in Tables : x.store = Data(t) BY <1>12
  <2>2. PICK u \in Tables : y.store = Index(u) BY <1>13, <1>14
  <2> QED BY <2>1, <2>2, DataIsNotIndex
<1>16. /\ first \o second \in Seq(Range(first \o second)) /\ Tidy(kind, first \o second)
       /\ Range(first \o second) = Range(first) \cup Range(second)
  BY ONLY <1>6, <1>14, <1>15, Alongside
<1> QED BY <1>4, <1>6, <1>11, <1>14, <1>16 DEF MergedSet

\* Requests to other stores do not matter.
LEMMA ConvergesOnStore ==
    ASSUME NEW k, NEW n, NEW reqs, NEW sub, NEW s, NEW target, sub \subseteq reqs,
           \A r \in reqs : r.store = s => r \in sub,
           \A r \in sub : r.op \in {"put", "delete", "clear", "count"},
           ConvergesTo(k, n, sub, s, target)
    PROVE  ConvergesTo(k, n, reqs, s, target)
<1>1. \A r \in reqs : r.store = s => Harmless(k, r, n, reqs, s, target)
  <2> TAKE r \in reqs
  <2> HAVE r.store = s
  <2>1. Harmless(k, r, n, sub, s, target) BY DEF ConvergesTo
  <2>2. CASE r.op = "put" BY <2>1, <2>2 DEF Harmless
  <2>3. CASE r.op = "delete" BY <2>1, <2>3 DEF Harmless
  <2>4. CASE r.op = "clear" BY <2>1, <2>4 DEF Harmless
  <2>5. CASE r.op = "count" BY <2>1, <2>5 DEF Harmless
  <2> QED BY <2>2, <2>3, <2>4, <2>5
<1> QED BY <1>1 DEF ConvergesTo

\* A store that is sent nothing stays.
LEMMA NothingSent ==
    ASSUME NEW k, NEW n, NEW reqs, NEW s, \A r \in reqs : r.store # s
    PROVE  ConvergesTo(k, n, reqs, s, n)
BY DEF ConvergesTo

\* A store that nothing more is sent to is what it was to become.
LEMMA ConvergesDone ==
    ASSUME NEW k, NEW n, NEW reqs, NEW s, NEW target, \A r \in reqs : r.store # s,
           n = [key \in DOMAIN n |-> n[key]], target = [key \in DOMAIN target |-> target[key]],
           ConvergesTo(k, n, reqs, s, target)
    PROVE  n = target
<1>1. \A key : PutRequest(s, key, target[key]).store = s BY RequestFields
<1>2. \A key \in DOMAIN target : key \in DOMAIN n /\ n[key] = target[key]
  BY <1>1 DEF ConvergesTo
<1>3. DOMAIN n \subseteq DOMAIN target BY DEF ConvergesTo
<1> QED BY <1>2, <1>3

\* What holds of the requests for the rows of some tables.
DataMerged(k, S, old, now, size, reqs) ==
    /\ \A r \in reqs : RequestOK(k, r) /\ \E t \in Tables : r.store = Data(t)
    /\ \A t \in Tables : \A ids, versions : Within(now[t], ids, versions) =>
         \A r \in reqs : r.op = "put" /\ r.store = Data(t) =>
             Within(RecordRows(k, r.key, r.record), ids, versions)
    /\ \A t \in Tables : \A n :
         /\ n = Image(k, old[t]) /\ size[t] = Cardinality(DOMAIN n)
         /\ t \notin S => now[t] = old[t]
         => ConvergesTo(k, n, reqs, Data(t), Image(k, now[t]))

\* The requests for the rows are such.
LEMMA DataSetsAre ==
    ASSUME NEW k \in Kinds, NEW S \in SUBSET Tables, NEW old \in [Tables -> RowMap],
           NEW now \in [Tables -> RowMap], NEW size,
           NEW reqs, reqs = DataSets(k, S, old, now, size)
    PROVE  DataMerged(k, S, old, now, size, reqs)
<1>1. ASSUME NEW r \in reqs
      PROVE  \E t \in S : /\ r \in TableSet(k, t, old[t], now[t], size[t])
                          /\ RequestOK(k, r) /\ r.store = Data(t)
                          /\ \A ids, versions : r.op = "put" /\ Within(now[t], ids, versions) =>
                                     Within(RecordRows(k, r.key, r.record), ids, versions)
  <2>1. PICK t \in S : r \in TableSet(k, t, old[t], now[t], size[t]) BY <1>1 DEF DataSets
  <2>2. t \in Tables /\ old[t] \in RowMap /\ now[t] \in RowMap OBVIOUS
  <2>3. /\ RequestOK(k, r) /\ r.store = Data(t)
        /\ r.op = "put" => \A ids, versions : Within(now[t], ids, versions) =>
                               Within(RecordRows(k, r.key, r.record), ids, versions)
    BY <2>1, <2>2, TableRequestOK
  <2> QED BY <2>1, <2>2, <2>3
<1>2. \A t, u \in Tables : Data(t) = Data(u) => t = u BY DataIsNotIndex
<1>3. ASSUME NEW r \in reqs PROVE RequestOK(k, r) /\ \E t \in Tables : r.store = Data(t)
  BY <1>1, <1>3
<1>4. ASSUME NEW t \in Tables, NEW ids, NEW versions, Within(now[t], ids, versions),
             NEW r \in reqs, r.op = "put", r.store = Data(t)
      PROVE  Within(RecordRows(k, r.key, r.record), ids, versions)
  <2>1. PICK u \in S : /\ r.store = Data(u)
                       /\ \A i, v : r.op = "put" /\ Within(now[u], i, v) =>
                                        Within(RecordRows(k, r.key, r.record), i, v)
    BY <1>1, <1>4
  <2>2. u = t BY <2>1, <1>2, <1>4
  <2> QED BY <2>1, <2>2, <1>4
<1>5. ASSUME NEW t \in Tables, NEW n, n = Image(k, old[t]), size[t] = Cardinality(DOMAIN n),
             t \notin S => now[t] = old[t]
      PROVE  ConvergesTo(k, n, reqs, Data(t), Image(k, now[t]))
  <2>1. CASE t \in S
    <3> DEFINE sub == TableSet(k, t, old[t], now[t], size[t])
    <3>1. old[t] \in RowMap /\ now[t] \in RowMap OBVIOUS
    <3>2. ConvergesTo(k, n, sub, Data(t), Image(k, now[t])) BY <3>1, <1>5, TableConverges
    <3>3. sub \subseteq reqs BY <2>1 DEF DataSets
    <3>4. \A r \in reqs : r.store = Data(t) => r \in sub BY <1>1, <1>2
    <3>5. \A r \in sub : r.op \in {"put", "delete", "clear", "count"}
      BY <3>1, TableRequestOK DEF RequestOK
    <3> HIDE DEF sub
    <3> QED BY <3>2, <3>3, <3>4, <3>5, ConvergesOnStore
  <2>2. CASE t \notin S
    <3>1. \A r \in reqs : r.store # Data(t) BY <1>1, <1>2, <2>2
    <3>2. ConvergesTo(k, n, reqs, Data(t), n) BY <3>1, NothingSent
    <3> QED BY <3>2, <2>2, <1>5
  <2> QED BY <2>1, <2>2
<1> QED BY <1>3, <1>4, <1>5 DEF DataMerged

\* What holds of the requests for the persisted indices of some tables.
IndexMerged(k, P, ids, reqs) ==
    /\ \A r \in reqs : RequestOK(k, r) /\ \E t \in P : r.store = Index(t)
    /\ \A t \in P : \A n : IndexOK(k, n) /\ k # "indexed_db" =>
             ConvergesTo(k, n, reqs, Index(t), IndexImage(k, ids[t]))

\* The requests for the indices are such.
LEMMA IndexSetsAre ==
    ASSUME NEW k \in Kinds, NEW P \in SUBSET Tables, NEW ids \in [Tables -> SUBSET RowId],
           NEW reqs, reqs = IndexSets(k, P, ids)
    PROVE  IndexMerged(k, P, ids, reqs)
<1>1. ASSUME NEW r \in reqs
      PROVE  \E t \in P : /\ r \in IndexSet(k, t, ids[t])
                          /\ RequestOK(k, r) /\ r.store = Index(t)
  <2>1. PICK t \in P : r \in IndexSet(k, t, ids[t]) BY <1>1 DEF IndexSets
  <2>2. t \in Tables /\ ids[t] \in SUBSET RowId OBVIOUS
  <2>3. RequestOK(k, r) /\ r.store = Index(t) BY <2>1, <2>2, IndexRequestOK
  <2> QED BY <2>1, <2>3
<1>2. ASSUME NEW t \in P, NEW n, IndexOK(k, n), k # "indexed_db"
      PROVE  ConvergesTo(k, n, reqs, Index(t), IndexImage(k, ids[t]))
  <2> DEFINE sub == IndexSet(k, t, ids[t])
  <2>1. ConvergesTo(k, n, sub, Index(t), IndexImage(k, ids[t])) BY <1>2, IndexConverges
  <2>2. sub \subseteq reqs BY DEF IndexSets
  <2>3. \A r \in reqs : r.store = Index(t) => r \in sub
    <3> TAKE r \in reqs
    <3> HAVE r.store = Index(t)
    <3>1. PICK u \in P : r \in IndexSet(k, u, ids[u]) /\ r.store = Index(u) BY <1>1
    <3>2. u = t BY <3>1, DataIsNotIndex
    <3> QED BY <3>1, <3>2
  <2>4. \A r \in sub : r.op \in {"put", "delete", "clear", "count"}
    BY RequestFields DEF IndexSet
  <2> HIDE DEF sub
  <2> QED BY <2>1, <2>2, <2>3, <2>4, ConvergesOnStore
<1>3. \A r \in reqs : RequestOK(k, r) /\ \E t \in P : r.store = Index(t) BY <1>1
<1> QED BY <1>2, <1>3 DEF IndexMerged

(* The two together.                                                       *)
LEMMA TogetherConverge ==
    ASSUME NEW k, NEW A, NEW B, NEW n, NEW target, NEW s,
           \A r \in A : r.op \in {"put", "delete", "clear", "count"},
           ConvergesTo(k, n, A, s, target), \A r \in B : r.store # s
    PROVE  ConvergesTo(k, n, A \cup B, s, target)
<1>1. \A r \in A \cup B : r.store = s => r \in A OBVIOUS
<1> QED BY <1>1, ConvergesOnStore

(* What follows a request that is served.                                  *)
LEMMA FollowUpIs ==
    ASSUME NEW n, NEW r
    PROVE  /\ FollowUp(n, r) \in Seq(Range(FollowUp(n, r)))
           /\ \A k : Tidy(k, FollowUp(n, r))
           /\ r.op # "count" => FollowUp(n, r) = <<>>
           /\ r.op = "count" =>
                 \A f \in Range(FollowUp(n, r)) :
                    /\ f.store = r.store
                    /\ f.op = "clear" \/ (f.op = "delete" /\ f.keys = r.ids /\ r.ids # {})
<1>1. CASE r.op # "count"
  <2>1. FollowUp(n, r) = <<>> BY <1>1 DEF FollowUp
  <2> QED BY <2>1, <1>1, EmptyBlock
<1>2. CASE r.op = "count" /\ (r.ids = {} \/ Cardinality(DOMAIN n) = Cardinality(r.ids))
  <2>1. FollowUp(n, r) = <<ClearRequest(r.store)>> BY <1>2 DEF FollowUp
  <2> QED BY <2>1, <1>2, SingleBlock, RequestFields
<1>3. CASE r.op = "count" /\ ~(r.ids = {} \/ Cardinality(DOMAIN n) = Cardinality(r.ids))
  <2>1. FollowUp(n, r) = <<DeleteRequest(r.store, r.ids)>> BY <1>3 DEF FollowUp
  <2> QED BY <2>1, <1>3, SingleBlock, RequestFields
<1> QED BY <1>1, <1>2, <1>3

\* Only IndexedDB counts.
CountsOnly(k, reqs) == \A r \in reqs : r.op = "count" => k = "indexed_db"

\* The queue after its first request is served.
MovesOn(k, queue, n, q) ==
    /\ q \in Seq(Range(q)) /\ Tidy(k, q)
    /\ Range(q) = Range(Tail(queue)) \cup Range(FollowUp(n, Head(queue)))
    /\ Range(queue) = {Head(queue)} \cup Range(Tail(queue))
    /\ \A m : Serving(k, Head(queue), m, Range(Tail(queue)))

\* It is tidy still.
LEMMA QueueAfter ==
    ASSUME NEW k, NEW queue, queue \in Seq(Range(queue)), queue # <<>>, Tidy(k, queue),
           CountsOnly(k, Range(queue)),
           NEW n, NEW q, q = Tail(queue) \o FollowUp(n, Head(queue))
    PROVE  MovesOn(k, queue, n, q)
<1> DEFINE tail == Tail(queue)
           head == Head(queue)
           more == FollowUp(n, head)
           U == Range(tail) \cup Range(more)
           R == FollowPairs(k, U)
<1>1. /\ Len(queue) \in Nat /\ Len(queue) >= 1 /\ DOMAIN queue = 1 .. Len(queue)
      /\ head = queue[1] /\ tail \in Seq(Range(queue)) /\ Len(tail) = Len(queue) - 1
      /\ DOMAIN tail = 1 .. Len(queue) - 1
      /\ \A i \in 1 .. Len(queue) - 1 : tail[i] = queue[i + 1]
  OBVIOUS
<1>2. more \in Seq(Range(more)) /\ Tidy(k, more) BY FollowUpIs
<1> HIDE DEF tail, head
<1>3. Range(queue) = {head} \cup Range(tail)
  <2>1. ASSUME NEW i \in DOMAIN queue PROVE queue[i] \in {head} \cup Range(tail)
    <3>1. CASE i = 1 BY <3>1, <1>1
    <3>2. CASE i # 1
      <4>1. i - 1 \in 1 .. Len(queue) - 1 BY <1>1, <3>2
      <4>2. tail[i - 1] = queue[i] BY <4>1, <1>1
      <4> QED BY <4>1, <4>2, <1>1 DEF Range
    <3> QED BY <3>1, <3>2
  <2>2. ASSUME NEW i \in DOMAIN tail PROVE tail[i] \in Range(queue)
    <3>1. i + 1 \in DOMAIN queue BY <1>1
    <3> QED BY <3>1, <1>1 DEF Range
  <2>3. head \in Range(queue)
    <3>1. 1 \in DOMAIN queue BY <1>1
    <3> QED BY <3>1, <1>1 DEF Range
  <2> QED BY <2>1, <2>2, <2>3 DEF Range
<1>4. tail \in Seq(Range(tail))
  <2>1. tail = [i \in 1 .. Len(queue) - 1 |-> tail[i]] BY <1>1
  <2>2. \A i \in 1 .. Len(queue) - 1 : tail[i] \in Range(tail) BY <1>1 DEF Range
  <2>3. Len(queue) - 1 \in Nat BY <1>1
  <2> QED BY <2>1, <2>2, <2>3
<1>5. Tidy(k, tail)
  <2> SUFFICES ASSUME NEW i \in DOMAIN tail, NEW j \in DOMAIN tail, i < j,
                      tail[i].store = tail[j].store
               PROVE  Follows(k, tail[i], tail[j])
    BY DEF Tidy
  <2>1. /\ i + 1 \in DOMAIN queue /\ j + 1 \in DOMAIN queue /\ i + 1 < j + 1
        /\ tail[i] = queue[i + 1] /\ tail[j] = queue[j + 1]
    BY <1>1
  <2> QED BY <2>1 DEF Tidy
<1>6. \A m : Serving(k, head, m, Range(tail))
  <2> TAKE m
  <2>1. ASSUME NEW x \in Range(tail), x.store = head.store PROVE Follows(k, head, x)
    <3>1. PICK i \in DOMAIN tail : x = tail[i] BY <2>1 DEF Range
    <3>2. /\ 1 \in DOMAIN queue /\ i + 1 \in DOMAIN queue /\ 1 < i + 1
          /\ x = queue[i + 1] /\ head = queue[1]
      BY <3>1, <1>1
    <3> QED BY <3>2, <2>1 DEF Tidy
  <2>2. head \in Range(queue) BY <1>3
  <2> QED BY <2>1, <2>2 DEF Serving, Follows, CountsOnly
<1>7. \A x \in Range(tail), y \in Range(more) : <<x, y>> \in R
  <2> TAKE x \in Range(tail), y \in Range(more)
  <2>1. head.op = "count"
    <3> SUFFICES ASSUME head.op # "count" PROVE FALSE OBVIOUS
    <3>1. more = <<>> BY FollowUpIs
    <3> QED BY <3>1, EmptyBlock
  <2>2. k = "indexed_db" BY <2>1, <1>3 DEF CountsOnly
  <2>3. y.op # "count" BY <2>1, FollowUpIs
  <2>4. Follows(k, x, y) BY <2>2, <2>3 DEF Follows
  <2> QED BY <2>4 DEF FollowPairs
<1> HIDE DEF more, U
<1>8. tail \in Seq(U) /\ more \in Seq(U) /\ Range(tail) \subseteq U /\ Range(more) \subseteq U
  BY <1>2, <1>4 DEF U
<1>9. Ordered(tail, R) /\ Ordered(more, R) BY <1>2, <1>5, <1>8, TidyIsOrdered
<1>q. q = tail \o more BY DEF tail, head, more
<1> HIDE DEF R
<1>10. /\ tail \o more \in Seq(U) /\ Range(tail \o more) = Range(tail) \cup Range(more)
       /\ Ordered(tail \o more, R)
  BY ONLY <1>7, <1>8, <1>9, ConcatIs
<1>11. Range(q) = U BY <1>q, <1>10 DEF U
<1>12. Tidy(k, q) BY <1>q, <1>10, <1>11, TidyIsOrdered DEF R
<1>13. q \in Seq(Range(q)) BY <1>q, <1>10, <1>11
<1> QED BY <1>3, <1>6, <1>11, <1>12, <1>13 DEF MovesOn, tail, head, more, U

\* The native operations.
Operations == {"put", "delete", "clear", "count"}

\* A request changes one store.
LEMMA AppliedToIs ==
    ASSUME NEW stores, stores = [s \in Stores |-> stores[s]], NEW r, r.store \in Stores
    PROVE  /\ AppliedTo(stores, r) = [s \in Stores |-> AppliedTo(stores, r)[s]]
           /\ \A s \in Stores : AppliedTo(stores, r)[s] =
                    IF s = r.store THEN Applied(stores[s], r) ELSE stores[s]
<1>1. AppliedTo(stores, r) = [stores EXCEPT ![r.store] = Applied(stores[r.store], r)]
  BY DEF AppliedTo
<1>2. DOMAIN stores = Stores OBVIOUS
<1>3. AppliedTo(stores, r) = [s \in Stores |-> IF s = r.store THEN Applied(stores[r.store], r)
                                               ELSE stores[s]]
  BY <1>1, <1>2
<1> QED BY <1>3

\* And keeps it finite.
LEMMA AppliedFinite ==
    ASSUME NEW n, n = [key \in DOMAIN n |-> n[key]], IsFiniteSet(DOMAIN n),
           NEW r, r.op \in Operations
    PROVE  /\ Applied(n, r) = [key \in DOMAIN Applied(n, r) |-> Applied(n, r)[key]]
           /\ IsFiniteSet(DOMAIN Applied(n, r))
<1>1. CASE r.op = "put"
  <2>1. Applied(n, r) = [y \in DOMAIN n \cup {r.key} |-> IF y = r.key THEN r.record ELSE n[y]]
    BY <1>1 DEF Applied, Put
  <2>2. IsFiniteSet(DOMAIN n \cup {r.key}) BY FS_AddElement
  <2> QED BY <2>1, <2>2
<1>2. CASE r.op = "delete"
  <2>1. Applied(n, r) = [key \in DOMAIN n \ r.keys |-> n[key]]
    BY <1>2 DEF Applied, Without, Restrict
  <2>2. IsFiniteSet(DOMAIN n \ r.keys) BY FS_Subset
  <2> QED BY <2>1, <2>2
<1>3. CASE r.op = "clear"
  <2>1. Applied(n, r) = [x \in {} |-> x] BY <1>3 DEF Applied, None
  <2> QED BY <2>1, FS_EmptySet
<1>4. CASE r.op = "count"
  <2>1. Applied(n, r) = n BY <1>4 DEF Applied
  <2> QED BY <2>1
<1> QED BY <1>1, <1>2, <1>3, <1>4 DEF Operations

\* In memory, where all requests are served at once, a store becomes what its
\* requests converge to; by induction on the queue.
LEMMA ServedConverges ==
    ASSUME NEW queue, queue \in Seq(Range(queue)), Tidy("memory", queue),
           \A r \in Range(queue) : r.op \in Operations /\ r.op # "count" /\ r.store \in Stores,
           NEW stores, stores = [s \in Stores |-> stores[s]],
           NEW s \in Stores, NEW target, target = [key \in DOMAIN target |-> target[key]],
           stores[s] = [key \in DOMAIN stores[s] |-> stores[s][key]],
           IsFiniteSet(DOMAIN stores[s]),
           ConvergesTo("memory", stores[s], Range(queue), s, target)
    PROVE  Served(stores, queue)[s] = target
<1>1. PICK after : /\ ServedBy(after, stores, queue)
                   /\ Served(stores, queue) = after[Len(queue)]
  BY ServedIs
<1>2. Len(queue) \in Nat /\ DOMAIN queue = 1 .. Len(queue) OBVIOUS
<1> DEFINE rest(m) == {queue[i] : i \in m + 1 .. Len(queue)}
           Good(m) == /\ after[m] = [x \in Stores |-> after[m][x]]
                      /\ after[m][s] = [key \in DOMAIN after[m][s] |-> after[m][s][key]]
                      /\ IsFiniteSet(DOMAIN after[m][s])
                      /\ ConvergesTo("memory", after[m][s], rest(m), s, target)
           S == {m \in Nat : m <= Len(queue) => Good(m)}
<1>3. 0 \in S
  <2>1. after[0] = stores BY <1>1 DEF ServedBy
  <2>2. rest(0) = Range(queue) BY <1>2 DEF Range
  <2> HIDE DEF rest
  <2> QED BY <2>1, <2>2
<1>4. ASSUME NEW m \in Nat, m \in S PROVE m + 1 \in S
  <2> SUFFICES ASSUME m + 1 <= Len(queue) PROVE Good(m + 1) OBVIOUS
  <2> DEFINE r == queue[m + 1]
  <2>1. m + 1 \in DOMAIN queue /\ r \in Range(queue) BY <1>2 DEF Range
  <2>2. Good(m) BY <1>4, <1>2
  <2>3. after[m + 1] = AppliedTo(after[m], r)
    <3>1. m + 1 \in 1 .. Len(queue) /\ (m + 1) - 1 = m BY <1>2
    <3> QED BY <3>1, <1>1 DEF ServedBy
  <2>4. rest(m) = {r} \cup rest(m + 1)
    <3>1. ASSUME NEW i \in m + 1 .. Len(queue)
          PROVE  queue[i] \in {r} \cup rest(m + 1)
      <4>1. i = m + 1 \/ i \in m + 1 + 1 .. Len(queue) BY <1>2
      <4> QED BY <4>1
    <3>2. ASSUME NEW i \in m + 1 + 1 .. Len(queue) PROVE queue[i] \in rest(m)
      <4>1. i \in m + 1 .. Len(queue) BY <1>2
      <4> QED BY <4>1
    <3>3. m + 1 \in m + 1 .. Len(queue) BY <1>2
    <3> QED BY <3>1, <3>2, <3>3
  <2>5. \A q \in rest(m + 1) : q \in Range(queue) /\ (q.store = r.store => Follows("memory", r, q))
    <3> TAKE q \in rest(m + 1)
    <3>1. PICK i \in m + 1 + 1 .. Len(queue) : q = queue[i] OBVIOUS
    <3>2. i \in DOMAIN queue /\ m + 1 < i BY <1>2
    <3>3. q \in Range(queue) BY <3>1, <3>2 DEF Range
    <3> QED BY <3>1, <3>2, <3>3, <2>1 DEF Tidy
  <2> HIDE DEF rest, r
  <2>6. r.op \in Operations /\ r.op # "count" /\ r.store \in Stores BY <2>1
  <2>7. \A x \in rest(m + 1) : x.op \in Operations BY <2>5
  <2>8. Serving("memory", r, after[m][s], rest(m + 1)) BY <2>5, <2>6 DEF Serving, Follows
  <2>9. Range(FollowUp(after[m][s], r)) = {} BY <2>6, FollowUpIs, EmptyBlock
  <2> DEFINE n == after[m][s]
  <2>10. /\ after[m + 1] = [x \in Stores |-> after[m + 1][x]]
         /\ after[m + 1][s] = IF s = r.store THEN Applied(n, r) ELSE n
    BY <2>2, <2>3, <2>6, AppliedToIs
  <2>11. /\ r.store = s => ConvergesTo("memory", Applied(n, r), rest(m + 1), s, target)
         /\ r.store # s => ConvergesTo("memory", n, rest(m + 1), s, target)
    <3>1. /\ IsFiniteSet(DOMAIN n) /\ ConvergesTo("memory", n, {r} \cup rest(m + 1), s, target)
      BY <2>2, <2>4
    <3> HIDE DEF n
    <3> DEFINE k == "memory"
               more == rest(m + 1)
               all == rest(m)
    <3>2. /\ IsFiniteSet(DOMAIN n)
          /\ r.op \in {"put", "delete", "clear", "count"}
          /\ \A q \in more : q.op \in {"put", "delete", "clear", "count"}
          /\ ConvergesTo(k, n, all, s, target)
          /\ Serving(k, r, n, more)
          /\ all = {r} \cup more
      BY <3>1, <2>4, <2>6, <2>7, <2>8 DEF Operations, n
    <3>3. more = more \cup Range(FollowUp(n, r)) BY <2>9 DEF n
    <3> HIDE DEF k, more, all
    <3>4. r.store = s => ConvergesTo(k, Applied(n, r), more, s, target)
      BY ONLY <3>2, <3>3, ServedHere
    <3>5. r.store # s => ConvergesTo(k, n, more, s, target)
      BY ONLY <3>2, <3>3, ServedElsewhere
    <3> QED BY <3>4, <3>5 DEF k, more
  <2>12. /\ Applied(n, r) = [key \in DOMAIN Applied(n, r) |-> Applied(n, r)[key]]
         /\ IsFiniteSet(DOMAIN Applied(n, r))
    BY <2>2, <2>6, AppliedFinite
  <2>13. CASE r.store = s
    <3>1. after[m + 1][s] = Applied(n, r) BY <2>10, <2>13
    <3> QED BY <3>1, <2>10, <2>11, <2>12, <2>13
  <2>14. CASE r.store # s
    <3>1. after[m + 1][s] = n BY <2>10, <2>14
    <3> QED BY <3>1, <2>2, <2>10, <2>11, <2>14
  <2> QED BY <2>13, <2>14
<1>5. \A m \in Nat : m \in S
  <2>1. 0 \in S /\ \A m \in Nat : m \in S => m + 1 \in S BY <1>3, <1>4
  <2> HIDE DEF S
  <2> QED BY ONLY <2>1, Induction
<1>6. Good(Len(queue))
  <2>1. Len(queue) \in S BY <1>5, <1>2
  <2> HIDE DEF Good
  <2> QED BY <2>1, <1>2
<1>7. rest(Len(queue)) = {} BY <1>2
<1> DEFINE n == after[Len(queue)][s]
<1>8. n = [key \in DOMAIN n |-> n[key]] /\ ConvergesTo("memory", n, {}, s, target)
  BY <1>6, <1>7
<1> HIDE DEF n
<1>9. n = target BY <1>8, ConvergesDone
<1> QED BY <1>1, <1>9 DEF n

\* Serving a queue adds no store.
LEMMA ServedStores ==
    ASSUME NEW queue, queue \in Seq(Range(queue)), \A r \in Range(queue) : r.store \in Stores,
           NEW stores, stores = [s \in Stores |-> stores[s]]
    PROVE  Served(stores, queue) = [s \in Stores |-> Served(stores, queue)[s]]
<1>1. PICK after : /\ ServedBy(after, stores, queue)
                   /\ Served(stores, queue) = after[Len(queue)]
  BY ServedIs
<1>2. Len(queue) \in Nat /\ DOMAIN queue = 1 .. Len(queue) OBVIOUS
<1> DEFINE S == {m \in Nat : m <= Len(queue) => after[m] = [x \in Stores |-> after[m][x]]}
<1>3. 0 \in S BY <1>1 DEF ServedBy
<1>4. ASSUME NEW m \in Nat, m \in S PROVE m + 1 \in S
  <2> SUFFICES ASSUME m + 1 <= Len(queue)
               PROVE  after[m + 1] = [x \in Stores |-> after[m + 1][x]]
    OBVIOUS
  <2>1. queue[m + 1] \in Range(queue) BY <1>2 DEF Range
  <2>2. after[m] = [x \in Stores |-> after[m][x]] BY <1>4, <1>2
  <2>3. after[m + 1] = AppliedTo(after[m], queue[m + 1])
    <3>1. m + 1 \in 1 .. Len(queue) /\ (m + 1) - 1 = m BY <1>2
    <3> QED BY <3>1, <1>1 DEF ServedBy
  <2> DEFINE a == after[m]
             r == queue[m + 1]
  <2>4. a = [x \in Stores |-> a[x]] /\ r.store \in Stores BY <2>1, <2>2
  <2> HIDE DEF a, r
  <2>5. AppliedTo(a, r) = [x \in Stores |-> AppliedTo(a, r)[x]] BY <2>4, AppliedToIs
  <2> QED BY <2>3, <2>5 DEF a, r
<1>5. \A m \in Nat : m \in S
  <2>1. 0 \in S /\ \A m \in Nat : m \in S => m + 1 \in S BY <1>3, <1>4
  <2> HIDE DEF S
  <2> QED BY ONLY <2>1, Induction
<1>6. Len(queue) \in S BY <1>2, <1>5
<1>7. after[Len(queue)] = [x \in Stores |-> after[Len(queue)][x]] BY <1>2, <1>6
<1> QED BY <1>1, <1>7

\* The greatest row id of a store, at least as great as any.
LEMMA LastRowIdIs ==
    ASSUME NEW k, NEW n, StoreOK(k, n)
    PROVE  /\ LastRowId(k, n) \in 0 .. MaxRowId
           /\ \A id \in DOMAIN GetAll(k, n) : id \in Nat /\ id <= LastRowId(k, n)
<1>0. MaxRowId \in Nat /\ RowId \subseteq 0 .. MaxRowId
  BY StoresAssumption DEF RowId
<1>1. DOMAIN n \subseteq 0 .. MaxRowId BY <1>0 DEF StoreOK
<1>2. CASE DOMAIN n = {}
  <2>1. DOMAIN GetAll(k, n) = {} BY <1>2 DEF GetAll, BundledGetAll
  <2>2. LastRowId(k, n) = 0 BY <1>2 DEF LastRowId
  <2> QED BY <2>1, <2>2, <1>0
<1>3. CASE DOMAIN n # {} /\ k # "bundled"
  <2>1. Max(DOMAIN n) \in DOMAIN n /\ \A y \in DOMAIN n : Max(DOMAIN n) >= y
    BY <1>0, <1>1, <1>3, MaxIs
  <2>2. LastRowId(k, n) = Max(DOMAIN n) /\ GetAll(k, n) = n BY <1>3 DEF LastRowId, GetAll
  <2> QED BY <2>1, <2>2, <1>1, <1>0
<1>4. CASE DOMAIN n # {} /\ k = "bundled"
  <2> DEFINE last == Max(DOMAIN n)
             ids == DOMAIN n[last] \cup {0}
             all == BundledGetAll(n)
  <2>1. last \in DOMAIN n /\ \A y \in DOMAIN n : last >= y
    BY <1>0, <1>1, <1>4, MaxIs
  <2>2. LastRowId(k, n) = Max(ids) /\ GetAll(k, n) = all BY <1>4 DEF LastRowId, GetAll
  <2> HIDE DEF last
  <2>3. /\ n[last] \in RowMap /\ DOMAIN n[last] # {} /\ DOMAIN n[last] \subseteq getPageRange(last)
        /\ last \in RowId
    BY <2>1, <1>4 DEF StoreOK, RecordOK
  <2>4. DOMAIN n[last] \subseteq RowId BY <2>3, RowMapIs
  <2>5. ids # {} /\ ids \subseteq 0 .. MaxRowId
    <3>1. 0 \in 0 .. MaxRowId BY <1>0
    <3>2. \A x \in DOMAIN n[last] : x \in 0 .. MaxRowId
      <4> TAKE x \in DOMAIN n[last]
      <4>1. x \in RowId BY <2>4
      <4> QED BY <4>1, <1>0 DEF RowId
    <3> QED BY <3>1, <3>2
  <2> DEFINE top == Max(ids)
  <2> HIDE DEF ids
  <2>6. top \in ids /\ \A y \in ids : top >= y BY <2>5, <1>0, MaxIs
  <2> HIDE DEF top
  <2>7. top \in 0 .. MaxRowId BY <2>5, <2>6
  <2>8. /\ \A id : id \in DOMAIN all <=>
             /\ id \in RowId /\ toPageId(id) \in DOMAIN n
             /\ id \in DOMAIN n[toPageId(id)]
    BY <1>4, BundledGetAllIs
  <2> HIDE DEF all
  <2>9. ASSUME NEW id \in DOMAIN all PROVE id \in Nat /\ id <= top
    <3> DEFINE p == toPageId(id)
    <3>1. id \in RowId /\ p \in DOMAIN n /\ id \in DOMAIN n[p] BY <2>8, <2>9
    <3>2. id \in Nat /\ p \in Nat /\ last \in Nat /\ id \in getPageRange(p)
      BY <3>1, <2>3, RowIdPages, PageIs
    <3> HIDE DEF p
    <3>3. CASE p = last
      <4>1. id \in ids BY <3>1, <3>3 DEF ids
      <4> QED BY <4>1, <2>6, <3>2, <2>7
    <3>4. CASE p # last
      <4>1. p + 1 <= last BY <3>1, <3>2, <3>4, <2>1
      <4>2. PICK x \in DOMAIN n[last] : TRUE BY <2>3
      <4>3. x \in Nat /\ x \in getPageRange(last) BY <4>2, <2>3, <2>4, RowIdPages
      <4>4. x <= top
        <5>1. x \in ids BY <4>2 DEF ids
        <5> QED BY <5>1, <2>6, <4>3, <2>7
      <4>5. PageSize \in Nat /\ PageSize >= 1 BY PageSizeAssumption
      <4>6. id <= (p + 1) * PageSize - 1 /\ last * PageSize <= x
        BY <3>2, <4>3, <4>5 DEF getPageRange
      <4>7. (p + 1) * PageSize <= last * PageSize
        <5>1. PageSize * (p + 1) <= PageSize * last BY <4>1, <4>5, <3>2
        <5>2. PageSize * (p + 1) = (p + 1) * PageSize /\ PageSize * last = last * PageSize
          BY <4>5, <3>2
        <5> QED BY <5>1, <5>2
      <4>8. (p + 1) * PageSize \in Int /\ last * PageSize \in Int BY <4>5, <3>2
      <4> QED BY <4>4, <4>6, <4>7, <4>8, <3>2, <4>3, <2>7
    <3> QED BY <3>3, <3>4
  <2> QED BY <2>2, <2>7, <2>9 DEF top
<1> QED BY <1>2, <1>3, <1>4

\* And of all stores.
LEMMA ScanIs ==
    ASSUME NEW k, NEW stores, \A t \in Tables : StoreOK(k, stores[Data(t)])
    PROVE  /\ scanRowId(k, stores) \in 0 .. MaxRowId
           /\ \A t \in Tables : \A id \in DOMAIN GetAll(k, stores[Data(t)]) :
                 id \in Nat /\ id <= scanRowId(k, stores)
<1> DEFINE S == {LastRowId(k, stores[Data(t)]) : t \in Tables} \cup {0}
<1>0. MaxRowId \in Nat BY StoresAssumption
<1>1. \A t \in Tables : LastRowId(k, stores[Data(t)]) \in 0 .. MaxRowId BY LastRowIdIs
<1>2. S # {} /\ S \subseteq 0 .. MaxRowId BY <1>0, <1>1
<1>3. scanRowId(k, stores) = Max(S) BY DEF scanRowId
<1>s. \A t \in Tables : LastRowId(k, stores[Data(t)]) \in S OBVIOUS
<1> HIDE DEF S
<1>4. Max(S) \in S /\ \A y \in S : Max(S) >= y BY <1>0, <1>2, MaxIs
<1>5. ASSUME NEW t \in Tables, NEW id \in DOMAIN GetAll(k, stores[Data(t)])
      PROVE  id \in Nat /\ id <= scanRowId(k, stores)
  <2>1. id \in Nat /\ id <= LastRowId(k, stores[Data(t)]) BY LastRowIdIs
  <2>2. Max(S) >= LastRowId(k, stores[Data(t)]) /\ Max(S) \in 0 .. MaxRowId
    BY <1>2, <1>4, <1>s
  <2> QED BY <2>1, <2>2, <1>1, <1>3
<1>6. scanRowId(k, stores) \in 0 .. MaxRowId BY <1>2, <1>3, <1>4
<1> QED BY <1>5, <1>6

\* nextId is raised past it.
LEMMA NextIdIs ==
    ASSUME NEW a \in Nat, NEW b \in Nat
    PROVE  Max({a, b + 1}) \in Nat /\ Max({a, b + 1}) >= a /\ Max({a, b + 1}) > b
<1> DEFINE S == {a, b + 1}
<1>1. S # {} /\ S \subseteq 0 .. (a + b + 1) /\ a + b + 1 \in Nat OBVIOUS
<1>2. a \in S /\ b + 1 \in S OBVIOUS
<1>3. Max(S) \in S /\ \A y \in S : Max(S) >= y
  <2> HIDE DEF S
  <2> QED BY <1>1, MaxIs
<1> QED BY <1>2, <1>3

(* Stores of persisted indices.                                            *)
LEMMA IndexReadIs ==
    ASSUME NEW k \in Kinds
    PROVE  /\ IndexRead(k, None) = {}
           /\ \A ids : IndexRead(k, IndexImage(k, ids)) = ids
           /\ \A n : IndexOK(k, n) => IndexRead(k, n) \subseteq RowId
<1>1. IndexRead(k, None) = {}
  <2>1. DOMAIN GetAll(k, None) = {} BY DEF GetAll, BundledGetAll, None
  <2> QED BY <2>1 DEF IndexRead
<1>2. ASSUME NEW ids PROVE IndexRead(k, IndexImage(k, ids)) = ids
  BY IndexDeserialized DEF IndexRead
<1>3. ASSUME NEW n, IndexOK(k, n) PROVE IndexRead(k, n) \subseteq RowId
  BY <1>1, <1>2, <1>3 DEF IndexOK
<1> QED BY <1>1, <1>2, <1>3

-----------------------------------------------------------------------------
(* What is stored when nothing is left to serve.                           *)

\* A request leaves an index store one.
LEMMA IndexAppliedOK ==
    ASSUME NEW k, NEW n, IndexOK(k, n), NEW r, r.op \in {"put", "clear", "count"},
           r.op = "put" => /\ r.key = ROW_ID
                           /\ \E ids \in SUBSET RowId : r.record = IndexRecord(k, ids)
    PROVE  IndexOK(k, Applied(n, r))
<1>1. CASE r.op = "put"
  <2>1. PICK ids \in SUBSET RowId : r.record = IndexRecord(k, ids) BY <1>1
  <2>2. DOMAIN n \subseteq {ROW_ID} BY DEF IndexOK, IndexImage, Put, None
  <2>3. Applied(n, r) = Put(n, ROW_ID, IndexRecord(k, ids)) BY <1>1, <2>1 DEF Applied
  <2>4. Put(n, ROW_ID, IndexRecord(k, ids)) = IndexImage(k, ids)
    BY <2>2 DEF IndexImage, Put, None
  <2> QED BY <2>3, <2>4 DEF IndexOK
<1>2. CASE r.op = "clear"
  <2>1. Applied(n, r) = None BY <1>2 DEF Applied
  <2> QED BY <2>1 DEF IndexOK
<1>3. CASE r.op = "count"
  <2>1. Applied(n, r) = n BY <1>3 DEF Applied
  <2> QED BY <2>1
<1> QED BY <1>1, <1>2, <1>3

\* An index store is finite.
LEMMA IndexIsFunction ==
    ASSUME NEW k, NEW n, IndexOK(k, n)
    PROVE  /\ n = [key \in DOMAIN n |-> n[key]]
           /\ IsFiniteSet(DOMAIN n)
<1>1. n = [key \in DOMAIN n |-> n[key]] /\ (DOMAIN n = {} \/ DOMAIN n = {ROW_ID})
  BY DEF IndexOK, IndexImage, Put, None
<1>2. IsFiniteSet({}) /\ IsFiniteSet({ROW_ID}) BY FS_EmptySet, FS_Singleton
<1> QED BY <1>1, <1>2

\* When nothing is left to serve an index store holds the index.
LEMMA IndexSettled ==
    ASSUME NEW k \in Kinds, NEW n, IndexOK(k, n), NEW s, NEW ids,
           ConvergesTo(k, n, {}, s, IndexImage(k, ids))
    PROVE  IndexRead(k, n) = ids
<1> DEFINE target == IndexImage(k, ids)
<1>1. target = [key \in DOMAIN target |-> target[key]] BY DEF IndexImage, Put
<1>2. n = [key \in DOMAIN n |-> n[key]] BY IndexIsFunction
<1> HIDE DEF target
<1>3. ConvergesTo(k, n, {}, s, target) BY DEF target
<1>4. n = target BY <1>1, <1>2, <1>3, ConvergesDone
<1> QED BY <1>4, IndexReadIs DEF target

\* And a data store holds the rows.
LEMMA DataSettled ==
    ASSUME NEW k, NEW n, StoreOK(k, n), NEW s, NEW rows \in RowMap,
           ConvergesTo(k, n, {}, s, Image(k, rows))
    PROVE  GetAll(k, n) = rows
<1> DEFINE target == Image(k, rows)
<1>1. StoreOK(k, target) /\ GetAll(k, target) = rows BY ImageIs
<1>2. target = [key \in DOMAIN target |-> target[key]] BY <1>1 DEF StoreOK
<1>3. n = [key \in DOMAIN n |-> n[key]] BY DEF StoreOK
<1> HIDE DEF target
<1>4. ConvergesTo(k, n, {}, s, target) BY DEF target
<1>5. n = target BY <1>2, <1>3, <1>4, ConvergesDone
<1> QED BY <1>1, <1>5

\* The empty store, which is also no rows.
LEMMA NoneIs ==
    /\ None \in RowMap /\ \A k : StoreOK(k, None) /\ IndexOK(k, None) /\ GetAll(k, None) = None
    /\ \A ids, versions : Within(None, ids, versions)
    /\ DOMAIN None = {}
<1>1. DOMAIN None = {} /\ None = [x \in DOMAIN None |-> None[x]] BY DEF None
<1>2. None \in RowMap BY <1>1, RowMapIs
<1>3. \A k : StoreOK(k, None) /\ IndexOK(k, None) BY <1>1 DEF StoreOK, IndexOK
<1>4. \A k : GetAll(k, None) = None BY DEF GetAll, BundledGetAll, None
<1>5. \A ids, versions : Within(None, ids, versions) BY <1>1 DEF Within
<1> QED BY <1>1, <1>2, <1>3, <1>4, <1>5

\* No rows have no contents.
LEMMA ContentsOfNone == Contents(NoRows) = NoRows
<1>1. \A t \in Tables : [id \in DOMAIN NoRows[t] |-> NoRows[t][id].value] = None
  BY DEF NoRows, None
<1>2. Contents(NoRows) = [t \in Tables |-> None] BY <1>1 DEF Contents
<1> QED BY <1>2 DEF NoRows

\* The rows of all tables, as a store has them.
RowsOf(k, stores) == [t \in Tables |-> GetAll(k, stores[Data(t)])]

\* The cache is what is read, table by table.
LEMMA RowsOfIs ==
    ASSUME NEW k, NEW stores, NEW c \in [Tables -> RowMap],
           \A t \in Tables : GetAll(k, stores[Data(t)]) = c[t]
    PROVE  RowsOf(k, stores) = c
BY DEF RowsOf

-----------------------------------------------------------------------------
(* The beginning, and connecting.                                          *)

\* The inductive invariant.
Inv == TypeInv /\ StatusInv /\ OwnInv /\ ColsInv /\ ReplicaInv /\ ExpectedInv /\ IndexInv

\* reconstructPersistentRowIdIndex reads an index.
LEMMA IndexReadHere ==
    ASSUME NEW t
    PROVE  \A stores : reconstructPersistentRowIdIndex(stores, t) = IndexRead(kind, stores[Index(t)])
BY DEF reconstructPersistentRowIdIndex, IndexRead

\* What a connection may find on the medium.
Readable(stores, k, v) ==
    /\ stores = [s \in Stores |-> stores[s]]
    /\ k = "memory" => stores = EmptyDisk
    /\ k # "memory" => \A t \in Tables : /\ StoreOK(k, stores[Data(t)])
                                         /\ IndexOK(k, stores[Index(t)])

\* The empty medium.
LEMMA EmptyStores ==
    /\ EmptyDisk = [s \in Stores |-> EmptyDisk[s]]
    /\ \A t \in Tables : EmptyDisk[Data(t)] = None /\ EmptyDisk[Index(t)] = None
BY DataIsNotIndex DEF EmptyDisk

\* What is read from such a medium.
LEMMA ReadableRows ==
    ASSUME NEW k \in Kinds, NEW v, NEW stores, Readable(stores, k, v), NEW t \in Tables
    PROVE  /\ StoreOK(k, stores[Data(t)]) /\ IndexOK(k, stores[Index(t)])
           /\ GetAll(k, stores[Data(t)]) \in RowMap
           /\ IndexRead(k, stores[Index(t)]) \subseteq RowId
<1>1. StoreOK(k, stores[Data(t)]) /\ IndexOK(k, stores[Index(t)])
  BY EmptyStores, NoneIs DEF Readable
<1> QED BY <1>1, GetAllTyped, IndexReadIs

\* It holds in the beginning.
LEMMA InitKeeps == Init => Inv
<1> SUFFICES ASSUME Init PROVE Inv OBVIOUS
<1> USE DEF Init
<1>1. MaxRowId \in Nat /\ MaxVersion \in Nat /\ MaxVersion >= 1 /\ Kind \subseteq Kinds
      /\ Persistent \subseteq Tables
  BY StoresAssumption
<1>2. /\ kind \in Kinds /\ disk = EmptyDisk /\ native = EmptyDisk
      /\ cache = NoRows /\ before.cache = NoRows
      /\ rowIds = [t \in Tables |-> {}] /\ before.rowIds = [t \in Tables |-> {}]
      /\ requests = <<>> /\ status = "closed" /\ ~unwritten /\ touched = {}
      /\ DOMAIN requests = {} /\ Range(requests) = {}
  BY <1>1, EmptyBlock DEF Snapshot
<1>3. \A t \in Tables : /\ disk[Data(t)] = None /\ disk[Index(t)] = None
                        /\ cache[t] = None /\ before.cache[t] = None
                        /\ rowIds[t] = {} /\ before.rowIds[t] = {}
  BY <1>2, EmptyStores DEF NoRows
<1>4. TypeInv
  <2>1. cache \in [Tables -> RowMap] /\ rowIds \in [Tables -> SUBSET RowId]
    BY NoneIs, <1>2 DEF NoRows
  <2>2. before \in [cache : [Tables -> RowMap], rowIds : [Tables -> SUBSET RowId]]
    BY <2>1 DEF Snapshot
  <2>3. disk = [s \in Stores |-> disk[s]] BY <1>2, EmptyStores
  <2>4. requests \in Seq(Range(requests)) BY <1>2, EmptyBlock
  <2>5. \A t \in Tables : /\ StoreOK(kind, disk[Data(t)]) /\ StoreOK(kind, native[Data(t)])
                          /\ IndexOK(kind, disk[Index(t)]) /\ IndexOK(kind, native[Index(t)])
    BY <1>2, <1>3, NoneIs
  <2>6. version \in 0 .. MaxVersion /\ schema \in 1 .. MaxVersion /\ nextId \in 0 .. MaxRowId
    BY <1>1
  <2>7. /\ made = FALSE /\ unwritten = FALSE /\ lost = FALSE /\ halfUpgraded = FALSE
        /\ dropped = {} /\ status = "closed" /\ touched = {}
    OBVIOUS
  <2>8. {made, unwritten, lost, halfUpgraded} \subseteq BOOLEAN BY <2>7
  <2>9. native = [s \in Stores |-> native[s]] BY <1>2, EmptyStores
  <2>10. \A i \in DOMAIN requests : RequestOK(kind, requests[i]) BY <1>2
  <2> QED BY ONLY <1>2, <2>1, <2>2, <2>3, <2>4, <2>5, <2>6, <2>7, <2>8, <2>9, <2>10 DEF TypeInv
<1>5. StatusInv BY <1>2 DEF StatusInv, Sending, Away
<1>6. OwnInv
  <2> DEFINE own == [t \in Tables |-> {}]
  <2>1. own \in [Tables -> SUBSET RowId] OBVIOUS
  <2>2. Owns(own)
    BY <1>2, <1>3, NoneIs DEF Owns, Disjoint, MemoryWithin, RequestsWithin, DiskWithin, RowsAt, Live
  <2> HIDE DEF own
  <2> QED BY <2>1, <2>2 DEF OwnInv
<1>7. ColsInv
  BY <1>2, <1>3, NoneIs DEF ColsInv, MemoryWithin, RequestsWithin, DiskWithin, RowsAt
<1>8. ReplicaInv BY <1>2 DEF ReplicaInv, ReplicaOf, Sending, Tidy
<1>9. ExpectedInv
  <2>1. OnDisk(disk) = Contents(NoRows)
    <3>1. [t \in Tables |-> GetAll(kind, disk[Data(t)])] = NoRows
      BY <1>3, NoneIs DEF NoRows
    <3> QED BY <3>1 DEF OnDisk
  <2> QED BY <2>1, <1>2, ContentsOfNone DEF ExpectedInv, Sending
<1>10. IndexInv
  <2>1. IndexRead(kind, None) = {} /\ GetAll(kind, None) = None /\ DOMAIN None = {}
    BY <1>2, NoneIs, IndexReadIs
  <2>2. \A t \in Tables : /\ IndexAt(native, t) = {} /\ IndexAt(disk, t) = {}
                          /\ RowsAt(native, t) = None /\ RowsAt(disk, t) = None
    BY <1>2, <1>3, <2>1 DEF IndexAt, RowsAt
  <2> QED BY <1>2, <1>3, <2>1, <2>2 DEF IndexInv, Sending
<1> QED BY <1>4, <1>5, <1>6, <1>7, <1>8, <1>9, <1>10 DEF Inv

(* A connection to stores that hold what the invariants say, if it succeeds. *)
LEMMA ConnectsKeeps ==
    ASSUME Inv, NEW stores, Connected(stores), status' = "idle",
           Readable(stores, kind, version),
           kind' = kind, disk' = stores, native' = stores, version' \in 0 .. MaxVersion,
           made' \in BOOLEAN, schema' = schema, before' = before, touched' = touched,
           requests' = requests, unwritten' = unwritten, ~unwritten, halfUpgraded' = halfUpgraded,
           status \in Away, dropped \subseteq dropped', dropped' \subseteq Persistent,
           kind # "memory" => version' = schema,
           kind # "memory" => \A t \in Tables, ids \in SUBSET RowId :
               Within(GetAll(kind, disk[Data(t)]), ids, Versions)
               => Within(GetAll(kind, stores[Data(t)]), ids, Versions),
           kind # "memory" /\ ~halfUpgraded => \A t \in Tables :
               Within(GetAll(kind, stores[Data(t)]), RowId, {schema}),
           kind \notin {"memory", "indexed_db"} => \A t \in Persistent \ dropped' :
               IndexRead(kind, stores[Index(t)]) = DOMAIN GetAll(kind, stores[Data(t)])
    PROVE  Inv'
<1>1. MaxRowId \in Nat /\ MaxVersion \in Nat /\ Persistent \subseteq Tables BY StoresAssumption
<1>2. /\ kind \in Kinds /\ requests = <<>> /\ touched = {}
      /\ cache = NoRows /\ before.cache = NoRows
      /\ rowIds = [t \in Tables |-> {}] /\ before.rowIds = [t \in Tables |-> {}]
      /\ DOMAIN requests = {} /\ Range(requests) = {}
      /\ nextId \in 0 .. MaxRowId
      /\ before \in [cache : [Tables -> RowMap], rowIds : [Tables -> SUBSET RowId]]
  BY EmptyBlock DEF Inv, TypeInv, StatusInv, Away, Sending
<1>3. /\ status' = "idle" /\ lost' = FALSE
      /\ cache' = [t \in Tables |-> GetAll(kind, stores[Data(t)])]
      /\ rowIds' = [t \in Tables |-> IF t \in Persistent THEN IndexRead(kind, stores[Index(t)])
                                     ELSE DOMAIN GetAll(kind, stores[Data(t)])]
      /\ expected' = {OnDisk(stores)}
      /\ setNextIdIfGreater(stores) /\ nextId' <= MaxRowId
  <2>1. /\ status' = "idle" /\ lost' = FALSE /\ prefetch(stores) /\ expected' = {OnDisk(stores)}
        /\ setNextIdIfGreater(stores) /\ nextId' <= MaxRowId
    BY DEF Connected
  <2> DEFINE fetched == [t \in Tables |-> IF t \in Persistent
                                     THEN fetchTableWithPersistentIndices(stores, t)
                                     ELSE fetchTable(stores, t)]
  <2>2. /\ cache' = [t \in Tables |-> fetched[t].rows]
        /\ rowIds' = [t \in Tables |-> fetched[t].index]
    BY <2>1 DEF prefetch
  <2>3. \A t \in Tables : /\ fetched[t].rows = GetAll(kind, stores[Data(t)])
                          /\ fetched[t].index = IF t \in Persistent
                                                THEN IndexRead(kind, stores[Index(t)])
                                                ELSE DOMAIN GetAll(kind, stores[Data(t)])
    BY IndexReadHere DEF fetchTable, fetchTableWithPersistentIndices
  <2> HIDE DEF fetched
  <2> QED BY <2>1, <2>2, <2>3
<1>4. \A t \in Tables : /\ StoreOK(kind, stores[Data(t)]) /\ IndexOK(kind, stores[Index(t)])
                        /\ GetAll(kind, stores[Data(t)]) \in RowMap
                        /\ IndexRead(kind, stores[Index(t)]) \subseteq RowId
  BY <1>2, ReadableRows
<1>5. nextId' \in 0 .. MaxRowId /\ nextId' >= nextId
      /\ \A t \in Tables : \A id \in DOMAIN cache'[t] : id \in RowId /\ id < nextId'
  <2>1. CASE kind = "memory"
    <3>1. \A t \in Tables : cache'[t] = None
      BY <1>3, <2>1, EmptyStores, NoneIs DEF Readable
    <3> QED BY <1>2, <1>3, <2>1, <3>1, NoneIs DEF setNextIdIfGreater
  <2>2. CASE kind # "memory"
    <3> DEFINE scan == scanRowId(kind, stores)
    <3>1. scan \in 0 .. MaxRowId /\ \A t \in Tables : \A id \in DOMAIN GetAll(kind, stores[Data(t)]) :
                                       id \in Nat /\ id <= scan
      BY <1>4, ScanIs
    <3>2. nextId' = Max({nextId, scan + 1}) BY <1>3, <2>2 DEF setNextIdIfGreater
    <3> HIDE DEF scan
    <3>3. nextId \in Nat /\ scan \in Nat BY <1>1, <1>2, <3>1
    <3>4. nextId' \in Nat /\ nextId' >= nextId /\ nextId' > scan BY <3>2, <3>3, NextIdIs
    <3>5. \A t \in Tables : DOMAIN cache'[t] \subseteq RowId BY <1>3, <1>4, RowMapIs
    <3>6. ASSUME NEW t \in Tables, NEW id \in DOMAIN cache'[t] PROVE id \in RowId /\ id < nextId'
      <4>1. id \in DOMAIN GetAll(kind, stores[Data(t)]) BY <1>3
      <4> QED BY <3>1, <3>3, <3>4, <3>5, <4>1
    <3> QED BY <1>1, <1>3, <3>4, <3>6
  <2> QED BY <2>1, <2>2
<1>6. TypeInv'
  <2>1. cache' \in [Tables -> RowMap] BY <1>3, <1>4
  <2>2. rowIds' \in [Tables -> SUBSET RowId] BY <1>3, <1>4, RowMapIs
  <2>3. disk' = [s \in Stores |-> disk'[s]] /\ native' = [s \in Stores |-> native'[s]]
    BY DEF Readable
  <2>4. requests' \in Seq(Range(requests)') BY <1>2, EmptyBlock
  <2>5. /\ schema \in 1 .. MaxVersion /\ unwritten \in BOOLEAN /\ halfUpgraded \in BOOLEAN
        /\ touched \subseteq Tables
    BY DEF Inv, TypeInv
  <2> QED BY <1>2, <1>3, <1>4, <1>5, <2>1, <2>2, <2>3, <2>4, <2>5 DEF TypeInv
<1>7. StatusInv' BY <1>2, <1>3 DEF StatusInv, Sending, Away
<1>8. OwnInv'
  <2>1. PICK own \in [Tables -> SUBSET RowId] : Owns(own) BY DEF Inv, OwnInv
  <2>n. PICK new \in [Tables -> SUBSET RowId] :
             \A t \in Tables : new[t] = {id \in own[t] : id < nextId'}
    <3> DEFINE f == [t \in Tables |-> {id \in own[t] : id < nextId'}]
    <3>1. f \in [Tables -> SUBSET RowId] /\ \A t \in Tables : f[t] = {id \in own[t] : id < nextId'}
      OBVIOUS
    <3> HIDE DEF f
    <3> QED BY <3>1
  <2>2. Disjoint(new) BY <2>1, <2>n DEF Owns, Disjoint
  <2>3. \A t \in Tables : \A id \in new[t] : id < nextId' BY <2>n
  <2>4. \A t \in Tables : \A id \in own[t] : id < nextId' => id \in new[t] BY <2>n
  <2>5. ASSUME NEW t \in Tables PROVE Within(cache'[t], new[t], Versions)
    <3>1. CASE kind = "memory"
      <4>1. cache'[t] = None BY <1>3, <3>1, EmptyStores, NoneIs DEF Readable
      <4> QED BY <4>1, NoneIs
    <3>2. CASE kind # "memory"
      <4>1. Within(GetAll(kind, disk[Data(t)]), own[t], Versions)
        BY <2>1, <3>2 DEF Owns, DiskWithin, RowsAt
      <4>2. Within(cache'[t], own[t], Versions) BY <1>3, <3>2, <4>1
      <4> QED BY <4>2, <1>5, <2>4 DEF Within
    <3> QED BY <3>1, <3>2
  <2>6. \A t \in Tables : Within(before'.cache[t], new[t], Versions) BY <1>2, NoneIs DEF NoRows
  <2>7. \A t \in Tables : GetAll(kind, stores[Data(t)]) = cache'[t] BY <1>3
  <2>8. Owns(new)'
    BY <1>2, <2>2, <2>3, <2>5, <2>6, <2>7 DEF Owns, MemoryWithin, RequestsWithin, DiskWithin, RowsAt
  <2> QED BY <2>2, <2>8 DEF OwnInv
<1>9. ColsInv'
  <2> SUFFICES ASSUME kind # "memory", ~halfUpgraded, NEW t \in Tables
               PROVE  /\ Within(cache'[t], RowId, {schema})
                      /\ Within(before'.cache[t], RowId, {schema})
                      /\ Within(GetAll(kind, stores[Data(t)]), RowId, {schema})
    BY <1>2, <1>3 DEF ColsInv, MemoryWithin, RequestsWithin, DiskWithin, RowsAt
  <2>1. before'.cache[t] = None BY <1>2 DEF NoRows
  <2> QED BY <1>3, <2>1, NoneIs
<1>10. ReplicaInv' BY <1>2, <1>3 DEF ReplicaInv, ReplicaOf, Sending, Tidy, RowsAt
<1>11. ExpectedInv' BY <1>3 DEF ExpectedInv, Sending, OnDisk
<1>12. IndexInv'
  <2> SUFFICES ASSUME NEW t \in Tables, t \in Persistent => t \notin dropped' /\ kind # "indexed_db"
               PROVE  /\ rowIds'[t] = DOMAIN cache'[t] /\ before'.rowIds[t] = DOMAIN before'.cache[t]
                      /\ IndexRead(kind, stores[Index(t)]) = rowIds'[t] \/ t \notin Persistent
                      /\ GetAll(kind, stores[Data(t)]) = cache'[t]
    BY <1>3 DEF IndexInv, IndexAt, RowsAt, Sending
  <2>1. before'.rowIds[t] = DOMAIN before'.cache[t] BY <1>2, NoneIs DEF NoRows
  <2>2. GetAll(kind, stores[Data(t)]) = cache'[t] BY <1>3
  <2>3. CASE t \notin Persistent BY <1>3, <2>1, <2>2, <2>3
  <2>4. CASE t \in Persistent /\ kind = "memory"
    <3>1. stores[Data(t)] = None /\ stores[Index(t)] = None
      BY <2>4, EmptyStores DEF Readable
    <3>2. IndexRead(kind, None) = {} /\ GetAll(kind, None) = None /\ DOMAIN None = {}
      BY <1>2, NoneIs, IndexReadIs
    <3> QED BY <1>3, <2>1, <2>2, <2>4, <3>1, <3>2
  <2>5. CASE t \in Persistent /\ kind # "memory"
    BY <1>3, <2>1, <2>2, <2>5
  <2> QED BY <2>3, <2>4, <2>5
<1> QED BY <1>6, <1>7, <1>8, <1>9, <1>10, <1>11, <1>12 DEF Inv

-----------------------------------------------------------------------------
(* Upgrades.                                                               *)

\* The rows m holds are those n holds, some with other columns.
SameRows(k, n, m) ==
    /\ DOMAIN GetAll(k, m) = DOMAIN GetAll(k, n)
    /\ \A id \in DOMAIN GetAll(k, n) : GetAll(k, m)[id].value = GetAll(k, n)[id].value

\* A store has the same rows as itself.
LEMMA SameRowsIs ==
    ASSUME NEW k, NEW n
    PROVE  SameRows(k, n, n)
BY DEF SameRows

\* A store whose rows have been given the columns of a version.
Upgraded(rows, v) == [id \in DOMAIN rows |-> [rows[id] EXCEPT !.cols = v]]

\* Giving rows other columns keeps their ids and values.
LEMMA UpgradedIs ==
    ASSUME NEW rows \in RowMap, NEW v \in Versions
    PROVE  /\ Upgraded(rows, v) \in RowMap
           /\ DOMAIN Upgraded(rows, v) = DOMAIN rows
           /\ \A id \in DOMAIN rows : /\ Upgraded(rows, v)[id].value = rows[id].value
                                      /\ Upgraded(rows, v)[id].cols = v
                                      /\ Upgraded(rows, v)[id] \in Row
<1> DEFINE up == Upgraded(rows, v)
<1>1. DOMAIN up = DOMAIN rows /\ up = [id \in DOMAIN up |-> up[id]] BY DEF Upgraded
<1>2. DOMAIN rows \subseteq RowId /\ \A id \in DOMAIN rows : rows[id] \in Row BY RowMapIs
<1>3. ASSUME NEW id \in DOMAIN rows
      PROVE  up[id].value = rows[id].value /\ up[id].cols = v /\ up[id] \in Row
  <2>1. rows[id] \in [value : Values, cols : Versions] BY <1>2 DEF Row, Versions
  <2>2. up[id] = [rows[id] EXCEPT !.cols = v] BY DEF Upgraded
  <2> QED BY <2>1, <2>2 DEF Row, Versions
<1> HIDE DEF up
<1>4. up \in RowMap BY <1>1, <1>2, <1>3, RowMapIs
<1> QED BY <1>1, <1>3, <1>4 DEF up

\* That for a store, page by page for the bundled one.
UpgradedStore(k, n, v) ==
    IF k = "bundled" THEN [p \in DOMAIN n |-> Upgraded(n[p], v)] ELSE Upgraded(n, v)

\* It keeps ids and values, and all columns are of the version.
LEMMA UpgradedStoreIs ==
    ASSUME NEW k \in Kinds, NEW n, StoreOK(k, n), NEW v \in Versions,
           NEW m, m = UpgradedStore(k, n, v)
    PROVE  StoreOK(k, m) /\ SameRows(k, n, m) /\ Within(GetAll(k, m), RowId, {v})
<1>1. CASE k # "bundled"
  <2>1. GetAll(k, n) = n /\ n \in RowMap
    <3>1. GetAll(k, n) = n BY <1>1 DEF GetAll
    <3> QED BY <3>1, GetAllTyped
  <2>2. m = Upgraded(n, v) /\ GetAll(k, m) = m BY <1>1 DEF UpgradedStore, GetAll
  <2>3. /\ m \in RowMap /\ DOMAIN m = DOMAIN n
        /\ \A id \in DOMAIN n : m[id].value = n[id].value /\ m[id].cols = v /\ m[id] \in Row
    BY <2>1, <2>2, UpgradedIs
  <2>4. DOMAIN m \subseteq RowId /\ m = [id \in DOMAIN m |-> m[id]] BY <2>3, RowMapIs
  <2>5. StoreOK(k, m)
    BY <1>1, <2>3, <2>4 DEF StoreOK, RecordOK
  <2>6. SameRows(k, n, m) BY <2>1, <2>2, <2>3 DEF SameRows
  <2>7. Within(GetAll(k, m), RowId, {v}) BY <2>2, <2>3, <2>4 DEF Within
  <2> QED BY <2>5, <2>6, <2>7
<1>2. CASE k = "bundled"
  <2>1. m = [p \in DOMAIN n |-> Upgraded(n[p], v)] BY <1>2 DEF UpgradedStore
  <2>2. DOMAIN n \subseteq RowId BY DEF StoreOK
  <2>3. ASSUME NEW p \in DOMAIN n
        PROVE  /\ n[p] \in RowMap /\ DOMAIN n[p] # {} /\ DOMAIN n[p] \subseteq getPageRange(p)
               /\ m[p] \in RowMap /\ DOMAIN m[p] = DOMAIN n[p]
               /\ \A id \in DOMAIN n[p] : m[p][id].value = n[p][id].value /\ m[p][id].cols = v
    <3>1. n[p] \in RowMap /\ DOMAIN n[p] # {} /\ DOMAIN n[p] \subseteq getPageRange(p)
      BY <1>2 DEF StoreOK, RecordOK
    <3>2. m[p] = Upgraded(n[p], v) BY <2>1
    <3> QED BY <3>1, <3>2, UpgradedIs
  <2>4. DOMAIN m = DOMAIN n /\ m = [p \in DOMAIN m |-> m[p]] BY <2>1
  <2>5. StoreOK(k, m)
    BY <1>2, <2>2, <2>3, <2>4 DEF StoreOK, RecordOK
  <2>6. GetAll(k, n) = BundledGetAll(n) /\ GetAll(k, m) = BundledGetAll(m)
    BY <1>2 DEF GetAll
  <2> DEFINE a == BundledGetAll(n)
             b == BundledGetAll(m)
  <2>7. /\ \A id : id \in DOMAIN a <=> id \in RowId /\ toPageId(id) \in DOMAIN n
                                       /\ id \in DOMAIN n[toPageId(id)]
        /\ \A id \in DOMAIN a : a[id] = n[toPageId(id)][id]
    BY <1>2, BundledGetAllIs
  <2>8. /\ \A id : id \in DOMAIN b <=> id \in RowId /\ toPageId(id) \in DOMAIN m
                                       /\ id \in DOMAIN m[toPageId(id)]
        /\ \A id \in DOMAIN b : b[id] = m[toPageId(id)][id]
    BY <1>2, <2>5, BundledGetAllIs
  <2> HIDE DEF a, b
  <2>9. DOMAIN a = DOMAIN b
    <3>1. \A id : id \in DOMAIN a <=> id \in DOMAIN b BY <2>3, <2>4, <2>7, <2>8
    <3> QED BY <3>1
  <2>10. \A id \in DOMAIN a : id \in RowId /\ b[id].value = a[id].value /\ b[id].cols = v
    BY <2>3, <2>7, <2>8, <2>9
  <2>11. SameRows(k, n, m) BY <2>6, <2>9, <2>10 DEF SameRows, a, b
  <2>12. Within(GetAll(k, m), RowId, {v}) BY <2>6, <2>9, <2>10 DEF Within, b
  <2> QED BY <2>5, <2>11, <2>12
<1> QED BY <1>1, <1>2

\* transformRows does that to some tables.
LEMMA TransformedIs ==
    ASSUME NEW stores, stores = [s \in Stores |-> stores[s]], NEW S \in SUBSET Tables,
           NEW new, new = transformRows(stores, S)
    PROVE  /\ new = [s \in Stores |-> new[s]]
           /\ \A t \in Tables : /\ new[Index(t)] = stores[Index(t)]
                                /\ t \notin S => new[Data(t)] = stores[Data(t)]
                                /\ t \in S => new[Data(t)] = UpgradedStore(kind, stores[Data(t)], schema)
<1> DEFINE f == [s \in Stores |-> IF ~\E t \in S : s = Data(t) THEN stores[s]
                                  ELSE UpgradedStore(kind, stores[s], schema)]
<1>1. new = f BY DEF transformRows, UpgradedStore, Upgraded
<1>2. new = [s \in Stores |-> new[s]] BY <1>1
<1>3. ASSUME NEW t \in Tables
      PROVE  /\ new[Index(t)] = stores[Index(t)]
             /\ t \notin S => new[Data(t)] = stores[Data(t)]
             /\ t \in S => new[Data(t)] = UpgradedStore(kind, stores[Data(t)], schema)
  <2>1. Data(t) \in Stores /\ Index(t) \in Stores BY DEF Stores
  <2>2. ~\E u \in S : Index(t) = Data(u) BY DataIsNotIndex
  <2>3. (\E u \in S : Data(t) = Data(u)) <=> t \in S BY DEF Data
  <2> QED BY <1>1, <2>1, <2>2, <2>3
<1> QED BY <1>2, <1>3

\* removeIndexTables empties every index store and no other.
LEMMA UnindexedIs ==
    ASSUME NEW stores, stores = [s \in Stores |-> stores[s]],
           NEW new, new = removeIndexTables(stores)
    PROVE  /\ new = [s \in Stores |-> new[s]]
           /\ \A t \in Tables : new[Index(t)] = None /\ new[Data(t)] = stores[Data(t)]
<1>1. \A t \in Tables : Data(t) \in Stores /\ Index(t) \in Stores BY DEF Stores
<1>2. \A t \in Tables : ~\E u \in Tables : Data(t) = Index(u) BY DataIsNotIndex
<1> QED BY <1>1, <1>2 DEF removeIndexTables

\* What a step of an upgrade leaves on the medium.
LEMMA UpgradeIs ==
    ASSUME Inv, kind # "memory", NEW stores, NEW S \in SUBSET Tables,
           NEW old, old \in {disk, removeIndexTables(disk)}, stores = transformRows(old, S)
    PROVE  /\ Readable(stores, kind, version)
           /\ \A t \in Tables : /\ SameRows(kind, disk[Data(t)], stores[Data(t)])
                                /\ stores[Index(t)] = old[Index(t)]
                                /\ t \in S => Within(RowsAt(stores, t), RowId, {schema})
                                /\ t \notin S => stores[Data(t)] = disk[Data(t)]
<1>1. /\ kind \in Kinds /\ schema \in Versions /\ disk = [s \in Stores |-> disk[s]]
      /\ \A t \in Tables : StoreOK(kind, disk[Data(t)]) /\ IndexOK(kind, disk[Index(t)])
  BY DEF Inv, TypeInv, Versions
<1>2. /\ old = [s \in Stores |-> old[s]]
      /\ \A t \in Tables : old[Data(t)] = disk[Data(t)] /\ IndexOK(kind, old[Index(t)])
  <2>1. CASE old = disk BY <2>1, <1>1
  <2>2. CASE old = removeIndexTables(disk)
    <3>1. IndexOK(kind, None) BY NoneIs
    <3> QED BY <2>2, <1>1, <3>1, UnindexedIs
  <2> QED BY <2>1, <2>2
<1>3. /\ stores = [s \in Stores |-> stores[s]]
      /\ \A t \in Tables : /\ stores[Index(t)] = old[Index(t)]
                           /\ t \notin S => stores[Data(t)] = old[Data(t)]
                           /\ t \in S => stores[Data(t)] = UpgradedStore(kind, old[Data(t)], schema)
  BY <1>2, TransformedIs
<1>4. ASSUME NEW t \in Tables
      PROVE  /\ StoreOK(kind, stores[Data(t)]) /\ IndexOK(kind, stores[Index(t)])
             /\ SameRows(kind, disk[Data(t)], stores[Data(t)])
             /\ t \in S => Within(RowsAt(stores, t), RowId, {schema})
             /\ t \notin S => stores[Data(t)] = disk[Data(t)]
             /\ stores[Index(t)] = old[Index(t)]
  <2>1. CASE t \in S
    <3>1. stores[Data(t)] = UpgradedStore(kind, disk[Data(t)], schema) BY <2>1, <1>2, <1>3
    <3> QED BY <1>1, <1>2, <1>3, <2>1, <3>1, UpgradedStoreIs DEF RowsAt
  <2>2. CASE t \notin S BY <1>1, <1>2, <1>3, <2>2, SameRowsIs
  <2> QED BY <2>1, <2>2
<1> QED BY <1>3, <1>4 DEF Readable

\* Rows that are the same have the same ids and contents.
LEMMA SameContents ==
    ASSUME NEW stores, NEW old, kind \in Kinds,
           \A t \in Tables : SameRows(kind, old[Data(t)], stores[Data(t)])
    PROVE  OnDisk(stores) = OnDisk(old)
BY DEF OnDisk, Contents, SameRows

\* Rows that are the same are within the same ids.
LEMMA SameWithin ==
    ASSUME NEW k, NEW n, NEW m, SameRows(k, n, m), NEW v \in Versions,
           Within(GetAll(k, m), RowId, {v}), NEW ids, Within(GetAll(k, n), ids, Versions)
    PROVE  Within(GetAll(k, m), ids, Versions)
BY DEF Within, SameRows

\* The medium gets no rows of other ids or versions.
Same(stores) ==
    \A t \in Tables, ids \in SUBSET RowId :
        Within(RowsAt(disk, t), ids, Versions) => Within(RowsAt(stores, t), ids, Versions)

\* A step of the medium while no connection is there.
LEMMA MediumKeeps ==
    ASSUME Inv, NEW stores, status \in Away, status' \in Away, kind # "memory",
           kind' = kind, disk' = stores, native' = stores, Readable(stores, kind, version),
           status' \in {"versioned", "upgrading"} => kind = "web_sql",
           status' # "closed" => version' = schema,
           ~unwritten, unwritten' = unwritten, schema' = schema, version' \in 0 .. MaxVersion,
           made' \in BOOLEAN, cache' = cache, rowIds' = rowIds,
           nextId' \in {nextId} \cup 0 .. MaxRowId, before' = before, touched' = touched,
           requests' = requests, expected' = expected, lost' = lost,
           dropped \subseteq dropped', dropped' \subseteq Persistent,
           halfUpgraded' \in BOOLEAN, ~halfUpgraded' => ~halfUpgraded,
           Same(stores), OnDisk(stores) = OnDisk(disk),
           ~halfUpgraded' /\ version' = schema /\ status' \notin {"versioned", "upgrading"} =>
               \A t \in Tables : Within(RowsAt(stores, t), RowId, {schema}),
           kind # "indexed_db" => \A t \in Persistent \ dropped' :
               IndexAt(stores, t) = DOMAIN RowsAt(stores, t)
    PROVE  Inv'
<1>1. /\ kind \in Kinds /\ requests = <<>> /\ touched = {}
      /\ cache = NoRows /\ before.cache = NoRows
      /\ rowIds = [t \in Tables |-> {}] /\ before.rowIds = [t \in Tables |-> {}]
      /\ DOMAIN requests = {} /\ Range(requests) = {} /\ native = disk
  BY EmptyBlock DEF Inv, TypeInv, StatusInv, Away, Sending
<1>2. \A t \in Tables : /\ StoreOK(kind, stores[Data(t)]) /\ IndexOK(kind, stores[Index(t)])
                        /\ cache[t] = None /\ before.cache[t] = None
                        /\ rowIds[t] = {} /\ before.rowIds[t] = {}
  BY <1>1 DEF Readable, NoRows
<1>3. stores = [s \in Stores |-> stores[s]] BY DEF Readable
<1>4. TypeInv'
  <2>1. /\ schema \in 1 .. MaxVersion /\ unwritten \in BOOLEAN /\ lost \in BOOLEAN
        /\ cache \in [Tables -> RowMap] /\ rowIds \in [Tables -> SUBSET RowId]
        /\ nextId' \in 0 .. MaxRowId
        /\ before \in [cache : [Tables -> RowMap], rowIds : [Tables -> SUBSET RowId]]
    BY DEF Inv, TypeInv
  <2>2. requests' \in Seq(Range(requests)') BY <1>1, EmptyBlock
  <2>3. {made', unwritten', lost', halfUpgraded'} \subseteq BOOLEAN BY <2>1
  <2>4. \A i \in DOMAIN requests' : RequestOK(kind, requests[i])' BY <1>1
  <2>5. status' \in {"closed", "failed", "versioned", "upgrading"} BY DEF Away
  <2> QED BY <1>1, <1>2, <1>3, <2>1, <2>2, <2>3, <2>4, <2>5 DEF TypeInv
<1>5. StatusInv'
  <2>1. status' \notin Sending /\ status' \notin {"idle", "active", "written"}
    BY DEF Away, Sending
  <2> QED BY <1>1, <2>1 DEF StatusInv
<1>6. OwnInv'
  <2>1. PICK own \in [Tables -> SUBSET RowId] : Owns(own) BY DEF Inv, OwnInv
  <2>2. \A t \in Tables : Within(RowsAt(disk, t), own[t], Versions) BY <2>1 DEF Owns, DiskWithin
  <2>3. \A t \in Tables : Within(RowsAt(stores, t), own[t], Versions) BY <2>2 DEF Same
  <2>4. \A t \in Tables : Within(GetAll(kind, stores[Data(t)]), own[t], Versions)
    BY <2>3 DEF RowsAt
  <2>5. \A t \in Tables : \A ids : Within(cache[t], ids, Versions) /\ Within(before.cache[t], ids, Versions)
    BY <1>2, NoneIs
  <2>6. status' \notin Live BY DEF Away, Live
  <2>7. Disjoint(own) BY <2>1 DEF Owns
  <2>8. Owns(own)'
    BY <1>1, <2>4, <2>5, <2>6, <2>7 DEF Owns, MemoryWithin, RequestsWithin, DiskWithin, RowsAt,
       Disjoint
  <2> QED BY <2>8 DEF OwnInv
<1>7. ColsInv'
  <2>1. \A t \in Tables : Within(cache[t], RowId, {schema}) /\ Within(before.cache[t], RowId, {schema})
    BY <1>2, NoneIs
  <2>2. ASSUME ~halfUpgraded', version' = schema, status' \notin {"versioned", "upgrading"}
        PROVE  \A t \in Tables : Within(GetAll(kind, stores[Data(t)]), RowId, {schema})
    BY <2>2 DEF Away, RowsAt
  <2> QED BY <1>1, <2>1, <2>2 DEF ColsInv, MemoryWithin, RequestsWithin, DiskWithin, RowsAt
<1>8. ReplicaInv'
  <2>1. status' \notin Sending /\ status' \notin {"idle", "active", "written", "importing"}
    BY DEF Away, Sending
  <2>2. Tidy(kind, requests) BY DEF Inv, ReplicaInv
  <2> QED BY <2>1, <2>2 DEF ReplicaInv, ReplicaOf
<1>9. ExpectedInv'
  <2>1. status' \notin Sending /\ status' \notin {"idle", "active", "written", "importing"}
    BY DEF Away, Sending
  <2>2. OnDisk(disk)' = OnDisk(stores) BY DEF OnDisk, Contents
  <2>3. ~lost => OnDisk(disk) \in expected BY DEF Inv, ExpectedInv
  <2> QED BY <2>1, <2>2, <2>3 DEF ExpectedInv
<1>10. IndexInv'
  <2>1. status' \notin Sending /\ status' \notin {"idle", "active", "written", "importing"}
    BY DEF Away, Sending
  <2> SUFFICES ASSUME NEW t \in Tables, t \in Persistent => t \notin dropped' /\ kind # "indexed_db"
               PROVE  /\ rowIds[t] = DOMAIN cache[t] /\ before.rowIds[t] = DOMAIN before.cache[t]
                      /\ t \in Persistent =>
                            IndexRead(kind, stores[Index(t)]) = DOMAIN GetAll(kind, stores[Data(t)])
    BY <2>1 DEF IndexInv, IndexAt, RowsAt
  <2>2. rowIds[t] = DOMAIN cache[t] /\ before.rowIds[t] = DOMAIN before.cache[t]
    BY <1>2, NoneIs
  <2> QED BY <2>2 DEF IndexAt, RowsAt
<1> QED BY <1>4, <1>5, <1>6, <1>7, <1>8, <1>9, <1>10 DEF Inv

\* So when every table is as it was or has the same rows.
LEMMA SameIs ==
    ASSUME NEW stores,
           \A t \in Tables : \/ stores[Data(t)] = disk[Data(t)]
                             \/ /\ SameRows(kind, disk[Data(t)], stores[Data(t)])
                                /\ \E v \in Versions : Within(RowsAt(stores, t), RowId, {v})
    PROVE  Same(stores)
<1> SUFFICES ASSUME NEW t \in Tables, NEW ids \in SUBSET RowId,
                    Within(RowsAt(disk, t), ids, Versions)
             PROVE  Within(RowsAt(stores, t), ids, Versions)
  BY DEF Same
<1> QED BY SameWithin DEF RowsAt

\* So does one that cannot read its rows: there are rows, so not in memory.
LEMMA FailedKeeps ==
    ASSUME Inv, NEW stores, Connected(stores), status' # "idle",
           Readable(stores, kind, version),
           kind' = kind, disk' = stores, native' = stores, version' \in 0 .. MaxVersion,
           made' \in BOOLEAN, schema' = schema, before' = before, touched' = touched,
           requests' = requests, unwritten' = unwritten, ~unwritten, halfUpgraded' = halfUpgraded,
           status \in Away, dropped \subseteq dropped', dropped' \subseteq Persistent,
           kind # "memory" => version' = schema,
           kind # "memory" => Same(stores) /\ OnDisk(stores) = OnDisk(disk),
           kind # "memory" /\ ~halfUpgraded => \A t \in Tables :
               Within(GetAll(kind, stores[Data(t)]), RowId, {schema}),
           kind \notin {"memory", "indexed_db"} => \A t \in Persistent \ dropped' :
               IndexRead(kind, stores[Index(t)]) = DOMAIN GetAll(kind, stores[Data(t)])
    PROVE  Inv'
<1>1. /\ Unreadable(stores) /\ status' = "failed"
      /\ setNextIdIfGreater(stores) /\ nextId' <= MaxRowId
      /\ cache' = cache /\ rowIds' = rowIds /\ expected' = expected /\ lost' = lost
  BY DEF Connected
<1>2. /\ kind \in Kinds /\ nextId \in 0 .. MaxRowId /\ halfUpgraded \in BOOLEAN
      /\ MaxRowId \in Nat /\ Persistent \subseteq Tables
  BY StoresAssumption DEF Inv, TypeInv
<1>3. kind # "memory"
  <2> SUFFICES ASSUME kind = "memory" PROVE FALSE OBVIOUS
  <2>1. PICK t \in Persistent : DOMAIN GetAll(kind, stores[Data(t)]) # {}
    BY <1>1 DEF Unreadable
  <2>2. stores[Data(t)] = None BY <1>2, EmptyStores DEF Readable
  <2> QED BY <2>1, <2>2, NoneIs
<1>4. nextId' \in 0 .. MaxRowId
  <2> DEFINE scan == scanRowId(kind, stores)
  <2>1. \A t \in Tables : StoreOK(kind, stores[Data(t)]) BY <1>2, ReadableRows
  <2>2. scan \in 0 .. MaxRowId BY <1>2, <2>1, ScanIs
  <2>3. nextId' = Max({nextId, scan + 1}) BY <1>1, <1>3 DEF setNextIdIfGreater
  <2> HIDE DEF scan
  <2>4. nextId \in Nat /\ scan \in Nat BY <1>2, <2>2
  <2>5. nextId' \in Nat BY <2>3, <2>4, NextIdIs
  <2> QED BY <1>1, <1>2, <2>5
<1>5. status' \in Away /\ status' \notin {"versioned", "upgrading"} BY <1>1 DEF Away
<1>6. ~halfUpgraded' => \A t \in Tables : Within(RowsAt(stores, t), RowId, {schema})
  BY <1>3 DEF RowsAt
<1>7. kind # "indexed_db" => \A t \in Persistent \ dropped' :
         IndexAt(stores, t) = DOMAIN RowsAt(stores, t)
  BY <1>3 DEF IndexAt, RowsAt
<1> QED BY <1>1, <1>2, <1>3, <1>4, <1>5, <1>6, <1>7, MediumKeeps

\* A connection keeps the invariant, whether it succeeds or not.
LEMMA ConnectedKeeps ==
    ASSUME Inv, NEW stores, Connected(stores),
           Readable(stores, kind, version),
           kind' = kind, disk' = stores, native' = stores, version' \in 0 .. MaxVersion,
           made' \in BOOLEAN, schema' = schema, before' = before, touched' = touched,
           requests' = requests, unwritten' = unwritten, ~unwritten, halfUpgraded' = halfUpgraded,
           status \in Away, dropped \subseteq dropped', dropped' \subseteq Persistent,
           kind # "memory" => version' = schema,
           kind # "memory" => Same(stores) /\ OnDisk(stores) = OnDisk(disk),
           kind # "memory" /\ ~halfUpgraded => \A t \in Tables :
               Within(GetAll(kind, stores[Data(t)]), RowId, {schema}),
           kind \notin {"memory", "indexed_db"} => \A t \in Persistent \ dropped' :
               IndexRead(kind, stores[Index(t)]) = DOMAIN GetAll(kind, stores[Data(t)])
    PROVE  Inv'
<1>1. kind # "memory" => \A t \in Tables, ids \in SUBSET RowId :
         Within(GetAll(kind, disk[Data(t)]), ids, Versions)
         => Within(GetAll(kind, stores[Data(t)]), ids, Versions)
  BY DEF Same, RowsAt
<1>2. CASE status' = "idle" BY <1>1, <1>2, ConnectsKeeps
<1>3. CASE status' # "idle" BY <1>3, FailedKeeps
<1> QED BY <1>2, <1>3

\* Open keeps the invariant.
LEMMA OpenKeeps == Inv /\ Open => Inv'
<1> SUFFICES ASSUME Inv, Open PROVE Inv' OBVIOUS
<1>1. /\ status = "closed" /\ Connected(disk) /\ (version = schema \/ kind = "memory")
      /\ (kind = "web_sql" => ~unwritten)
      /\ kind' = kind /\ disk' = disk /\ version' = version /\ made' = made /\ schema' = schema
      /\ native' = native /\ requests' = requests /\ unwritten' = unwritten
      /\ dropped' = dropped /\ halfUpgraded' = halfUpgraded
      /\ before' = before /\ touched' = touched
  BY DEF Open, journal
<1>2. /\ ~unwritten /\ native = disk /\ version \in 0 .. MaxVersion /\ made \in BOOLEAN
      /\ dropped \subseteq Persistent
      /\ (kind = "memory" => disk = EmptyDisk) /\ disk = [s \in Stores |-> disk[s]]
  <2>1. ~unwritten BY <1>1 DEF Inv, StatusInv
  <2> QED BY <1>1, <2>1 DEF Inv, StatusInv, Sending, TypeInv
<1>3. Readable(disk, kind, version) BY <1>2 DEF Readable, Inv, TypeInv
<1>4. kind # "memory" /\ ~halfUpgraded =>
         \A t \in Tables : Within(GetAll(kind, disk[Data(t)]), RowId, {schema})
  BY <1>1 DEF Inv, ColsInv, DiskWithin, RowsAt
<1>5. kind \notin {"memory", "indexed_db"} => \A t \in Persistent \ dropped :
         IndexRead(kind, disk[Index(t)]) = DOMAIN GetAll(kind, disk[Data(t)])
  <2>1. Persistent \subseteq Tables BY StoresAssumption
  <2> QED BY <2>1 DEF Inv, IndexInv, IndexAt, RowsAt
<1>6. status \in Away BY <1>1 DEF Away
<1>7. Same(disk) BY DEF Same
<1> QED BY <1>1, <1>2, <1>3, <1>4, <1>5, <1>6, <1>7, ConnectedKeeps

\* So does the end of a WebSQL upgrade.
LEMMA onUpgradeKeeps == Inv /\ onUpgrade => Inv'
<1> SUFFICES ASSUME Inv, onUpgrade PROVE Inv' OBVIOUS
<1>1. /\ status = "upgrading" /\ Connected(disk) /\ disk = transformRows(disk, Tables)
      /\ kind' = kind /\ disk' = disk /\ version' = version /\ made' = made /\ schema' = schema
      /\ native' = native /\ requests' = requests /\ unwritten' = unwritten
      /\ dropped' = dropped /\ halfUpgraded' = halfUpgraded
      /\ before' = before /\ touched' = touched
  BY DEF onUpgrade, journal
<1>2. /\ ~unwritten /\ native = disk /\ version \in 0 .. MaxVersion /\ made \in BOOLEAN
      /\ dropped \subseteq Persistent /\ kind = "web_sql" /\ disk = [s \in Stores |-> disk[s]]
      /\ version = schema
  <2>1. kind = "web_sql" /\ ~unwritten BY <1>1 DEF Inv, StatusInv, Sending
  <2> QED BY <1>1, <2>1 DEF Inv, StatusInv, Sending, TypeInv
<1>3. Readable(disk, kind, version) BY <1>2 DEF Readable, Inv, TypeInv
<1>4. \A t \in Tables : Within(GetAll(kind, disk[Data(t)]), RowId, {schema})
  <2>1. \A t \in Tables : Within(RowsAt(disk, t), RowId, {schema})
    <3> DEFINE old == disk
    <3>1. old \in {disk, removeIndexTables(disk)} /\ Tables \in SUBSET Tables OBVIOUS
    <3> QED BY <1>1, <1>2, <3>1, UpgradeIs
  <2> QED BY <2>1 DEF RowsAt
<1>5. \A t \in Persistent \ dropped :
         IndexRead(kind, disk[Index(t)]) = DOMAIN GetAll(kind, disk[Data(t)])
  <2>1. Persistent \subseteq Tables BY StoresAssumption
  <2> QED BY <1>2, <2>1 DEF Inv, IndexInv, IndexAt, RowsAt
<1>6. status \in Away BY <1>1 DEF Away
<1>7. Same(disk) BY DEF Same
<1> QED BY <1>1, <1>2, <1>3, <1>4, <1>5, <1>6, <1>7, ConnectedKeeps

\* What both kinds of upgrade in a versionchange transaction leave.
LEMMA VersionChange ==
    ASSUME Inv, status = "closed", kind \in {"indexed_db", "bundled"},
           NEW S \in SUBSET Tables, NEW stores, stores = transformRows(removeIndexTables(disk), S)
    PROVE  /\ ~unwritten /\ native = disk /\ made \in BOOLEAN /\ schema \in 0 .. MaxVersion
           /\ dropped \cup Unindexed(disk) \subseteq Persistent
           /\ Readable(stores, kind, version) /\ Same(stores) /\ OnDisk(stores) = OnDisk(disk)
           /\ \A t \in S : Within(RowsAt(stores, t), RowId, {schema})
           /\ kind # "indexed_db" => \A t \in Persistent \ (dropped \cup Unindexed(disk)) :
                 IndexAt(stores, t) = DOMAIN RowsAt(stores, t)
<1>1. /\ ~unwritten /\ native = disk /\ made \in BOOLEAN /\ schema \in Versions
      /\ dropped \subseteq Persistent /\ kind \in Kinds /\ kind # "memory"
      /\ disk = [s \in Stores |-> disk[s]]
      /\ \A t \in Tables : StoreOK(kind, disk[Data(t)])
  <2>1. ~unwritten BY DEF Inv, StatusInv
  <2> QED BY <2>1 DEF Inv, StatusInv, Sending, TypeInv, Versions
<1>2. MaxVersion \in Nat /\ Persistent \subseteq Tables BY StoresAssumption
<1>3. dropped \cup Unindexed(disk) \subseteq Persistent BY <1>1 DEF Unindexed
<1>4. /\ Readable(stores, kind, version)
      /\ \A t \in Tables : /\ SameRows(kind, disk[Data(t)], stores[Data(t)])
                           /\ stores[Index(t)] = removeIndexTables(disk)[Index(t)]
                           /\ t \in S => Within(RowsAt(stores, t), RowId, {schema})
                           /\ t \notin S => stores[Data(t)] = disk[Data(t)]
  <2> DEFINE old == removeIndexTables(disk)
  <2>1. old \in {disk, removeIndexTables(disk)} OBVIOUS
  <2> QED BY <1>1, <2>1, UpgradeIs
<1>5. Same(stores) BY <1>1, <1>4, SameIs
<1>6. OnDisk(stores) = OnDisk(disk) BY <1>1, <1>4, SameContents
<1>7. ASSUME kind # "indexed_db", NEW t \in Persistent \ (dropped \cup Unindexed(disk))
      PROVE  IndexAt(stores, t) = DOMAIN RowsAt(stores, t)
  <2>1. t \in Tables /\ DOMAIN disk[Data(t)] = {} BY <1>2, <1>7 DEF Unindexed
  <2>2. stores[Index(t)] = None BY <2>1, <1>1, <1>4, UnindexedIs
  <2>3. IndexAt(stores, t) = {} BY <2>2, <1>1, IndexReadIs DEF IndexAt
  <2>4. disk[Data(t)] = None BY <1>1, <2>1 DEF None, StoreOK
  <2>5. GetAll(kind, disk[Data(t)]) = None BY <2>4, NoneIs
  <2>6. DOMAIN GetAll(kind, stores[Data(t)]) = {} BY <2>1, <2>5, <1>4, NoneIs DEF SameRows
  <2> QED BY <2>3, <2>6 DEF RowsAt
<1>8. schema \in 0 .. MaxVersion BY <1>1, <1>2 DEF Versions
<1> QED BY <1>1, <1>3, <1>4, <1>5, <1>6, <1>7, <1>8

\* So does the upgrade of IndexedDB.
LEMMA onUpgradeNeededKeeps == Inv /\ onUpgradeNeeded => Inv'
<1> SUFFICES ASSUME Inv, onUpgradeNeeded PROVE Inv' OBVIOUS
<1> DEFINE stores == transformRows(removeIndexTables(disk), Tables)
<1>1. /\ status = "closed" /\ kind \in {"indexed_db", "bundled"} /\ Connected(stores)
      /\ disk' = stores /\ native' = stores /\ version' = schema /\ made' = TRUE
      /\ dropped' = dropped \cup Unindexed(disk)
      /\ kind' = kind /\ schema' = schema /\ requests' = requests /\ unwritten' = unwritten
      /\ halfUpgraded' = halfUpgraded /\ before' = before /\ touched' = touched
  BY DEF onUpgradeNeeded, journal
<1>2. Tables \in SUBSET Tables OBVIOUS
<1>p. PICK new : new = stores OBVIOUS
<1>3. /\ ~unwritten /\ schema \in 0 .. MaxVersion
      /\ dropped \cup Unindexed(disk) \subseteq Persistent
      /\ Readable(new, kind, version) /\ Same(new) /\ OnDisk(new) = OnDisk(disk)
      /\ \A t \in Tables : Within(RowsAt(new, t), RowId, {schema})
      /\ kind # "indexed_db" => \A t \in Persistent \ (dropped \cup Unindexed(disk)) :
            IndexAt(new, t) = DOMAIN RowsAt(new, t)
  BY <1>1, <1>2, <1>p, VersionChange
<1>4. Connected(new) /\ disk' = new /\ native' = new BY <1>1, <1>p
<1> HIDE DEF stores
<1>5. \A t \in Tables : Within(GetAll(kind, new[Data(t)]), RowId, {schema}) BY <1>3 DEF RowsAt
<1>6. kind # "indexed_db" => \A t \in Persistent \ dropped' :
         IndexRead(kind, new[Index(t)]) = DOMAIN GetAll(kind, new[Data(t)])
  BY <1>1, <1>3 DEF IndexAt, RowsAt
<1>7. status \in Away /\ version' \in 0 .. MaxVersion /\ made' \in BOOLEAN
      /\ dropped \subseteq dropped' /\ dropped' \subseteq Persistent
  BY <1>1, <1>3 DEF Away
<1> QED BY <1>1, <1>3, <1>4, <1>5, <1>6, <1>7, ConnectedKeeps

\* So does one that the user gives up.
LEMMA UpgradeRejectedKeeps ==
    ASSUME Inv, NEW tables \in SUBSET Tables, UpgradeRejected(tables)
    PROVE  Inv'
<1>p. PICK new : new = transformRows(removeIndexTables(disk), tables) OBVIOUS
<1>1. /\ status = "closed" /\ kind \in {"indexed_db", "bundled"}
      /\ disk' = new /\ native' = new /\ version' = schema /\ made' = TRUE
      /\ dropped' = dropped \cup Unindexed(disk) /\ halfUpgraded' = TRUE /\ status' = status
      /\ kind' = kind /\ schema' = schema /\ requests' = requests /\ unwritten' = unwritten
      /\ before' = before /\ touched' = touched /\ expected' = expected /\ lost' = lost
      /\ cache' = cache /\ rowIds' = rowIds /\ nextId' = nextId
  BY <1>p DEF UpgradeRejected, journal, memory
<1>3. /\ ~unwritten /\ schema \in 0 .. MaxVersion
      /\ dropped \cup Unindexed(disk) \subseteq Persistent
      /\ Readable(new, kind, version) /\ Same(new) /\ OnDisk(new) = OnDisk(disk)
      /\ kind # "indexed_db" => \A t \in Persistent \ (dropped \cup Unindexed(disk)) :
            IndexAt(new, t) = DOMAIN RowsAt(new, t)
  BY <1>1, <1>p, VersionChange
<1>8. status \in Away /\ version' \in 0 .. MaxVersion /\ made' \in BOOLEAN
      /\ dropped \subseteq dropped' /\ dropped' \subseteq Persistent
  BY <1>1, <1>3 DEF Away
<1> QED BY <1>1, <1>3, <1>8, MediumKeeps

\* So does the first step of a WebSQL upgrade.
LEMMA checkVersionKeeps == Inv /\ checkVersion => Inv'
<1> SUFFICES ASSUME Inv, checkVersion PROVE Inv' OBVIOUS
<1>1. /\ status = "closed" /\ kind = "web_sql" /\ ~unwritten
      /\ disk' = disk /\ native' = native /\ version' = schema /\ made' = made
      /\ dropped' = dropped /\ halfUpgraded' = halfUpgraded /\ status' = "versioned"
      /\ kind' = kind /\ schema' = schema /\ requests' = requests /\ unwritten' = unwritten
      /\ before' = before /\ touched' = touched /\ expected' = expected /\ lost' = lost
      /\ cache' = cache /\ rowIds' = rowIds /\ nextId' = nextId
  BY DEF checkVersion, journal, memory, history
<1>2. /\ native = disk /\ made \in BOOLEAN /\ schema \in 1 .. MaxVersion /\ MaxVersion \in Nat
      /\ dropped \subseteq Persistent /\ halfUpgraded \in BOOLEAN
      /\ disk = [s \in Stores |-> disk[s]]
  BY <1>1, StoresAssumption DEF Inv, StatusInv, Sending, TypeInv
<1>3. Readable(disk, kind, version) /\ Same(disk)
  BY <1>1, <1>2 DEF Readable, Inv, TypeInv, Same
<1>5. \A t \in Persistent \ dropped : IndexAt(disk, t) = DOMAIN RowsAt(disk, t)
  <2>1. Persistent \subseteq Tables BY StoresAssumption
  <2> QED BY <1>1, <2>1 DEF Inv, IndexInv
<1>8. status \in Away /\ status' \in Away /\ version' \in 0 .. MaxVersion BY <1>1, <1>2 DEF Away
<1> QED BY <1>1, <1>2, <1>3, <1>5, <1>8, MediumKeeps

\* So does its second step.
LEMMA preUpgradeKeeps == Inv /\ preUpgrade => Inv'
<1> SUFFICES ASSUME Inv, preUpgrade PROVE Inv' OBVIOUS
<1>p. PICK new : new = removeIndexTables(disk) OBVIOUS
<1>1. /\ status = "versioned"
      /\ disk' = new /\ native' = new /\ version' = version /\ made' = TRUE
      /\ dropped' = dropped \cup Unindexed(disk) /\ halfUpgraded' = halfUpgraded
      /\ status' = "upgrading"
      /\ kind' = kind /\ schema' = schema /\ requests' = requests /\ unwritten' = unwritten
      /\ before' = before /\ touched' = touched /\ expected' = expected /\ lost' = lost
      /\ cache' = cache /\ rowIds' = rowIds /\ nextId' = nextId
  BY <1>p DEF preUpgrade, journal, memory
<1>2. /\ native = disk /\ ~unwritten /\ version \in 0 .. MaxVersion /\ kind = "web_sql"
      /\ version = schema /\ dropped \subseteq Persistent /\ halfUpgraded \in BOOLEAN
      /\ disk = [s \in Stores |-> disk[s]] /\ kind \in Kinds
      /\ \A t \in Tables : StoreOK(kind, disk[Data(t)])
  <2>1. kind = "web_sql" /\ ~unwritten BY <1>1 DEF Inv, StatusInv, Sending
  <2> QED BY <1>1, <2>1 DEF Inv, StatusInv, Sending, TypeInv
<1>3. /\ new = [s \in Stores |-> new[s]]
      /\ \A t \in Tables : new[Index(t)] = None /\ new[Data(t)] = disk[Data(t)]
  BY <1>2, <1>p, UnindexedIs
<1>4. Readable(new, kind, version)
  <2>1. IndexOK(kind, None) BY NoneIs
  <2> QED BY <1>2, <1>3, <2>1 DEF Readable
<1>5. Same(new) BY <1>3, SameIs
<1>6. OnDisk(new) = OnDisk(disk)
  <2>1. \A t \in Tables : SameRows(kind, disk[Data(t)], new[Data(t)]) BY <1>3, SameRowsIs
  <2> QED BY <1>2, <2>1, SameContents
<1>7. Persistent \subseteq Tables BY StoresAssumption
<1>8. ASSUME NEW t \in Persistent \ dropped' PROVE IndexAt(new, t) = DOMAIN RowsAt(new, t)
  <2>1. t \in Tables /\ DOMAIN disk[Data(t)] = {} BY <1>1, <1>7, <1>8 DEF Unindexed
  <2>3. IndexAt(new, t) = {} BY <2>1, <1>2, <1>3, IndexReadIs DEF IndexAt
  <2>4. disk[Data(t)] = None BY <1>2, <2>1 DEF None, StoreOK
  <2>5. GetAll(kind, new[Data(t)]) = None BY <2>1, <2>4, <1>3, NoneIs
  <2> QED BY <2>3, <2>5, NoneIs DEF RowsAt
<1>9. status \in Away /\ status' \in Away /\ made' \in BOOLEAN
      /\ dropped \subseteq dropped' /\ dropped' \subseteq Persistent
  BY <1>1, <1>2 DEF Away, Unindexed
<1> QED BY <1>1, <1>2, <1>4, <1>5, <1>6, <1>8, <1>9, MediumKeeps

\* So does each further step.
LEMMA transformColumnKeeps ==
    ASSUME Inv, NEW t \in Tables, transformColumn(t)
    PROVE  Inv'
<1>p. PICK new : new = transformRows(disk, {t}) OBVIOUS
<1>1. /\ status = "upgrading"
      /\ disk' = new /\ native' = new /\ version' = version /\ made' = made
      /\ dropped' = dropped /\ halfUpgraded' = halfUpgraded /\ status' = status
      /\ kind' = kind /\ schema' = schema /\ requests' = requests /\ unwritten' = unwritten
      /\ before' = before /\ touched' = touched /\ expected' = expected /\ lost' = lost
      /\ cache' = cache /\ rowIds' = rowIds /\ nextId' = nextId
  BY <1>p DEF transformColumn, journal, memory, history
<1>2. /\ native = disk /\ ~unwritten /\ version \in 0 .. MaxVersion /\ kind = "web_sql"
      /\ version = schema /\ dropped \subseteq Persistent /\ halfUpgraded \in BOOLEAN
      /\ made \in BOOLEAN /\ kind \in Kinds /\ schema \in Versions
  <2>1. kind = "web_sql" /\ ~unwritten BY <1>1 DEF Inv, StatusInv, Sending
  <2> QED BY <1>1, <2>1 DEF Inv, StatusInv, Sending, TypeInv, Versions
<1>3. /\ Readable(new, kind, version)
      /\ \A u \in Tables : /\ SameRows(kind, disk[Data(u)], new[Data(u)])
                           /\ new[Index(u)] = disk[Index(u)]
                           /\ u \in {t} => Within(RowsAt(new, u), RowId, {schema})
                           /\ u \notin {t} => new[Data(u)] = disk[Data(u)]
  <2> DEFINE old == disk
  <2>1. old \in {disk, removeIndexTables(disk)} /\ {t} \in SUBSET Tables OBVIOUS
  <2> QED BY <1>2, <1>p, <2>1, UpgradeIs
<1>5. Same(new) BY <1>2, <1>3, SameIs
<1>6. OnDisk(new) = OnDisk(disk) BY <1>2, <1>3, SameContents
<1>7. Persistent \subseteq Tables BY StoresAssumption
<1>8. ASSUME NEW u \in Persistent \ dropped PROVE IndexAt(new, u) = DOMAIN RowsAt(new, u)
  <2>1. u \in Tables /\ IndexAt(disk, u) = DOMAIN RowsAt(disk, u)
    BY <1>2, <1>7, <1>8 DEF Inv, IndexInv
  <2> QED BY <2>1, <1>3 DEF IndexAt, RowsAt, SameRows
<1>9. status \in Away /\ status' \in Away BY <1>1 DEF Away
<1> QED BY <1>1, <1>2, <1>3, <1>5, <1>6, <1>8, <1>9, MediumKeeps

-----------------------------------------------------------------------------
(* Statements.                                                             *)

\* A statement gives a table some rows and its RowId index some ids.
LEMMA StatementKeeps ==
    ASSUME Inv, NEW t \in Tables, Statement(t), NEW rows \in RowMap, NEW ids \in SUBSET RowId,
           cache' = [cache EXCEPT ![t] = rows], rowIds' = [rowIds EXCEPT ![t] = ids],
           NEW fresh \in SUBSET {nextId}, nextId' \in 0 .. MaxRowId, nextId' >= nextId,
           fresh # {} => nextId' > nextId /\ nextId \in RowId,
           \A own \in SUBSET RowId, versions \in SUBSET Versions :
               Within(cache[t], own, versions) /\ schema \in versions
               => Within(rows, own \cup fresh, versions),
           rowIds[t] = DOMAIN cache[t] => ids = DOMAIN rows
    PROVE  Inv'
<1>1. /\ status \in {"idle", "active"} /\ status' = "active"
      /\ before' = IF status = "idle" THEN Snapshot ELSE before
      /\ touched' = touched \cup {t}
      /\ kind' = kind /\ disk' = disk /\ version' = version /\ made' = made /\ schema' = schema
      /\ native' = native /\ requests' = requests /\ unwritten' = unwritten
      /\ expected' = expected /\ dropped' = dropped /\ lost' = lost
      /\ halfUpgraded' = halfUpgraded
  BY DEF Statement, history
<1>2. /\ kind \in Kinds /\ requests = <<>> /\ DOMAIN requests = {} /\ Range(requests) = {}
      /\ cache \in [Tables -> RowMap] /\ rowIds \in [Tables -> SUBSET RowId]
      /\ before \in [cache : [Tables -> RowMap], rowIds : [Tables -> SUBSET RowId]]
      /\ schema \in Versions /\ touched \subseteq Tables /\ nextId \in 0 .. MaxRowId
      /\ MaxRowId \in Nat /\ MaxVersion \in Nat
  BY <1>1, EmptyBlock, StoresAssumption DEF Inv, TypeInv, StatusInv, Sending, Versions
<1>3. \A u \in Tables : /\ cache'[u] = IF u = t THEN rows ELSE cache[u]
                        /\ rowIds'[u] = IF u = t THEN ids ELSE rowIds[u]
  BY <1>2
<1>4. /\ status = "idle" => before'.cache = cache /\ before'.rowIds = rowIds
      /\ status = "active" => before' = before
  BY <1>1 DEF Snapshot
<1>5. TypeInv'
  <2>1. cache' \in [Tables -> RowMap] /\ rowIds' \in [Tables -> SUBSET RowId] BY <1>2
  <2>2. before' \in [cache : [Tables -> RowMap], rowIds : [Tables -> SUBSET RowId]]
    BY <1>1, <1>2 DEF Snapshot
  <2>3. touched' \subseteq Tables BY <1>1, <1>2
  <2> QED BY <1>1, <2>1, <2>2, <2>3 DEF Inv, TypeInv
<1>6. StatusInv'
  BY <1>1, <1>2 DEF Inv, StatusInv, Sending, Away
<1>7. OwnInv'
  <2>1. PICK own \in [Tables -> SUBSET RowId] : Owns(own) BY DEF Inv, OwnInv
  <2>2. \A u \in Tables : \A id \in own[u] : id < nextId
    BY <1>1, <2>1 DEF Owns, Live
  <2>3. PICK new \in [Tables -> SUBSET RowId] :
           \A u \in Tables : new[u] = IF u = t THEN own[u] \cup fresh ELSE own[u]
    <3> DEFINE f == [u \in Tables |-> IF u = t THEN own[u] \cup fresh ELSE own[u]]
    <3>1. f \in [Tables -> SUBSET RowId] OBVIOUS
    <3>2. \A u \in Tables : f[u] = IF u = t THEN own[u] \cup fresh ELSE own[u] OBVIOUS
    <3> HIDE DEF f
    <3> QED BY <3>1, <3>2
  <2>4. Disjoint(new)
    <3>1. \A u \in Tables : own[u] \cap fresh = {}
      <4> SUFFICES ASSUME NEW u \in Tables, NEW id \in own[u], id \in fresh PROVE FALSE OBVIOUS
      <4>1. id = nextId /\ id < nextId BY <2>2
      <4> QED BY <4>1, <1>2
    <3>2. \A u, w \in Tables : u # w => own[u] \cap own[w] = {} BY <2>1 DEF Owns, Disjoint
    <3> QED BY <2>3, <3>1, <3>2 DEF Disjoint
  <2>5. ASSUME NEW u \in Tables, NEW id \in new[u] PROVE id < nextId'
    <3>1. CASE id \in own[u]
      <4>1. id < nextId /\ id \in Int BY <1>2, <2>2, <3>1 DEF RowId
      <4> QED BY <4>1, <1>2
    <3>2. CASE id \notin own[u]
      <4>1. id \in fresh BY <2>3, <3>2
      <4>2. id = nextId /\ fresh # {} BY <4>1
      <4> QED BY <4>2
    <3> QED BY <3>1, <3>2
  <2>6. ASSUME NEW u \in Tables
        PROVE  /\ Within(cache'[u], new[u], Versions) /\ Within(before'.cache[u], new[u], Versions)
    <3>1. Within(cache[u], own[u], Versions) /\ Within(before.cache[u], own[u], Versions)
      BY <2>1 DEF Owns, MemoryWithin
    <3>2. own[u] \subseteq new[u] BY <2>3
    <3>3. Within(cache[u], new[u], Versions) /\ Within(before.cache[u], new[u], Versions)
      BY <3>1, <3>2 DEF Within
    <3>4. Within(before'.cache[u], new[u], Versions) BY <1>1, <1>4, <3>3
    <3>5. CASE u = t
      <4>1. Within(rows, own[u] \cup fresh, Versions) BY <1>2, <3>1, <3>5
      <4> QED BY <4>1, <3>4, <3>5, <1>3, <2>3
    <3> QED BY <1>3, <3>3, <3>4, <3>5
  <2>7. kind # "memory" => \A u \in Tables :
           Within(RowsAt(disk, u), new[u], Versions) /\ Within(RowsAt(native, u), new[u], Versions)
    <3>1. \A u \in Tables : own[u] \subseteq new[u] BY <2>3
    <3> QED BY <2>1, <3>1 DEF Owns, DiskWithin, Within
  <2>8. \A u \in Tables : RequestsWithin(u, new[u], Versions)'
    BY <1>1, <1>2 DEF RequestsWithin
  <2>9. kind # "memory" => \A u \in Tables : DiskWithin(u, new[u], Versions)'
    BY <2>7, <1>1 DEF DiskWithin, RowsAt
  <2>10. \A u \in Tables : MemoryWithin(u, new[u], Versions)'
    <3>1. \A u \in Tables : Within(cache[u], new[u], Versions)'
      BY <2>6 DEF Within
    <3>2. \A u \in Tables : Within(before.cache[u], new[u], Versions)'
      BY <2>6 DEF Within
    <3> QED BY <3>1, <3>2, <2>8 DEF MemoryWithin, RequestsWithin
  <2>11. Disjoint(new)' BY <2>4 DEF Disjoint
  <2>12. Owns(new)'
    BY <1>1, <2>5, <2>9, <2>10, <2>11 DEF Owns
  <2> QED BY <2>12 DEF OwnInv
<1>8. ColsInv'
  <2> SUFFICES ASSUME kind # "memory", ~halfUpgraded, NEW u \in Tables
               PROVE  /\ Within(cache'[u], RowId, {schema})
                      /\ Within(before'.cache[u], RowId, {schema})
                      /\ version = schema => /\ Within(RowsAt(disk, u), RowId, {schema})
                                             /\ Within(RowsAt(native, u), RowId, {schema})
    BY <1>1, <1>2 DEF ColsInv, MemoryWithin, RequestsWithin, DiskWithin, RowsAt
  <2>1. /\ Within(cache[u], RowId, {schema}) /\ Within(before.cache[u], RowId, {schema})
        /\ version = schema => /\ Within(RowsAt(disk, u), RowId, {schema})
                               /\ Within(RowsAt(native, u), RowId, {schema})
    BY <1>1 DEF Inv, ColsInv, MemoryWithin, DiskWithin
  <2>2. Within(before'.cache[u], RowId, {schema}) BY <1>1, <1>4, <2>1
  <2>3. CASE u = t
    <3>1. RowId \cup fresh = RowId OBVIOUS
    <3>2. Within(rows, RowId \cup fresh, {schema}) BY <1>2, <2>1, <2>3
    <3> QED BY <3>1, <3>2, <1>3, <2>1, <2>2, <2>3
  <2> QED BY <2>1, <2>2, <2>3, <1>3
<1>9. ReplicaInv'
  <2>1. ASSUME NEW u \in Tables, Sound(u) PROVE GetAll(kind, native[Data(u)]) = before'.cache[u]
    BY <1>1, <1>4, <2>1 DEF Inv, ReplicaInv, ReplicaOf, RowsAt
  <2>2. \A u \in Tables : Sound(u)' => Sound(u) BY <1>1 DEF Sound
  <2>3. \A u \in Tables \ touched' : cache'[u] = before'.cache[u] /\ rowIds'[u] = before'.rowIds[u]
    BY <1>1, <1>3, <1>4 DEF Inv, ReplicaInv
  <2>4. Tidy(kind, requests) BY DEF Inv, ReplicaInv
  <2> QED BY <1>1, <2>1, <2>2, <2>3, <2>4 DEF ReplicaInv, ReplicaOf, RowsAt, Sending
<1>10. ExpectedInv'
  <2>1. kind # "memory" /\ ~lost => OnDisk(disk) \in expected BY DEF Inv, ExpectedInv
  <2>2. OnDisk(disk)' = OnDisk(disk) BY <1>1 DEF OnDisk, Contents
  <2> QED BY <1>1, <2>1, <2>2 DEF ExpectedInv, Sending
<1>11. IndexInv'
  <2> SUFFICES ASSUME NEW u \in Tables, u \in Persistent => u \notin dropped /\ kind # "indexed_db"
               PROVE  /\ rowIds'[u] = DOMAIN cache'[u] /\ before'.rowIds[u] = DOMAIN before'.cache[u]
                      /\ kind # "memory" /\ u \in Persistent =>
                            /\ IndexAt(disk, u) = DOMAIN RowsAt(disk, u)
                            /\ IndexAt(native, u) = before'.rowIds[u]
    BY <1>1 DEF IndexInv, IndexAt, RowsAt, Sending
  <2>1. /\ rowIds[u] = DOMAIN cache[u] /\ before.rowIds[u] = DOMAIN before.cache[u]
        /\ kind # "memory" /\ u \in Persistent =>
              /\ IndexAt(disk, u) = DOMAIN RowsAt(disk, u)
              /\ status = "idle" => IndexAt(native, u) = rowIds[u]
              /\ status = "active" => IndexAt(native, u) = before.rowIds[u]
    BY DEF Inv, IndexInv
  <2>2. rowIds'[u] = DOMAIN cache'[u] BY <1>3, <2>1
  <2> QED BY <1>1, <1>4, <2>1, <2>2
<1> QED BY <1>5, <1>6, <1>7, <1>8, <1>9, <1>10, <1>11 DEF Inv

\* An insert keeps the invariant: its row id is fresh.
LEMMA InsertKeeps ==
    ASSUME Inv, NEW t \in Tables, NEW v \in Values, Insert(t, v)
    PROVE  Inv'
<1> DEFINE row == [value |-> v, cols |-> schema]
           rows == Put(cache[t], nextId, row)
           ids == rowIds[t] \cup {nextId}
<1>1. /\ Statement(t) /\ nextId < MaxRowId /\ cache' = [cache EXCEPT ![t] = rows]
      /\ rowIds' = [rowIds EXCEPT ![t] = ids] /\ nextId' = nextId + 1
  BY DEF Insert
<1>2. /\ cache[t] \in RowMap /\ rowIds[t] \subseteq RowId /\ nextId \in Nat /\ MaxRowId \in Nat
      /\ schema \in Versions
  BY StoresAssumption DEF Inv, TypeInv, Versions
<1>3. row \in Row /\ row.cols = schema /\ nextId \in RowId BY <1>1, <1>2 DEF Row, RowId, Versions
<1>4. /\ DOMAIN rows = DOMAIN cache[t] \cup {nextId} /\ rows = [id \in DOMAIN rows |-> rows[id]]
      /\ \A id \in DOMAIN rows : rows[id] = IF id = nextId THEN row ELSE cache[t][id]
  BY DEF Put
<1> HIDE DEF row, rows
<1>5. /\ DOMAIN cache[t] \subseteq RowId /\ \A id \in DOMAIN cache[t] : cache[t][id] \in Row
  BY <1>2, RowMapIs
<1>6. rows \in RowMap BY <1>3, <1>4, <1>5, RowMapIs
<1>7. ASSUME NEW own \in SUBSET RowId, NEW versions \in SUBSET Versions,
             Within(cache[t], own, versions), schema \in versions
      PROVE  Within(rows, own \cup {nextId}, versions)
  BY <1>3, <1>4, <1>7 DEF Within
<1>8. ids \in SUBSET RowId /\ (rowIds[t] = DOMAIN cache[t] => ids = DOMAIN rows)
  BY <1>2, <1>3, <1>4
<1>9. /\ {nextId} \in SUBSET {nextId} /\ nextId' \in 0 .. MaxRowId /\ nextId' >= nextId
      /\ nextId' > nextId
  BY <1>1, <1>2
<1> HIDE DEF ids
<1>p. PICK fresh \in SUBSET {nextId} : fresh = {nextId} OBVIOUS
<1> QED BY <1>1, <1>3, <1>6, <1>7, <1>8, <1>9, <1>p, StatementKeeps

\* So does an update.
LEMMA UpdateKeeps ==
    ASSUME Inv, NEW t \in Tables, NEW v \in Values, NEW id \in DOMAIN cache[t], Update(t, id, v)
    PROVE  Inv'
<1> DEFINE rows == [cache[t] EXCEPT ![id].value = v]
<1>1. Statement(t) /\ rowIds' = rowIds /\ nextId' = nextId
      /\ cache' = [cache EXCEPT ![t][id].value = v]
  BY DEF Update
<1>2. /\ cache[t] \in RowMap /\ rowIds \in [Tables -> SUBSET RowId] /\ nextId \in 0 .. MaxRowId
      /\ cache \in [Tables -> RowMap] /\ MaxRowId \in Nat
  BY StoresAssumption DEF Inv, TypeInv
<1>3. /\ DOMAIN cache[t] \subseteq RowId /\ \A x \in DOMAIN cache[t] : cache[t][x] \in Row
  BY <1>2, RowMapIs
<1>4. cache' = [cache EXCEPT ![t] = rows] BY <1>1
<1>5. /\ DOMAIN rows = DOMAIN cache[t] /\ rows = [x \in DOMAIN rows |-> rows[x]]
      /\ \A x \in DOMAIN rows : rows[x] \in Row /\ rows[x].cols = cache[t][x].cols
  <2>1. DOMAIN rows = DOMAIN cache[t] /\ rows = [x \in DOMAIN rows |-> rows[x]]
        /\ \A x \in DOMAIN cache[t] : rows[x] = IF x = id THEN [cache[t][id] EXCEPT !.value = v]
                                                ELSE cache[t][x]
    OBVIOUS
  <2>2. [cache[t][id] EXCEPT !.value = v] \in Row
        /\ [cache[t][id] EXCEPT !.value = v].cols = cache[t][id].cols
    BY <1>3 DEF Row
  <2> HIDE DEF rows
  <2> QED BY <1>3, <2>1, <2>2
<1> HIDE DEF rows
<1>6. rows \in RowMap BY <1>3, <1>5, RowMapIs
<1>7. PICK fresh \in SUBSET {nextId} : fresh = {} OBVIOUS
<1>8. ASSUME NEW own \in SUBSET RowId, NEW versions \in SUBSET Versions,
             Within(cache[t], own, versions)
      PROVE  Within(rows, own \cup fresh, versions)
  BY <1>5, <1>7, <1>8 DEF Within
<1>9. rowIds' = [rowIds EXCEPT ![t] = rowIds[t]] /\ rowIds[t] \in SUBSET RowId BY <1>1, <1>2
<1>10. nextId' \in 0 .. MaxRowId /\ nextId' >= nextId BY <1>1, <1>2
<1>11. rowIds[t] = DOMAIN cache[t] => rowIds[t] = DOMAIN rows BY <1>5
<1> QED BY <1>1, <1>4, <1>6, <1>7, <1>8, <1>9, <1>10, <1>11, StatementKeeps

\* So does a delete.
LEMMA DeleteKeeps ==
    ASSUME Inv, NEW t \in Tables, NEW some \in SUBSET DOMAIN cache[t], Delete(t, some)
    PROVE  Inv'
<1> DEFINE rows == Without(cache[t], some)
           ids == rowIds[t] \ some
<1>1. Statement(t) /\ rowIds' = [rowIds EXCEPT ![t] = ids] /\ nextId' = nextId
      /\ cache' = [cache EXCEPT ![t] = rows]
  BY DEF Delete
<1>2. /\ cache[t] \in RowMap /\ rowIds \in [Tables -> SUBSET RowId] /\ nextId \in 0 .. MaxRowId
      /\ MaxRowId \in Nat
  BY StoresAssumption DEF Inv, TypeInv
<1>3. /\ DOMAIN cache[t] \subseteq RowId /\ \A x \in DOMAIN cache[t] : cache[t][x] \in Row
  BY <1>2, RowMapIs
<1>5. /\ DOMAIN rows = DOMAIN cache[t] \ some /\ rows = [x \in DOMAIN rows |-> rows[x]]
      /\ \A x \in DOMAIN rows : rows[x] = cache[t][x]
  BY DEF Without, Restrict
<1> HIDE DEF rows
<1>6. rows \in RowMap BY <1>3, <1>5, RowMapIs
<1>7. PICK fresh \in SUBSET {nextId} : fresh = {} OBVIOUS
<1>8. ASSUME NEW own \in SUBSET RowId, NEW versions \in SUBSET Versions,
             Within(cache[t], own, versions)
      PROVE  Within(rows, own \cup fresh, versions)
  BY <1>5, <1>7, <1>8 DEF Within
<1>9. ids \in SUBSET RowId /\ (rowIds[t] = DOMAIN cache[t] => ids = DOMAIN rows) BY <1>2, <1>5
<1>10. nextId' \in 0 .. MaxRowId /\ nextId' >= nextId BY <1>1, <1>2
<1> HIDE DEF ids
<1> QED BY <1>1, <1>6, <1>7, <1>8, <1>9, <1>10, StatementKeeps

-----------------------------------------------------------------------------
(* The end of a transaction.                                               *)

\* A step that only exchanges what is stored or in memory for other parts of that.
Exchanged ==
    /\ kind' = kind /\ version' = version /\ made' = made /\ schema' = schema
    /\ nextId' = nextId /\ before' = before /\ halfUpgraded' = halfUpgraded
    /\ disk' \in {disk, native} /\ native' \in {disk, native}
    /\ \/ cache' = cache /\ rowIds' = rowIds
       \/ cache' = before.cache /\ rowIds' = before.rowIds
    /\ requests' = requests \/ requests' = <<>>
    /\ touched' \subseteq touched /\ dropped' \subseteq Persistent
    /\ lost' \in BOOLEAN /\ unwritten' \in BOOLEAN
    /\ status \notin {"versioned", "upgrading"}
    /\ status' = status \/ (status \in Live /\ status' \in Live)

\* Memory and medium exchange what they hold.
LEMMA ExchangeKeeps ==
    ASSUME Inv, Exchanged
    PROVE  TypeInv' /\ OwnInv' /\ ColsInv'
<1>1. /\ kind' = kind /\ version' = version /\ made' = made /\ schema' = schema
      /\ nextId' = nextId /\ before' = before /\ halfUpgraded' = halfUpgraded
      /\ disk' \in {disk, native} /\ native' \in {disk, native}
      /\ cache' = cache \/ cache' = before.cache
      /\ rowIds' = rowIds \/ rowIds' = before.rowIds
      /\ requests' = requests \/ requests' = <<>>
      /\ touched' \subseteq touched /\ dropped' \subseteq Persistent
      /\ lost' \in BOOLEAN /\ unwritten' \in BOOLEAN
      /\ status \notin {"versioned", "upgrading"}
      /\ status' = status \/ (status \in Live /\ status' \in Live)
  BY DEF Exchanged
<1>2. \A i \in DOMAIN requests' : i \in DOMAIN requests /\ requests'[i] = requests[i]
  BY <1>1, EmptyBlock
<1>3. TypeInv'
  <2>1. /\ disk' = [s \in Stores |-> disk'[s]] /\ native' = [s \in Stores |-> native'[s]]
    BY <1>1 DEF Inv, TypeInv
  <2>2. kind # "memory" => \A t \in Tables :
           /\ StoreOK(kind, disk'[Data(t)]) /\ StoreOK(kind, native'[Data(t)])
           /\ IndexOK(kind, disk'[Index(t)]) /\ IndexOK(kind, native'[Index(t)])
    BY <1>1 DEF Inv, TypeInv
  <2>3. /\ before \in [cache : [Tables -> RowMap], rowIds : [Tables -> SUBSET RowId]]
        /\ cache \in [Tables -> RowMap] /\ rowIds \in [Tables -> SUBSET RowId]
        /\ status \in {"closed", "failed", "versioned", "upgrading", "idle", "active",
                       "committing", "importing", "written"}
        /\ touched \subseteq Tables /\ kind \in Kinds /\ nextId \in 0 .. MaxRowId
        /\ version \in 0 .. MaxVersion /\ schema \in 1 .. MaxVersion
        /\ made \in BOOLEAN /\ halfUpgraded \in BOOLEAN
    BY DEF Inv, TypeInv
  <2>4. cache' \in [Tables -> RowMap] /\ rowIds' \in [Tables -> SUBSET RowId] BY <1>1, <2>3
  <2>5. status' \in {"closed", "failed", "versioned", "upgrading", "idle", "active",
                     "committing", "importing", "written"}
    BY <1>1, <2>3 DEF Live
  <2>6. requests' \in Seq(Range(requests'))
    <3>1. requests \in Seq(Range(requests)) BY DEF Inv, TypeInv
    <3> QED BY <1>1, <3>1, EmptyBlock
  <2>7. requests' \in Seq(Range(requests)') BY <2>6 DEF Range
  <2>8. \A i \in DOMAIN requests' : RequestOK(kind, requests[i])'
    <3>1. \A i \in DOMAIN requests' : RequestOK(kind, requests'[i])
      BY <1>2 DEF Inv, TypeInv
    <3> QED BY <1>1, <3>1 DEF RequestOK
  <2>9. {made', unwritten', lost', halfUpgraded'} \subseteq BOOLEAN BY <1>1, <2>3
  <2>10. touched' \subseteq Tables BY <1>1, <2>3
  <2> QED BY <1>1, <2>1, <2>2, <2>3, <2>4, <2>5, <2>7, <2>8, <2>9, <2>10 DEF TypeInv
<1>4. ASSUME NEW t \in Tables, NEW ids, NEW versions, MemoryWithin(t, ids, versions)
      PROVE  MemoryWithin(t, ids, versions)'
  <2>1. Within(cache'[t], ids, versions) /\ Within(before'.cache[t], ids, versions)
    BY <1>1, <1>4 DEF MemoryWithin
  <2>2. RequestsWithin(t, ids, versions)'
    <3> SUFFICES ASSUME NEW i \in DOMAIN requests', requests'[i].op = "put",
                        requests'[i].store = Data(t)
                 PROVE  Within(RecordRows(kind, requests'[i].key, requests'[i].record), ids, versions)
      BY <1>1 DEF RequestsWithin
    <3> QED BY <1>2, <1>4 DEF MemoryWithin, RequestsWithin
  <2> QED BY <2>1, <2>2 DEF MemoryWithin, Within
<1>5. ASSUME NEW t \in Tables, NEW ids, NEW versions, DiskWithin(t, ids, versions)
      PROVE  DiskWithin(t, ids, versions)'
  <2>1. /\ Within(GetAll(kind, disk[Data(t)]), ids, versions)
        /\ Within(GetAll(kind, native[Data(t)]), ids, versions)
    BY <1>5 DEF DiskWithin, RowsAt
  <2>2. /\ Within(GetAll(kind, disk'[Data(t)]), ids, versions)
        /\ Within(GetAll(kind, native'[Data(t)]), ids, versions)
    BY <1>1, <2>1
  <2> QED BY <1>1, <2>2 DEF DiskWithin, RowsAt
<1>6. OwnInv'
  <2>1. PICK own \in [Tables -> SUBSET RowId] : Owns(own) BY DEF Inv, OwnInv
  <2>2. Disjoint(own)' BY <2>1 DEF Owns, Disjoint
  <2>3. \A t \in Tables : MemoryWithin(t, own[t], Versions)'
    BY <1>4, <2>1 DEF Owns
  <2>4. kind' # "memory" => \A t \in Tables : DiskWithin(t, own[t], Versions)'
    BY <1>1, <1>5, <2>1 DEF Owns
  <2>5. status' \in Live => \A t \in Tables : \A id \in own[t] : id < nextId'
    BY <1>1, <2>1 DEF Owns
  <2>6. Owns(own)' BY <2>1, <2>2, <2>3, <2>4, <2>5 DEF Owns
  <2> QED BY <2>6 DEF OwnInv
<1>7. ColsInv'
  <2> SUFFICES ASSUME kind # "memory", ~halfUpgraded, NEW t \in Tables
               PROVE  /\ MemoryWithin(t, RowId, {schema})'
                      /\ version = schema => DiskWithin(t, RowId, {schema})'
    BY <1>1 DEF ColsInv
  <2>1. MemoryWithin(t, RowId, {schema}) /\ (version = schema => DiskWithin(t, RowId, {schema}))
    BY <1>1 DEF Inv, ColsInv
  <2>2. PICK V : V = {schema} OBVIOUS
  <2>3. MemoryWithin(t, RowId, V)' BY <1>4, <2>1, <2>2
  <2>4. version = schema => DiskWithin(t, RowId, V)' BY <1>5, <2>1, <2>2
  <2>5. V = {schema'} BY <1>1, <2>2
  <2> QED BY <2>3, <2>4, <2>5
<1> QED BY <1>3, <1>6, <1>7

\* Once every request is served the native store has what memory has.
LEMMA SettledIs ==
    ASSUME Inv, status \in Sending, requests = <<>>
    PROVE  /\ kind # "memory"
           /\ \A t \in Tables : Sound(t) => RowsAt(native, t) = cache[t]
           /\ kind # "indexed_db" =>
                 \A t \in Persistent \ dropped : IndexAt(native, t) = rowIds[t]
<1>1. /\ kind # "memory" /\ kind \in Kinds /\ Range(requests) = {} /\ cache \in [Tables -> RowMap]
      /\ \A t \in Tables : StoreOK(kind, native[Data(t)]) /\ IndexOK(kind, native[Index(t)])
  <2>1. kind # "memory" BY DEF Inv, StatusInv
  <2> QED BY <2>1, EmptyBlock DEF Inv, TypeInv
<1>2. ASSUME NEW t \in Tables, Sound(t) PROVE RowsAt(native, t) = cache[t]
  <2>1. ConvergesTo(kind, native[Data(t)], {}, Data(t), Image(kind, cache[t]))
    BY <1>1, <1>2 DEF Inv, ReplicaInv, ReplicaOf
  <2>2. cache[t] \in RowMap /\ StoreOK(kind, native[Data(t)]) BY <1>1
  <2> QED BY <2>1, <2>2, DataSettled DEF RowsAt
<1>3. ASSUME kind # "indexed_db", NEW t \in Persistent \ dropped
      PROVE  IndexAt(native, t) = rowIds[t]
  <2>1. t \in Tables BY StoresAssumption
  <2>2. IndexSettles(t) BY <1>1, <1>3, <2>1 DEF Inv, IndexInv
  <2>3. CASE IndexAt(native, t) = rowIds[t] BY <2>3
  <2>4. CASE ConvergesTo(kind, native[Index(t)], {}, Index(t), IndexImage(kind, rowIds[t]))
    <3>1. IndexOK(kind, native[Index(t)]) /\ kind \in Kinds BY <1>1, <2>1
    <3> QED BY <2>4, <3>1, IndexSettled DEF IndexAt
  <2> QED BY <1>1, <2>2, <2>3, <2>4 DEF IndexSettles
<1> QED BY <1>1, <1>2, <1>3

\* Stores that hold the rows of a cache have its contents.
LEMMA ContentsAre ==
    ASSUME NEW stores, NEW c, c \in [Tables -> RowMap],
           \A t \in Tables : RowsAt(stores, t) = c[t]
    PROVE  OnDisk(stores) = Contents(c)
<1>1. RowsOf(kind, stores) = c BY RowsOfIs DEF RowsAt
<1> QED BY <1>1 DEF OnDisk, RowsOf

\* A transaction that gives up keeps the invariant.
LEMMA RollBackKeeps == Inv /\ RollBack => Inv'
<1> SUFFICES ASSUME Inv, RollBack PROVE Inv' OBVIOUS
<1>1. /\ status = "active" /\ status' = "idle" /\ cache' = before.cache /\ rowIds' = before.rowIds
      /\ nextId' = nextId /\ touched' = {} /\ before' = before
      /\ kind' = kind /\ disk' = disk /\ version' = version /\ made' = made /\ schema' = schema
      /\ native' = native /\ requests' = requests /\ unwritten' = unwritten
      /\ expected' = expected /\ dropped' = dropped /\ lost' = lost
      /\ halfUpgraded' = halfUpgraded
  BY DEF RollBack, rollback, Forget, history
<1>2. Exchanged
  <2>1. dropped \subseteq Persistent /\ lost \in BOOLEAN /\ unwritten \in BOOLEAN
    BY DEF Inv, TypeInv
  <2> QED BY <1>1, <2>1 DEF Exchanged, Live
<1>3. StatusInv' BY <1>1 DEF Inv, StatusInv, Sending, Away
<1>4. ReplicaInv'
  <2>1. ASSUME NEW u \in Tables, Sound(u) PROVE GetAll(kind, native[Data(u)]) = cache'[u]
    BY <1>1, <2>1 DEF Inv, ReplicaInv, ReplicaOf, RowsAt
  <2>2. \A u \in Tables : Sound(u)' => Sound(u) BY <1>1 DEF Sound
  <2>4. Tidy(kind, requests) BY DEF Inv, ReplicaInv
  <2> QED BY <1>1, <2>1, <2>2, <2>4 DEF ReplicaInv, ReplicaOf, RowsAt, Sending
<1>5. ExpectedInv'
  <2>1. kind # "memory" /\ ~lost => OnDisk(disk) \in expected BY DEF Inv, ExpectedInv
  <2>2. OnDisk(disk)' = OnDisk(disk) BY <1>1 DEF OnDisk, Contents
  <2> QED BY <1>1, <2>1, <2>2 DEF ExpectedInv, Sending
<1>6. IndexInv'
  <2> SUFFICES ASSUME NEW u \in Tables, u \in Persistent => u \notin dropped /\ kind # "indexed_db"
               PROVE  /\ rowIds'[u] = DOMAIN cache'[u] /\ before'.rowIds[u] = DOMAIN before'.cache[u]
                      /\ kind # "memory" /\ u \in Persistent =>
                            /\ IndexAt(disk, u) = DOMAIN RowsAt(disk, u)
                            /\ IndexAt(native, u) = rowIds'[u]
    BY <1>1 DEF IndexInv, IndexAt, RowsAt, Sending
  <2> QED BY <1>1 DEF Inv, IndexInv
<1> QED BY <1>2, <1>3, <1>4, <1>5, <1>6, ExchangeKeeps DEF Inv

\* So does the native transaction that commits.
LEMMA CompleteKeeps == Inv /\ Complete => Inv'
<1> SUFFICES ASSUME Inv, Complete PROVE Inv' OBVIOUS
<1>1. /\ status \in Sending /\ kind # "web_sql" /\ requests = <<>> /\ status' = "written"
      /\ disk' = native /\ native' = native
      /\ kind' = kind /\ version' = version /\ made' = made /\ schema' = schema
      /\ cache' = cache /\ rowIds' = rowIds /\ nextId' = nextId
      /\ before' = before /\ touched' = touched
      /\ requests' = requests /\ unwritten' = unwritten
      /\ expected' = expected /\ dropped' = dropped /\ lost' = lost
      /\ halfUpgraded' = halfUpgraded
  BY DEF Complete, memory, journal, history, Sending
<1>2. Exchanged
  <2>1. dropped \subseteq Persistent /\ lost \in BOOLEAN /\ unwritten \in BOOLEAN
    BY DEF Inv, TypeInv
  <2> QED BY <1>1, <2>1 DEF Exchanged, Live, Sending
<1>3. /\ kind # "memory"
      /\ \A t \in Tables : Sound(t) => RowsAt(native, t) = cache[t]
      /\ kind # "indexed_db" => \A t \in Persistent \ dropped : IndexAt(native, t) = rowIds[t]
  BY <1>1, SettledIs
<1>4. StatusInv'
  <2>1. ~unwritten BY <1>1 DEF Inv, StatusInv
  <2> QED BY <1>1, <1>3, <2>1 DEF Inv, StatusInv, Sending, Away
<1>5. ReplicaInv'
  <2>1. \A u \in Tables : Sound(u)' => GetAll(kind, native[Data(u)]) = cache[u]
    BY <1>1, <1>3 DEF Sound, RowsAt
  <2>2. Tidy(kind, requests) BY DEF Inv, ReplicaInv
  <2> QED BY <1>1, <2>1, <2>2 DEF ReplicaInv, ReplicaOf, RowsAt, Sending
<1>6. ExpectedInv'
  <2> SUFFICES ASSUME ~lost PROVE OnDisk(native) \in expected /\ Contents(cache) \in expected
    BY <1>1 DEF ExpectedInv, OnDisk, Contents
  <2>1. \A t \in Tables : RowsAt(native, t) = cache[t] BY <1>3 DEF Sound
  <2>2. OnDisk(native) = Contents(cache) BY <2>1, ContentsAre DEF Inv, TypeInv
  <2> QED BY <2>2, <1>1, <1>3 DEF Inv, ExpectedInv
<1>7. IndexInv'
  <2> SUFFICES ASSUME NEW u \in Tables, u \in Persistent => u \notin dropped /\ kind # "indexed_db"
               PROVE  /\ rowIds[u] = DOMAIN cache[u] /\ before.rowIds[u] = DOMAIN before.cache[u]
                      /\ u \in Persistent =>
                            /\ IndexAt(native, u) = DOMAIN RowsAt(native, u)
                            /\ IndexAt(native, u) = rowIds[u]
    BY <1>1 DEF IndexInv, IndexAt, RowsAt, Sending
  <2>1. rowIds[u] = DOMAIN cache[u] /\ before.rowIds[u] = DOMAIN before.cache[u]
    BY DEF Inv, IndexInv
  <2>2. u \in Persistent => Sound(u) BY DEF Sound
  <2> QED BY <1>3, <2>1, <2>2
<1> QED BY <1>2, <1>4, <1>5, <1>6, <1>7, ExchangeKeeps DEF Inv

\* So does the answer to it.
LEMMA OnCompleteKeeps == Inv /\ OnComplete => Inv'
<1> SUFFICES ASSUME Inv, OnComplete PROVE Inv' OBVIOUS
<1>1. /\ status = "written" /\ status' = "idle" /\ expected' = {Contents(cache)} /\ touched' = {}
      /\ disk' = disk /\ native' = native
      /\ kind' = kind /\ version' = version /\ made' = made /\ schema' = schema
      /\ cache' = cache /\ rowIds' = rowIds /\ nextId' = nextId /\ before' = before
      /\ requests' = requests /\ unwritten' = unwritten
      /\ dropped' = dropped /\ lost' = lost /\ halfUpgraded' = halfUpgraded
  BY DEF OnComplete, memory, Forget
<1>2. Exchanged
  <2>1. dropped \subseteq Persistent /\ lost \in BOOLEAN /\ unwritten \in BOOLEAN
    BY DEF Inv, TypeInv
  <2> QED BY <1>1, <2>1 DEF Exchanged, Live
<1>3. \A t \in Tables : Sound(t) => RowsAt(native, t) = cache[t]
  BY <1>1 DEF Inv, ReplicaInv, ReplicaOf
<1>4. StatusInv' BY <1>1 DEF Inv, StatusInv, Sending, Away
<1>5. ReplicaInv'
  <2>1. \A u \in Tables : Sound(u)' => GetAll(kind, native[Data(u)]) = cache[u]
    BY <1>1, <1>3 DEF Sound, RowsAt
  <2>2. Tidy(kind, requests) BY DEF Inv, ReplicaInv
  <2> QED BY <1>1, <2>1, <2>2 DEF ReplicaInv, ReplicaOf, RowsAt, Sending
<1>6. ExpectedInv'
  <2> SUFFICES ASSUME ~lost PROVE OnDisk(disk) = Contents(cache)
    BY <1>1 DEF ExpectedInv, OnDisk, Contents, Sending
  <2>1. \A t \in Tables : RowsAt(native, t) = cache[t] BY <1>3 DEF Sound
  <2>2. native = disk BY <1>1 DEF Inv, StatusInv, Sending
  <2> QED BY <2>1, <2>2, ContentsAre DEF Inv, TypeInv
<1>7. IndexInv'
  <2> SUFFICES ASSUME NEW u \in Tables, u \in Persistent => u \notin dropped /\ kind # "indexed_db"
               PROVE  /\ rowIds[u] = DOMAIN cache[u] /\ before.rowIds[u] = DOMAIN before.cache[u]
                      /\ kind # "memory" /\ u \in Persistent =>
                            /\ IndexAt(disk, u) = DOMAIN RowsAt(disk, u)
                            /\ IndexAt(native, u) = rowIds[u]
    BY <1>1 DEF IndexInv, IndexAt, RowsAt, Sending
  <2> QED BY <1>1 DEF Inv, IndexInv
<1> QED BY <1>2, <1>4, <1>5, <1>6, <1>7, ExchangeKeeps DEF Inv

\* So does the last callback of WebSQL.
LEMMA OnLastStatementKeeps == Inv /\ OnLastStatement => Inv'
<1> SUFFICES ASSUME Inv, OnLastStatement PROVE Inv' OBVIOUS
<1>1. /\ status \in Sending /\ kind = "web_sql" /\ requests = <<>> /\ ~unwritten
      /\ status' = "idle" /\ unwritten' = TRUE /\ touched' = {}
      /\ disk' = disk /\ native' = native
      /\ kind' = kind /\ version' = version /\ made' = made /\ schema' = schema
      /\ cache' = cache /\ rowIds' = rowIds /\ nextId' = nextId /\ before' = before
      /\ requests' = requests /\ expected' = expected
      /\ dropped' = dropped /\ lost' = lost /\ halfUpgraded' = halfUpgraded
  BY DEF OnLastStatement, memory, Forget, history, Sending
<1>2. Exchanged
  <2>1. dropped \subseteq Persistent /\ lost \in BOOLEAN BY DEF Inv, TypeInv
  <2> QED BY <1>1, <2>1 DEF Exchanged, Live, Sending
<1>3. /\ kind # "memory"
      /\ \A t \in Tables : Sound(t) => RowsAt(native, t) = cache[t]
      /\ \A t \in Persistent \ dropped : IndexAt(native, t) = rowIds[t]
  BY <1>1, SettledIs
<1>4. StatusInv' BY <1>1 DEF Inv, StatusInv, Sending, Away
<1>5. ReplicaInv'
  <2>1. \A u \in Tables : Sound(u)' => GetAll(kind, native[Data(u)]) = cache[u]
    BY <1>1, <1>3 DEF Sound, RowsAt
  <2>2. Tidy(kind, requests) BY DEF Inv, ReplicaInv
  <2> QED BY <1>1, <2>1, <2>2 DEF ReplicaInv, ReplicaOf, RowsAt, Sending
<1>6. ExpectedInv'
  <2>1. kind # "memory" /\ ~lost => OnDisk(disk) \in expected BY DEF Inv, ExpectedInv
  <2>2. OnDisk(disk)' = OnDisk(disk) BY <1>1 DEF OnDisk, Contents
  <2> QED BY <1>1, <2>1, <2>2 DEF ExpectedInv, Sending
<1>7. IndexInv'
  <2> SUFFICES ASSUME NEW u \in Tables, u \in Persistent => u \notin dropped /\ kind # "indexed_db"
               PROVE  /\ rowIds[u] = DOMAIN cache[u] /\ before.rowIds[u] = DOMAIN before.cache[u]
                      /\ u \in Persistent =>
                            /\ IndexAt(disk, u) = DOMAIN RowsAt(disk, u)
                            /\ IndexAt(native, u) = rowIds[u]
    BY <1>1 DEF IndexInv, IndexAt, RowsAt, Sending
  <2>1. /\ rowIds[u] = DOMAIN cache[u] /\ before.rowIds[u] = DOMAIN before.cache[u]
        /\ u \in Persistent => IndexAt(disk, u) = DOMAIN RowsAt(disk, u)
    BY <1>3 DEF Inv, IndexInv
  <2> QED BY <1>3, <2>1
<1> QED BY <1>2, <1>4, <1>5, <1>6, <1>7, ExchangeKeeps DEF Inv

-----------------------------------------------------------------------------
(* What WebSQL does after a transaction, and failures.                     *)

\* So does the commit of SQLite after that.
LEMMA SqlCommitKeeps == Inv /\ SqlCommit => Inv'
<1> SUFFICES ASSUME Inv, SqlCommit PROVE Inv' OBVIOUS
<1>1. /\ unwritten /\ unwritten' = FALSE /\ disk' = native /\ native' = native
      /\ expected' = {Committed} \cup (IF status \in Sending THEN {Contents(cache)} ELSE {})
      /\ kind' = kind /\ version' = version /\ made' = made /\ schema' = schema
      /\ status' = status /\ cache' = cache /\ rowIds' = rowIds /\ nextId' = nextId
      /\ before' = before /\ touched' = touched
      /\ requests' = requests /\ dropped' = dropped /\ lost' = lost
      /\ halfUpgraded' = halfUpgraded
  BY DEF SqlCommit, memory, journal, Sending
<1>2. /\ kind = "web_sql" /\ status \in {"closed", "idle", "active"} \cup Sending
      /\ dropped \subseteq Persistent /\ lost \in BOOLEAN /\ cache \in [Tables -> RowMap]
      /\ before.cache \in [Tables -> RowMap]
  BY <1>1 DEF Inv, StatusInv, TypeInv
<1>3. Exchanged BY <1>1, <1>2 DEF Exchanged, Sending
<1>4. StatusInv' BY <1>1, <1>2 DEF Inv, StatusInv, Sending, Away
<1>5. ReplicaInv'
  <2>1. Tidy(kind, requests) BY DEF Inv, ReplicaInv
  <2>2. ASSUME NEW t \in Tables, Sound(t)'
        PROVE  /\ status = "idle" => GetAll(kind, native[Data(t)]) = cache[t]
               /\ status = "active" => GetAll(kind, native[Data(t)]) = before.cache[t]
               /\ status \in Sending =>
                  /\ ConvergesTo(kind, native[Data(t)], Range(requests), Data(t), Image(kind, cache[t]))
                  /\ GetAll(kind, native[Data(t)]) = before.cache[t]
    <3>1. Sound(t) BY <1>1, <2>2 DEF Sound
    <3> QED BY <1>1, <3>1 DEF Inv, ReplicaInv, ReplicaOf, RowsAt
  <2>3. \A t \in Tables : Sound(t)' => ReplicaOf(t)'
    <3> SUFFICES ASSUME NEW t \in Tables, Sound(t)' PROVE ReplicaOf(t)' OBVIOUS
    <3>1. Range(requests)' = Range(requests) BY <1>1 DEF Range
    <3> QED BY <1>1, <1>2, <2>2, <3>1 DEF ReplicaOf, RowsAt, Sending
  <2>4. status = "active" => \A t \in Tables \ touched :
                               cache[t] = before.cache[t] /\ rowIds[t] = before.rowIds[t]
    BY DEF Inv, ReplicaInv
  <2>5. status = "importing" => \A t \in Persistent \ dropped :
                               cache[t] = before.cache[t] /\ rowIds[t] = before.rowIds[t]
    BY DEF Inv, ReplicaInv
  <2> QED BY <1>1, <2>1, <2>3, <2>4, <2>5 DEF ReplicaInv
<1>6. ExpectedInv'
  <2> SUFFICES ASSUME ~lost PROVE OnDisk(native) = Committed
    <3>1. status \in Sending \cup {"written"} => Contents(cache) \in expected'
      BY <1>1, <1>2 DEF Sending
    <3>2. Committed \in expected' BY <1>1
    <3>3. OnDisk(disk)' = OnDisk(native) /\ Contents(cache)' = Contents(cache)
      BY <1>1 DEF OnDisk, Contents
    <3> QED BY <1>1, <3>1, <3>2, <3>3 DEF ExpectedInv, Sending
  <2>1. CASE status = "idle"
    <3>1. \A t \in Tables : RowsAt(native, t) = cache[t]
      BY <2>1 DEF Sound, Inv, ReplicaInv, ReplicaOf
    <3> QED BY <1>2, <2>1, <3>1, ContentsAre DEF Committed
  <2>2. CASE status = "closed" BY <2>2 DEF Committed
  <2>3. CASE status = "active" \/ status \in Sending
    <3>1. \A t \in Tables : RowsAt(native, t) = before.cache[t]
      BY <1>1, <2>3 DEF Sound, Inv, ReplicaInv, ReplicaOf
    <3>2. OnDisk(native) = Contents(before.cache) BY <1>2, <3>1, ContentsAre
    <3> QED BY <2>3, <3>2 DEF Committed, Sending
  <2> QED BY <1>2, <2>1, <2>2, <2>3
<1>7. IndexInv'
  <2> SUFFICES ASSUME NEW u \in Tables, u \in Persistent => u \notin dropped
               PROVE  /\ rowIds[u] = DOMAIN cache[u] /\ before.rowIds[u] = DOMAIN before.cache[u]
                      /\ u \in Persistent =>
                            /\ IndexAt(native, u) = DOMAIN RowsAt(native, u)
                            /\ status = "idle" => IndexAt(native, u) = rowIds[u]
                            /\ status = "active" => IndexAt(native, u) = before.rowIds[u]
                            /\ status \in Sending =>
                                  IndexSettles(u) /\ IndexAt(native, u) = before.rowIds[u]
    <3>1. \A u \in Tables : IndexSettles(u)' <=> IndexSettles(u)
      BY <1>1 DEF IndexSettles, IndexAt, Range
    <3>2. \A u \in Tables : /\ IndexAt(native, u)' = IndexAt(native, u)
                            /\ IndexAt(disk, u)' = IndexAt(native, u)
                            /\ RowsAt(native, u)' = RowsAt(native, u)
                            /\ RowsAt(disk, u)' = RowsAt(native, u)
                            /\ IndexAt(IF unwritten THEN native ELSE disk, u)' = IndexAt(native, u)
      BY <1>1 DEF IndexAt, RowsAt
    <3> QED BY <1>1, <1>2, <3>1, <3>2 DEF IndexInv, Sending
  <2>1. /\ rowIds[u] = DOMAIN cache[u] /\ before.rowIds[u] = DOMAIN before.cache[u]
        /\ u \in Persistent =>
            /\ status = "closed" => IndexAt(native, u) = DOMAIN RowsAt(native, u)
            /\ status = "idle" => IndexAt(native, u) = rowIds[u]
            /\ status = "active" => IndexAt(native, u) = before.rowIds[u]
            /\ status \in Sending => IndexSettles(u) /\ IndexAt(native, u) = before.rowIds[u]
    BY <1>1, <1>2 DEF Inv, IndexInv
  <2>2. u \in Persistent =>
           /\ status = "idle" => RowsAt(native, u) = cache[u]
           /\ status = "active" \/ status \in Sending => RowsAt(native, u) = before.cache[u]
    BY <1>1 DEF Sound, Inv, ReplicaInv, ReplicaOf
  <2> QED BY <1>2, <2>1, <2>2
<1> QED BY <1>3, <1>4, <1>5, <1>6, <1>7, ExchangeKeeps DEF Inv

\* Or its failure.
LEMMA SqlCommitFailsKeeps == Inv /\ SqlCommitFails => Inv'
<1> SUFFICES ASSUME Inv, SqlCommitFails PROVE Inv' OBVIOUS
<1>1. /\ unwritten /\ unwritten' = FALSE /\ disk' = disk /\ native' = disk
      /\ expected' = expected /\ lost' = TRUE /\ dropped' = Persistent
      /\ kind' = kind /\ version' = version /\ made' = made /\ schema' = schema
      /\ status' = status /\ cache' = cache /\ rowIds' = rowIds /\ nextId' = nextId
      /\ before' = before /\ touched' = touched
      /\ requests' = requests /\ halfUpgraded' = halfUpgraded
  BY DEF SqlCommitFails, memory, journal
<1>2. kind = "web_sql" /\ status \in {"closed", "idle", "active"} \cup Sending
  BY <1>1 DEF Inv, StatusInv
<1>3. Exchanged BY <1>1, <1>2 DEF Exchanged, Sending
<1>4. StatusInv' BY <1>1, <1>2 DEF Inv, StatusInv, Sending, Away
<1>5. ReplicaInv'
  <2>1. \A t \in Tables : ~Sound(t)' BY <1>1 DEF Sound
  <2>2. Tidy(kind, requests) BY DEF Inv, ReplicaInv
  <2>3. status = "active" => \A t \in Tables \ touched :
                               cache[t] = before.cache[t] /\ rowIds[t] = before.rowIds[t]
    BY DEF Inv, ReplicaInv
  <2> QED BY <1>1, <2>1, <2>2, <2>3 DEF ReplicaInv
<1>6. ExpectedInv' BY <1>1 DEF ExpectedInv
<1>7. IndexInv'
  <2> SUFFICES ASSUME NEW u \in Tables, u \notin Persistent
               PROVE  rowIds[u] = DOMAIN cache[u] /\ before.rowIds[u] = DOMAIN before.cache[u]
    BY <1>1 DEF IndexInv
  <2> QED BY DEF Inv, IndexInv
<1> QED BY <1>3, <1>4, <1>5, <1>6, <1>7, ExchangeKeeps DEF Inv

\* A task that fails while its requests are served; parted: whether what was
\* served stays.
LEMMA FailsKeeps ==
    ASSUME Inv, Fails, status \in Sending, ~unwritten, NEW parted \in BOOLEAN,
           parted => kind = "web_sql",
           disk' = disk, ~parted => native' = disk, parted => native' = native,
           unwritten' = parted, dropped' = IF parted THEN Persistent ELSE dropped,
           lost' = (lost \/ parted \/ status = "importing"),
           expected' = {Contents(before.cache)},
           kind' = kind, version' = version, made' = made, schema' = schema,
           halfUpgraded' = halfUpgraded
    PROVE  Inv'
<1>1. /\ status' = "idle" /\ requests' = <<>> /\ nextId' = nextId /\ touched' = {} /\ before' = before
      /\ status = "committing" => cache' = before.cache /\ rowIds' = before.rowIds
      /\ status # "committing" => cache' = cache /\ rowIds' = rowIds
  BY DEF Fails, rollback, Forget, memory
<1>2. /\ dropped \subseteq Persistent /\ lost \in BOOLEAN /\ kind # "memory"
      /\ before.cache \in [Tables -> RowMap]
  BY DEF Inv, TypeInv, StatusInv
<1>3. Exchanged BY <1>1, <1>2 DEF Exchanged, Live, Sending
<1>4. StatusInv' BY <1>1, <1>2 DEF Inv, StatusInv, Sending, Away
<1>5. ASSUME NEW t \in Tables, Sound(t)'
      PROVE  /\ GetAll(kind, disk[Data(t)]) = cache'[t] /\ ~parted
  <2>1. ~parted BY <1>5 DEF Sound
  <2>2. RowsAt(disk, t) = before.cache[t]
    <3>1. Sound(t) BY <1>5, <2>1 DEF Sound
    <3> QED BY <3>1 DEF Inv, ReplicaInv, ReplicaOf
  <2>3. CASE status = "committing" BY <1>1, <2>1, <2>2, <2>3 DEF RowsAt
  <2>4. CASE status = "importing"
    <3>1. t \in Persistent \ dropped BY <1>5, <2>1, <2>4 DEF Sound
    <3>2. cache[t] = before.cache[t] BY <2>4, <3>1 DEF Inv, ReplicaInv
    <3> QED BY <1>1, <2>1, <2>2, <2>4, <3>2 DEF RowsAt
  <2> QED BY <2>3, <2>4 DEF Sending
<1>6. ReplicaInv'
  <2>1. Tidy(kind, <<>>) BY EmptyBlock DEF Tidy
  <2> QED BY <1>1, <1>5, <2>1 DEF ReplicaInv, ReplicaOf, RowsAt, Sending
<1>7. ExpectedInv'
  <2> SUFFICES ASSUME ~lost, ~parted, status = "committing"
               PROVE  OnDisk(disk) = Contents(before.cache)
    BY <1>1 DEF ExpectedInv, OnDisk, Contents, Sending
  <2>1. \A t \in Tables : RowsAt(disk, t) = before.cache[t]
    BY DEF Sound, Inv, ReplicaInv, ReplicaOf
  <2> QED BY <1>2, <2>1, ContentsAre
<1>8. IndexInv'
  <2>1. ASSUME NEW u \in Tables, u \notin Persistent
        PROVE  rowIds'[u] = DOMAIN cache'[u] /\ before'.rowIds[u] = DOMAIN before'.cache[u]
    BY <1>1, <2>1 DEF Inv, IndexInv
  <2>2. ASSUME NEW u \in Tables, u \in Persistent, ~parted, u \notin dropped, kind # "indexed_db"
        PROVE  /\ rowIds'[u] = DOMAIN cache'[u] /\ before'.rowIds[u] = DOMAIN before'.cache[u]
               /\ IndexAt(disk, u) = DOMAIN RowsAt(disk, u)
               /\ IndexAt(disk, u) = rowIds'[u]
    <3>1. /\ rowIds[u] = DOMAIN cache[u] /\ before.rowIds[u] = DOMAIN before.cache[u]
          /\ IndexAt(disk, u) = DOMAIN RowsAt(disk, u)
          /\ IndexAt(disk, u) = before.rowIds[u]
      BY <1>2, <2>2 DEF Inv, IndexInv
    <3>2. status = "importing" => rowIds[u] = before.rowIds[u]
      BY <2>2 DEF Inv, ReplicaInv
    <3> QED BY <1>1, <3>1, <3>2 DEF Sending
  <2>3. ASSUME NEW u \in Tables, u \in Persistent => u \notin dropped' /\ kind # "indexed_db"
        PROVE  /\ rowIds'[u] = DOMAIN cache'[u] /\ before'.rowIds[u] = DOMAIN before'.cache[u]
               /\ u \in Persistent => /\ IndexAt(disk, u) = DOMAIN RowsAt(disk, u)
                                      /\ IndexAt(disk, u) = rowIds'[u] /\ ~parted
    <3>1. CASE u \notin Persistent BY <2>1, <3>1
    <3>2. CASE u \in Persistent
      <4>1. ~parted /\ u \notin dropped BY <2>3, <3>2
      <4> QED BY <2>2, <2>3, <3>2, <4>1
    <3> QED BY <3>1, <3>2
  <2> QED BY <1>1, <2>3 DEF IndexInv, IndexAt, RowsAt, Sending
<1> QED BY <1>3, <1>4, <1>6, <1>7, <1>8, ExchangeKeeps DEF Inv

\* An abort of IndexedDB keeps the invariant.
LEMMA OnAbortKeeps == Inv /\ OnAbort => Inv'
<1> SUFFICES ASSUME Inv, OnAbort PROVE Inv' OBVIOUS
<1>1. /\ Fails /\ status \in Sending /\ kind # "web_sql" /\ disk' = disk /\ native' = disk
      /\ unwritten' = unwritten /\ dropped' = dropped /\ lost' = (lost \/ status = "importing")
      /\ expected' = {Contents(before.cache)} /\ kind' = kind /\ version' = version
      /\ made' = made /\ schema' = schema /\ halfUpgraded' = halfUpgraded
  BY DEF OnAbort, Sending
<1>2. ~unwritten /\ unwritten \in BOOLEAN BY <1>1 DEF Inv, StatusInv, TypeInv
<1>p. PICK parted \in BOOLEAN : parted = FALSE OBVIOUS
<1>3. unwritten' = parted /\ dropped' = (IF parted THEN Persistent ELSE dropped)
      /\ lost' = (lost \/ parted \/ status = "importing")
  BY <1>1, <1>2, <1>p
<1> QED BY <1>1, <1>2, <1>3, <1>p, FailsKeeps

\* So does a failed statement of WebSQL.
LEMMA OnExecErrorKeeps == Inv /\ OnExecError => Inv'
<1> SUFFICES ASSUME Inv, OnExecError PROVE Inv' OBVIOUS
<1>1. /\ Fails /\ status \in Sending /\ kind = "web_sql" /\ disk' = disk /\ native' = native
      /\ ~unwritten /\ unwritten' = (native # disk)
      /\ dropped' = (IF native # disk THEN Persistent ELSE dropped)
      /\ lost' = (lost \/ native # disk \/ status = "importing")
      /\ expected' = {Contents(before.cache)} /\ kind' = kind /\ version' = version
      /\ made' = made /\ schema' = schema /\ halfUpgraded' = halfUpgraded
  BY DEF OnExecError, Sending
<1>p. PICK parted \in BOOLEAN : parted = (native # disk) OBVIOUS
<1>3. unwritten' = parted /\ dropped' = (IF parted THEN Persistent ELSE dropped)
      /\ lost' = (lost \/ parted \/ status = "importing")
      /\ (~parted => native' = disk) /\ (parted => native' = native)
  BY <1>1, <1>p
<1> QED BY <1>1, <1>3, <1>p, FailsKeeps

-----------------------------------------------------------------------------
(* The end of a connection.                                                *)

\* The end of a connection, whatever becomes of nextId and of the schema.
LEMMA GoneKeeps ==
    ASSUME Inv, Gone, status # "closed",
           kind' = kind, version' = version, made' = made, lost' = lost, dropped' = dropped,
           schema' \in schema .. MaxVersion, nextId' \in 0 .. MaxRowId,
           requests' = <<>>, halfUpgraded' \in BOOLEAN,
           ~halfUpgraded' => ~halfUpgraded /\ status \notin {"versioned", "upgrading"},
           expected' = (IF kind = "memory" THEN {NoRows} ELSE expected),
           unwritten' \in BOOLEAN, unwritten' => kind = "web_sql",
           ~unwritten' => native' = disk',
           native' = disk' \/ (kind # "memory" /\ native' = native /\ schema' = schema /\ status = "idle")
    PROVE  Inv'
<1>1. /\ status' = "closed" /\ cache' = NoRows /\ rowIds' = [t \in Tables |-> {}]
      /\ before' = [cache |-> NoRows, rowIds |-> [t \in Tables |-> {}]]
      /\ touched' = {} /\ disk' = IF kind = "memory" THEN EmptyDisk ELSE disk
  BY DEF Gone
<1>2. /\ kind \in Kinds /\ disk = [s \in Stores |-> disk[s]] /\ native = [s \in Stores |-> native[s]]
      /\ kind # "memory" => \A t \in Tables :
             /\ StoreOK(kind, disk[Data(t)]) /\ StoreOK(kind, native[Data(t)])
             /\ IndexOK(kind, disk[Index(t)]) /\ IndexOK(kind, native[Index(t)])
      /\ version \in 0 .. MaxVersion /\ made \in BOOLEAN /\ lost \in BOOLEAN
      /\ dropped \subseteq Persistent /\ schema \in 1 .. MaxVersion
      /\ kind = "memory" => ~lost /\ native' = disk'
      /\ kind # "memory" => version = schema
  BY DEF Inv, TypeInv, StatusInv
<1>3. \A t \in Tables : /\ cache'[t] = None /\ before'.cache[t] = None
                        /\ rowIds'[t] = {} /\ before'.rowIds[t] = {}
  BY <1>1 DEF NoRows
<1>4. DOMAIN requests' = {} /\ Range(requests') = {} /\ <<>> \in Seq(Range(<<>>)) BY EmptyBlock
<1>5. kind # "memory" => disk' = disk /\ native' \in {disk, native} BY <1>1
<1>6. schema' \in 1 .. MaxVersion
  <2>1. MaxVersion \in Nat BY StoresAssumption
  <2> QED BY <1>2, <2>1
<1>7. TypeInv'
  <2>1. EmptyDisk = [s \in Stores |-> EmptyDisk[s]] BY EmptyStores
  <2>2. disk' = [s \in Stores |-> disk'[s]] /\ native' = [s \in Stores |-> native'[s]]
    BY <1>1, <1>2, <1>5, <2>1
  <2>3. kind # "memory" => \A t \in Tables :
             /\ StoreOK(kind, disk'[Data(t)]) /\ StoreOK(kind, native'[Data(t)])
             /\ IndexOK(kind, disk'[Index(t)]) /\ IndexOK(kind, native'[Index(t)])
    BY <1>2, <1>5
  <2>4. NoRows \in [Tables -> RowMap] /\ [t \in Tables |-> {}] \in [Tables -> SUBSET RowId]
    BY NoneIs DEF NoRows
  <2>5. before' \in [cache : [Tables -> RowMap], rowIds : [Tables -> SUBSET RowId]]
    BY <1>1, <2>4
  <2>6. requests' \in Seq(Range(requests)') BY <1>4
  <2>7. {made', unwritten', lost', halfUpgraded'} \subseteq BOOLEAN BY <1>2
  <2>8. \A i \in DOMAIN requests' : RequestOK(kind, requests[i])' BY <1>4
  <2> QED BY <1>1, <1>2, <1>6, <2>2, <2>3, <2>4, <2>5, <2>6, <2>7, <2>8 DEF TypeInv
<1>8. StatusInv'
  BY <1>1, <1>2 DEF StatusInv, Sending, Away
<1>9. OwnInv'
  <2>1. PICK own \in [Tables -> SUBSET RowId] : Owns(own) BY DEF Inv, OwnInv
  <2>2. \A t \in Tables : RequestsWithin(t, own[t], Versions)' BY <1>4 DEF RequestsWithin
  <2>3. \A t \in Tables : Within(cache'[t], own[t], Versions) /\ Within(before'.cache[t], own[t], Versions)
    BY <1>3, NoneIs
  <2>4. kind # "memory" => \A t \in Tables : DiskWithin(t, own[t], Versions)'
    <3>1. ASSUME kind # "memory", NEW t \in Tables
          PROVE  /\ Within(GetAll(kind, disk'[Data(t)]), own[t], Versions)
                 /\ Within(GetAll(kind, native'[Data(t)]), own[t], Versions)
      BY <1>5, <2>1, <3>1 DEF Owns, DiskWithin, RowsAt
    <3> QED BY <3>1 DEF DiskWithin, RowsAt
  <2>5. Disjoint(own)' BY <2>1 DEF Owns, Disjoint
  <2>6. \A t \in Tables : MemoryWithin(t, own[t], Versions)'
    BY <2>2, <2>3 DEF MemoryWithin, Within
  <2>7. Owns(own)' BY <1>1, <2>4, <2>5, <2>6 DEF Owns, Live
  <2> QED BY <2>7 DEF OwnInv
<1>10. ColsInv'
  <2> SUFFICES ASSUME kind # "memory", ~halfUpgraded', NEW t \in Tables
               PROVE  /\ Within(cache'[t], RowId, {schema'}) /\ Within(before'.cache[t], RowId, {schema'})
                      /\ version = schema' =>
                            /\ Within(GetAll(kind, disk'[Data(t)]), RowId, {schema'})
                            /\ Within(GetAll(kind, native'[Data(t)]), RowId, {schema'})
    BY <1>1, <1>4 DEF ColsInv, MemoryWithin, RequestsWithin, DiskWithin, RowsAt
  <2>1. Within(cache'[t], RowId, {schema'}) /\ Within(before'.cache[t], RowId, {schema'})
    BY <1>3, NoneIs
  <2>2. /\ Within(GetAll(kind, disk[Data(t)]), RowId, {schema})
        /\ Within(GetAll(kind, native[Data(t)]), RowId, {schema})
    BY <1>2 DEF Inv, ColsInv, DiskWithin, RowsAt
  <2> QED BY <1>2, <1>5, <2>1, <2>2
<1>11. ReplicaInv'
  <2>1. Tidy(kind, <<>>) BY EmptyBlock DEF Tidy
  <2> QED BY <1>1, <2>1 DEF ReplicaInv, ReplicaOf, Sending
<1>12. ExpectedInv'
  <2>1. kind # "memory" /\ ~lost => OnDisk(disk) \in expected BY DEF Inv, ExpectedInv
  <2>2. kind # "memory" => OnDisk(disk)' = OnDisk(disk) BY <1>5 DEF OnDisk, Contents
  <2> QED BY <1>1, <2>1, <2>2 DEF ExpectedInv, Sending
<1>13. IndexInv'
  <2> SUFFICES ASSUME NEW u \in Tables, u \in Persistent => u \notin dropped /\ kind # "indexed_db"
               PROVE  /\ rowIds'[u] = DOMAIN cache'[u] /\ before'.rowIds[u] = DOMAIN before'.cache[u]
                      /\ kind # "memory" /\ u \in Persistent =>
                            /\ IndexRead(kind, disk'[Index(u)]) = DOMAIN GetAll(kind, disk'[Data(u)])
                            /\ IndexRead(kind, native'[Index(u)]) = DOMAIN GetAll(kind, native'[Data(u)])
    BY <1>1 DEF IndexInv, IndexAt, RowsAt, Sending
  <2>1. rowIds'[u] = DOMAIN cache'[u] /\ before'.rowIds[u] = DOMAIN before'.cache[u]
    BY <1>3, NoneIs
  <2>2. ASSUME kind # "memory", u \in Persistent
        PROVE  IndexRead(kind, disk[Index(u)]) = DOMAIN GetAll(kind, disk[Data(u)])
    BY <2>2 DEF Inv, IndexInv, IndexAt, RowsAt
  <2>3. ASSUME kind # "memory", u \in Persistent, status = "idle"
        PROVE  IndexRead(kind, native[Index(u)]) = DOMAIN GetAll(kind, native[Data(u)])
    <3>1. IndexAt(native, u) = rowIds[u] /\ rowIds[u] = DOMAIN cache[u]
      BY <2>3 DEF Inv, IndexInv
    <3>2. RowsAt(native, u) = cache[u]
      BY <2>3 DEF Sound, Inv, ReplicaInv, ReplicaOf
    <3> QED BY <3>1, <3>2 DEF IndexAt, RowsAt
  <2>4. ASSUME kind # "memory", u \in Persistent
        PROVE  /\ IndexRead(kind, disk'[Index(u)]) = DOMAIN GetAll(kind, disk'[Data(u)])
               /\ IndexRead(kind, native'[Index(u)]) = DOMAIN GetAll(kind, native'[Data(u)])
    BY <1>5, <2>2, <2>3, <2>4
  <2> QED BY <2>1, <2>4
<1> QED BY <1>7, <1>8, <1>9, <1>10, <1>11, <1>12, <1>13 DEF Inv

\* A crash keeps the invariant.
LEMMA CrashKeeps == Inv /\ Crash => Inv'
<1> SUFFICES ASSUME Inv, Crash PROVE Inv' OBVIOUS
<1>1. /\ Gone /\ status # "closed" /\ nextId' = 0 /\ requests' = <<>> /\ unwritten' = FALSE
      /\ native' = disk' /\ schema' \in schema .. MaxVersion
      /\ halfUpgraded' = (halfUpgraded \/ status \in {"versioned", "upgrading"})
      /\ expected' = (IF kind = "memory" THEN {NoRows} ELSE expected)
      /\ kind' = kind /\ version' = version /\ made' = made /\ dropped' = dropped /\ lost' = lost
  BY DEF Crash
<1>2. nextId' \in 0 .. MaxRowId /\ unwritten' \in BOOLEAN
  <2>1. MaxRowId \in Nat BY StoresAssumption
  <2>2. nextId' \in 0 .. MaxRowId BY <1>1, <2>1
  <2>3. unwritten' \in BOOLEAN BY <1>1
  <2> QED BY <2>2, <2>3
<1>3. halfUpgraded' \in BOOLEAN
  <2>1. halfUpgraded \in BOOLEAN BY DEF Inv, TypeInv
  <2> QED BY <1>1, <2>1
<1>4. ~halfUpgraded' => ~halfUpgraded /\ status \notin {"versioned", "upgrading"} BY <1>1
<1> QED BY <1>1, <1>2, <1>3, <1>4, GoneKeeps

\* So does closing the connection.
LEMMA CloseKeeps == Inv /\ Close => Inv'
<1> SUFFICES ASSUME Inv, Close PROVE Inv' OBVIOUS
<1>1. /\ Gone /\ status = "idle" /\ nextId' = nextId /\ requests' = requests
      /\ unwritten' = unwritten /\ native' = (IF kind = "memory" THEN EmptyDisk ELSE native)
      /\ schema' = schema /\ halfUpgraded' = halfUpgraded
      /\ expected' = (IF kind = "memory" THEN {NoRows} ELSE expected)
      /\ kind' = kind /\ version' = version /\ made' = made /\ dropped' = dropped /\ lost' = lost
      /\ disk' = (IF kind = "memory" THEN EmptyDisk ELSE disk)
  BY DEF Close, Gone
<1>2. /\ nextId \in 0 .. MaxRowId /\ halfUpgraded \in BOOLEAN /\ unwritten \in BOOLEAN
      /\ schema \in 1 .. MaxVersion /\ requests = <<>> /\ MaxVersion \in Nat
      /\ (unwritten => kind = "web_sql") /\ (~unwritten => native = disk)
  BY <1>1, StoresAssumption DEF Inv, TypeInv, StatusInv, Sending
<1>3. schema' \in schema .. MaxVersion /\ (~unwritten' => native' = disk')
      /\ (native' = disk' \/ (kind # "memory" /\ native' = native /\ schema' = schema /\ status = "idle"))
      /\ (~halfUpgraded' => ~halfUpgraded /\ status \notin {"versioned", "upgrading"})
  BY <1>1, <1>2
<1> QED BY <1>1, <1>2, <1>3, GoneKeeps

\* So does a step that changes nothing.
LEMMA StutterKeeps == Inv /\ UNCHANGED vars => Inv'
<1> SUFFICES ASSUME Inv, UNCHANGED vars PROVE Inv' OBVIOUS
<1>0. /\ kind' = kind /\ disk' = disk /\ version' = version /\ made' = made /\ schema' = schema
      /\ status' = status /\ cache' = cache /\ rowIds' = rowIds /\ nextId' = nextId
      /\ before' = before /\ touched' = touched /\ native' = native /\ requests' = requests
      /\ unwritten' = unwritten /\ expected' = expected /\ dropped' = dropped /\ lost' = lost
      /\ halfUpgraded' = halfUpgraded
  BY DEF vars, memory, journal, history
<1>1. TypeInv'
  <2>1. \A i \in DOMAIN requests' : RequestOK(kind, requests[i])'
    <3>1. \A i \in DOMAIN requests : RequestOK(kind, requests[i]) BY DEF Inv, TypeInv
    <3> QED BY <1>0, <3>1 DEF RequestOK
  <2>2. requests' \in Seq(Range(requests)') BY <1>0 DEF Inv, TypeInv, Range
  <2> QED BY <1>0, <2>1, <2>2 DEF Inv, TypeInv
<1>2. StatusInv' BY <1>0 DEF Inv, StatusInv
<1>3. OwnInv'
  BY <1>0 DEF Inv, OwnInv, Owns, Disjoint, MemoryWithin, RequestsWithin, DiskWithin, RowsAt
<1>4. ColsInv' BY <1>0 DEF Inv, ColsInv, MemoryWithin, RequestsWithin, DiskWithin, RowsAt
<1>5. ReplicaInv' BY <1>0 DEF Inv, ReplicaInv, ReplicaOf, Sound, RowsAt, Range
<1>6. ExpectedInv' BY <1>0 DEF Inv, ExpectedInv, OnDisk, Contents
<1>7. IndexInv'
  <2>1. \A t \in Tables : /\ IndexSettles(t)' <=> IndexSettles(t)
                          /\ IndexAt(native, t)' = IndexAt(native, t)
                          /\ IndexAt(disk, t)' = IndexAt(disk, t)
                          /\ RowsAt(native, t)' = RowsAt(native, t)
                          /\ RowsAt(disk, t)' = RowsAt(disk, t)
                          /\ IndexAt(IF unwritten THEN native ELSE disk, t)'
                               = IndexAt(IF unwritten THEN native ELSE disk, t)
    BY <1>0 DEF IndexSettles, IndexAt, RowsAt, Range
  <2> QED BY <1>0, <2>1 DEF Inv, IndexInv
<1> QED BY <1>1, <1>2, <1>3, <1>4, <1>5, <1>6, <1>7 DEF Inv

-----------------------------------------------------------------------------
(* Serving requests.                                                       *)

\* What is served of a queue whose requests are as they should be.
LEMMA ServedRequest ==
    ASSUME Inv, Serve, NEW head, head = Head(requests), NEW more,
           more = FollowUp(native[head.store], head)
    PROVE  /\ RequestOK(kind, head) /\ head \in Range(requests)
           /\ native' = [s \in Stores |-> native'[s]]
           /\ \A s \in Stores : native'[s] = IF s = head.store THEN Applied(native[s], head)
                                             ELSE native[s]
           /\ requests' \in Seq(Range(requests')) /\ Tidy(kind, requests')
           /\ Range(requests') = Range(Tail(requests)) \cup Range(more)
           /\ Range(requests) = {head} \cup Range(Tail(requests))
           /\ \A m : Serving(kind, head, m, Range(Tail(requests)))
           /\ \A r \in Range(requests) : RequestOK(kind, r)
           /\ \A r \in Range(more) : RequestOK(kind, r) /\ r.op # "put" /\ r.store = head.store
<1>1. /\ requests # <<>> /\ native' = AppliedTo(native, head) /\ requests' = Tail(requests) \o more
  BY DEF Serve
<1>2. \A r \in Range(requests) : RequestOK(kind, r) BY DEF Inv, TypeInv, Range
<1>3. requests \in Seq(Range(requests)) /\ Tidy(kind, requests)
  BY DEF Inv, TypeInv, ReplicaInv
<1>4. \A r \in Range(requests) : r.op = "count" => kind = "indexed_db" BY <1>2 DEF RequestOK
<1>5. /\ requests' \in Seq(Range(requests')) /\ Tidy(kind, requests')
      /\ Range(requests') = Range(Tail(requests)) \cup Range(more)
      /\ Range(requests) = {head} \cup Range(Tail(requests))
      /\ \A m : Serving(kind, head, m, Range(Tail(requests)))
  <2>1. PICK n : n = native[head.store] OBVIOUS
  <2>2. PICK q : q = Tail(requests) \o FollowUp(n, Head(requests)) OBVIOUS
  <2>3. PICK queue : queue = requests OBVIOUS
  <2>4. /\ queue \in Seq(Range(queue)) /\ queue # <<>> /\ Tidy(kind, queue)
        /\ q = Tail(queue) \o FollowUp(n, Head(queue))
        /\ CountsOnly(kind, Range(queue))
    BY <1>1, <1>3, <1>4, <2>1, <2>2, <2>3 DEF CountsOnly
  <2>5. MovesOn(kind, queue, n, q)
    BY ONLY <2>4, QueueAfter
  <2>6. q = requests' BY <1>1, <2>1, <2>2
  <2> QED BY <1>1, <2>1, <2>3, <2>5, <2>6 DEF MovesOn
<1>6. head \in Range(requests) /\ RequestOK(kind, head) BY <1>2, <1>5
<1>7. /\ native' = [s \in Stores |-> native'[s]]
      /\ \A s \in Stores : native'[s] = IF s = head.store THEN Applied(native[s], head)
                                        ELSE native[s]
  <2>1. native = [s \in Stores |-> native[s]] BY DEF Inv, TypeInv
  <2>2. head.store \in Stores BY <1>6 DEF RequestOK
  <2> QED BY <1>1, <2>1, <2>2, AppliedToIs
<1>8. ASSUME NEW r \in Range(more) PROVE RequestOK(kind, r) /\ r.op # "put" /\ r.store = head.store
  <2>1. head.op = "count"
    <3>1. head.op # "count" => more = <<>> BY FollowUpIs
    <3> QED BY <3>1, EmptyBlock
  <2>2. r.store = head.store /\ (r.op = "clear" \/ (r.op = "delete" /\ r.keys = head.ids /\ head.ids # {}))
    BY <2>1, FollowUpIs
  <2> QED BY <1>6, <2>1, <2>2 DEF RequestOK
<1> QED BY <1>2, <1>5, <1>6, <1>7, <1>8

\* A store that converges still does after a request is served.
LEMMA ConvergesAfter ==
    ASSUME Inv, Serve, NEW s \in Stores, NEW target, IsFiniteSet(DOMAIN native[s]),
           ConvergesTo(kind, native[s], Range(requests), s, target)
    PROVE  ConvergesTo(kind, native'[s], Range(requests'), s, target)
<1>h. PICK head : head = Head(requests) OBVIOUS
<1>m. PICK more : more = FollowUp(native[head.store], head) OBVIOUS
<1>r. PICK rest : rest = Range(Tail(requests)) OBVIOUS
<1>1. /\ RequestOK(kind, head)
      /\ \A x \in Stores : native'[x] = IF x = head.store THEN Applied(native[x], head)
                                        ELSE native[x]
      /\ Range(requests') = rest \cup Range(more)
      /\ Range(requests) = {head} \cup rest
      /\ \A m : Serving(kind, head, m, rest)
      /\ \A r \in Range(requests) : RequestOK(kind, r)
  BY <1>h, <1>m, <1>r, ServedRequest
<1>2. /\ \A r \in rest : r.op \in {"put", "delete", "clear", "count"}
      /\ head.op \in {"put", "delete", "clear", "count"}
  BY <1>1 DEF RequestOK
<1>3. PICK reqs : reqs = Range(requests) OBVIOUS
<1>4. PICK new : new = Range(requests') OBVIOUS
<1>5. CASE head.store = s
  <2>1. Serving(kind, head, native[s], rest) BY <1>1
  <2>2. new = rest \cup Range(FollowUp(native[s], head)) BY <1>1, <1>4, <1>5, <1>m
  <2>3. reqs = {head} \cup rest /\ ConvergesTo(kind, native[s], reqs, s, target) BY <1>1, <1>3
  <2>4. ConvergesTo(kind, Applied(native[s], head), new, s, target)
    BY ONLY IsFiniteSet(DOMAIN native[s]), <1>2, <1>5, <2>1, <2>2, <2>3, ServedHere
  <2> QED BY <1>1, <1>4, <1>5, <2>4
<1>6. CASE head.store # s
  <2>1. PICK m : m = native[head.store] OBVIOUS
  <2>2. new = rest \cup Range(FollowUp(m, head)) BY <1>1, <1>4, <1>m, <2>1
  <2>3. reqs = {head} \cup rest /\ ConvergesTo(kind, native[s], reqs, s, target) BY <1>1, <1>3
  <2>4. ConvergesTo(kind, native[s], new, s, target)
    BY ONLY <1>2, <1>6, <2>2, <2>3, ServedElsewhere
  <2> QED BY <1>1, <1>4, <1>6, <2>4
<1> QED BY <1>5, <1>6

\* Serving a request keeps the invariant.
LEMMA ServeKeeps == Inv /\ Serve => Inv'
<1> SUFFICES ASSUME Inv, Serve PROVE Inv' OBVIOUS
<1>0. /\ status \in Sending /\ ~unwritten
      /\ kind' = kind /\ disk' = disk /\ version' = version /\ made' = made /\ schema' = schema
      /\ status' = status /\ cache' = cache /\ rowIds' = rowIds /\ nextId' = nextId
      /\ before' = before /\ touched' = touched
      /\ unwritten' = unwritten /\ expected' = expected /\ dropped' = dropped /\ lost' = lost
      /\ halfUpgraded' = halfUpgraded
  BY DEF Serve, memory, journal, history, Sending
<1>h. PICK head : head = Head(requests) OBVIOUS
<1>m. PICK more : more = FollowUp(native[head.store], head) OBVIOUS
<1>1. /\ RequestOK(kind, head) /\ head \in Range(requests)
      /\ native' = [s \in Stores |-> native'[s]]
      /\ \A s \in Stores : native'[s] = IF s = head.store THEN Applied(native[s], head)
                                        ELSE native[s]
      /\ requests' \in Seq(Range(requests')) /\ Tidy(kind, requests')
      /\ Range(requests') = Range(Tail(requests)) \cup Range(more)
      /\ Range(requests) = {head} \cup Range(Tail(requests))
      /\ \A r \in Range(requests) : RequestOK(kind, r)
      /\ \A r \in Range(more) : RequestOK(kind, r) /\ r.op # "put" /\ r.store = head.store
  BY <1>h, <1>m, ServedRequest
<1>2. /\ kind # "memory" /\ kind \in Kinds
      /\ \A t \in Tables : /\ StoreOK(kind, disk[Data(t)]) /\ StoreOK(kind, native[Data(t)])
                           /\ IndexOK(kind, disk[Index(t)]) /\ IndexOK(kind, native[Index(t)])
      /\ \A t \in Tables : Data(t) \in Stores /\ Index(t) \in Stores
  <2>1. kind # "memory" BY <1>0 DEF Inv, StatusInv
  <2> QED BY <2>1 DEF Inv, TypeInv, Stores
<1>3. \A r \in Range(requests') : RequestOK(kind, r) /\ (r.op = "put" => r \in Range(requests))
  BY <1>1
<1>4. head.op \in {"put", "delete", "clear", "count"} BY <1>1 DEF RequestOK
<1>5. ASSUME NEW t \in Tables
      PROVE  /\ StoreOK(kind, native'[Data(t)]) /\ IndexOK(kind, native'[Index(t)])
             /\ head.store = Data(t) /\ head.op = "put" => RecordOK(kind, head.key, head.record)
  <2>1. head.store = Data(t) /\ head.op = "put" => RecordOK(kind, head.key, head.record)
    BY <1>1 DEF RequestOK
  <2>2. StoreOK(kind, native'[Data(t)])
    <3>1. CASE head.store # Data(t) BY <1>1, <1>2, <3>1
    <3>2. CASE head.store = Data(t)
      <4>1. StoreOK(kind, Applied(native[Data(t)], head))
        BY <1>2, <1>4, <2>1, <3>2, AppliedOK
      <4> QED BY <1>1, <1>2, <3>2, <4>1
    <3> QED BY <3>1, <3>2
  <2>3. IndexOK(kind, native'[Index(t)])
    <3>1. CASE head.store # Index(t) BY <1>1, <1>2, <3>1
    <3>2. CASE head.store = Index(t)
      <4>1. /\ head.op \in {"put", "clear", "count"}
            /\ head.op = "put" => /\ head.key = ROW_ID
                                  /\ \E ids \in SUBSET RowId : head.record = IndexRecord(kind, ids)
        BY <1>1, <3>2 DEF RequestOK
      <4>2. IndexOK(kind, Applied(native[Index(t)], head)) BY <1>2, <4>1, IndexAppliedOK
      <4> QED BY <1>1, <1>2, <3>2, <4>2
    <3> QED BY <3>1, <3>2
  <2> QED BY <2>1, <2>2, <2>3
<1>6. TypeInv'
  <2>1. requests' \in Seq(Range(requests)') BY <1>1 DEF Range
  <2>2. \A i \in DOMAIN requests' : RequestOK(kind, requests[i])'
    <3>1. \A i \in DOMAIN requests' : RequestOK(kind, requests'[i]) BY <1>3 DEF Range
    <3> QED BY <1>0, <3>1 DEF RequestOK
  <2>3. /\ disk = [s \in Stores |-> disk[s]]
        /\ version \in 0 .. MaxVersion /\ schema \in 1 .. MaxVersion
        /\ {made, unwritten, lost, halfUpgraded} \subseteq BOOLEAN
        /\ status \in {"closed", "failed", "versioned", "upgrading", "idle", "active",
                       "committing", "importing", "written"}
        /\ cache \in [Tables -> RowMap]
        /\ rowIds \in [Tables -> SUBSET RowId]
        /\ nextId \in 0 .. MaxRowId
        /\ before \in [cache : [Tables -> RowMap], rowIds : [Tables -> SUBSET RowId]]
        /\ touched \subseteq Tables
        /\ dropped \subseteq Persistent
    BY DEF Inv, TypeInv
  <2> QED BY ONLY <1>0, <1>1, <1>2, <1>5, <2>1, <2>2, <2>3 DEF TypeInv
<1>7. StatusInv' BY <1>0 DEF Inv, StatusInv, Sending, Away
<1>8. ASSUME NEW t \in Tables, NEW ids, NEW versions, RequestsWithin(t, ids, versions)
      PROVE  RequestsWithin(t, ids, versions)'
  <2>1. \A r \in Range(requests) : r.op = "put" /\ r.store = Data(t) =>
            Within(RecordRows(kind, r.key, r.record), ids, versions)
    BY <1>8 DEF RequestsWithin, Range
  <2>2. \A r \in Range(requests') : r.op = "put" /\ r.store = Data(t) =>
            Within(RecordRows(kind, r.key, r.record), ids, versions)
    BY <1>3, <2>1
  <2> QED BY <1>0, <2>2 DEF RequestsWithin, Range
<1>9. ASSUME NEW t \in Tables, NEW ids, NEW versions, RequestsWithin(t, ids, versions),
             DiskWithin(t, ids, versions)
      PROVE  DiskWithin(t, ids, versions)'
  <2>1. Within(GetAll(kind, disk[Data(t)]), ids, versions)
        /\ Within(GetAll(kind, native[Data(t)]), ids, versions)
    BY <1>9 DEF DiskWithin, RowsAt
  <2>2. Within(GetAll(kind, native'[Data(t)]), ids, versions)
    <3>1. CASE head.store # Data(t) BY <1>1, <1>2, <2>1, <3>1
    <3>2. CASE head.store = Data(t)
      <4>1. head.op = "put" => Within(RecordRows(kind, head.key, head.record), ids, versions)
        BY <1>1, <1>9, <3>2 DEF RequestsWithin, Range
      <4>2. head.op = "put" => RecordOK(kind, head.key, head.record) BY <1>5, <3>2
      <4>3. StoreOK(kind, native[Data(t)]) BY <1>2
      <4>4. Within(GetAll(kind, Applied(native[Data(t)], head)), ids, versions)
        BY <1>4, <2>1, <4>1, <4>2, <4>3, AppliedWithin
      <4> QED BY <1>1, <1>2, <3>2, <4>4
    <3> QED BY <3>1, <3>2
  <2> QED BY <1>0, <2>1, <2>2 DEF DiskWithin, RowsAt
<1>10. OwnInv'
  <2>1. PICK own \in [Tables -> SUBSET RowId] : Owns(own) BY DEF Inv, OwnInv
  <2>2. Disjoint(own)' BY <2>1 DEF Owns, Disjoint
  <2>3. \A t \in Tables : MemoryWithin(t, own[t], Versions)'
    <3> SUFFICES ASSUME NEW t \in Tables PROVE MemoryWithin(t, own[t], Versions)' OBVIOUS
    <3>1. MemoryWithin(t, own[t], Versions) BY <2>1 DEF Owns
    <3>2. RequestsWithin(t, own[t], Versions)' BY <3>1, <1>8 DEF MemoryWithin
    <3> QED BY <1>0, <3>1, <3>2 DEF MemoryWithin
  <2>4. \A t \in Tables : DiskWithin(t, own[t], Versions)'
    BY <1>2, <1>9, <2>1 DEF Owns, MemoryWithin
  <2>5. status' \in Live => \A t \in Tables : \A id \in own[t] : id < nextId'
    BY <1>0, <2>1 DEF Owns
  <2>6. Owns(own)' BY <2>1, <2>2, <2>3, <2>4, <2>5 DEF Owns
  <2> QED BY <2>6 DEF OwnInv
<1>11. ColsInv'
  <2> SUFFICES ASSUME ~halfUpgraded, NEW t \in Tables
               PROVE  /\ MemoryWithin(t, RowId, {schema})'
                      /\ version = schema => DiskWithin(t, RowId, {schema})'
    BY <1>0, <1>2 DEF ColsInv
  <2>1. MemoryWithin(t, RowId, {schema}) /\ (version = schema => DiskWithin(t, RowId, {schema}))
    BY <1>0, <1>2 DEF Inv, ColsInv, Sending
  <2>2. PICK V : V = {schema} OBVIOUS
  <2>3. RequestsWithin(t, RowId, V)' BY <1>8, <2>1, <2>2 DEF MemoryWithin
  <2>4. version = schema => DiskWithin(t, RowId, V)' BY <1>9, <2>1, <2>2 DEF MemoryWithin
  <2>5. MemoryWithin(t, RowId, V)' BY <1>0, <2>1, <2>2, <2>3 DEF MemoryWithin
  <2>6. V = {schema'} BY <1>0, <2>2
  <2> QED BY <2>4, <2>5, <2>6
<1>12. ReplicaInv'
  <2>1. ASSUME NEW t \in Tables, Sound(t)
        PROVE  /\ ConvergesTo(kind, native'[Data(t)], Range(requests'), Data(t), Image(kind, cache[t]))
               /\ RowsAt(disk, t) = before.cache[t]
    <3>1. /\ ConvergesTo(kind, native[Data(t)], Range(requests), Data(t), Image(kind, cache[t]))
          /\ RowsAt(disk, t) = before.cache[t]
      BY <1>0, <2>1 DEF Inv, ReplicaInv, ReplicaOf
    <3>2. IsFiniteSet(DOMAIN native[Data(t)])
      <4>1. DOMAIN native[Data(t)] \subseteq RowId BY <1>2 DEF StoreOK
      <4> QED BY <4>1, RowIdFinite
    <3>3. Data(t) \in Stores BY <1>2
    <3>4. PICK target : target = Image(kind, cache[t]) OBVIOUS
    <3>5. ConvergesTo(kind, native'[Data(t)], Range(requests'), Data(t), target)
      BY <3>1, <3>2, <3>3, <3>4, ConvergesAfter
    <3> QED BY <3>1, <3>4, <3>5
  <2>2. ASSUME NEW t \in Tables, Sound(t)' PROVE ReplicaOf(t)'
    <3>1. Sound(t) BY <1>0, <2>2 DEF Sound
    <3> QED BY <1>0, <2>1, <3>1 DEF ReplicaOf, RowsAt, Sending, Range
  <2>3. status = "importing" => \A t \in Persistent \ dropped :
                               cache[t] = before.cache[t] /\ rowIds[t] = before.rowIds[t]
    BY DEF Inv, ReplicaInv
  <2> QED BY <1>0, <1>1, <2>2, <2>3 DEF ReplicaInv, Sending
<1>13. ExpectedInv' BY <1>0 DEF Inv, ExpectedInv, OnDisk, Contents
<1>14. IndexInv'
  <2> SUFFICES ASSUME NEW t \in Tables, t \in Persistent => t \notin dropped /\ kind # "indexed_db"
               PROVE  /\ rowIds[t] = DOMAIN cache[t] /\ before.rowIds[t] = DOMAIN before.cache[t]
                      /\ t \in Persistent => /\ IndexAt(disk, t) = DOMAIN RowsAt(disk, t)
                                             /\ IndexSettles(t)'
                                             /\ IndexAt(disk, t) = before.rowIds[t]
    <3>1. \A t \in Tables : /\ IndexAt(disk, t)' = IndexAt(disk, t)
                            /\ RowsAt(disk, t)' = RowsAt(disk, t)
                            /\ IndexAt(IF unwritten THEN native ELSE disk, t)' = IndexAt(disk, t)
      BY <1>0 DEF IndexAt, RowsAt
    <3> QED BY <1>0, <3>1 DEF IndexInv, Sending
  <2>1. /\ rowIds[t] = DOMAIN cache[t] /\ before.rowIds[t] = DOMAIN before.cache[t]
        /\ t \in Persistent => /\ IndexAt(disk, t) = DOMAIN RowsAt(disk, t)
                               /\ IndexSettles(t)
                               /\ IndexAt(disk, t) = before.rowIds[t]
    BY <1>0, <1>2 DEF Inv, IndexInv
  <2>2. ASSUME IndexSettles(t) PROVE IndexSettles(t)'
    <3>1. CASE IndexAt(native, t) = rowIds[t] /\ \A r \in Range(requests) : r.store # Index(t)
      <4>1. head.store # Index(t) BY <1>1, <3>1
      <4>2. \A r \in Range(requests') : r.store # Index(t) BY <1>1, <3>1, <4>1
      <4>3. native'[Index(t)] = native[Index(t)] BY <1>1, <1>2, <4>1
      <4> QED BY <1>0, <3>1, <4>2, <4>3 DEF IndexSettles, IndexAt, Range
    <3>2. CASE ConvergesTo(kind, native[Index(t)], Range(requests), Index(t),
                           IndexImage(kind, rowIds[t]))
      <4>1. IsFiniteSet(DOMAIN native[Index(t)]) BY <1>2, IndexIsFunction
      <4>2. PICK target : target = IndexImage(kind, rowIds[t]) OBVIOUS
      <4>3. Index(t) \in Stores BY <1>2
      <4>4. ConvergesTo(kind, native'[Index(t)], Range(requests'), Index(t), target)
        BY <3>2, <4>1, <4>2, <4>3, ConvergesAfter
      <4> QED BY <1>0, <4>2, <4>4 DEF IndexSettles, Range
    <3> QED BY <2>2, <3>1, <3>2 DEF IndexSettles
  <2> QED BY <2>1, <2>2
<1> QED BY <1>6, <1>7, <1>10, <1>11, <1>12, <1>13, <1>14 DEF Inv

-----------------------------------------------------------------------------
(* Commits and imports.                                                    *)

\* What a commit or an import may send, given what memory has then.
Sendable(queue, now, ids, was, drop) ==
    /\ queue \in Seq(Range(queue)) /\ Tidy(kind, queue)
    /\ \A r \in Range(queue) : RequestOK(kind, r)
    /\ \A t \in Tables : (~lost \/ t \in Persistent \ drop) =>
          /\ RowsAt(native, t) = was.cache[t]
          /\ ConvergesTo(kind, native[Data(t)], Range(queue), Data(t), Image(kind, now[t]))
    /\ \A t \in Tables : (t \in Persistent => t \notin drop /\ kind # "indexed_db") =>
          /\ ids[t] = DOMAIN now[t] /\ was.rowIds[t] = DOMAIN was.cache[t]
          /\ kind # "memory" /\ t \in Persistent =>
                /\ IndexAt(native, t) = was.rowIds[t]
                /\ \/ /\ IndexAt(native, t) = ids[t]
                      /\ \A r \in Range(queue) : r.store # Index(t)
                   \/ ConvergesTo(kind, native[Index(t)], Range(queue), Index(t),
                                  IndexImage(kind, ids[t]))

\* The rows of a table in memory and in a queue.
SentWithin(queue, now, was, t, own, versions) ==
    /\ Within(now[t], own, versions) /\ Within(was.cache[t], own, versions)
    /\ \A r \in Range(queue) : r.op = "put" /\ r.store = Data(t) =>
          Within(RecordRows(kind, r.key, r.record), own, versions)

\* Sending what is sendable keeps the invariant.
LEMMA SendKeeps ==
    ASSUME Inv, NEW queue, NEW now, NEW ids, NEW was, NEW drop, NEW during \in Sending,
           status \in {"idle", "active"}, Send(queue, during),
           Sendable(queue, now, ids, was, drop),
           cache' = now, rowIds' = ids, before' = was, dropped' = drop,
           dropped \subseteq drop, drop \subseteq Persistent,
           expected' = expected \cup {Contents(now)},
           now \in [Tables -> RowMap], ids \in [Tables -> SUBSET RowId],
           was \in [cache : [Tables -> RowMap], rowIds : [Tables -> SUBSET RowId]],
           nextId' \in 0 .. MaxRowId,
           kind' = kind, version' = version, made' = made, schema' = schema, touched' = touched,
           unwritten' = unwritten, lost' = lost, halfUpgraded' = halfUpgraded,
           during = "importing" => /\ touched = {}
                                   /\ \A t \in Persistent \ drop :
                                         now[t] = was.cache[t] /\ ids[t] = was.rowIds[t],
           NEW own \in [Tables -> SUBSET RowId], Disjoint(own),
           \A t \in Tables : \A id \in own[t] : id < nextId',
           \A t \in Tables : SentWithin(queue, now, was, t, own[t], Versions),
           kind # "memory" => \A t \in Tables : DiskWithin(t, own[t], Versions),
           kind # "memory" /\ ~halfUpgraded =>
               \A t \in Tables : SentWithin(queue, now, was, t, RowId, {schema})
    PROVE  Inv'
<1>1. /\ kind \in Kinds /\ requests = <<>> /\ DOMAIN requests = {} /\ Range(requests) = {}
      /\ <<>> \in Seq(Range(<<>>)) /\ Tidy(kind, requests)
      /\ status \notin Sending /\ (~unwritten => native = disk)
      /\ (unwritten => kind = "web_sql") /\ (kind = "memory" => ~lost /\ native = disk)
  <2>1. status \notin Sending BY DEF Sending
  <2>2. Tidy(kind, requests) BY DEF Inv, ReplicaInv
  <2>3. kind \in Kinds BY DEF Inv, TypeInv
  <2>4. requests = <<>> /\ (~unwritten => native = disk) /\ (unwritten => kind = "web_sql")
        /\ (kind = "memory" => ~lost)
    BY <2>1 DEF Inv, StatusInv
  <2> QED BY <2>1, <2>2, <2>3, <2>4, EmptyBlock
<1>2. /\ queue \in Seq(Range(queue)) /\ Tidy(kind, queue)
      /\ \A r \in Range(queue) : RequestOK(kind, r)
  BY DEF Sendable
<1>3. ASSUME kind = "memory"
      PROVE  /\ disk' = [s \in Stores |-> disk'[s]] /\ native' = disk'
             /\ status' = "written" /\ requests' = <<>>
             /\ \A t \in Tables : GetAll(kind, native'[Data(t)]) = now[t]
  <2>1. disk' = Served(disk, queue) /\ native' = disk' /\ status' = "written" /\ requests' = <<>>
    BY <1>1, <1>3 DEF Send
  <2>2. \A r \in Range(queue) : r.op \in Operations /\ r.op # "count" /\ r.store \in Stores
    BY <1>2, <1>3 DEF RequestOK, Operations
  <2>3. disk = [s \in Stores |-> disk[s]] BY DEF Inv, TypeInv
  <2>4. disk' = [s \in Stores |-> disk'[s]] BY <1>2, <2>1, <2>2, <2>3, ServedStores
  <2>5. ASSUME NEW t \in Tables PROVE disk'[Data(t)] = now[t]
    <3>1. /\ RowsAt(native, t) = was.cache[t]
          /\ ConvergesTo(kind, native[Data(t)], Range(queue), Data(t), Image(kind, now[t]))
      BY <1>1, <1>3 DEF Sendable
    <3>2. disk[Data(t)] = was.cache[t] BY <1>1, <1>3, <3>1 DEF RowsAt, GetAll
    <3>3. Image(kind, now[t]) = now[t] BY <1>3 DEF Image
    <3>4. was.cache[t] \in RowMap /\ now[t] \in RowMap OBVIOUS
    <3>5. /\ disk[Data(t)] = [key \in DOMAIN disk[Data(t)] |-> disk[Data(t)][key]]
          /\ now[t] = [key \in DOMAIN now[t] |-> now[t][key]]
          /\ DOMAIN disk[Data(t)] \subseteq RowId
      BY <3>2, <3>4, RowMapIs
    <3>6. IsFiniteSet(DOMAIN disk[Data(t)]) BY <3>5, RowIdFinite
    <3>7. PICK target : target = now[t] OBVIOUS
    <3>8. PICK s \in Stores : s = Data(t) BY DEF Stores
    <3>9. PICK stores : stores = disk OBVIOUS
    <3>10. /\ stores = [x \in Stores |-> stores[x]]
           /\ target = [key \in DOMAIN target |-> target[key]]
           /\ stores[s] = [key \in DOMAIN stores[s] |-> stores[s][key]]
           /\ IsFiniteSet(DOMAIN stores[s])
           /\ ConvergesTo("memory", stores[s], Range(queue), s, target)
           /\ Tidy("memory", queue)
      BY <1>1, <1>2, <1>3, <2>3, <3>1, <3>3, <3>5, <3>6, <3>7, <3>8, <3>9
    <3>11. Served(stores, queue)[s] = target
      BY ONLY <1>2, <2>2, <3>10, ServedConverges
    <3> QED BY <2>1, <3>7, <3>8, <3>9, <3>11
  <2> QED BY <1>3, <2>1, <2>4, <2>5 DEF GetAll
<1>4. ASSUME kind # "memory"
      PROVE  status' = during /\ requests' = queue /\ disk' = disk /\ native' = native
  BY <1>4 DEF Send
<1>5. /\ requests' \in Seq(Range(requests')) /\ Tidy(kind, requests')
      /\ \A r \in Range(requests') : RequestOK(kind, r)
      /\ \A r \in Range(requests') : r \in Range(queue)
  <2>1. CASE kind = "memory" BY <1>1, <1>3, <2>1
  <2>2. CASE kind # "memory" BY <1>2, <1>4, <2>2
  <2> QED BY <2>1, <2>2
<1>6. TypeInv'
  <2>1. requests' \in Seq(Range(requests)') BY <1>5 DEF Range
  <2>2. \A i \in DOMAIN requests' : RequestOK(kind, requests[i])'
    <3>1. \A i \in DOMAIN requests' : RequestOK(kind, requests'[i]) BY <1>5 DEF Range
    <3> QED BY <3>1 DEF RequestOK
  <2>3. /\ disk = [s \in Stores |-> disk[s]] /\ native = [s \in Stores |-> native[s]]
        /\ kind # "memory" => \A t \in Tables :
              /\ StoreOK(kind, disk[Data(t)]) /\ StoreOK(kind, native[Data(t)])
              /\ IndexOK(kind, disk[Index(t)]) /\ IndexOK(kind, native[Index(t)])
        /\ version \in 0 .. MaxVersion /\ schema \in 1 .. MaxVersion
        /\ {made, unwritten, lost, halfUpgraded} \subseteq BOOLEAN
        /\ touched \subseteq Tables
    BY DEF Inv, TypeInv
  <2>4. disk' = [s \in Stores |-> disk'[s]] /\ native' = [s \in Stores |-> native'[s]]
    BY <1>3, <1>4, <2>3
  <2>5. kind # "memory" => \A t \in Tables :
              /\ StoreOK(kind, disk'[Data(t)]) /\ StoreOK(kind, native'[Data(t)])
              /\ IndexOK(kind, disk'[Index(t)]) /\ IndexOK(kind, native'[Index(t)])
    BY <1>4, <2>3
  <2>6. status' \in {"closed", "failed", "versioned", "upgrading", "idle", "active",
                     "committing", "importing", "written"}
    BY <1>3, <1>4 DEF Sending
  <2> QED BY <1>1, <2>1, <2>2, <2>3, <2>4, <2>5, <2>6 DEF TypeInv
<1>7. StatusInv'
  <2>1. CASE kind = "memory"
    <3>1. ~unwritten BY <1>1, <2>1
    <3> QED BY <1>1, <1>3, <2>1, <3>1 DEF StatusInv, Sending, Away, Inv
  <2>2. CASE kind # "memory"
    <3>1. version = schema BY <2>2 DEF Inv, StatusInv
    <3>2. status' \in Sending /\ (status' = "importing" => touched = {}) BY <1>4, <2>2
    <3> QED BY <1>1, <2>2, <3>1, <3>2 DEF StatusInv, Sending, Away
  <2> QED BY <2>1, <2>2
<1>8. ASSUME NEW t \in Tables, NEW mine, NEW versions, SentWithin(queue, now, was, t, mine, versions)
      PROVE  MemoryWithin(t, mine, versions)'
  <2>1. \A r \in Range(requests') : r.op = "put" /\ r.store = Data(t) =>
            Within(RecordRows(kind, r.key, r.record), mine, versions)
    BY <1>5, <1>8 DEF SentWithin
  <2>2. RequestsWithin(t, mine, versions)' BY <2>1 DEF RequestsWithin, Range
  <2> QED BY <1>8, <2>2 DEF MemoryWithin, SentWithin
<1>9. OwnInv'
  <2>1. \A t \in Tables : MemoryWithin(t, own[t], Versions)' BY <1>8
  <2>2. kind # "memory" => \A t \in Tables : DiskWithin(t, own[t], Versions)'
    BY <1>4 DEF DiskWithin, RowsAt
  <2>3. Disjoint(own)' BY DEF Disjoint
  <2>4. Owns(own)' BY <2>1, <2>2, <2>3 DEF Owns
  <2> QED BY <2>4 DEF OwnInv
<1>10. ColsInv'
  <2> SUFFICES ASSUME kind # "memory", ~halfUpgraded, NEW t \in Tables
               PROVE  /\ MemoryWithin(t, RowId, {schema})'
                      /\ version = schema => DiskWithin(t, RowId, {schema})'
    BY DEF ColsInv
  <2>1. PICK V : V = {schema} OBVIOUS
  <2>2. SentWithin(queue, now, was, t, RowId, V) BY <2>1
  <2>3. MemoryWithin(t, RowId, V)' BY <1>8, <2>2
  <2>4. version = schema => DiskWithin(t, RowId, {schema}) BY DEF Inv, ColsInv
  <2>5. version = schema => DiskWithin(t, RowId, V)' BY <1>4, <2>1, <2>4 DEF DiskWithin, RowsAt
  <2>6. V = {schema'} BY <2>1
  <2> QED BY <2>3, <2>5, <2>6
<1>11. ASSUME NEW t \in Tables, Sound(t)'
       PROVE  /\ RowsAt(native, t) = was.cache[t]
              /\ ConvergesTo(kind, native[Data(t)], Range(queue), Data(t), Image(kind, now[t]))
  <2>1. ~lost \/ t \in Persistent \ drop BY <1>11 DEF Sound
  <2> QED BY <2>1 DEF Sendable
<1>12. ReplicaInv'
  <2>1. ASSUME NEW t \in Tables, Sound(t)' PROVE ReplicaOf(t)'
    <3>1. CASE kind = "memory" BY <1>3, <3>1 DEF ReplicaOf, RowsAt, Sending
    <3>2. CASE kind # "memory"
      <4>1. /\ ConvergesTo(kind, native[Data(t)], Range(queue), Data(t), Image(kind, now[t]))
            /\ GetAll(kind, (IF unwritten THEN native ELSE disk)[Data(t)]) = was.cache[t]
        BY <1>1, <1>11, <2>1 DEF RowsAt
      <4>2. Range(requests)' = Range(queue) BY <1>4, <3>2 DEF Range
      <4> QED BY <1>4, <3>2, <4>1, <4>2 DEF ReplicaOf, RowsAt, Sending
    <3> QED BY <3>1, <3>2
  <2>2. status' # "active" BY <1>3, <1>4 DEF Sending
  <2>3. status' = "importing" => during = "importing" BY <1>3, <1>4
  <2> QED BY <1>5, <2>1, <2>2, <2>3 DEF ReplicaInv
<1>13. ExpectedInv'
  <2> SUFFICES ASSUME kind # "memory", ~lost
               PROVE  OnDisk(disk) \in expected' /\ Contents(now) \in expected'
    BY <1>4 DEF ExpectedInv, OnDisk, Contents
  <2> QED BY DEF Inv, ExpectedInv
<1>14. IndexInv'
  <2>1. ASSUME NEW t \in Tables, t \in Persistent => t \notin drop /\ kind # "indexed_db"
        PROVE  /\ ids[t] = DOMAIN now[t] /\ was.rowIds[t] = DOMAIN was.cache[t]
               /\ kind # "memory" /\ t \in Persistent =>
                     /\ IndexAt(disk, t) = DOMAIN RowsAt(disk, t)
                     /\ IndexSettles(t)'
                     /\ IndexAt(IF unwritten THEN native ELSE disk, t) = was.rowIds[t]
    <3>1. ids[t] = DOMAIN now[t] /\ was.rowIds[t] = DOMAIN was.cache[t] BY <2>1 DEF Sendable
    <3>2. ASSUME kind # "memory", t \in Persistent
          PROVE  /\ IndexAt(disk, t) = DOMAIN RowsAt(disk, t)
                 /\ IndexSettles(t)'
                 /\ IndexAt(IF unwritten THEN native ELSE disk, t) = was.rowIds[t]
      <4>1. /\ IndexAt(native, t) = was.rowIds[t]
            /\ \/ /\ IndexAt(native, t) = ids[t]
                  /\ \A r \in Range(queue) : r.store # Index(t)
               \/ ConvergesTo(kind, native[Index(t)], Range(queue), Index(t),
                              IndexImage(kind, ids[t]))
        BY <2>1, <3>2 DEF Sendable
      <4>2. IndexSettles(t)' BY <1>4, <3>2, <4>1 DEF IndexSettles, IndexAt, Range
      <4>3. t \notin dropped BY <2>1, <3>2
      <4>4. IndexAt(disk, t) = DOMAIN RowsAt(disk, t) BY <2>1, <3>2, <4>3 DEF Inv, IndexInv
      <4> QED BY <1>1, <4>1, <4>2, <4>4
    <3> QED BY <3>1, <3>2
  <2>2. CASE kind = "memory" BY <2>1, <2>2 DEF IndexInv
  <2>3. CASE kind # "memory"
    <3>1. \A t \in Tables : /\ IndexAt(disk, t)' = IndexAt(disk, t)
                            /\ RowsAt(disk, t)' = RowsAt(disk, t)
                            /\ IndexAt(IF unwritten THEN native ELSE disk, t)'
                                 = IndexAt(IF unwritten THEN native ELSE disk, t)
      BY <1>4, <2>3 DEF IndexAt, RowsAt
    <3>2. status' \in Sending BY <1>4, <2>3
    <3> QED BY <2>1, <3>1, <3>2 DEF IndexInv, Sending
  <2> QED BY <2>2, <2>3
<1> QED BY <1>6, <1>7, <1>9, <1>10, <1>12, <1>13, <1>14 DEF Inv

\* A commit keeps the invariant.
LEMMA CommitKeeps == Inv /\ Commit => Inv'
<1> SUFFICES ASSUME Inv, Commit PROVE Inv' OBVIOUS
<1>q. PICK queue : queue = mergeIntoBackstore OBVIOUS
<1>0. /\ status = "active" /\ Send(queue, "committing")
      /\ expected' = expected \cup {Contents(cache)}
      /\ kind' = kind /\ version' = version /\ made' = made /\ schema' = schema
      /\ cache' = cache /\ rowIds' = rowIds /\ nextId' = nextId
      /\ before' = before /\ touched' = touched
      /\ unwritten' = unwritten /\ dropped' = dropped /\ lost' = lost
      /\ halfUpgraded' = halfUpgraded
  BY <1>q DEF Commit, memory, journal
<1>1. /\ kind \in Kinds /\ touched \subseteq Tables /\ cache \in [Tables -> RowMap]
      /\ rowIds \in [Tables -> SUBSET RowId]
      /\ before \in [cache : [Tables -> RowMap], rowIds : [Tables -> SUBSET RowId]]
      /\ before.cache \in [Tables -> RowMap] /\ nextId \in 0 .. MaxRowId
      /\ dropped \subseteq Persistent
      /\ kind # "memory" => \A t \in Tables :
            StoreOK(kind, native[Data(t)]) /\ IndexOK(kind, native[Index(t)])
  BY DEF Inv, TypeInv
<1>t. PICK some : some = touched \cap Persistent OBVIOUS
<1>a. PICK A : A = DataSets(kind, touched, before.cache, cache, Sizes) OBVIOUS
<1>b. PICK B : B = IndexSets(kind, some, rowIds) OBVIOUS
<1>2. queue \in Seq(Range(queue)) /\ Tidy(kind, queue) /\ Range(queue) = A \cup B
  <2>1. queue \in Seq(Range(queue)) /\ Tidy(kind, queue) /\ Range(queue) = MergedSet
    BY <1>1, <1>q, MergeIs
  <2> QED BY <2>1, <1>a, <1>b, <1>t DEF MergedSet
<1>3. /\ \A r \in A : RequestOK(kind, r) /\ \E u \in Tables : r.store = Data(u)
      /\ \A t \in Tables : \A ids, versions : Within(cache[t], ids, versions) =>
            \A r \in A : r.op = "put" /\ r.store = Data(t) =>
                Within(RecordRows(kind, r.key, r.record), ids, versions)
      /\ \A t \in Tables : \A n :
            /\ StoreOK(kind, n) /\ GetAll(kind, n) = before.cache[t]
            /\ Sizes[t] = Cardinality(DOMAIN n)
            /\ t \notin touched => cache[t] = before.cache[t]
            => ConvergesTo(kind, n, A, Data(t), Image(kind, cache[t]))
  <2>1. PICK old : old = before.cache OBVIOUS
  <2>2. PICK size : size = Sizes OBVIOUS
  <2>3. A = DataSets(kind, touched, old, cache, size) /\ old \in [Tables -> RowMap]
    BY <1>1, <1>a, <2>1, <2>2
  <2>4. DataMerged(kind, touched, old, cache, size, A) BY <1>1, <2>3, DataSetsAre
  <2>5. ASSUME NEW t \in Tables, NEW n, StoreOK(kind, n), GetAll(kind, n) = old[t],
               size[t] = Cardinality(DOMAIN n), t \notin touched => cache[t] = old[t]
        PROVE  ConvergesTo(kind, n, A, Data(t), Image(kind, cache[t]))
    <3>1. n = Image(kind, old[t]) BY <2>5, ImageOfAll
    <3> QED BY <2>4, <2>5, <3>1 DEF DataMerged
  <2>6. /\ \A r \in A : RequestOK(kind, r) /\ \E u \in Tables : r.store = Data(u)
        /\ \A t \in Tables : \A ids, versions : Within(cache[t], ids, versions) =>
              \A r \in A : r.op = "put" /\ r.store = Data(t) =>
                  Within(RecordRows(kind, r.key, r.record), ids, versions)
    BY <2>4 DEF DataMerged
  <2> QED BY <2>1, <2>2, <2>5, <2>6
<1>4. /\ some \subseteq Tables
      /\ \A r \in B : RequestOK(kind, r) /\ \E t \in some : r.store = Index(t)
      /\ \A t \in some : \A n : IndexOK(kind, n) /\ kind # "indexed_db" =>
            ConvergesTo(kind, n, B, Index(t), IndexImage(kind, rowIds[t]))
  <2>1. some \subseteq Tables BY <1>1, <1>t
  <2>2. IndexMerged(kind, some, rowIds, B) BY <1>1, <1>b, <2>1, IndexSetsAre
  <2> QED BY <2>1, <2>2 DEF IndexMerged
<1>5. /\ \A t \in Tables : \A r \in B : r.store # Data(t)
      /\ \A t \in Tables : \A r \in A : r.store # Index(t)
  BY <1>3, <1>4, DataIsNotIndex
<1>6. /\ \A r \in A : r.op \in {"put", "delete", "clear", "count"}
      /\ \A r \in B : r.op \in {"put", "delete", "clear", "count"}
  BY <1>3, <1>4 DEF RequestOK
<1>7. \A r \in Range(queue) : RequestOK(kind, r) BY <1>2, <1>3, <1>4
<1>8. ASSUME NEW t \in Tables, Sound(t)
      PROVE  /\ RowsAt(native, t) = before.cache[t]
             /\ ConvergesTo(kind, native[Data(t)], Range(queue), Data(t), Image(kind, cache[t]))
  <2>1. RowsAt(native, t) = before.cache[t] BY <1>0, <1>8 DEF Inv, ReplicaInv, ReplicaOf
  <2>2. StoreOK(kind, native[Data(t)])
    <3>1. CASE kind # "memory" BY <1>1, <3>1
    <3>2. CASE kind = "memory"
      <4>1. native[Data(t)] = before.cache[t] BY <2>1, <3>2 DEF RowsAt, GetAll
      <4>2. before.cache[t] \in RowMap BY <1>1
      <4>3. StoreOK(kind, Image(kind, before.cache[t])) BY <4>2, ImageIs
      <4>4. Image(kind, before.cache[t]) = before.cache[t] BY <3>2 DEF Image
      <4> QED BY <4>1, <4>3, <4>4
    <3> QED BY <3>1, <3>2
  <2>3. Sizes[t] = Cardinality(DOMAIN native[Data(t)]) BY DEF Sizes
  <2>4. t \notin touched => cache[t] = before.cache[t] BY <1>0 DEF Inv, ReplicaInv
  <2>5. ConvergesTo(kind, native[Data(t)], A, Data(t), Image(kind, cache[t]))
    BY <1>3, <2>1, <2>2, <2>3, <2>4 DEF RowsAt
  <2>6. PICK target : target = Image(kind, cache[t]) OBVIOUS
  <2>7. PICK s : s = Data(t) OBVIOUS
  <2>8. PICK n : n = native[Data(t)] OBVIOUS
  <2>9. ConvergesTo(kind, n, A, s, target) /\ \A r \in B : r.store # s
    BY <1>5, <2>5, <2>6, <2>7, <2>8
  <2>10. ConvergesTo(kind, n, A \cup B, s, target) BY ONLY <1>6, <2>9, TogetherConverge
  <2> QED BY <1>2, <2>1, <2>6, <2>7, <2>8, <2>10
<1>9. ASSUME NEW t \in Tables, t \in Persistent => t \notin dropped /\ kind # "indexed_db"
      PROVE  /\ rowIds[t] = DOMAIN cache[t] /\ before.rowIds[t] = DOMAIN before.cache[t]
             /\ kind # "memory" /\ t \in Persistent =>
                   /\ IndexAt(native, t) = before.rowIds[t]
                   /\ \/ /\ IndexAt(native, t) = rowIds[t]
                         /\ \A r \in Range(queue) : r.store # Index(t)
                      \/ ConvergesTo(kind, native[Index(t)], Range(queue), Index(t),
                                     IndexImage(kind, rowIds[t]))
  <2>1. /\ rowIds[t] = DOMAIN cache[t] /\ before.rowIds[t] = DOMAIN before.cache[t]
        /\ kind # "memory" /\ t \in Persistent => IndexAt(native, t) = before.rowIds[t]
    BY <1>0, <1>9 DEF Inv, IndexInv
  <2>2. ASSUME kind # "memory", t \in Persistent, t \notin touched
        PROVE  rowIds[t] = before.rowIds[t] /\ \A r \in Range(queue) : r.store # Index(t)
    <3>1. rowIds[t] = before.rowIds[t] BY <1>0, <2>2 DEF Inv, ReplicaInv
    <3>2. t \notin some BY <1>t, <2>2
    <3>3. \A r \in B : r.store # Index(t) BY <1>4, <3>2 DEF Index
    <3> QED BY <1>2, <1>5, <3>1, <3>3
  <2>3. ASSUME kind # "memory", t \in Persistent, t \in touched
        PROVE  ConvergesTo(kind, native[Index(t)], Range(queue), Index(t),
                           IndexImage(kind, rowIds[t]))
    <3>1. t \in some /\ IndexOK(kind, native[Index(t)]) /\ kind # "indexed_db"
      BY <1>1, <1>9, <1>t, <2>3
    <3>2. ConvergesTo(kind, native[Index(t)], B, Index(t), IndexImage(kind, rowIds[t]))
      BY <1>4, <3>1
    <3>6. PICK target : target = IndexImage(kind, rowIds[t]) OBVIOUS
    <3>7. PICK s : s = Index(t) OBVIOUS
    <3>8. PICK n : n = native[Index(t)] OBVIOUS
    <3>9. ConvergesTo(kind, n, B, s, target) /\ \A r \in A : r.store # s
      BY <1>5, <3>2, <3>6, <3>7, <3>8
    <3>10. ConvergesTo(kind, n, B \cup A, s, target) BY ONLY <1>6, <3>9, TogetherConverge
    <3>11. Range(queue) = B \cup A BY <1>2
    <3> QED BY <3>6, <3>7, <3>8, <3>10, <3>11
  <2> QED BY <2>1, <2>2, <2>3
<1>10. Sendable(queue, cache, rowIds, before, dropped)
  <2>1. \A t \in Tables : (~lost \/ t \in Persistent \ dropped) =>
          /\ RowsAt(native, t) = before.cache[t]
          /\ ConvergesTo(kind, native[Data(t)], Range(queue), Data(t), Image(kind, cache[t]))
    BY <1>8 DEF Sound
  <2> QED BY <1>2, <1>7, <1>9, <2>1 DEF Sendable
<1>11. ASSUME NEW t \in Tables, NEW ids, NEW versions, MemoryWithin(t, ids, versions)
       PROVE  SentWithin(queue, cache, before, t, ids, versions)
  <2>1. Within(cache[t], ids, versions) /\ Within(before.cache[t], ids, versions)
    BY <1>11 DEF MemoryWithin
  <2>2. \A r \in A : r.op = "put" /\ r.store = Data(t) =>
            Within(RecordRows(kind, r.key, r.record), ids, versions)
    BY <1>3, <2>1
  <2> QED BY <1>2, <1>5, <2>1, <2>2 DEF SentWithin
<1>12. PICK own \in [Tables -> SUBSET RowId] : Owns(own) BY DEF Inv, OwnInv
<1>13. /\ Disjoint(own) /\ \A t \in Tables : \A id \in own[t] : id < nextId
       /\ \A t \in Tables : MemoryWithin(t, own[t], Versions)
       /\ kind # "memory" => \A t \in Tables : DiskWithin(t, own[t], Versions)
  BY <1>0, <1>12 DEF Owns, Live
<1>14. \A t \in Tables : SentWithin(queue, cache, before, t, own[t], Versions)
  BY <1>11, <1>13
<1>15. kind # "memory" /\ ~halfUpgraded =>
          \A t \in Tables : SentWithin(queue, cache, before, t, RowId, {schema})
  BY <1>11 DEF Inv, ColsInv
<1>16. PICK during \in Sending : during = "committing" BY DEF Sending
<1>17. Send(queue, during) /\ status \in {"idle", "active"} /\ during # "importing"
  BY <1>0, <1>16
<1> QED BY <1>0, <1>1, <1>10, <1>12, <1>13, <1>14, <1>15, <1>17, SendKeeps

\* now is old with one row more.
Added(old, id, row, now) ==
    /\ now \in RowMap /\ DOMAIN now = DOMAIN old \cup {id}
    /\ now[id] = row
    /\ \A x \in DOMAIN now : x # id => now[x] = old[x]

\* Put adds a row.
LEMMA RowAdded ==
    ASSUME NEW old \in RowMap, NEW id \in RowId, NEW row \in Row, NEW now,
           now = Put(old, id, row)
    PROVE  Added(old, id, row, now)
<1>1. /\ DOMAIN now = DOMAIN old \cup {id} /\ now = [x \in DOMAIN now |-> now[x]]
      /\ now[id] = row /\ \A x \in DOMAIN now : x # id => now[x] = old[x]
  BY DEF Put
<1>2. DOMAIN old \subseteq RowId /\ \A x \in DOMAIN old : old[x] \in Row BY RowMapIs
<1>3. now \in RowMap BY <1>1, <1>2, RowMapIs
<1> QED BY <1>1, <1>3 DEF Added

\* A row more needs a put of that row and nothing else.
LEMMA InsertedRequests ==
    ASSUME NEW k \in Kinds, NEW t \in Tables, NEW old \in RowMap, NEW id \in RowId,
           id \notin DOMAIN old, NEW row \in Row, NEW now, now = Put(old, id, row), NEW size,
           NEW some, some = Put(None, id, row)
    PROVE  TableRequests(k, t, old, now, size) = PutRows(k, t, some, now)
<1>1. /\ now \in RowMap /\ DOMAIN now = DOMAIN old \cup {id}
      /\ now[id] = row /\ \A x \in DOMAIN now : x # id => now[x] = old[x]
  BY RowAdded DEF Added
<1>2. Deleted(old, now) = {} /\ Changed(old, now) = {id} BY <1>1 DEF Deleted, Changed
<1>3. some = Restrict(now, {id})
  <2>1. DOMAIN None = {} BY NoneIs
  <2> QED BY <1>1, <2>1 DEF Restrict, Put
<1>4. PICK puts : puts = PutRows(k, t, some, now) OBVIOUS
<1>5. puts \in Seq(Range(puts))
  <2>1. {id} \in SUBSET DOMAIN now BY <1>1
  <2> QED BY <1>1, <1>3, <1>4, <2>1, PutRowsIs
<1>6. TableRequests(k, t, old, now, size) = <<>> \o puts
  BY <1>2, <1>3, <1>4 DEF TableRequests
<1> QED BY <1>4, <1>5, <1>6

\* An import: each of the tables gets one row, of an id of its own.
Imported(tables, v, number, now, queue) ==
    /\ number \in [tables -> RowId]
    /\ \A t, u \in tables : number[t] = number[u] => t = u
    /\ \A t \in tables : number[t] >= nextId /\ number[t] < nextId'
    /\ now = [t \in Tables |-> IF t \in tables
                               THEN Put(cache[t], number[t], [value |-> v, cols |-> schema])
                               ELSE cache[t]]
    /\ cache' = now
    /\ rowIds' = [t \in Tables |-> IF t \in tables THEN rowIds[t] \cup {number[t]}
                                   ELSE rowIds[t]]
    /\ nextId' \in 0 .. MaxRowId /\ nextId' >= nextId
    /\ Send(queue, "importing")
    /\ queue = DataQueue(kind, tables, cache, now, Sizes)
    /\ expected' = expected \cup {Contents(now)}

\* Import does that.
LEMMA ImportIs ==
    ASSUME Inv, NEW tables \in SUBSET Tables, NEW v \in Values, Import(tables, v)
    PROVE  \E number, now, queue : Imported(tables, v, number, now, queue)
<1>p. PICK order : order = SetToSeq(tables) OBVIOUS
<1>1. /\ order \in Seq(tables) /\ Range(order) = tables
      /\ \A i, j \in DOMAIN order : order[i] = order[j] => i = j
  <2>1. IsFiniteSet(tables) BY TablesAssumption, FS_Subset
  <2> QED BY <1>p, <2>1, SetToSeqIs
<1>2. PICK L \in Nat : L = Len(order) /\ DOMAIN order = 1 .. L BY <1>1
<1>3. PICK at : at = [t \in tables |-> CHOOSE i \in 1 .. L : order[i] = t] OBVIOUS
<1>4. ASSUME NEW t \in tables PROVE at[t] \in 1 .. L /\ order[at[t]] = t
  <2>1. \E i \in 1 .. L : order[i] = t BY <1>1, <1>2 DEF Range
  <2>2. at[t] = CHOOSE i \in 1 .. L : order[i] = t BY <1>3
  <2> QED BY <2>1, <2>2
<1>5. PICK number : number = [t \in tables |-> nextId + at[t] - 1] OBVIOUS
<1>6. PICK row : row = [value |-> v, cols |-> schema] OBVIOUS
<1>7. PICK now : now = [t \in Tables |-> IF t \in tables THEN Put(cache[t], number[t], row)
                                         ELSE cache[t]]
  OBVIOUS
<1>8. \A t \in tables : nextId + (CHOOSE i \in 1 .. Len(order) : order[i] = t) - 1 = number[t]
  BY <1>2, <1>3, <1>5
<1>9. PICK puts : puts = [i \in 1 .. L |->
          PutRows(kind, order[i], Put(None, number[order[i]], row), now[order[i]])]
  OBVIOUS
<1>10. /\ nextId + L <= MaxRowId /\ nextId' = nextId + L
       /\ cache' = now
       /\ rowIds' = [t \in Tables |-> IF t \in tables THEN rowIds[t] \cup {number[t]}
                                       ELSE rowIds[t]]
       /\ Send(FlattenSeq(puts), "importing")
       /\ expected' = expected \cup {Contents(now)}
  <2> DEFINE idOf(t) == nextId + (CHOOSE i \in 1 .. Len(order) : order[i] = t) - 1
             Rows(t) == Put(None, idOf(t), [value |-> v, cols |-> schema])
             after == [t \in Tables |-> IF t \in tables
                                        THEN Put(cache[t], idOf(t), Rows(t)[idOf(t)])
                                        ELSE cache[t]]
             sent == [i \in 1 .. Len(order) |->
                        PutRows(kind, order[i], Rows(order[i]), after[order[i]])]
             ids == [t \in Tables |-> IF t \in tables THEN rowIds[t] \cup {idOf(t)}
                                      ELSE rowIds[t]]
  <2>1. /\ nextId + Len(order) <= MaxRowId /\ nextId' = nextId + Len(order)
        /\ cache' = after /\ rowIds' = ids
        /\ Send(FlattenSeq(sent), "importing")
        /\ expected' = expected \cup {Contents(after)}
    BY <1>p DEF Import
  <2>2. \A t \in tables : idOf(t) = number[t] BY <1>8
  <2> HIDE DEF idOf
  <2>3. \A t \in tables : Rows(t) = Put(None, number[t], row) /\ Rows(t)[number[t]] = row
    BY <1>6, <2>2 DEF Put
  <2> HIDE DEF Rows
  <2>4. after = now BY <1>7, <2>2, <2>3
  <2>5. ids = [t \in Tables |-> IF t \in tables THEN rowIds[t] \cup {number[t]} ELSE rowIds[t]]
    BY <2>2
  <2> HIDE DEF after, ids
  <2>6. sent = puts
    <3>1. \A i \in 1 .. L : order[i] \in tables BY <1>1, <1>2
    <3> QED BY <1>2, <1>9, <2>3, <2>4, <3>1
  <2> HIDE DEF sent
  <2> QED BY <1>2, <2>1, <2>4, <2>5, <2>6
<1>11. /\ cache \in [Tables -> RowMap] /\ schema \in Versions /\ nextId \in Nat /\ MaxRowId \in Nat
       /\ kind \in Kinds
  BY StoresAssumption DEF Inv, TypeInv, Versions
<1>12. row \in Row BY <1>6, <1>11 DEF Row, Versions
<1>13. ASSUME NEW t \in tables
       PROVE  /\ number[t] \in RowId /\ number[t] >= nextId /\ number[t] < nextId'
              /\ number[t] = nextId + at[t] - 1
  <2>1. number[t] = nextId + at[t] - 1 BY <1>5
  <2>2. at[t] \in 1 .. L BY <1>4
  <2> QED BY <1>2, <1>10, <1>11, <2>1, <2>2 DEF RowId
<1>14. number \in [tables -> RowId]
  <2>1. number = [t \in tables |-> number[t]] BY <1>5
  <2> QED BY <1>13, <2>1
<1>15. ASSUME NEW t \in tables, NEW u \in tables, number[t] = number[u] PROVE t = u
  <2>1. at[t] \in 1 .. L /\ at[u] \in 1 .. L /\ order[at[t]] = t /\ order[at[u]] = u BY <1>4
  <2>2. number[t] = nextId + at[t] - 1 /\ number[u] = nextId + at[u] - 1 BY <1>13
  <2>3. PICK i \in 1 .. L : i = at[t] BY <2>1
  <2>4. PICK j \in 1 .. L : j = at[u] BY <2>1
  <2>5. nextId + i - 1 = nextId + j - 1 BY <1>15, <2>2, <2>3, <2>4
  <2>6. i = j BY ONLY <1>2, <1>11, <2>5
  <2> QED BY <2>1, <2>3, <2>4, <2>6
<1>16. FlattenSeq(puts) = DataQueue(kind, tables, cache, now, Sizes)
  <2>1. PICK all : all = [i \in 1 .. L |-> TableRequests(kind, order[i], cache[order[i]],
                                                         now[order[i]], Sizes[order[i]])]
    OBVIOUS
  <2>2. DataQueue(kind, tables, cache, now, Sizes) = FlattenSeq(all)
    BY <1>p, <1>2, <2>1 DEF DataQueue
  <2>3. ASSUME NEW i \in 1 .. L
        PROVE  TableRequests(kind, order[i], cache[order[i]], now[order[i]], Sizes[order[i]])
               = PutRows(kind, order[i], Put(None, number[order[i]], row), now[order[i]])
    <3>1. PICK t \in tables : t = order[i] BY <1>1, <1>2
    <3>2. PICK id \in RowId : id = number[t] BY <1>13
    <3>3. id \notin DOMAIN cache[t]
      <4>1. status = "idle" BY DEF Import
      <4>2. PICK own \in [Tables -> SUBSET RowId] : Owns(own) BY DEF Inv, OwnInv
      <4>3. \A x \in DOMAIN cache[t] : x < nextId
        BY <4>1, <4>2 DEF Owns, Live, MemoryWithin, Within
      <4> QED BY <1>11, <1>13, <3>2, <4>3 DEF RowId
    <3>4. t \in Tables /\ cache[t] \in RowMap BY <1>11
    <3>5. PICK old \in RowMap : old = cache[t] BY <3>4
    <3>6. PICK new : new = now[t] OBVIOUS
    <3>7. new = Put(old, id, row) BY <1>7, <3>2, <3>4, <3>5, <3>6
    <3>8. PICK size : size = Sizes[t] OBVIOUS
    <3>9. PICK some : some = Put(None, id, row) OBVIOUS
    <3>10. PICK k \in Kinds : k = kind BY <1>11
    <3>11. id \notin DOMAIN old BY <3>3, <3>5
    <3>12. t \in Tables BY <3>4
    <3>13. TableRequests(k, t, old, new, size) = PutRows(k, t, some, new)
      BY ONLY <1>12, <3>7, <3>9, <3>11, <3>12, k \in Kinds, old \in RowMap, id \in RowId,
         InsertedRequests
    <3> QED BY <3>1, <3>2, <3>5, <3>6, <3>8, <3>9, <3>10, <3>13
  <2>4. all = puts BY <1>9, <2>1, <2>3
  <2> QED BY <2>2, <2>4
<1>17. PICK queue : queue = FlattenSeq(puts) OBVIOUS
<1>18. Imported(tables, v, number, now, queue)
  <2>1. nextId' \in 0 .. MaxRowId /\ nextId' >= nextId BY <1>2, <1>10, <1>11
  <2> QED BY <1>6, <1>7, <1>10, <1>13, <1>14, <1>15, <1>16, <1>17, <2>1 DEF Imported
<1> QED BY <1>18

\* An import keeps the invariant.
LEMMA ImportKeeps ==
    ASSUME Inv, NEW tables \in SUBSET Tables, NEW v \in Values, Import(tables, v)
    PROVE  Inv'
<1>0. /\ status = "idle"
      /\ before' = Snapshot /\ dropped' = dropped \cup (tables \cap Persistent)
      /\ kind' = kind /\ version' = version /\ made' = made /\ schema' = schema
      /\ touched' = touched /\ unwritten' = unwritten /\ lost' = lost
      /\ halfUpgraded' = halfUpgraded
  BY DEF Import
<1>i. PICK number, now, queue : Imported(tables, v, number, now, queue) BY ImportIs
<1>1. /\ kind \in Kinds /\ touched = {} /\ cache \in [Tables -> RowMap]
      /\ rowIds \in [Tables -> SUBSET RowId] /\ nextId \in Nat /\ schema \in Versions
      /\ dropped \subseteq Persistent /\ Persistent \subseteq Tables
      /\ kind # "memory" => \A t \in Tables :
            StoreOK(kind, native[Data(t)]) /\ IndexOK(kind, native[Index(t)])
  <2>1. touched = {} BY <1>0 DEF Inv, StatusInv
  <2>2. MaxRowId \in Nat /\ nextId \in 0 .. MaxRowId BY StoresAssumption DEF Inv, TypeInv
  <2>3. nextId \in Nat BY <2>2
  <2> QED BY <2>1, <2>3, StoresAssumption DEF Inv, TypeInv, Versions
<1>s. PICK row \in Row : row = [value |-> v, cols |-> schema]
  BY <1>1 DEF Row, Versions
<1>w. PICK was : was = Snapshot OBVIOUS
<1>d. PICK drop : drop = dropped \cup (tables \cap Persistent) OBVIOUS
<1>e. PICK ids : ids = [t \in Tables |-> IF t \in tables THEN rowIds[t] \cup {number[t]}
                                         ELSE rowIds[t]]
  OBVIOUS
<1>2. /\ number \in [tables -> RowId]
      /\ \A t, u \in tables : number[t] = number[u] => t = u
      /\ \A t \in tables : number[t] >= nextId /\ number[t] < nextId'
      /\ now = [t \in Tables |-> IF t \in tables THEN Put(cache[t], number[t], row)
                                 ELSE cache[t]]
      /\ cache' = now /\ rowIds' = ids
      /\ nextId' \in 0 .. MaxRowId /\ nextId' >= nextId
      /\ Send(queue, "importing")
      /\ queue = DataQueue(kind, tables, cache, now, Sizes)
      /\ expected' = expected \cup {Contents(now)}
  BY <1>i, <1>s, <1>e DEF Imported
<1>3. ASSUME NEW t \in Tables
      PROVE  /\ now[t] \in RowMap /\ ids[t] \subseteq RowId
             /\ t \notin tables => now[t] = cache[t] /\ ids[t] = rowIds[t]
             /\ t \in tables => /\ DOMAIN now[t] = DOMAIN cache[t] \cup {number[t]}
                                /\ ids[t] = rowIds[t] \cup {number[t]}
                                /\ now[t][number[t]] = row
                                /\ \A x \in DOMAIN now[t] : x # number[t] =>
                                       now[t][x] = cache[t][x]
  <2>1. CASE t \notin tables BY <1>1, <1>2, <1>e, <2>1
  <2>2. CASE t \in tables
    <3>1. PICK id \in RowId : id = number[t] BY <1>2, <2>2
    <3>2. PICK old \in RowMap : old = cache[t] BY <1>1
    <3>3. PICK new : new = now[t] OBVIOUS
    <3>4. new = Put(old, id, row) BY <1>2, <2>2, <3>1, <3>2, <3>3
    <3>5. Added(old, id, row, new)
      BY ONLY <3>4, old \in RowMap, id \in RowId, row \in Row, RowAdded
    <3>6. ids[t] = rowIds[t] \cup {number[t]} /\ ids[t] \subseteq RowId
      BY <1>1, <1>2, <1>e, <2>2
    <3> QED BY <2>2, <3>1, <3>2, <3>3, <3>5, <3>6 DEF Added
  <2> QED BY <2>1, <2>2
<1>4. now \in [Tables -> RowMap] /\ ids \in [Tables -> SUBSET RowId]
  <2>1. now = [t \in Tables |-> now[t]] BY <1>2
  <2>2. ids = [t \in Tables |-> ids[t]] BY <1>e
  <2> QED BY <1>3, <2>1, <2>2
<1>5. /\ was.cache = cache /\ was.rowIds = rowIds
      /\ was \in [cache : [Tables -> RowMap], rowIds : [Tables -> SUBSET RowId]]
  BY <1>1, <1>w DEF Snapshot
<1>a. PICK A : A = DataSets(kind, tables, cache, now, Sizes) OBVIOUS
<1>6. queue \in Seq(Range(queue)) /\ Tidy(kind, queue) /\ Range(queue) = A
  <2>1. PICK size : size = Sizes OBVIOUS
  <2>2. PICK old \in [Tables -> RowMap] : old = cache BY <1>1
  <2>3. PICK k \in Kinds : k = kind BY <1>1
  <2>4. queue = DataQueue(k, tables, old, now, size) /\ A = DataSets(k, tables, old, now, size)
    BY <1>2, <1>a, <2>1, <2>2, <2>3
  <2>5. queue \in Seq(Range(queue)) /\ Tidy(k, queue) /\ Range(queue) = A
    BY <1>4, <2>4, DataQueueIs
  <2> QED BY <2>3, <2>5
<1>7. DataMerged(kind, tables, cache, now, Sizes, A)
  <2>1. PICK size : size = Sizes OBVIOUS
  <2>2. PICK old \in [Tables -> RowMap] : old = cache BY <1>1
  <2>3. A = DataSets(kind, tables, old, now, size) BY <1>a, <2>1, <2>2
  <2>4. DataMerged(kind, tables, old, now, size, A) BY <1>1, <1>4, <2>3, DataSetsAre
  <2> QED BY <2>1, <2>2, <2>4
<1>8. /\ \A r \in A : RequestOK(kind, r) /\ \E t \in Tables : r.store = Data(t)
      /\ \A t \in Tables : \A own, versions : Within(now[t], own, versions) =>
           \A r \in A : r.op = "put" /\ r.store = Data(t) =>
               Within(RecordRows(kind, r.key, r.record), own, versions)
  BY <1>7 DEF DataMerged
<1>9. \A t \in Tables : \A r \in A : r.store # Index(t) BY <1>8, DataIsNotIndex
<1>10. ASSUME NEW t \in Tables, ~lost \/ t \in Persistent \ drop
       PROVE  /\ RowsAt(native, t) = was.cache[t]
              /\ ConvergesTo(kind, native[Data(t)], Range(queue), Data(t), Image(kind, now[t]))
  <2>1. Sound(t) BY <1>10, <1>d DEF Sound
  <2>2. RowsAt(native, t) = cache[t] BY <1>0, <2>1 DEF Inv, ReplicaInv, ReplicaOf
  <2>3. StoreOK(kind, native[Data(t)])
    <3>1. CASE kind # "memory" BY <1>1, <3>1
    <3>2. CASE kind = "memory"
      <4>1. native[Data(t)] = cache[t] BY <2>2, <3>2 DEF RowsAt, GetAll
      <4>2. cache[t] \in RowMap BY <1>1
      <4>3. StoreOK(kind, Image(kind, cache[t])) BY <4>2, ImageIs
      <4>4. Image(kind, cache[t]) = cache[t] BY <3>2 DEF Image
      <4> QED BY <4>1, <4>3, <4>4
    <3> QED BY <3>1, <3>2
  <2>4. Sizes[t] = Cardinality(DOMAIN native[Data(t)]) BY DEF Sizes
  <2>5. PICK n : n = native[Data(t)] OBVIOUS
  <2>6. StoreOK(kind, n) /\ GetAll(kind, n) = cache[t] BY <2>2, <2>3, <2>5 DEF RowsAt
  <2>7. n = Image(kind, cache[t]) BY <2>6, ImageOfAll
  <2>8. Sizes[t] = Cardinality(DOMAIN n) BY <2>4, <2>5
  <2>9. t \notin tables => now[t] = cache[t] BY <1>3
  <2>10. ConvergesTo(kind, n, A, Data(t), Image(kind, now[t]))
    BY <1>7, <2>7, <2>8, <2>9 DEF DataMerged
  <2> QED BY <1>5, <1>6, <2>2, <2>5, <2>10
<1>11. ASSUME NEW t \in Tables, t \in Persistent => t \notin drop /\ kind # "indexed_db"
       PROVE  /\ ids[t] = DOMAIN now[t] /\ was.rowIds[t] = DOMAIN was.cache[t]
              /\ kind # "memory" /\ t \in Persistent =>
                    IndexAt(native, t) = was.rowIds[t] /\ IndexAt(native, t) = ids[t]
  <2>1. t \in Persistent => t \notin dropped /\ t \notin tables BY <1>11, <1>d
  <2>2. /\ rowIds[t] = DOMAIN cache[t]
        /\ kind # "memory" /\ t \in Persistent => IndexAt(native, t) = rowIds[t]
    BY <1>0, <1>11, <2>1 DEF Inv, IndexInv
  <2>3. ids[t] = DOMAIN now[t] BY <1>3, <2>2
  <2>4. t \in Persistent => ids[t] = rowIds[t] BY <1>3, <2>1
  <2> QED BY <1>5, <2>2, <2>3, <2>4
<1>12. Sendable(queue, now, ids, was, drop)
  BY <1>6, <1>8, <1>9, <1>10, <1>11 DEF Sendable
<1>o. PICK mine \in [Tables -> SUBSET RowId] : Owns(mine) BY DEF Inv, OwnInv
<1>13. /\ Disjoint(mine) /\ \A t \in Tables : \A id \in mine[t] : id < nextId
       /\ \A t \in Tables : Within(cache[t], mine[t], Versions)
       /\ kind # "memory" => \A t \in Tables : DiskWithin(t, mine[t], Versions)
  BY <1>0, <1>o DEF Owns, Live, MemoryWithin
<1>14. PICK own \in [Tables -> SUBSET RowId] :
          \A t \in Tables : own[t] = IF t \in tables THEN mine[t] \cup {number[t]} ELSE mine[t]
  <2> DEFINE f == [t \in Tables |-> IF t \in tables THEN mine[t] \cup {number[t]} ELSE mine[t]]
  <2>1. f \in [Tables -> SUBSET RowId] BY <1>2
  <2>2. \A t \in Tables : f[t] = IF t \in tables THEN mine[t] \cup {number[t]} ELSE mine[t]
    OBVIOUS
  <2> HIDE DEF f
  <2> QED BY <2>1, <2>2
<1>15. /\ MaxRowId \in Nat /\ \A id \in RowId : id \in Nat
       /\ nextId' \in Nat
  BY <1>2, StoresAssumption DEF RowId
<1>16. \A t \in Tables : \A id \in own[t] : id < nextId'
  <2> SUFFICES ASSUME NEW t \in Tables, NEW id \in own[t] PROVE id < nextId' OBVIOUS
  <2>1. id \in mine[t] \/ (t \in tables /\ id = number[t]) BY <1>14
  <2>2. id \in mine[t] => id < nextId /\ id \in Nat BY <1>13, <1>15
  <2> QED BY <1>1, <1>2, <1>15, <2>1, <2>2
<1>17. Disjoint(own)
  <2> SUFFICES ASSUME NEW t \in Tables, NEW u \in Tables, t # u, NEW id \in own[t], id \in own[u]
               PROVE  FALSE
    BY DEF Disjoint
  <2>1. \/ id \in mine[t] \/ (t \in tables /\ id = number[t]) BY <1>14
  <2>2. \/ id \in mine[u] \/ (u \in tables /\ id = number[u]) BY <1>14
  <2>3. ~(id \in mine[t] /\ id \in mine[u]) BY <1>13 DEF Disjoint
  <2>4. ASSUME NEW x \in Tables, NEW y \in tables, id \in mine[x], id = number[y] PROVE FALSE
    <3>1. id \in Nat /\ id < nextId BY <1>13, <1>15, <2>4
    <3>2. id >= nextId BY <1>2, <2>4
    <3> QED BY <1>1, <3>1, <3>2
  <2>5. ~(t \in tables /\ id = number[t] /\ u \in tables /\ id = number[u]) BY <1>2
  <2> QED BY <2>1, <2>2, <2>3, <2>4, <2>5
<1>18. ASSUME NEW t \in Tables, NEW some, NEW more, NEW versions,
              Within(cache[t], some, versions), some \subseteq more,
              t \in tables => number[t] \in more, schema \in versions
       PROVE  SentWithin(queue, now, was, t, more, versions)
  <2>1. Within(cache[t], more, versions) BY <1>18 DEF Within
  <2>2. Within(now[t], more, versions)
    <3>1. CASE t \notin tables BY <1>3, <2>1, <3>1
    <3>2. CASE t \in tables
      <4>1. \A x \in DOMAIN now[t] : x = number[t] \/ (x \in DOMAIN cache[t] /\ x # number[t])
        BY <1>3, <3>2
      <4>2. number[t] \in more /\ now[t][number[t]].cols = schema BY <1>3, <1>18, <1>s, <3>2
      <4>3. \A x \in DOMAIN now[t] : x # number[t] => now[t][x] = cache[t][x] BY <1>3, <3>2
      <4> QED BY <1>18, <2>1, <4>1, <4>2, <4>3 DEF Within
    <3> QED BY <3>1, <3>2
  <2> QED BY <1>5, <1>6, <1>8, <2>1, <2>2 DEF SentWithin
<1>19. \A t \in Tables : SentWithin(queue, now, was, t, own[t], Versions)
  BY <1>1, <1>13, <1>14, <1>18
<1>20. kind # "memory" /\ ~halfUpgraded =>
           \A t \in Tables : SentWithin(queue, now, was, t, RowId, {schema})
  <2> SUFFICES ASSUME kind # "memory", ~halfUpgraded, NEW t \in Tables
               PROVE  SentWithin(queue, now, was, t, RowId, {schema})
    OBVIOUS
  <2>1. Within(cache[t], RowId, {schema}) BY DEF Inv, ColsInv, MemoryWithin
  <2>2. t \in tables => number[t] \in RowId BY <1>2
  <2> QED BY <1>18, <2>1, <2>2
<1>21. kind # "memory" => \A t \in Tables : DiskWithin(t, own[t], Versions)
  BY <1>13, <1>14 DEF DiskWithin, Within
<1>22. \A t \in Persistent \ drop : now[t] = was.cache[t] /\ ids[t] = was.rowIds[t]
  BY <1>1, <1>3, <1>5, <1>d
<1>23. PICK during \in Sending : during = "importing" BY DEF Sending
<1>24. /\ Send(queue, during) /\ status \in {"idle", "active"}
       /\ before' = was /\ dropped' = drop /\ dropped \subseteq drop /\ drop \subseteq Persistent
  BY <1>0, <1>1, <1>2, <1>23, <1>d, <1>w
<1> QED
  BY <1>0, <1>1, <1>2, <1>4, <1>5, <1>12, <1>16, <1>17, <1>19, <1>20, <1>21, <1>22, <1>24,
     SendKeeps

-----------------------------------------------------------------------------
(* The theorems.                                                           *)

\* Every step keeps the invariant.
LEMMA NextKeeps == Inv /\ [Next]_vars => Inv'
<1> SUFFICES ASSUME Inv, [Next]_vars PROVE Inv' OBVIOUS
<1>1. CASE Open \/ onUpgradeNeeded \/ checkVersion \/ preUpgrade \/ onUpgrade
  BY <1>1, OpenKeeps, onUpgradeNeededKeeps, checkVersionKeeps, preUpgradeKeeps, onUpgradeKeeps
<1>2. ASSUME NEW tables \in SUBSET Tables, UpgradeRejected(tables) PROVE Inv'
  BY <1>2, UpgradeRejectedKeeps
<1>3. ASSUME NEW t \in Tables, transformColumn(t) PROVE Inv' BY <1>3, transformColumnKeeps
<1>4. ASSUME NEW t \in Tables, NEW v \in Values, Insert(t, v) PROVE Inv' BY <1>4, InsertKeeps
<1>5. ASSUME NEW t \in Tables, NEW v \in Values, NEW id \in DOMAIN cache[t], Update(t, id, v)
      PROVE  Inv'
  BY <1>5, UpdateKeeps
<1>6. ASSUME NEW t \in Tables, NEW ids \in SUBSET DOMAIN cache[t], Delete(t, ids) PROVE Inv'
  BY <1>6, DeleteKeeps
<1>7. CASE RollBack \/ Commit BY <1>7, RollBackKeeps, CommitKeeps
<1>8. ASSUME NEW tables \in SUBSET Tables, NEW v \in Values, Import(tables, v) PROVE Inv'
  BY <1>8, ImportKeeps
<1>9. CASE Serve \/ Complete \/ OnComplete \/ OnLastStatement
  BY <1>9, ServeKeeps, CompleteKeeps, OnCompleteKeeps, OnLastStatementKeeps
<1>10. CASE SqlCommit \/ SqlCommitFails \/ OnAbort \/ OnExecError
  BY <1>10, SqlCommitKeeps, SqlCommitFailsKeeps, OnAbortKeeps, OnExecErrorKeeps
<1>11. CASE Crash \/ Close BY <1>11, CrashKeeps, CloseKeeps
<1>12. CASE UNCHANGED vars BY <1>12, StutterKeeps
<1> QED
  BY <1>1, <1>2, <1>3, <1>4, <1>5, <1>6, <1>7, <1>8, <1>9, <1>10, <1>11, <1>12 DEF Next

(* The inductive invariant holds of every kind of store, for any tables,   *)
(* values, page size and bounds.                                           *)
THEOREM StoresInvariant == Spec => []Inv
<1>1. Init => Inv BY InitKeeps
<1>2. Inv /\ [Next]_vars => Inv' BY NextKeeps
<1> QED BY <1>1, <1>2, PTL DEF Spec

\* The store is chosen once.
LEMMA KindStays == Next => kind' = kind
<1>1. CASE Open \/ onUpgradeNeeded \/ checkVersion \/ preUpgrade \/ onUpgrade
  BY <1>1 DEF Open, onUpgradeNeeded, checkVersion, preUpgrade, onUpgrade
<1>2. CASE \/ \E tables \in SUBSET Tables : UpgradeRejected(tables)
           \/ \E t \in Tables : transformColumn(t)
  BY <1>2 DEF UpgradeRejected, transformColumn
<1>3. CASE \/ \E t \in Tables, v \in Values : Insert(t, v)
           \/ \E t \in Tables, v \in Values : \E id \in DOMAIN cache[t] : Update(t, id, v)
           \/ \E t \in Tables : \E ids \in (SUBSET DOMAIN cache[t]) \ {{}} : Delete(t, ids)
  BY <1>3 DEF Insert, Update, Delete, Statement
<1>4. CASE RollBack \/ Commit \/ Serve \/ Complete \/ OnComplete \/ OnLastStatement
  BY <1>4 DEF RollBack, Commit, Serve, Complete, OnComplete, OnLastStatement
<1>5. CASE \E tables \in (SUBSET Tables) \ {{}}, v \in Values : Import(tables, v)
  BY <1>5 DEF Import
<1>6. CASE SqlCommit \/ SqlCommitFails \/ OnAbort \/ OnExecError \/ Crash \/ Close
  BY <1>6 DEF SqlCommit, SqlCommitFails, OnAbort, OnExecError, Crash, Close
<1> QED BY <1>1, <1>2, <1>3, <1>4, <1>5, <1>6 DEF Next

KindChosen == kind \in Kind

(* The variables keep their types: no row has an id that is out of range,  *)
(* or columns of a version that does not exist.                            *)
THEOREM TypesHold == Spec => []TypeOK
<1>1. Init => KindChosen BY DEF Init, KindChosen
<1>2. KindChosen /\ [Next]_vars => KindChosen' BY KindStays DEF vars, KindChosen
<1>3. Inv /\ KindChosen => TypeOK
  <2> SUFFICES ASSUME Inv, kind \in Kind PROVE TypeOK BY DEF KindChosen
  <2>1. DOMAIN disk = Stores /\ DOMAIN native = Stores BY DEF Inv, TypeInv
  <2>2. ASSUME NEW t \in Tables
        PROVE  /\ DOMAIN cache[t] \subseteq RowId
               /\ \A id \in DOMAIN cache[t] : cache[t][id] \in Row
               /\ rowIds[t] \subseteq RowId
    <3>1. cache[t] \in RowMap /\ rowIds[t] \in SUBSET RowId BY DEF Inv, TypeInv
    <3> QED BY <3>1, RowMapIs
  <2>3. dropped \subseteq Tables BY StoresAssumption DEF Inv, TypeInv
  <2> QED BY <2>1, <2>2, <2>3 DEF Inv, TypeInv, TypeOK
<1> QED BY <1>1, <1>2, <1>3, StoresInvariant, PTL DEF Spec

(* Whatever is inserted, updated and deleted, and however the native store *)
(* takes the requests that the journal's diff becomes (all at once, one by *)
(* one, with the callbacks of counts in between, in pages), between        *)
(* transactions it holds the rows of the cache.                            *)
THEOREM ReplicaHolds == Spec => []CacheIsReplica
<1>1. Inv => CacheIsReplica
  <2> SUFFICES ASSUME Inv, status = "idle", ~lost PROVE OnDisk(native) = Contents(cache)
    BY DEF CacheIsReplica
  <2>1. \A t \in Tables : GetAll(kind, native[Data(t)]) = cache[t]
    BY DEF Inv, ReplicaInv, ReplicaOf, Sound, RowsAt
  <2> QED BY <2>1 DEF OnDisk, Contents
<1> QED BY <1>1, StoresInvariant, PTL

(* The RowId index, from which every scan of a table takes its rows, holds *)
(* the ids of the rows in the cache, also when it was itself read back     *)
(* from the store by a connection that succeeds.                           *)
THEOREM IndexHolds == Spec => []IndexKnowsRows
<1>1. Inv => IndexKnowsRows BY DEF Inv, IndexInv, IndexKnowsRows
<1> QED BY <1>1, StoresInvariant, PTL

(* No row id is given out twice: no two tables share one, and nextId is    *)
(* above all in use, also after a restart, for which BackStore.init looks  *)
(* at what is stored.                                                      *)
THEOREM IdsHold == Spec => []IdsAreFresh
<1>1. Inv => IdsAreFresh
  <2> SUFFICES ASSUME Inv, status # "closed" PROVE IdsAreFresh BY DEF IdsAreFresh
  <2>1. CASE status \in Away
    <3>1. \A t \in Tables : cache[t] = None /\ DOMAIN cache[t] = {}
      BY <2>1, NoneIs DEF Inv, StatusInv, NoRows
    <3> QED BY <3>1 DEF IdsAreFresh
  <2>2. CASE status \in Live
    <3>1. PICK own \in [Tables -> SUBSET RowId] : Owns(own) BY DEF Inv, OwnInv
    <3>2. /\ Disjoint(own)
          /\ \A t \in Tables : \A id \in own[t] : id < nextId
          /\ \A t \in Tables : DOMAIN cache[t] \subseteq own[t]
      BY <2>2, <3>1 DEF Owns, MemoryWithin, Within
    <3> QED BY <3>2 DEF IdsAreFresh, Disjoint
  <2> QED BY <2>1, <2>2 DEF Inv, TypeInv, Away, Live
<1> QED BY <1>1, StoresInvariant, PTL

(* A connection never shows a row with columns of an older schema, unless  *)
(* an upgrade was interrupted.                                             *)
THEOREM UpgradesHold == Spec => []RowsAreUpgraded
<1>1. Inv => RowsAreUpgraded
  BY DEF Inv, ColsInv, MemoryWithin, Within, RowsAreUpgraded
<1> QED BY <1>1, StoresInvariant, PTL

\* A connection that succeeds shows what is on the medium.
LEMMA ConnectedContents ==
    ASSUME NEW stores, Connected(stores), status' = "idle"
    PROVE  Contents(cache') = OnDisk(stores)
<1>1. cache' = [t \in Tables |-> GetAll(kind, stores[Data(t)])]
  <2> DEFINE fetched == [t \in Tables |-> IF t \in Persistent
                                     THEN fetchTableWithPersistentIndices(stores, t)
                                     ELSE fetchTable(stores, t)]
  <2>1. cache' = [t \in Tables |-> fetched[t].rows]
    BY DEF Connected, prefetch
  <2>2. \A t \in Tables : fetched[t].rows = GetAll(kind, stores[Data(t)])
    BY DEF fetchTable, fetchTableWithPersistentIndices
  <2> HIDE DEF fetched
  <2> QED BY <2>1, <2>2
<1> QED BY <1>1 DEF OnDisk

\* And that is expected, if memory and medium have not parted.
LEMMA RestoredContents ==
    ASSUME Inv, NEW stores, Connected(stores), status' = "idle", ~lost,
           OnDisk(stores) = OnDisk(disk), status = "closed" \/ kind # "memory"
    PROVE  Contents(cache') \in expected
<1>1. Contents(cache') = OnDisk(disk) BY ConnectedContents
<1>2. CASE kind # "memory" BY <1>1, <1>2 DEF Inv, ExpectedInv
<1>3. CASE kind = "memory"
  <2>1. disk = EmptyDisk /\ expected = {NoRows} BY <1>3 DEF Inv, StatusInv
  <2>2. [t \in Tables |-> GetAll(kind, disk[Data(t)])] = NoRows
    BY <2>1, EmptyStores, NoneIs, <1>3 DEF NoRows
  <2> QED BY <1>1, <2>1, <2>2, ContentsOfNone DEF OnDisk
<1> QED BY <1>2, <1>3

(* A new connection that succeeds, after a crash at any moment, shows the  *)
(* rows committed last, those of a transaction that was being committed    *)
(* all of them or none.                                                    *)
THEOREM RestartHolds == Spec => RestartRestores
<1> DEFINE Restores == (status \in {"closed", "upgrading"} /\ status' = "idle" /\ ~lost)
                          => (Contents(cache') \in expected)
<1>1. Inv /\ [Next]_vars => [Restores]_vars
  <2> SUFFICES ASSUME Inv, Next, status \in {"closed", "upgrading"}, status' = "idle", ~lost
               PROVE  Contents(cache') \in expected
    OBVIOUS
  <2>1. CASE Open BY <2>1, RestoredContents DEF Open
  <2>2. CASE onUpgrade
    <3>1. kind # "memory" BY <2>2 DEF onUpgrade, Inv, StatusInv
    <3> QED BY <2>2, <3>1, RestoredContents DEF onUpgrade
  <2>3. CASE onUpgradeNeeded
    <3>1. PICK stores : stores = transformRows(removeIndexTables(disk), Tables) OBVIOUS
    <3>2. status = "closed" /\ kind \in {"indexed_db", "bundled"} /\ Connected(stores)
      BY <2>3, <3>1 DEF onUpgradeNeeded
    <3>3. Tables \in SUBSET Tables OBVIOUS
    <3>4. OnDisk(stores) = OnDisk(disk) BY <3>1, <3>2, <3>3, VersionChange
    <3> QED BY <3>2, <3>4, RestoredContents
  <2>4. CASE \/ checkVersion \/ preUpgrade \/ \E tables \in SUBSET Tables : UpgradeRejected(tables)
             \/ \E t \in Tables : transformColumn(t)
    BY <2>4 DEF checkVersion, preUpgrade, UpgradeRejected, transformColumn
  <2>5. CASE \/ \E t \in Tables, v \in Values : Insert(t, v)
             \/ \E t \in Tables, v \in Values : \E id \in DOMAIN cache[t] : Update(t, id, v)
             \/ \E t \in Tables : \E ids \in (SUBSET DOMAIN cache[t]) \ {{}} : Delete(t, ids)
    BY <2>5 DEF Insert, Update, Delete, Statement
  <2>6. CASE RollBack \/ Commit \/ Serve \/ Complete \/ OnComplete \/ OnLastStatement
             \/ OnAbort \/ OnExecError \/ Crash \/ Close
    BY <2>6 DEF RollBack, Commit, Serve, Complete, OnComplete, OnLastStatement, OnAbort,
                OnExecError, Crash, Close, Gone
  <2>7. CASE \E tables \in (SUBSET Tables) \ {{}}, v \in Values : Import(tables, v)
    BY <2>7 DEF Import
  <2>8. CASE SqlCommit \/ SqlCommitFails BY <2>8 DEF SqlCommit, SqlCommitFails
  <2> QED BY <2>1, <2>2, <2>3, <2>4, <2>5, <2>6, <2>7, <2>8 DEF Next
<1>2. Spec => [][Restores]_vars BY <1>1, StoresInvariant, PTL DEF Spec
<1> QED BY <1>2 DEF RestartRestores
=============================================================================
