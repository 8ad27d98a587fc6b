---------------------------- MODULE RunnerProofs ----------------------------
(***************************************************************************)
(* Proofs about Runner.tla for any set of tables and tasks and any plans,  *)
(* for programs in which no task that exec() runs schedules another one    *)
(* (NoReentry).  First the locks and the queue: which tasks hold, wait and *)
(* are reserved what.  Then what the locks protect: that the tasks behave  *)
(* like those of SerialDatabase.tla.  Then the observers: that they see    *)
(* every change and end with current results.                              *)
(***************************************************************************)
EXTENDS Runner, SequenceTheorems, FiniteSetTheorems, TLAPS

-----------------------------------------------------------------------------
(* The operators of LockTable.tla, for any set of tables and tasks.        *)

(* What one entry satisfies: the exclusive lock and shared locks exclude   *)
(* each other, and so do the reservations of writers and readers.          *)
EntryOK(e) == /\ e \in Entry
              /\ e.exclusive # Nil => e.shared = {}
              /\ e.reservedRW # Nil => e.reservedRO = {}

-----------------------------------------------------------------------------
(* An empty entry is as it should be.                                      *)
LEMMA FreeEntryOK == EntryOK(FreeEntry)
BY DEF EntryOK, Entry, FreeEntry

(* Granting a lock that may be granted keeps an entry consistent.          *)
LEMMA LockEntryOK ==
    ASSUME NEW e, EntryOK(e), NEW id \in Task, NEW type \in LockType,
           CanLock(e, id, type)
    PROVE  EntryOK(Lock(e, id, type))
<1>1. CASE type = "EXCLUSIVE"
  BY <1>1, NilAssumption DEF EntryOK, Entry, CanLock, Lock
<1>2. CASE type = "SHARED"
  BY <1>2, NilAssumption DEF EntryOK, Entry, CanLock, Lock
<1>3. CASE type = "RESERVED_READ_ONLY"
  BY <1>3, NilAssumption DEF EntryOK, Entry, CanLock, Lock
<1>4. CASE type = "RESERVED_READ_WRITE"
  BY <1>4, NilAssumption DEF EntryOK, Entry, CanLock, Lock
<1> QED
  BY <1>1, <1>2, <1>3, <1>4 DEF LockType

(* Releasing a task's locks keeps an entry consistent.                     *)
LEMMA UnlockEntryOK ==
    ASSUME NEW e, EntryOK(e), NEW id \in Task
    PROVE  EntryOK(Unlock(e, id))
BY DEF EntryOK, Entry, Unlock

(* Taking a reservation away from its owner keeps an entry consistent.     *)
LEMMA ClearEntryOK ==
    ASSUME NEW e, EntryOK(e)
    PROVE  EntryOK([e EXCEPT !.reservedRW = Nil])
BY DEF EntryOK, Entry

-----------------------------------------------------------------------------
AllOK(lt) == lt \in [Table -> Entry] /\ \A d \in Table : EntryOK(lt[d])

(* The three operations on a whole lock table keep every entry consistent; *)
(* first requestLock.                                                      *)
LEMMA RequestOK ==
    ASSUME NEW lt, AllOK(lt), NEW id \in Task, NEW items \in SUBSET Table,
           NEW type \in LockType
    PROVE  AllOK(Request(lt, id, items, type))
<1>1. CASE ~CanAcquireLock(lt, id, items, type)
  BY <1>1 DEF Request
<1>2. CASE CanAcquireLock(lt, id, items, type)
  <2> DEFINE new == GrantLock(lt, id, items, type)
  <2>1. ASSUME NEW d \in Table PROVE EntryOK(new[d])
    <3>1. CASE d \in items
      <4>1. CanLock(lt[d], id, type) /\ EntryOK(lt[d])
        BY <1>2, <3>1 DEF CanAcquireLock, AllOK
      <4>2. EntryOK(Lock(lt[d], id, type))
        BY <4>1, LockEntryOK
      <4> QED BY <4>2, <3>1 DEF GrantLock
    <3>2. CASE d \notin items
      BY <3>2 DEF GrantLock, AllOK
    <3> QED BY <3>1, <3>2
  <2>2. \A d \in Table : new[d] \in Entry
    BY <2>1 DEF EntryOK
  <2>3. new \in [Table -> Entry]
    BY <2>2 DEF GrantLock
  <2>4. Request(lt, id, items, type) = new
    BY <1>2 DEF Request
  <2> QED BY <2>1, <2>3, <2>4 DEF AllOK
<1> QED BY <1>1, <1>2

(* Then releaseLock.                                                       *)
LEMMA ReleaseOK ==
    ASSUME NEW lt, AllOK(lt), NEW id \in Task, NEW items \in SUBSET Table
    PROVE  AllOK(Release(lt, id, items))
<1> DEFINE new == Release(lt, id, items)
<1>1. ASSUME NEW d \in Table PROVE EntryOK(new[d])
  <2>1. EntryOK(lt[d]) BY DEF AllOK
  <2>2. EntryOK(Unlock(lt[d], id)) BY <2>1, UnlockEntryOK
  <2> QED BY <2>1, <2>2 DEF Release
<1>2. \A d \in Table : new[d] \in Entry BY <1>1 DEF EntryOK
<1>3. new \in [Table -> Entry] BY <1>2 DEF Release
<1> QED BY <1>1, <1>3 DEF AllOK

(* And clearReservedLocks.                                                *)
LEMMA ClearReservedOK ==
    ASSUME NEW lt, AllOK(lt), NEW items \in SUBSET Table
    PROVE  AllOK(ClearReserved(lt, items))
<1> DEFINE new == ClearReserved(lt, items)
<1>1. ASSUME NEW d \in Table PROVE EntryOK(new[d])
  <2>1. EntryOK(lt[d]) BY DEF AllOK
  <2>2. EntryOK([lt[d] EXCEPT !.reservedRW = Nil]) BY <2>1, ClearEntryOK
  <2> QED BY <2>1, <2>2 DEF ClearReserved
<1>2. \A d \in Table : new[d] \in Entry BY <1>1 DEF EntryOK
<1>3. new \in [Table -> Entry] BY <1>2 DEF ClearReserved
<1> QED BY <1>1, <1>3 DEF AllOK

-----------------------------------------------------------------------------
(* What a task has once a whole scope is granted to it, and keeps until it *)
(* releases it itself.                                                     *)
Holds(lt, id, items, type) ==
    \A d \in items : IF type = "SHARED" THEN id \in lt[d].shared
                                        ELSE lt[d].exclusive = id

(* Two tasks that hold locks on one table both read it.                    *)
LEMMA HoldersExclude ==
    ASSUME NEW lt, AllOK(lt), NEW t \in Task, NEW u \in Task, t # u,
           NEW A, NEW B, NEW type \in {"SHARED", "EXCLUSIVE"},
           NEW other \in {"SHARED", "EXCLUSIVE"},
           Holds(lt, t, A, type), Holds(lt, u, B, other),
           NEW d \in Table, d \in A, d \in B
    PROVE  type = "SHARED" /\ other = "SHARED"
BY NilAssumption DEF Holds, AllOK, EntryOK, Entry

(* Reserving or clearing reservations does not touch the locks held.       *)
LEMMA ReserveKeepsHolds ==
    ASSUME NEW lt, AllOK(lt), NEW id \in Task, NEW items \in SUBSET Table,
           NEW type \in {"RESERVED_READ_ONLY", "RESERVED_READ_WRITE"},
           NEW u \in Task, NEW A \in SUBSET Table, NEW other, Holds(lt, u, A, other)
    PROVE  Holds(Request(lt, id, items, type), u, A, other)
<1>1. \A d \in A : /\ Request(lt, id, items, type)[d].shared = lt[d].shared
                   /\ Request(lt, id, items, type)[d].exclusive = lt[d].exclusive
  BY DEF AllOK, Request, GrantLock, Lock, Entry
<1> QED BY <1>1 DEF Holds

(* The same of clearReservedLocks.                                         *)
LEMMA ClearKeepsHolds ==
    ASSUME NEW lt, AllOK(lt), NEW items \in SUBSET Table,
           NEW u \in Task, NEW A \in SUBSET Table, NEW other, Holds(lt, u, A, other)
    PROVE  Holds(ClearReserved(lt, items), u, A, other)
<1>1. \A d \in A : /\ ClearReserved(lt, items)[d].shared = lt[d].shared
                   /\ ClearReserved(lt, items)[d].exclusive = lt[d].exclusive
  BY DEF AllOK, ClearReserved, Entry
<1> QED BY <1>1 DEF Holds

(* A lock that can be acquired is held once it is granted, and leaves to   *)
(* the others what they hold.                                              *)
LEMMA GrantHolds ==
    ASSUME NEW lt, AllOK(lt), NEW id \in Task, NEW items \in SUBSET Table,
           NEW type \in {"SHARED", "EXCLUSIVE"}, CanAcquireLock(lt, id, items, type)
    PROVE  /\ Holds(GrantLock(lt, id, items, type), id, items, type)
           /\ \A u \in Task, A \in SUBSET Table, other \in {"SHARED", "EXCLUSIVE"} :
                 Holds(lt, u, A, other) => Holds(GrantLock(lt, id, items, type), u, A, other)
<1> DEFINE new == GrantLock(lt, id, items, type)
<1>1. \A d \in items : CanLock(lt[d], id, type) /\ lt[d] \in Entry
  BY DEF CanAcquireLock, AllOK
<1>2. CASE type = "SHARED"
  <2>1. \A d \in Table : /\ new[d].exclusive = lt[d].exclusive
                         /\ lt[d].shared \subseteq new[d].shared
                         /\ d \in items => id \in new[d].shared
    BY <1>1, <1>2 DEF GrantLock, Lock, Entry, AllOK
  <2> QED BY <1>2, <2>1 DEF Holds
<1>3. CASE type = "EXCLUSIVE"
  <2>1. \A d \in Table : /\ new[d].shared = lt[d].shared
                         /\ new[d].exclusive = IF d \in items THEN id ELSE lt[d].exclusive
                         /\ d \in items => lt[d].exclusive = Nil
    BY <1>1, <1>3 DEF GrantLock, Lock, Entry, AllOK, CanLock
  <2> QED BY <1>3, <2>1, NilAssumption DEF Holds
<1> QED BY <1>2, <1>3

(* A task that releases its locks leaves the others theirs.                *)
LEMMA ReleaseKeepsHolds ==
    ASSUME NEW lt, AllOK(lt), NEW id \in Task, NEW items \in SUBSET Table,
           NEW u \in Task, u # id, NEW A \in SUBSET Table, NEW other,
           Holds(lt, u, A, other)
    PROVE  Holds(Release(lt, id, items), u, A, other)
BY NilAssumption DEF Holds, AllOK, Release, Unlock, Entry

-----------------------------------------------------------------------------
(* The programs these proofs are about: changes of other clients, as from  *)
(* Firebase or an observed store, come in only for tables that no observed *)
(* query refers to, and are not refused by an index.  Of the tasks that    *)
(* exec() runs only that of an external change schedules another one, so   *)
(* that here consumePending_ is never entered from inside itself.          *)
NoReentry == \A t \in Task : Kind[t] = "external" => ~IsObserved[t] /\ t \notin MayThrow

Holder == Task \cup {Nil}

\* The contents of some tables.
Partial == UNION {[S -> Holder] : S \in SUBSET Table}

CallState == {"running", "ok", "failed", "done", "lost"}

CallRecord == [state : CallState, results : Seq(Partial), undo : Partial]

Frame == [todo : Seq(Task), caller : {Nil} \cup (Task \X {1})]

\* The state of the one call of exec() on a task.
State(t) == IF execs[t] = <<>> THEN "none" ELSE execs[t][1].state

TypeInv ==
    /\ AllOK(lockTable)
    /\ queue \in Seq(Task)
    /\ stack \in Seq(Frame) /\ Len(stack) <= 1
    /\ execs \in [Task -> Seq(CallRecord)] /\ \A t \in Task : Len(execs[t]) <= 1
    /\ outcome \in [Task -> {"new", "pending", "resolved", "rejected"}]

Distinct(q) == \A i, j \in DOMAIN q : q[i] = q[j] => i = j

\* A task is in the queue once, and not after its exec() is called; what is
\* left of the copy that consumePending_ walks over is still in the queue.
QueueInv ==
    /\ Distinct(queue)
    /\ \A t \in ToSet(queue) : State(t) = "none" /\ outcome[t] = "pending"
    /\ stack # <<>> => /\ Distinct(stack[1].todo)
                       /\ ToSet(stack[1].todo) \subseteq ToSet(queue)

Unfinished == {"running", "ok", "failed", "lost"}

\* The resolver of a task and the call of its exec() keep step.
CallInv ==
    \A t \in Task :
        /\ outcome[t] = "new" => State(t) = "none"
        /\ outcome[t] \in {"resolved", "rejected"} <=> State(t) = "done"

\* The task w has committed and schedules its observer task.
Notifying(w) == stack # <<>> /\ stack[1].caller = <<w, 1>>

NotifyInv ==
    /\ \A w \in Task : Notifying(w) =>
          /\ w \in DOMAIN ObserverOf /\ State(w) = "running"
          /\ Len(execs[w][1].results) = Len(PlansOf[w])
    /\ \A w \in DOMAIN ObserverOf :
          State(w) \in {"none", "running"} /\ ~Notifying(w) =>
              outcome[ObserverOf[w]] = "new"

\* A task holds the locks on its scope until the runner is told it is done.
HoldInv == \A t \in Task : State(t) \in Unfinished =>
                              Holds(lockTable, t, Scope[t], SecondLock(t))

ContentsInv == cache \in [Table -> Holder] /\ committed \in [Table -> Holder]

Control == TypeInv /\ QueueInv /\ CallInv /\ NotifyInv /\ HoldInv

\* A running task has plans left or none; an external change is done when
\* its exec() returns.
PlanInv == \A t \in Task : State(t) = "running" =>
              Kind[t] # "external" /\ Len(execs[t][1].results) <= Len(PlansOf[t])

IInv == Control /\ ContentsInv /\ PlanInv

-----------------------------------------------------------------------------
(* The queue of the runner.                                                *)

\* The places of the tasks that stay before t in the queue.
Urgent(q, t) == {n \in DOMAIN q : Priority[q[n]] <= Priority[t]}

(* TaskQueue_.insert makes room for the task at one place.                 *)
LEMMA InsertPlaces ==
    ASSUME NEW q \in Seq(Task), NEW t \in Task
    PROVE  \E p \in 1 .. Len(q) + 1 :
              /\ p = Cardinality(Urgent(q, t)) + 1
              /\ Insert(q, t) \in Seq(Task) /\ Len(Insert(q, t)) = Len(q) + 1
              /\ \A i \in 1 .. Len(q) + 1 :
                    Insert(q, t)[i] = IF i < p THEN q[i] ELSE IF i = p THEN t ELSE q[i - 1]
<1> DEFINE p == Cardinality(Urgent(q, t)) + 1
           old == SubSeq(q, 1, p - 1)
           young == SubSeq(q, p, Len(q))
           new == (old \o <<t>>) \o young
<1>1. Len(q) \in Nat /\ DOMAIN q = 1 .. Len(q) /\ \A i \in 1 .. Len(q) : q[i] \in Task
  OBVIOUS
<1>2. Cardinality(Urgent(q, t)) \in 0 .. Len(q)
  <2>1. IsFiniteSet(1 .. Len(q)) /\ Cardinality(1 .. Len(q)) = Len(q)
    <3>1. 1 \in Int /\ Len(q) \in Int
      BY <1>1
    <3>2. /\ IsFiniteSet(1 .. Len(q))
          /\ Cardinality(1 .. Len(q)) = IF 1 > Len(q) THEN 0 ELSE Len(q) - 1 + 1
      BY <3>1, FS_Interval
    <3> QED BY <1>1, <3>2
  <2>2. IsFiniteSet(Urgent(q, t)) /\ Cardinality(Urgent(q, t)) <= Len(q)
    BY <1>1, <2>1, FS_Subset DEF Urgent
  <2> QED BY <1>1, <2>2, FS_CardinalityType
<1>3. p \in 1 .. Len(q) + 1
  BY <1>1, <1>2
<1> HIDE DEF p
<1>4. /\ old \in Seq(Task) /\ Len(old) = p - 1
      /\ \A i \in 1 .. p - 1 : old[i] = q[i]
  BY <1>1, <1>3, SubSeqProperties
<1>5. /\ young \in Seq(Task) /\ Len(young) = Len(q) + 1 - p
      /\ \A i \in 1 .. Len(q) + 1 - p : young[i] = q[p + i - 1]
  BY <1>1, <1>3, SubSeqProperties
<1> HIDE DEF old, young
<1>6. /\ old \o <<t>> \in Seq(Task) /\ Len(old \o <<t>>) = p
      /\ \A i \in 1 .. p : (old \o <<t>>)[i] = IF i < p THEN q[i] ELSE t
  BY <1>1, <1>3, <1>4
<1>7. /\ new \in Seq(Task) /\ Len(new) = Len(q) + 1
      /\ \A i \in 1 .. Len(q) + 1 : new[i] = IF i < p THEN q[i] ELSE IF i = p THEN t ELSE q[i - 1]
  <2>1. /\ new \in Seq(Task) /\ Len(new) = p + (Len(q) + 1 - p)
        /\ \A i \in 1 .. p + (Len(q) + 1 - p) :
              new[i] = IF i <= p THEN (old \o <<t>>)[i] ELSE young[i - p]
    <3> DEFINE front == old \o <<t>>
    <3>1. front \in Seq(Task) /\ young \in Seq(Task)
      BY <1>5, <1>6
    <3> HIDE DEF front
    <3>2. /\ front \o young \in Seq(Task) /\ Len(front \o young) = Len(front) + Len(young)
          /\ \A i \in 1 .. Len(front) + Len(young) :
                (front \o young)[i] = IF i <= Len(front) THEN front[i] ELSE young[i - Len(front)]
      BY <3>1, ConcatProperties
    <3>3. Len(front) = p /\ Len(young) = Len(q) + 1 - p /\ new = front \o young
      BY <1>5, <1>6 DEF front
    <3> HIDE DEF new
    <3>4. /\ new \in Seq(Task) /\ Len(new) = p + (Len(q) + 1 - p)
          /\ \A i \in 1 .. p + (Len(q) + 1 - p) :
                new[i] = IF i <= p THEN front[i] ELSE young[i - p]
      BY <3>2, <3>3
    <3> QED BY <3>4 DEF front
  <2>2. \A i \in 1 .. Len(q) + 1 : i > p => young[i - p] = q[i - 1]
    <3> SUFFICES ASSUME NEW i \in 1 .. Len(q) + 1, i > p PROVE young[i - p] = q[i - 1]
      OBVIOUS
    <3>1. i - p \in 1 .. Len(q) + 1 - p /\ p + (i - p) - 1 = i - 1
      BY <1>1, <1>3
    <3> QED BY <1>5, <3>1
  <2>3. p + (Len(q) + 1 - p) = Len(q) + 1
    BY <1>1, <1>3
  <2> HIDE DEF new
  <2>4. ASSUME NEW i \in 1 .. Len(q) + 1, i <= p PROVE new[i] = IF i < p THEN q[i] ELSE t
    <3>1. i \in 1 .. p
      BY <2>4
    <3> QED BY <1>6, <2>1, <2>3, <2>4, <3>1
  <2>5. ASSUME NEW i \in 1 .. Len(q) + 1, i > p PROVE new[i] = q[i - 1]
    <3>1. ~(i <= p)
      BY <1>3, <2>5
    <3> QED BY <2>1, <2>2, <2>3, <2>5, <3>1
  <2>6. ASSUME NEW i \in 1 .. Len(q) + 1
        PROVE  new[i] = IF i < p THEN q[i] ELSE IF i = p THEN t ELSE q[i - 1]
    <3>1. CASE i <= p
      BY <1>3, <2>4, <3>1
    <3>2. CASE i > p
      <4>1. ~(i < p) /\ i # p
        BY <1>3, <3>2
      <4> QED BY <2>5, <3>2, <4>1
    <3> QED BY <1>3, <3>1, <3>2
  <2> QED BY <2>1, <2>3, <2>6
<1>8. Insert(q, t) = new
  BY DEF Insert, InsertAt, new, old, young, p, Urgent
<1> HIDE DEF new
<1> QED BY <1>3, <1>7, <1>8 DEF p

(* TaskQueue_.insert adds the task, wherever its priority puts it.         *)
LEMMA InsertAdds ==
    ASSUME NEW q \in Seq(Task), NEW t \in Task
    PROVE  /\ Insert(q, t) \in Seq(Task)
           /\ ToSet(Insert(q, t)) = ToSet(q) \cup {t}
           /\ Distinct(q) /\ t \notin ToSet(q) => Distinct(Insert(q, t))
<1> DEFINE new == Insert(q, t)
<1>1. Len(q) \in Nat /\ DOMAIN q = 1 .. Len(q) /\ \A i \in 1 .. Len(q) : q[i] \in Task
  OBVIOUS
<1>2. PICK p \in 1 .. Len(q) + 1 :
         /\ new \in Seq(Task) /\ Len(new) = Len(q) + 1
         /\ \A i \in 1 .. Len(q) + 1 : new[i] = IF i < p THEN q[i] ELSE IF i = p THEN t ELSE q[i - 1]
  BY InsertPlaces
<1>3. p \in 1 .. Len(q) + 1
  OBVIOUS
<1> HIDE DEF new
<1>4. ToSet(new) = ToSet(q) \cup {t}
  <2>1. \A i \in DOMAIN q : \E j \in DOMAIN new : new[j] = q[i]
    <3> SUFFICES ASSUME NEW i \in 1 .. Len(q) PROVE \E j \in DOMAIN new : new[j] = q[i]
      BY <1>1
    <3>1. CASE i < p
      BY <1>1, <1>2, <3>1
    <3>2. CASE i >= p
      <4>1. i + 1 \in 1 .. Len(q) + 1 /\ ~(i + 1 < p) /\ i + 1 # p /\ (i + 1) - 1 = i
        BY <1>1, <1>3, <3>2
      <4>2. new[i + 1] = q[i]
        BY <1>2, <4>1
      <4> QED BY <1>2, <4>1, <4>2
    <3> QED BY <1>1, <1>3, <3>1, <3>2
  <2>2. new[p] = t /\ p \in DOMAIN new
    BY <1>3, <1>2
  <2>3. \A j \in DOMAIN new : new[j] = t \/ \E i \in DOMAIN q : new[j] = q[i]
    <3> SUFFICES ASSUME NEW j \in 1 .. Len(q) + 1, j # p
                 PROVE  \E i \in DOMAIN q : new[j] = q[i]
      BY <1>3, <1>2
    <3>1. CASE j < p
      BY <1>1, <1>3, <1>2, <3>1
    <3>2. CASE j > p
      <4>1. j - 1 \in 1 .. Len(q) /\ new[j] = q[j - 1]
        BY <1>1, <1>3, <1>2, <3>2
      <4> QED BY <1>1, <4>1
    <3> QED BY <1>3, <3>1, <3>2
  <2> QED BY <2>1, <2>2, <2>3 DEF ToSet
<1>5. ASSUME Distinct(q), t \notin ToSet(q) PROVE Distinct(new)
  <2>1. \A i, j \in 1 .. Len(q) : q[i] = q[j] => i = j
    BY <1>1, <1>5 DEF Distinct
  <2>2. \A i \in 1 .. Len(q) : q[i] # t
    BY <1>1, <1>5 DEF ToSet
  <2> QED BY <1>1, <1>3, <1>2, <2>1, <2>2 DEF Distinct
<1> QED BY <1>2, <1>4, <1>5 DEF new

(* TaskQueue_.remove closes the gap.                                       *)
LEMMA RemovePlaces ==
    ASSUME NEW q \in Seq(Task), Distinct(q), NEW t \in ToSet(q)
    PROVE  \E p \in 1 .. Len(q) :
              /\ q[p] = t
              /\ RemoveFirst(q, t) \in Seq(Task) /\ Len(RemoveFirst(q, t)) = Len(q) - 1
              /\ \A i \in 1 .. Len(q) - 1 :
                    RemoveFirst(q, t)[i] = IF i < p THEN q[i] ELSE q[i + 1]
<1>1. Len(q) \in Nat /\ DOMAIN q = 1 .. Len(q) /\ \A i \in 1 .. Len(q) : q[i] \in Task
  OBVIOUS
<1>2. PICK p \in 1 .. Len(q) : q[p] = t
  BY <1>1 DEF ToSet
<1> DEFINE old == SubSeq(q, 1, p - 1)
           young == SubSeq(q, p + 1, Len(q))
           new == old \o young
<1>3. {i \in 1 .. Len(q) : q[i] = t} = {p}
  BY <1>1, <1>2 DEF Distinct
<1>4. Min({p}) = p
  BY <1>1, <1>2 DEF Min
<1>5. RemoveFirst(q, t) = new
  BY <1>2, <1>3, <1>4 DEF RemoveFirst, RemoveAt, SelectInSeq
<1>6. /\ old \in Seq(Task) /\ Len(old) = p - 1
      /\ \A i \in 1 .. p - 1 : old[i] = q[i]
  BY <1>1, <1>2, SubSeqProperties
<1>7. /\ young \in Seq(Task) /\ Len(young) = Len(q) - p
      /\ \A i \in 1 .. Len(q) - p : young[i] = q[p + i]
  <2>1. p + 1 \in Int /\ Len(q) \in Int /\ \A i \in p + 1 .. Len(q) : q[i] \in Task
    BY <1>1, <1>2
  <2>2. /\ young \in Seq(Task)
        /\ Len(young) = IF p + 1 <= Len(q) THEN Len(q) - (p + 1) + 1 ELSE 0
        /\ \A i \in 1 .. Len(q) - (p + 1) + 1 : young[i] = q[(p + 1) + i - 1]
    BY <2>1, SubSeqProperties
  <2>3. \A i \in 1 .. Len(q) - p : (p + 1) + i - 1 = p + i
    BY <1>1, <1>2
  <2>4. Len(q) - (p + 1) + 1 = Len(q) - p
    BY <1>1, <1>2
  <2>5. (IF p + 1 <= Len(q) THEN Len(q) - (p + 1) + 1 ELSE 0) = Len(q) - p
    <3>1. CASE p < Len(q)
      <4>1. p + 1 <= Len(q) /\ Len(q) - (p + 1) + 1 = Len(q) - p
        BY <1>1, <3>1
      <4> QED BY <4>1
    <3>2. CASE p = Len(q)
      <4>1. ~(p + 1 <= Len(q)) /\ Len(q) - p = 0
        BY <1>1, <3>2
      <4> QED BY <4>1
    <3>3. p \in Int /\ Len(q) \in Int /\ p <= Len(q)
      BY <1>1, <1>2
    <3>4. p < Len(q) \/ p = Len(q)
      BY <3>3
    <3> QED BY <3>1, <3>2, <3>4
  <2> QED BY <2>2, <2>3, <2>4, <2>5
<1> HIDE DEF old, young
<1>8. /\ new \in Seq(Task) /\ Len(new) = Len(q) - 1
      /\ \A i \in 1 .. Len(q) - 1 : new[i] = IF i < p THEN q[i] ELSE q[i + 1]
  <2>1. /\ new \in Seq(Task) /\ Len(new) = (p - 1) + (Len(q) - p)
        /\ \A i \in 1 .. (p - 1) + (Len(q) - p) :
              new[i] = IF i <= p - 1 THEN old[i] ELSE young[i - (p - 1)]
    <3>1. old \in Seq(Task) /\ young \in Seq(Task)
      BY <1>6, <1>7
    <3>2. /\ new \in Seq(Task) /\ Len(new) = Len(old) + Len(young)
          /\ \A i \in 1 .. Len(old) + Len(young) :
                new[i] = IF i <= Len(old) THEN old[i] ELSE young[i - Len(old)]
      BY <3>1, ConcatProperties
    <3>3. Len(old) = p - 1 /\ Len(young) = Len(q) - p
      BY <1>6, <1>7
    <3> HIDE DEF new
    <3> QED BY <3>2, <3>3
  <2>2. (p - 1) + (Len(q) - p) = Len(q) - 1
    BY <1>1, <1>2
  <2>3. \A i \in 1 .. Len(q) - 1 : i < p => new[i] = q[i]
    BY <1>1, <1>2, <1>6, <2>1, <2>2
  <2>4. \A i \in 1 .. Len(q) - 1 : i >= p => new[i] = q[i + 1]
    <3> SUFFICES ASSUME NEW i \in 1 .. Len(q) - 1, i >= p PROVE new[i] = q[i + 1]
      OBVIOUS
    <3>1. /\ i - (p - 1) \in 1 .. Len(q) - p /\ p + (i - (p - 1)) = i + 1
          /\ ~(i <= p - 1)
      BY <1>1, <1>2
    <3>2. new[i] = young[i - (p - 1)]
      BY <2>1, <2>2, <3>1
    <3> QED BY <1>7, <3>1, <3>2
  <2> QED BY <1>1, <1>2, <2>1, <2>2, <2>3, <2>4
<1> HIDE DEF new
<1> QED BY <1>2, <1>5, <1>8

(* TaskQueue_.remove takes the task out.                                   *)
LEMMA RemoveTakesOut ==
    ASSUME NEW q \in Seq(Task), Distinct(q), NEW t \in ToSet(q)
    PROVE  /\ RemoveFirst(q, t) \in Seq(Task) /\ Distinct(RemoveFirst(q, t))
           /\ ToSet(RemoveFirst(q, t)) = ToSet(q) \ {t}
<1> DEFINE new == RemoveFirst(q, t)
<1>1. Len(q) \in Nat /\ DOMAIN q = 1 .. Len(q) /\ \A i \in 1 .. Len(q) : q[i] \in Task
  OBVIOUS
<1>2. PICK p \in 1 .. Len(q) :
         /\ q[p] = t /\ new \in Seq(Task) /\ Len(new) = Len(q) - 1
         /\ \A i \in 1 .. Len(q) - 1 : new[i] = IF i < p THEN q[i] ELSE q[i + 1]
  BY RemovePlaces
<1> HIDE DEF new
<1>3. \A i, j \in 1 .. Len(q) : q[i] = q[j] => i = j
  BY <1>1 DEF Distinct
<1>4. Distinct(new)
  <2> SUFFICES ASSUME NEW i \in 1 .. Len(q) - 1, NEW j \in 1 .. Len(q) - 1, new[i] = new[j]
               PROVE  i = j
    BY <1>1, <1>2 DEF Distinct
  <2> DEFINE I == IF i < p THEN i ELSE i + 1
             J == IF j < p THEN j ELSE j + 1
  <2>1. I \in 1 .. Len(q) /\ J \in 1 .. Len(q) /\ (I = J => i = j)
    BY <1>1
  <2>2. new[i] = q[I] /\ new[j] = q[J]
    BY <1>2
  <2> QED BY <1>3, <2>1, <2>2
<1>5. ToSet(new) = ToSet(q) \ {t}
  <2>1. \A i \in DOMAIN q : q[i] = t \/ \E j \in DOMAIN new : new[j] = q[i]
    <3> SUFFICES ASSUME NEW i \in 1 .. Len(q), i # p PROVE \E j \in DOMAIN new : new[j] = q[i]
      BY <1>1, <1>2
    <3>1. CASE i < p
      BY <1>1, <1>2, <3>1
    <3>2. CASE i > p
      <4>1. i - 1 \in 1 .. Len(q) - 1 /\ new[i - 1] = q[i]
        BY <1>1, <1>2, <3>2
      <4> QED BY <1>2, <4>1
    <3> QED BY <1>2, <3>1, <3>2
  <2>2. \A j \in DOMAIN new : new[j] # t /\ \E i \in DOMAIN q : new[j] = q[i]
    BY <1>1, <1>2, <1>3
  <2> QED BY <2>1, <2>2 DEF ToSet
<1> QED BY <1>2, <1>4, <1>5 DEF new

(* A walk over the copy of the queue leaves the rest of it.                *)
LEMMA TailIsTheRest ==
    ASSUME NEW q \in Seq(Task), Distinct(q), q # <<>>
    PROVE  /\ Head(q) \in ToSet(q) /\ Tail(q) \in Seq(Task) /\ Distinct(Tail(q))
           /\ ToSet(Tail(q)) = ToSet(q) \ {Head(q)}
<1>1. /\ Len(q) \in Nat /\ Len(q) > 0 /\ DOMAIN q = 1 .. Len(q) /\ Head(q) = q[1]
      /\ Tail(q) \in Seq(Task) /\ DOMAIN Tail(q) = 1 .. Len(q) - 1
      /\ \A i \in 1 .. Len(q) - 1 : Tail(q)[i] = q[i + 1]
  BY HeadTailProperties
<1>2. \A i, j \in 1 .. Len(q) : q[i] = q[j] => i = j
  BY <1>1 DEF Distinct
<1>3. Distinct(Tail(q))
  BY <1>1, <1>2 DEF Distinct
<1>4. \A i \in 1 .. Len(q) : i = 1 \/ \E j \in DOMAIN Tail(q) : Tail(q)[j] = q[i]
  <2> SUFFICES ASSUME NEW i \in 1 .. Len(q), i # 1
               PROVE  \E j \in DOMAIN Tail(q) : Tail(q)[j] = q[i]
    OBVIOUS
  <2>1. i - 1 \in 1 .. Len(q) - 1 /\ Tail(q)[i - 1] = q[i]
    BY <1>1
  <2> QED BY <1>1, <2>1
<1>5. \A j \in DOMAIN Tail(q) : Tail(q)[j] # q[1] /\ \E i \in DOMAIN q : Tail(q)[j] = q[i]
  BY <1>1, <1>2
<1>6. Head(q) \in ToSet(q)
  BY <1>1 DEF ToSet
<1>7. ToSet(Tail(q)) = ToSet(q) \ {q[1]}
  BY <1>1, <1>4, <1>5 DEF ToSet
<1> QED BY <1>1, <1>3, <1>6, <1>7

-----------------------------------------------------------------------------
(* The plans and the scopes of tasks.                                      *)
LEMMA PlansAreTyped ==
    \A t \in Task : /\ PlansOf[t] \in Seq(Plan) /\ Scope[t] \in SUBSET Table /\ Scope[t] # {}
                    /\ \A i \in DOMAIN PlansOf[t] : /\ PlansOf[t][i].tables \in SUBSET Table
                                                    /\ PlansOf[t][i].tables \subseteq Scope[t]
<1> SUFFICES ASSUME NEW t \in Task
             PROVE  /\ PlansOf[t] \in Seq(Plan) /\ Scope[t] \in SUBSET Table /\ Scope[t] # {}
                    /\ \A i \in DOMAIN PlansOf[t] : /\ PlansOf[t][i].tables \in SUBSET Table
                                                    /\ PlansOf[t][i].tables \subseteq Scope[t]
  OBVIOUS
<1>1. PlansOf[t] \in Seq(Plan) /\ Scope[t] # {}
  BY RunnerAssumption
<1>2. \A i \in DOMAIN PlansOf[t] : PlansOf[t][i] \in Plan
  BY <1>1
<1>3. \A i \in DOMAIN PlansOf[t] : PlansOf[t][i].tables \in SUBSET Table
  BY <1>2 DEF Plan
<1>4. Scope[t] = UNION {PlansOf[t][i].tables : i \in DOMAIN PlansOf[t]}
  BY DEF Scope, TablesOf
<1> QED BY <1>1, <1>3, <1>4

(* An import and an export lock every table.                               *)
LEMMA WholeDatabase ==
    \A t \in Task : Kind[t] \in {"import", "export"} => Scope[t] = Table
<1> SUFFICES ASSUME NEW t \in Task, Kind[t] \in {"import", "export"} PROVE Scope[t] = Table
  OBVIOUS
<1>1. PlansOf[t] = <<[tables |-> Table, query |-> Nil]>>
  BY DEF PlansOf
<1>2. TablesOf(<<[tables |-> Table, query |-> Nil]>>) = Table
  BY DEF TablesOf
<1> QED BY <1>1, <1>2 DEF Scope

(* Which tasks schedule an observer task, and that it is one.              *)
LEMMA NotifiersAreTyped ==
    /\ \A t \in Task : t \in DOMAIN ObserverOf <=>
          Kind[t] \in {"update", "transaction", "external"} /\ IsObserved[t]
    /\ \A w \in DOMAIN ObserverOf : /\ w \in Task /\ ObserverOf[w] \in Task
                                    /\ Kind[ObserverOf[w]] = "observer"
    /\ \A v, w \in DOMAIN ObserverOf : ObserverOf[v] = ObserverOf[w] => v = w
BY RunnerAssumption DEF Notifies, UserTask

-----------------------------------------------------------------------------
(* Calls of exec().                                                        *)

(* A sequence of at most one element has one if it is not empty.           *)
LEMMA OneElement ==
    ASSUME NEW S, NEW s \in Seq(S), Len(s) <= 1, s # <<>>
    PROVE  Len(s) = 1 /\ DOMAIN s = {1} /\ s[1] \in S
<1>1. Len(s) \in Nat /\ Len(s) # 0 /\ DOMAIN s = 1 .. Len(s)
  BY EmptySeq
<1>2. \A n \in Nat : n <= 1 /\ n # 0 => n = 1
  OBVIOUS
<1>3. Len(s) = 1
  BY <1>1, <1>2
<1>4. 1 .. 1 = {1}
  OBVIOUS
<1> QED BY <1>1, <1>3, <1>4, ElementOfSeq

(* A task is not executed yet, or has one call.                            *)
LEMMA OneCall ==
    ASSUME TypeInv, NEW t \in Task
    PROVE  /\ State(t) \in CallState \cup {"none"}
           /\ execs[t] = <<>> <=> State(t) = "none"
           /\ State(t) # "none" => /\ execs[t] \in Seq(CallRecord) /\ Len(execs[t]) = 1
                                   /\ execs[t][1] \in CallRecord
                                   /\ execs[t][1].state = State(t)
           /\ \A n \in DOMAIN execs[t] : n = 1 /\ State(t) # "none"
<1>1. execs[t] \in Seq(CallRecord) /\ Len(execs[t]) <= 1
  BY DEF TypeInv
<1>2. CASE execs[t] = <<>>
  <2>1. State(t) = "none" /\ DOMAIN execs[t] = {}
    BY <1>2 DEF State
  <2> QED BY <1>2, <2>1
<1>3. CASE execs[t] # <<>>
  <2>1. Len(execs[t]) = 1 /\ DOMAIN execs[t] = {1}
    BY <1>1, <1>3, OneElement
  <2>2. execs[t][1] \in CallRecord
    BY <1>1, <2>1, ElementOfSeq
  <2>3. State(t) = execs[t][1].state /\ State(t) \in CallState
    BY <1>3, <2>2 DEF State, CallRecord
  <2>4. State(t) # "none"
    BY <2>3 DEF CallState
  <2> QED BY <1>1, <1>3, <2>1, <2>2, <2>3, <2>4
<1> QED BY <1>2, <1>3

(* The call of a task gets another record.                                 *)
LEMMA CallReplaced ==
    ASSUME TypeInv, NEW t \in Task, State(t) # "none", NEW c \in CallRecord,
           execs' = [execs EXCEPT ![t] = [@ EXCEPT ![1] = c]]
    PROVE  /\ execs' \in [Task -> Seq(CallRecord)] /\ \A u \in Task : Len(execs'[u]) <= 1
           /\ State(t)' = c.state /\ execs'[t][1] = c
           /\ \A u \in Task \ {t} : State(u)' = State(u) /\ execs'[u] = execs[u]
<1>1. execs[t] \in Seq(CallRecord) /\ Len(execs[t]) = 1
  BY OneCall
<1>2. execs \in [Task -> Seq(CallRecord)] /\ \A u \in Task : Len(execs[u]) <= 1
  BY DEF TypeInv
<1> DEFINE new == [execs[t] EXCEPT ![1] = c]
<1>3. new \in Seq(CallRecord) /\ Len(new) = 1 /\ new[1] = c
  BY <1>1, ExceptSeq
<1>4. new # <<>>
  BY <1>3
<1> HIDE DEF new
<1>5. execs' = [execs EXCEPT ![t] = new]
  BY DEF new
<1>6. execs'[t] = new /\ \A u \in Task \ {t} : execs'[u] = execs[u]
  BY <1>2, <1>5
<1>7. execs' \in [Task -> Seq(CallRecord)]
  BY <1>2, <1>3, <1>5
<1> QED BY <1>2, <1>3, <1>4, <1>6, <1>7 DEF State

(* SetState changes the state alone.                                       *)
LEMMA StateSet ==
    ASSUME TypeInv, NEW t \in Task, State(t) # "none", NEW s \in CallState,
           execs' = SetState(t, 1, s)
    PROVE  /\ execs' \in [Task -> Seq(CallRecord)] /\ \A u \in Task : Len(execs'[u]) <= 1
           /\ State(t)' = s
           /\ execs'[t][1] = [execs[t][1] EXCEPT !.state = s]
           /\ \A u \in Task \ {t} : State(u)' = State(u) /\ execs'[u] = execs[u]
<1> DEFINE c == [execs[t][1] EXCEPT !.state = s]
<1>1. execs[t][1] \in CallRecord
  BY OneCall
<1>2. c \in CallRecord /\ c.state = s
  BY <1>1 DEF CallRecord
<1>3. execs' = [execs EXCEPT ![t] = [@ EXCEPT ![1] = c]]
  BY DEF SetState
<1> HIDE DEF c
<1>4. /\ execs' \in [Task -> Seq(CallRecord)] /\ \A u \in Task : Len(execs'[u]) <= 1
      /\ State(t)' = c.state /\ execs'[t][1] = c
      /\ \A u \in Task \ {t} : State(u)' = State(u) /\ execs'[u] = execs[u]
  BY <1>2, <1>3, CallReplaced
<1> QED BY <1>2, <1>4 DEF c

(* The first call of exec() on a task.                                     *)
LEMMA CallAppended ==
    ASSUME TypeInv, NEW t \in Task, State(t) = "none", NEW c \in CallRecord,
           execs' = Append1(t, c)
    PROVE  /\ execs' \in [Task -> Seq(CallRecord)] /\ \A u \in Task : Len(execs'[u]) <= 1
           /\ State(t)' = c.state /\ execs'[t][1] = c
           /\ \A u \in Task \ {t} : State(u)' = State(u) /\ execs'[u] = execs[u]
<1>1. execs[t] = <<>>
  BY OneCall
<1>2. execs \in [Task -> Seq(CallRecord)] /\ \A u \in Task : Len(execs[u]) <= 1
  BY DEF TypeInv
<1>3. Append(<<>>, c) = <<c>>
  OBVIOUS
<1>4. execs' = [execs EXCEPT ![t] = <<c>>]
  BY <1>1, <1>3 DEF Append1
<1>5. <<c>> \in Seq(CallRecord) /\ Len(<<c>>) = 1 /\ <<c>>[1] = c /\ <<c>> # <<>>
  OBVIOUS
<1>6. execs'[t] = <<c>> /\ \A u \in Task \ {t} : execs'[u] = execs[u]
  BY <1>2, <1>4
<1>7. execs' \in [Task -> Seq(CallRecord)]
  BY <1>2, <1>4, <1>5
<1>8. State(t)' = c.state
  BY <1>5, <1>6 DEF State
<1>9. \A u \in Task \ {t} : State(u)' = State(u)
  BY <1>6 DEF State
<1>10. \A u \in Task : Len(execs'[u]) <= 1
  <2>1. \A u \in Task \ {t} : Len(execs'[u]) <= 1
    BY <1>2, <1>6
  <2>2. Len(execs'[t]) = 1 /\ 1 <= 1
    BY <1>5, <1>6
  <2>3. Len(execs'[t]) <= 1
    BY <2>2
  <2> QED BY <2>1, <2>3
<1> QED BY <1>5, <1>6, <1>7, <1>8, <1>9, <1>10

-----------------------------------------------------------------------------
(* The calls of consumePending_ and the locks it asks for.                 *)

(* What a call of consumePending_ leaves on an empty stack.                *)
LEMMA FramePushed ==
    ASSUME NEW f \in Frame
    PROVE  /\ <<f>> \o <<>> = <<f>> /\ <<f>> # <<>> /\ <<f>>[1] = f
           /\ <<f>> \in Seq(Frame) /\ Len(<<f>>) <= 1
<1>1. <<f>> \in Seq(Frame) /\ Len(<<f>>) = 1 /\ <<f>>[1] = f /\ <<f>> # <<>>
  OBVIOUS
<1>2. <<f>> \o <<>> = <<f>>
  BY <1>1, ConcatEmptySeq
<1>3. 1 <= 1
  OBVIOUS
<1> QED BY <1>1, <1>2, <1>3

(* A visit takes one task off the copy of the queue.                       *)
LEMMA FrameVisited ==
    ASSUME TypeInv, QueueInv, NEW t \in Task, Visiting(t)
    PROVE  /\ Visited \in Seq(Frame) /\ Len(Visited) <= 1 /\ Visited # <<>>
           /\ Visited[1].caller = stack[1].caller
           /\ Distinct(Visited[1].todo)
           /\ t \in ToSet(queue) /\ t \notin ToSet(Visited[1].todo)
           /\ ToSet(Visited[1].todo) \subseteq ToSet(queue)
<1>1. stack \in Seq(Frame) /\ Len(stack) <= 1 /\ stack # <<>>
  BY DEF TypeInv, Visiting
<1>2. Len(stack) = 1 /\ stack[1] \in Frame
  BY <1>1, OneElement
<1> DEFINE f == [stack[1] EXCEPT !.todo = Tail(@)]
<1>3. /\ stack[1].todo \in Seq(Task) /\ stack[1].todo # <<>>
      /\ Distinct(stack[1].todo) /\ ToSet(stack[1].todo) \subseteq ToSet(queue)
      /\ t = Head(stack[1].todo)
  BY <1>1, <1>2 DEF Frame, QueueInv, Visiting
<1>4. /\ t \in ToSet(stack[1].todo) /\ Tail(stack[1].todo) \in Seq(Task)
      /\ Distinct(Tail(stack[1].todo))
      /\ ToSet(Tail(stack[1].todo)) = ToSet(stack[1].todo) \ {t}
  BY <1>3, TailIsTheRest
<1>5. f \in Frame /\ f.todo = Tail(stack[1].todo) /\ f.caller = stack[1].caller
  BY <1>2, <1>4 DEF Frame
<1>6. Visited = [stack EXCEPT ![1] = f]
  BY DEF Visited
<1> HIDE DEF f
<1>7. Visited \in Seq(Frame) /\ Len(Visited) = 1 /\ Visited[1] = f
  BY <1>1, <1>2, <1>5, <1>6, ExceptSeq
<1>8. Visited # <<>> /\ 1 <= 1
  BY <1>7
<1> QED BY <1>3, <1>4, <1>5, <1>7, <1>8

(* A reservation leaves the lock table as it should be.                    *)
LEMMA ReservedKeeps ==
    ASSUME AllOK(lockTable), NEW t \in Task
    PROVE  /\ AllOK(Reserved(t))
           /\ \A u \in Task : Holds(lockTable, u, Scope[u], SecondLock(u)) =>
                                 Holds(Reserved(t), u, Scope[u], SecondLock(u))
<1>1. /\ Scope[t] \in SUBSET Table /\ \A u \in Task : Scope[u] \in SUBSET Table
      /\ FirstLock(t) \in {"RESERVED_READ_ONLY", "RESERVED_READ_WRITE"}
      /\ FirstLock(t) \in LockType
  BY PlansAreTyped DEF FirstLock, LockType
<1> QED BY <1>1, RequestOK, ReserveKeepsHolds DEF Reserved

(* A task that acquires both locks holds the second on its whole scope,    *)
(* and nobody held a lock there that excludes it.                          *)
LEMMA AcquiredHolds ==
    ASSUME AllOK(lockTable), NEW t \in Task, Acquires(t)
    PROVE  /\ AllOK(Acquired(t))
           /\ Holds(Acquired(t), t, Scope[t], SecondLock(t))
           /\ \A u \in Task : Holds(lockTable, u, Scope[u], SecondLock(u)) =>
                                 Holds(Acquired(t), u, Scope[u], SecondLock(u))
<1>1. /\ Scope[t] \in SUBSET Table /\ \A u \in Task : Scope[u] \in SUBSET Table
      /\ \A u \in Task : SecondLock(u) \in {"SHARED", "EXCLUSIVE"}
      /\ SecondLock(t) \in LockType
  BY PlansAreTyped DEF SecondLock, LockType
<1>2. /\ AllOK(Reserved(t))
      /\ \A u \in Task : Holds(lockTable, u, Scope[u], SecondLock(u)) =>
                            Holds(Reserved(t), u, Scope[u], SecondLock(u))
  BY ReservedKeeps
<1>3. CanAcquireLock(Reserved(t), t, Scope[t], SecondLock(t))
  BY DEF Acquires
<1>4. Acquired(t) = Request(Reserved(t), t, Scope[t], SecondLock(t))
  BY <1>3 DEF Acquired, Request
<1>5. AllOK(Acquired(t))
  BY <1>1, <1>2, <1>4, RequestOK
<1>6. /\ Holds(Acquired(t), t, Scope[t], SecondLock(t))
      /\ \A u \in Task : Holds(Reserved(t), u, Scope[u], SecondLock(u)) =>
                            Holds(Acquired(t), u, Scope[u], SecondLock(u))
  BY <1>1, <1>2, <1>3, GrantHolds DEF Acquired
<1> QED BY <1>2, <1>5, <1>6

-----------------------------------------------------------------------------
(* Each kind of step keeps the invariant.                                  *)

(* scheduleTask, called by a user or by a task that has committed.         *)
LEMMA ScheduleKeeps ==
    ASSUME Control, NEW t \in Task, outcome[t] = "new", stack = <<>>,
           NEW caller \in {Nil} \cup (Task \X {1}),
           ScheduleTask(t, lockTable, queue, stack, caller), UNCHANGED execs,
           caller = Nil => Kind[t] # "observer",
           caller # Nil => \E w \in DOMAIN ObserverOf :
               /\ caller = <<w, 1>> /\ t = ObserverOf[w] /\ State(w) = "running"
               /\ Len(execs[w][1].results) = Len(PlansOf[w])
    PROVE  Control'
<1> USE DEF Control
<1> DEFINE f == [todo |-> queue', caller |-> caller]
<1>1. queue' = Insert(queue, t) /\ stack' = <<f>> \o <<>> /\ outcome' = [outcome EXCEPT ![t] = "pending"]
  BY DEF ScheduleTask
<1>2. State(t) = "none" /\ t \notin ToSet(queue)
  BY DEF CallInv, QueueInv
<1>3. queue \in Seq(Task) /\ Distinct(queue)
  BY DEF TypeInv, QueueInv
<1>4. queue' \in Seq(Task) /\ ToSet(queue') = ToSet(queue) \cup {t} /\ Distinct(queue')
  <2>1. /\ Insert(queue, t) \in Seq(Task)
        /\ ToSet(Insert(queue, t)) = ToSet(queue) \cup {t}
        /\ Distinct(queue) /\ t \notin ToSet(queue) => Distinct(Insert(queue, t))
    BY <1>3, InsertAdds
  <2>2. (Distinct(queue))' <=> Distinct(Insert(queue, t))
    BY <1>1 DEF Distinct
  <2>3. (ToSet(queue))' = ToSet(Insert(queue, t))
    BY <1>1 DEF ToSet
  <2> QED BY <1>1, <1>2, <1>3, <2>1, <2>2, <2>3
<1>5. f \in Frame
  BY <1>4 DEF Frame
<1> HIDE DEF f
<1>6. stack' = <<f>> /\ stack' # <<>> /\ stack'[1] = f /\ stack' \in Seq(Frame) /\ Len(stack') <= 1
  BY <1>1, <1>5, FramePushed
<1>7. stack'[1].todo = queue' /\ stack'[1].caller = caller
  BY <1>6 DEF f
<1>8. \A u \in Task : State(u)' = State(u)
  BY DEF State
<1>9. /\ outcome' \in [Task -> {"new", "pending", "resolved", "rejected"}]
      /\ outcome'[t] = "pending" /\ \A u \in Task \ {t} : outcome'[u] = outcome[u]
  BY <1>1 DEF TypeInv
<1>10. /\ AllOK(lockTable')
       /\ \A u \in Task : Holds(lockTable, u, Scope[u], SecondLock(u)) =>
                             Holds(lockTable', u, Scope[u], SecondLock(u))
  <2>1. Scope[t] \in SUBSET Table /\ \A u \in Task : Scope[u] \in SUBSET Table
    BY PlansAreTyped
  <2>2. AllOK(lockTable)
    BY DEF TypeInv
  <2>3. CASE lockTable' = lockTable
    BY <2>2, <2>3
  <2>4. CASE lockTable' = ClearReserved(lockTable, Scope[t])
    BY <2>1, <2>2, <2>4, ClearReservedOK, ClearKeepsHolds
  <2> QED BY <2>3, <2>4 DEF ScheduleTask
<1>11. TypeInv'
  BY <1>4, <1>6, <1>9, <1>10 DEF TypeInv
<1>12. QueueInv'
  <2>1. \A u \in ToSet(queue') : u \in Task
    BY <1>4 DEF ToSet
  <2>2. \A u \in ToSet(queue') : State(u)' = "none" /\ outcome'[u] = "pending"
    BY <1>2, <1>4, <1>8, <1>9, <2>1 DEF QueueInv
  <2> QED BY <1>4, <1>6, <1>7, <2>2 DEF QueueInv
<1>13. CallInv'
  BY <1>2, <1>8, <1>9 DEF CallInv
<1>14. NotifyInv'
  <2>1. ASSUME NEW w \in Task, Notifying(w)'
        PROVE  /\ w \in DOMAIN ObserverOf /\ State(w)' = "running"
               /\ Len(execs'[w][1].results) = Len(PlansOf[w])
    <3>1. caller = <<w, 1>>
      BY <1>7, <2>1 DEF Notifying
    <3>2. caller # Nil
      BY <3>1, RunnerAssumption
    <3> QED BY <1>8, <3>1, <3>2
  <2>2. ASSUME NEW w \in DOMAIN ObserverOf, State(w)' \in {"none", "running"}, ~Notifying(w)'
        PROVE  outcome'[ObserverOf[w]] = "new"
    <3>1. w \in Task /\ ObserverOf[w] \in Task /\ Kind[ObserverOf[w]] = "observer"
      BY NotifiersAreTyped
    <3>2. outcome[ObserverOf[w]] = "new"
      BY <1>8, <2>2, <3>1 DEF NotifyInv, Notifying
    <3>3. ObserverOf[w] # t
      <4>1. CASE caller = Nil
        BY <3>1, <4>1
      <4>2. CASE caller # Nil
        <5>1. PICK v \in DOMAIN ObserverOf : caller = <<v, 1>> /\ t = ObserverOf[v]
          BY <4>2
        <5>2. v # w
          BY <1>6, <1>7, <2>2, <5>1 DEF Notifying
        <5> QED BY <5>1, <5>2, NotifiersAreTyped
      <4> QED BY <4>1, <4>2
    <3> QED BY <1>9, <3>1, <3>2, <3>3
  <2> QED BY <2>1, <2>2 DEF NotifyInv
<1>15. HoldInv'
  <2>1. ASSUME NEW u \in Task, State(u)' \in Unfinished
        PROVE  Holds(lockTable', u, Scope[u], SecondLock(u))
    BY <1>8, <1>10, <2>1 DEF HoldInv
  <2> QED BY <2>1 DEF HoldInv
<1> QED BY <1>11, <1>12, <1>13, <1>14, <1>15

(* A task that cannot be executed yet is passed over.                      *)
LEMMA PassOverKeeps ==
    ASSUME Control, NEW t \in Task, PassOver(t)
    PROVE  /\ Control'
           /\ \A u \in Task : State(u)' = State(u) /\ (Notifying(u)' <=> Notifying(u))
<1> USE DEF Control
<1>1. Visiting(t) /\ lockTable' = Reserved(t) /\ stack' = Visited /\ UNCHANGED <<queue, execs, outcome>>
  BY DEF PassOver
<1>2. /\ stack' \in Seq(Frame) /\ Len(stack') <= 1 /\ stack' # <<>> /\ stack # <<>>
      /\ stack'[1].caller = stack[1].caller /\ Distinct(stack'[1].todo)
      /\ ToSet(stack'[1].todo) \subseteq ToSet(queue)
  BY <1>1, FrameVisited DEF Visiting
<1>3. /\ AllOK(lockTable')
      /\ \A u \in Task : Holds(lockTable, u, Scope[u], SecondLock(u)) =>
                            Holds(lockTable', u, Scope[u], SecondLock(u))
  BY <1>1, ReservedKeeps DEF TypeInv
<1>4. \A u \in Task : State(u)' = State(u) /\ (Notifying(u)' <=> Notifying(u))
  BY <1>1, <1>2 DEF State, Notifying
<1>5. TypeInv'
  BY <1>1, <1>2, <1>3 DEF TypeInv
<1>6. QueueInv'
  <2>1. \A u \in ToSet(queue) : u \in Task
    BY DEF ToSet, TypeInv
  <2> QED BY <1>1, <1>2, <1>4, <2>1 DEF QueueInv
<1>7. CallInv'
  BY <1>1, <1>4 DEF CallInv
<1>8. NotifyInv'
  <2>1. \A w \in DOMAIN ObserverOf : w \in Task
    BY NotifiersAreTyped
  <2> QED BY <1>1, <1>4, <2>1 DEF NotifyInv
<1>9. HoldInv'
  <2>1. ASSUME NEW u \in Task, State(u)' \in Unfinished
        PROVE  Holds(lockTable', u, Scope[u], SecondLock(u))
    BY <1>3, <1>4, <2>1 DEF HoldInv
  <2> QED BY <2>1 DEF HoldInv
<1> QED BY <1>4, <1>5, <1>6, <1>7, <1>8, <1>9

(* A task leaves the queue and its exec() is called with all locks held.   *)
LEMMA StartsKeeps ==
    ASSUME Control, NEW t \in Task, Visiting(t), Acquires(t),
           NEW call \in CallRecord, call.state \in {"running", "ok"},
           Starts(t, call)
    PROVE  /\ Control' /\ State(t) = "none" /\ outcome[t] = "pending"
           /\ State(t)' = call.state /\ execs'[t][1] = call
           /\ \A u \in Task \ {t} : State(u)' = State(u) /\ execs'[u] = execs[u]
           /\ \A u \in Task : Notifying(u)' <=> Notifying(u)
<1> USE DEF Control
<1>1. /\ lockTable' = Acquired(t) /\ queue' = RemoveFirst(queue, t) /\ stack' = Visited
      /\ execs' = Append1(t, call) /\ UNCHANGED outcome
  BY DEF Starts, Unqueued
<1>2. /\ stack' \in Seq(Frame) /\ Len(stack') <= 1 /\ stack' # <<>> /\ stack # <<>>
      /\ stack'[1].caller = stack[1].caller /\ Distinct(stack'[1].todo)
      /\ t \in ToSet(queue) /\ t \notin ToSet(stack'[1].todo)
      /\ ToSet(stack'[1].todo) \subseteq ToSet(queue)
  BY <1>1, FrameVisited DEF Visiting
<1>3. queue' \in Seq(Task) /\ Distinct(queue)' /\ ToSet(queue)' = ToSet(queue) \ {t}
  <2>1. queue \in Seq(Task) /\ Distinct(queue)
    BY DEF TypeInv, QueueInv
  <2>2. /\ RemoveFirst(queue, t) \in Seq(Task) /\ Distinct(RemoveFirst(queue, t))
        /\ ToSet(RemoveFirst(queue, t)) = ToSet(queue) \ {t}
    BY <1>2, <2>1, RemoveTakesOut
  <2>3. (Distinct(queue))' <=> Distinct(RemoveFirst(queue, t))
    BY <1>1 DEF Distinct
  <2>4. (ToSet(queue))' = ToSet(RemoveFirst(queue, t))
    BY <1>1 DEF ToSet
  <2> QED BY <1>1, <2>2, <2>3, <2>4
<1>4. /\ AllOK(lockTable')
      /\ Holds(lockTable', t, Scope[t], SecondLock(t))
      /\ \A u \in Task : Holds(lockTable, u, Scope[u], SecondLock(u)) =>
                            Holds(lockTable', u, Scope[u], SecondLock(u))
  BY <1>1, AcquiredHolds DEF TypeInv
<1>5. State(t) = "none" /\ outcome[t] = "pending"
  BY <1>2 DEF QueueInv
<1>6. /\ execs' \in [Task -> Seq(CallRecord)] /\ \A u \in Task : Len(execs'[u]) <= 1
      /\ State(t)' = call.state /\ execs'[t][1] = call
      /\ \A u \in Task \ {t} : State(u)' = State(u) /\ execs'[u] = execs[u]
  BY <1>1, <1>5, CallAppended
<1>7. \A u \in Task : Notifying(u)' <=> Notifying(u)
  BY <1>2 DEF Notifying
<1>8. TypeInv'
  BY <1>1, <1>2, <1>3, <1>4, <1>6 DEF TypeInv
<1>9. QueueInv'
  <2>1. \A u \in ToSet(queue) : u \in Task
    BY DEF ToSet, TypeInv
  <2>2. \A u \in ToSet(queue)' : State(u)' = "none" /\ outcome'[u] = "pending"
    BY <1>1, <1>3, <1>6, <2>1 DEF QueueInv
  <2>3. ToSet(stack'[1].todo) \subseteq ToSet(queue)'
    BY <1>2, <1>3
  <2> QED BY <1>2, <1>3, <2>2, <2>3 DEF QueueInv
<1>10. CallInv'
  BY <1>1, <1>5, <1>6 DEF CallInv
<1>11. NotifyInv'
  <2>1. ASSUME NEW w \in Task, Notifying(w)'
        PROVE  /\ w \in DOMAIN ObserverOf /\ State(w)' = "running"
               /\ Len(execs'[w][1].results) = Len(PlansOf[w])
    <3>1. Notifying(w)
      BY <1>7, <2>1
    <3>2. w # t
      BY <1>5, <3>1 DEF NotifyInv
    <3> QED BY <1>6, <3>1, <3>2 DEF NotifyInv
  <2>2. ASSUME NEW w \in DOMAIN ObserverOf, State(w)' \in {"none", "running"}, ~Notifying(w)'
        PROVE  outcome'[ObserverOf[w]] = "new"
    <3>1. w \in Task /\ ~Notifying(w)
      BY <1>7, <2>2, NotifiersAreTyped
    <3>2. State(w) \in {"none", "running"}
      BY <1>5, <1>6, <2>2, <3>1
    <3> QED BY <1>1, <2>2, <3>1, <3>2 DEF NotifyInv
  <2> QED BY <2>1, <2>2 DEF NotifyInv
<1>12. HoldInv'
  <2>1. ASSUME NEW u \in Task, State(u)' \in Unfinished
        PROVE  Holds(lockTable', u, Scope[u], SecondLock(u))
    <3>1. CASE u = t
      BY <1>4, <3>1
    <3>2. CASE u # t
      BY <1>4, <1>6, <2>1, <3>2 DEF HoldInv
    <3> QED BY <3>1, <3>2
  <2> QED BY <2>1 DEF HoldInv
<1> QED BY <1>5, <1>6, <1>7, <1>8, <1>9, <1>10, <1>11, <1>12

(* A promise callback of a running task: its call goes on or settles.      *)
LEMMA ProgressKeeps ==
    ASSUME Control, NEW t \in Task, stack = <<>>, State(t) = "running",
           State(t)' \in {"running", "ok", "failed"},
           execs' \in [Task -> Seq(CallRecord)], \A u \in Task : Len(execs'[u]) <= 1,
           \A u \in Task \ {t} : State(u)' = State(u) /\ execs'[u] = execs[u],
           UNCHANGED <<lockTable, queue, stack, outcome>>
    PROVE  Control'
<1> USE DEF Control
<1>1. \A u \in Task : ~Notifying(u) /\ ~Notifying(u)'
  BY DEF Notifying
<1>2. TypeInv'
  BY DEF TypeInv
<1>3. QueueInv'
  <2>1. \A u \in ToSet(queue) : u \in Task /\ State(u) = "none"
    BY DEF ToSet, TypeInv, QueueInv
  <2>2. \A u \in ToSet(queue) : State(u)' = "none"
    BY <2>1
  <2> QED BY <2>2 DEF QueueInv
<1>4. CallInv'
  <2>1. \A u \in Task \ {t} : State(u)' = State(u) /\ outcome'[u] = outcome[u]
    OBVIOUS
  <2>2. outcome[t] = "pending" /\ outcome'[t] = "pending"
    BY DEF CallInv, TypeInv
  <2> QED BY <2>1, <2>2 DEF CallInv
<1>5. NotifyInv'
  <2>1. ASSUME NEW w \in DOMAIN ObserverOf, State(w)' \in {"none", "running"}
        PROVE  outcome'[ObserverOf[w]] = "new"
    <3>1. w \in Task
      BY NotifiersAreTyped
    <3>2. State(w) \in {"none", "running"}
      BY <2>1, <3>1
    <3> QED BY <1>1, <3>1, <3>2 DEF NotifyInv
  <2> QED BY <1>1, <2>1 DEF NotifyInv
<1>6. HoldInv'
  <2>1. ASSUME NEW u \in Task, State(u)' \in Unfinished
        PROVE  Holds(lockTable', u, Scope[u], SecondLock(u))
    <3>1. State(u) \in Unfinished
      BY <2>1 DEF Unfinished
    <3> QED BY <3>1 DEF HoldInv
  <2> QED BY <2>1 DEF HoldInv
<1> QED BY <1>2, <1>3, <1>4, <1>5, <1>6

(* While a task schedules its observer task, no other task can lock the    *)
(* whole database: the task still has its own locks.                       *)
LEMMA NobodyInterrupted ==
    ASSUME Control, NEW t \in Task, Visiting(t), Acquires(t), Kind[t] = "import"
    PROVE  Interrupted = {} /\ \A u \in Task : State(u) \notin Unfinished
<1> USE DEF Control
<1>1. Scope[t] = Table /\ SecondLock(t) = "EXCLUSIVE"
  BY WholeDatabase DEF SecondLock, ReadOnly
<1>2. \A d \in Table : Reserved(t)[d].exclusive = Nil /\ Reserved(t)[d].shared = {}
  BY <1>1 DEF Acquires, CanAcquireLock, CanLock
<1>3. ASSUME NEW u \in Task, State(u) \in Unfinished PROVE FALSE
  <2>1. Holds(Reserved(t), u, Scope[u], SecondLock(u))
    BY <1>3, ReservedKeeps DEF HoldInv, TypeInv
  <2>2. PICK d \in Scope[u] : d \in Table
    BY PlansAreTyped
  <2>3. u # Nil
    BY NilAssumption
  <2> QED BY <1>2, <2>1, <2>2, <2>3 DEF Holds
<1>4. ASSUME NEW i \in DOMAIN stack PROVE stack[i].caller = Nil
  <2>1. stack \in Seq(Frame) /\ stack # <<>> /\ Len(stack) <= 1
    BY DEF TypeInv, Visiting
  <2>2. i = 1 /\ stack[1] \in Frame
    BY <2>1, OneElement
  <2>3. ASSUME stack[1].caller # Nil PROVE FALSE
    <3>1. PICK w \in Task : stack[1].caller = <<w, 1>>
      BY <2>2, <2>3 DEF Frame
    <3>2. Notifying(w)
      BY <2>1, <3>1 DEF Notifying
    <3>3. State(w) = "running"
      BY <3>2 DEF NotifyInv
    <3> QED BY <1>3, <3>3 DEF Unfinished
  <2> QED BY <2>2, <2>3
<1> QED BY <1>3, <1>4 DEF Interrupted

(* An exec() that throws, which is an import's.                            *)
LEMMA ThrowsKeeps ==
    ASSUME Control, NoReentry, NEW t \in Task, Visiting(t), Acquires(t), ExecThrows(t)
    PROVE  /\ Control' /\ Kind[t] = "import" /\ State(t) = "none" /\ State(t)' = "lost"
           /\ \A u \in Task \ {t} : State(u)' = State(u) /\ execs'[u] = execs[u]
           /\ \A u \in Task : State(u) \notin Unfinished /\ ~Notifying(u) /\ ~Notifying(u)'
           /\ UNCHANGED <<outcome, committed>>
<1> USE DEF Control
<1>1. Kind[t] = "import"
  BY DEF ExecThrows, NoReentry
<1>2. Interrupted = {} /\ \A u \in Task : State(u) \notin Unfinished
  BY <1>1, NobodyInterrupted
<1> DEFINE call == Call("lost", <<>>, <<>>)
           calls == Append1(t, call)
<1>3. call \in CallRecord /\ call.state = "lost"
  <2>1. <<>> \in Seq(Partial)
    OBVIOUS
  <2>2. <<>> \in Partial
    <3>1. <<>> \in [{} -> Holder] /\ {} \in SUBSET Table
      OBVIOUS
    <3> QED BY <3>1 DEF Partial
  <2> QED BY <2>1, <2>2 DEF Call, CallRecord, CallState
<1>4. State(t) = "none"
  BY FrameVisited DEF QueueInv
<1> HIDE DEF call
<1>5. calls \in [Task -> Seq(CallRecord)]
  BY <1>3, <1>4, OneCall DEF Append1, TypeInv
<1>6. execs' = calls
  <2>1. execs' = [u \in Task |-> [n \in DOMAIN calls[u] |-> calls[u][n]]]
    BY <1>2 DEF ExecThrows, call
  <2>2. \A u \in Task : [n \in DOMAIN calls[u] |-> calls[u][n]] = calls[u]
    <3> SUFFICES ASSUME NEW u \in Task
                 PROVE  [n \in DOMAIN calls[u] |-> calls[u][n]] = calls[u]
      OBVIOUS
    <3>1. calls[u] \in Seq(CallRecord)
      BY <1>5
    <3> QED BY <3>1
  <2> QED BY <1>5, <2>1, <2>2
<1>7. /\ execs' \in [Task -> Seq(CallRecord)] /\ \A u \in Task : Len(execs'[u]) <= 1
      /\ State(t)' = "lost"
      /\ \A u \in Task \ {t} : State(u)' = State(u) /\ execs'[u] = execs[u]
  BY <1>3, <1>4, <1>6, CallAppended
<1>8. /\ lockTable' = Acquired(t) /\ queue' = RemoveFirst(queue, t)
      /\ stack' = <<>> /\ UNCHANGED outcome
  BY DEF ExecThrows, Unqueued
<1>9. queue' \in Seq(Task) /\ Distinct(queue)' /\ ToSet(queue)' = ToSet(queue) \ {t}
  <2>1. queue \in Seq(Task) /\ Distinct(queue) /\ t \in ToSet(queue)
    BY FrameVisited DEF TypeInv, QueueInv
  <2>2. /\ RemoveFirst(queue, t) \in Seq(Task) /\ Distinct(RemoveFirst(queue, t))
        /\ ToSet(RemoveFirst(queue, t)) = ToSet(queue) \ {t}
    BY <2>1, RemoveTakesOut
  <2>3. (Distinct(queue))' <=> Distinct(RemoveFirst(queue, t))
    BY <1>8 DEF Distinct
  <2>4. (ToSet(queue))' = ToSet(RemoveFirst(queue, t))
    BY <1>8 DEF ToSet
  <2> QED BY <1>8, <2>2, <2>3, <2>4
<1>10. /\ AllOK(lockTable')
       /\ Holds(lockTable', t, Scope[t], SecondLock(t))
  BY <1>8, AcquiredHolds DEF TypeInv
<1>11. TypeInv'
  <2>1. <<>> \in Seq(Frame) /\ Len(<<>>) = 0 /\ 0 <= 1
    OBVIOUS
  <2>2. stack' \in Seq(Frame) /\ Len(stack') <= 1
    BY <1>8, <2>1
  <2> QED BY <1>7, <1>8, <1>9, <1>10, <2>2 DEF TypeInv
<1>12. QueueInv'
  <2>1. \A u \in ToSet(queue) : u \in Task
    BY DEF ToSet, TypeInv
  <2>2. \A u \in ToSet(queue)' : State(u)' = "none" /\ outcome'[u] = "pending"
    BY <1>7, <1>8, <1>9, <2>1 DEF QueueInv
  <2> QED BY <1>8, <1>9, <2>2 DEF QueueInv
<1>13. CallInv'
  <2>1. outcome[t] = "pending"
    BY FrameVisited DEF QueueInv
  <2> QED BY <1>4, <1>7, <1>8, <2>1 DEF CallInv
<1>14. NotifyInv'
  <2>1. \A w \in Task : ~Notifying(w)'
    BY <1>8 DEF Notifying
  <2>2. ASSUME NEW w \in DOMAIN ObserverOf, State(w)' \in {"none", "running"}
        PROVE  outcome'[ObserverOf[w]] = "new"
    <3>1. w \in Task /\ w # t
      BY <1>1, NotifiersAreTyped
    <3>2. State(w) \in {"none", "running"} /\ ~Notifying(w)
      BY <1>2, <1>7, <2>2, <3>1 DEF NotifyInv, Unfinished
    <3> QED BY <1>8, <3>1, <3>2 DEF NotifyInv
  <2> QED BY <2>1, <2>2 DEF NotifyInv
<1>15. HoldInv'
  <2>1. ASSUME NEW u \in Task, State(u)' \in Unfinished
        PROVE  Holds(lockTable', u, Scope[u], SecondLock(u))
    <3>1. u = t
      BY <1>2, <1>7, <2>1
    <3> QED BY <1>10, <3>1
  <2> QED BY <2>1 DEF HoldInv
<1>16. \A u \in Task : State(u) \notin Unfinished /\ ~Notifying(u) /\ ~Notifying(u)'
  BY <1>2, <1>8 DEF Notifying, NotifyInv, Unfinished
<1>17. UNCHANGED <<outcome, committed>>
  BY DEF ExecThrows
<1> QED BY <1>16, <1>17, <1>1, <1>4, <1>7, <1>11, <1>12, <1>13, <1>14, <1>15

(* consumePending_ returns, to the task that has scheduled its observer.   *)
LEMMA ReturnKeeps ==
    ASSUME Control, Return
    PROVE  /\ Control'
           /\ \A u \in Task : Notifying(u) => State(u) = "running" /\ State(u)' = "ok"
                                              /\ execs'[u][1] = [execs[u][1] EXCEPT !.state = "ok"]
           /\ \A u \in Task : ~Notifying(u) => State(u)' = State(u) /\ execs'[u] = execs[u]
           /\ \A u \in Task : ~Notifying(u)'
<1> USE DEF Control
<1>1. stack # <<>> /\ stack' = Tail(stack) /\ UNCHANGED <<lockTable, queue, outcome>>
  BY DEF Return
<1>2. stack' = <<>>
  <2>1. stack \in Seq(Frame) /\ Len(stack) = 1
    BY <1>1, OneElement DEF TypeInv
  <2>2. Tail(stack) \in Seq(Frame) /\ Len(Tail(stack)) = 0
    BY <2>1
  <2> QED BY <1>1, <2>2, EmptySeq
<1>3. /\ execs' \in [Task -> Seq(CallRecord)] /\ \A u \in Task : Len(execs'[u]) <= 1
      /\ \A u \in Task : Notifying(u) => State(u) = "running" /\ State(u)' = "ok"
                                         /\ execs'[u][1] = [execs[u][1] EXCEPT !.state = "ok"]
      /\ \A u \in Task : ~Notifying(u) => State(u)' = State(u) /\ execs'[u] = execs[u]
  <2>1. CASE stack[1].caller = Nil
    <3>1. \A u \in Task : ~Notifying(u)
      BY <2>1, RunnerAssumption DEF Notifying
    <3>2. execs' = execs
      BY <2>1 DEF Return
    <3> QED BY <3>1, <3>2 DEF State, TypeInv
  <2>2. CASE stack[1].caller # Nil
    <3>1. stack[1] \in Frame
      BY <1>1, OneElement DEF TypeInv
    <3>2. PICK w \in Task : stack[1].caller = <<w, 1>>
      BY <2>2, <3>1 DEF Frame
    <3>3. Notifying(w) /\ \A u \in Task \ {w} : ~Notifying(u)
      BY <1>1, <3>2 DEF Notifying
    <3>4. State(w) = "running" /\ execs' = SetState(w, 1, "ok")
      BY <2>2, <3>2, <3>3 DEF NotifyInv, Return
    <3>5. /\ execs' \in [Task -> Seq(CallRecord)] /\ \A u \in Task : Len(execs'[u]) <= 1
          /\ State(w)' = "ok"
          /\ execs'[w][1] = [execs[w][1] EXCEPT !.state = "ok"]
          /\ \A u \in Task \ {w} : State(u)' = State(u) /\ execs'[u] = execs[u]
      <4>1. "ok" \in CallState
        BY DEF CallState
      <4> QED BY <3>4, <4>1, StateSet
    <3> QED BY <3>3, <3>4, <3>5
  <2> QED BY <2>1, <2>2
<1>4. \A u \in Task : ~Notifying(u)'
  BY <1>2 DEF Notifying
<1>5. TypeInv'
  <2>1. <<>> \in Seq(Frame) /\ Len(<<>>) = 0 /\ 0 <= 1
    OBVIOUS
  <2>2. stack' \in Seq(Frame) /\ Len(stack') <= 1
    BY <1>2, <2>1
  <2> QED BY <1>1, <1>3, <2>2 DEF TypeInv
<1>6. QueueInv'
  <2>1. \A u \in ToSet(queue) : u \in Task /\ State(u) = "none" /\ ~Notifying(u)
    BY DEF ToSet, TypeInv, QueueInv, NotifyInv
  <2>2. \A u \in ToSet(queue) : State(u)' = "none"
    BY <1>3, <2>1
  <2> QED BY <1>1, <1>2, <2>2 DEF QueueInv
<1>7. CallInv'
  BY <1>1, <1>3 DEF CallInv
<1>8. NotifyInv'
  <2>1. ASSUME NEW w \in DOMAIN ObserverOf, State(w)' \in {"none", "running"}
        PROVE  outcome'[ObserverOf[w]] = "new"
    <3>1. w \in Task
      BY NotifiersAreTyped
    <3>2. ~Notifying(w) /\ State(w) \in {"none", "running"}
      BY <1>3, <2>1, <3>1
    <3> QED BY <1>1, <3>1, <3>2 DEF NotifyInv
  <2> QED BY <1>4, <2>1 DEF NotifyInv
<1>9. HoldInv'
  <2>1. ASSUME NEW u \in Task, State(u)' \in Unfinished
        PROVE  Holds(lockTable', u, Scope[u], SecondLock(u))
    <3>1. State(u) \in Unfinished
      BY <1>3, <2>1 DEF Unfinished
    <3> QED BY <1>1, <3>1 DEF HoldInv
  <2> QED BY <2>1 DEF HoldInv
<1> QED BY <1>3, <1>4, <1>5, <1>6, <1>7, <1>8, <1>9

(* The runner is told that a call settled; the task's locks are released.  *)
LEMMA FinishKeeps ==
    ASSUME Control, NEW t \in Task, NEW n \in DOMAIN execs[t], Finish(t, n)
    PROVE  /\ Control' /\ n = 1 /\ State(t) \in {"ok", "failed"} /\ State(t)' = "done"
           /\ outcome[t] = "pending"
           /\ outcome'[t] = IF State(t) = "ok" THEN "resolved" ELSE "rejected"
           /\ \A u \in Task \ {t} : /\ State(u)' = State(u) /\ execs'[u] = execs[u]
                                    /\ outcome'[u] = outcome[u]
           /\ execs'[t][1] = [execs[t][1] EXCEPT !.state = "done"]
           /\ \A u \in Task : ~Notifying(u) /\ ~Notifying(u)'
<1> USE DEF Control
<1>1. n = 1 /\ State(t) # "none" /\ State(t) = execs[t][1].state
  BY OneCall
<1>2. State(t) \in {"ok", "failed"} /\ stack = <<>>
  BY <1>1 DEF Finish, Idle
<1>3. /\ execs' \in [Task -> Seq(CallRecord)] /\ \A u \in Task : Len(execs'[u]) <= 1
      /\ State(t)' = "done"
      /\ execs'[t][1] = [execs[t][1] EXCEPT !.state = "done"]
      /\ \A u \in Task \ {t} : State(u)' = State(u) /\ execs'[u] = execs[u]
  <2>1. "done" \in CallState /\ execs' = SetState(t, 1, "done")
    BY <1>1 DEF CallState, Finish
  <2> QED BY <1>1, <2>1, StateSet
<1>4. outcome[t] = "pending"
  BY <1>2 DEF CallInv, TypeInv
<1>5. /\ outcome'[t] = IF State(t) = "ok" THEN "resolved" ELSE "rejected"
      /\ outcome' \in [Task -> {"new", "pending", "resolved", "rejected"}]
      /\ \A u \in Task \ {t} : outcome'[u] = outcome[u]
  BY <1>1, <1>4 DEF Finish, TypeInv
<1> DEFINE f == [todo |-> queue, caller |-> Nil]
<1>6. f \in Frame /\ stack' = <<f>> /\ queue' = queue
  BY DEF Finish, Frame, TypeInv
<1>7. /\ stack' \in Seq(Frame) /\ Len(stack') <= 1 /\ stack' # <<>>
      /\ stack'[1].todo = queue /\ stack'[1].caller = Nil
  <2>1. f.todo = queue /\ f.caller = Nil
    OBVIOUS
  <2> HIDE DEF f
  <2> QED BY <1>6, <2>1, FramePushed
<1>8. AllOK(lockTable')
  BY PlansAreTyped, ReleaseOK DEF Finish, TypeInv
<1>9. \A u \in Task : ~Notifying(u) /\ ~Notifying(u)'
  BY <1>2, <1>7, RunnerAssumption DEF Notifying
<1>10. TypeInv'
  BY <1>3, <1>5, <1>6, <1>7, <1>8 DEF TypeInv
<1>11. QueueInv'
  <2>1. \A u \in ToSet(queue) : u \in Task /\ u # t
    BY <1>2 DEF ToSet, TypeInv, QueueInv
  <2>2. \A u \in ToSet(queue) : State(u)' = "none" /\ outcome'[u] = "pending"
    BY <1>3, <1>5, <2>1 DEF QueueInv
  <2>3. Distinct(queue)
    BY DEF QueueInv
  <2> QED BY <1>6, <1>7, <2>2, <2>3 DEF QueueInv
<1>12. CallInv'
  BY <1>3, <1>5 DEF CallInv
<1>13. NotifyInv'
  <2>1. ASSUME NEW w \in DOMAIN ObserverOf, State(w)' \in {"none", "running"}
        PROVE  outcome'[ObserverOf[w]] = "new"
    <3>1. w \in Task /\ ObserverOf[w] \in Task /\ w # t
      BY <1>3, <2>1, NotifiersAreTyped
    <3>2. outcome[ObserverOf[w]] = "new"
      BY <1>3, <1>9, <2>1, <3>1 DEF NotifyInv
    <3> QED BY <1>4, <1>5, <3>1, <3>2
  <2> QED BY <1>9, <2>1 DEF NotifyInv
<1>14. HoldInv'
  <2>1. ASSUME NEW u \in Task, State(u)' \in Unfinished
        PROVE  Holds(lockTable', u, Scope[u], SecondLock(u))
    <3>1. u # t
      BY <1>3, <2>1 DEF Unfinished
    <3>2. Holds(lockTable, u, Scope[u], SecondLock(u))
      BY <1>3, <2>1, <3>1 DEF HoldInv
    <3>3. lockTable' = Release(lockTable, t, Scope[t])
      BY DEF Finish
    <3>4. AllOK(lockTable) /\ Scope[t] \in SUBSET Table /\ Scope[u] \in SUBSET Table
      BY PlansAreTyped DEF TypeInv
    <3> QED BY <3>1, <3>2, <3>3, <3>4, ReleaseKeepsHolds
  <2> QED BY <2>1 DEF HoldInv
<1> QED BY <1>1, <1>2, <1>3, <1>4, <1>5, <1>9, <1>10, <1>11, <1>12, <1>13, <1>14

-----------------------------------------------------------------------------
(* What tables contain.                                                    *)

(* What a reader gets, what a journal remembers and what a change or its   *)
(* rollback leaves is of the right type.                                   *)
LEMMA ContentsTyped ==
    ASSUME ContentsInv, NEW tables \in SUBSET Table
    PROVE  /\ Contents(tables) \in Partial /\ <<>> \in Partial
           /\ \A t \in Task : /\ Overwrite(cache, tables, t) \in [Table -> Holder]
                              /\ Overwrite(committed, tables, t) \in [Table -> Holder]
           /\ \A undo \in Partial : /\ Journaled(undo, tables) \in Partial
                                    /\ Undone(undo) \in [Table -> Holder]
<1> USE DEF ContentsInv
<1>1. Contents(tables) \in [tables -> Holder]
  BY DEF Contents
<1>2. <<>> \in [{} -> Holder] /\ {} \in SUBSET Table
  OBVIOUS
<1>3. \A t \in Task : /\ Overwrite(cache, tables, t) \in [Table -> Holder]
                      /\ Overwrite(committed, tables, t) \in [Table -> Holder]
  BY DEF Overwrite, Holder
<1>4. ASSUME NEW undo \in Partial
      PROVE  Journaled(undo, tables) \in Partial /\ Undone(undo) \in [Table -> Holder]
  <2>1. PICK S \in SUBSET Table : undo \in [S -> Holder]
    BY DEF Partial
  <2>2. Journaled(undo, tables) \in [S \cup tables -> Holder] /\ S \cup tables \in SUBSET Table
    BY <2>1 DEF Journaled
  <2>3. Undone(undo) \in [Table -> Holder]
    BY <2>1 DEF Undone
  <2> QED BY <2>2, <2>3 DEF Partial
<1> QED BY <1>1, <1>2, <1>3, <1>4 DEF Partial

-----------------------------------------------------------------------------
(* The actions of the runner, each of one of the kinds above.              *)

(* A call of exec() that returns: what it starts with.                     *)
LEMMA StartingCall ==
    ASSUME IInv, NoReentry, NEW t \in Task, Starting(t), ~ExecThrows(t)
    PROVE  \E call \in CallRecord : /\ call.state \in {"running", "ok"}
                                    /\ Kind[t] = "external" => call.state = "ok"
                                    /\ Len(call.results) <= Len(PlansOf[t])
                                    /\ Starts(t, call) /\ ContentsInv'
<1> USE DEF IInv
<1>1. PlansOf[t] \in Seq(Plan) /\ Scope[t] = TablesOf(PlansOf[t]) /\ Scope[t] # {}
  BY PlansAreTyped DEF Scope
<1>2. /\ <<>> \in Partial /\ Table \in SUBSET Table
      /\ \A T \in SUBSET Table : Contents(T) \in Partial
      /\ \A T \in SUBSET Table : /\ Overwrite(cache, T, t) \in [Table -> Holder]
                                 /\ Overwrite(committed, T, t) \in [Table -> Holder]
  BY ContentsTyped
<1>3. /\ \A p \in Partial : <<p>> \in Seq(Partial) /\ Len(<<p>>) = 1
      /\ <<>> \in Seq(Partial) /\ Len(<<>>) = 0
  OBVIOUS
<1>4. /\ Len(PlansOf[t]) \in Nat /\ 0 <= Len(PlansOf[t]) /\ 1 <= Len(PlansOf[t])
      /\ 1 \in DOMAIN PlansOf[t]
  <2>1. PlansOf[t] # <<>>
    BY <1>1 DEF TablesOf
  <2>2. Len(PlansOf[t]) \in Nat /\ Len(PlansOf[t]) # 0 /\ DOMAIN PlansOf[t] = 1 .. Len(PlansOf[t])
    BY <1>1, <2>1, EmptySeq
  <2>3. \A k \in Nat : k # 0 => 0 <= k /\ 1 <= k /\ 1 \in 1 .. k
    OBVIOUS
  <2> QED BY <2>2, <2>3
<1>5. CASE ExecQuery(t)
  <2> DEFINE call == Call("running", <<Contents(PlansOf[t][1].tables)>>, <<>>)
  <2>1. PlansOf[t][1].tables \in SUBSET Table
    BY <1>4, PlansAreTyped
  <2>2. call \in CallRecord /\ call.state = "running" /\ Len(call.results) = 1
    BY <1>2, <1>3, <2>1 DEF Call, CallRecord, CallState
  <2>3. Starts(t, call) /\ ContentsInv' /\ Kind[t] # "external"
    BY <1>5 DEF ExecQuery, ContentsInv
  <2> QED BY <1>4, <2>2, <2>3
<1>6. CASE ExecUpdate(t)
  <2> DEFINE call == Call("running", <<>>, <<>>)
  <2>1. call \in CallRecord /\ call.state = "running" /\ Len(call.results) = 0
    BY <1>2, <1>3 DEF Call, CallRecord, CallState
  <2>2. Starts(t, call) /\ ContentsInv' /\ Kind[t] # "external"
    BY <1>6 DEF ExecUpdate, ContentsInv
  <2> QED BY <1>4, <2>1, <2>2
<1>7. CASE ExecExport(t)
  <2> DEFINE call == Call("ok", <<Contents(Table)>>, <<>>)
  <2>1. call \in CallRecord /\ call.state = "ok" /\ Len(call.results) = 1
    BY <1>2, <1>3 DEF Call, CallRecord, CallState
  <2>2. Starts(t, call) /\ ContentsInv'
    BY <1>7 DEF ExecExport, ContentsInv
  <2> QED BY <1>4, <2>1, <2>2
<1>8. CASE ExecImport(t)
  <2> DEFINE call == Call("running", <<<<>>>>, <<>>)
  <2>1. call \in CallRecord /\ call.state = "running" /\ Len(call.results) = 1
    BY <1>2, <1>3 DEF Call, CallRecord, CallState
  <2>2. Starts(t, call) /\ ContentsInv' /\ Kind[t] # "external"
    BY <1>2, <1>8 DEF ExecImport, ContentsInv
  <2> QED BY <1>4, <2>1, <2>2
<1>9. CASE ExecExternal(t)
  <2> DEFINE call == Call("ok", <<>>, <<>>)
  <2>1. call \in CallRecord /\ call.state = "ok" /\ Len(call.results) = 0
    BY <1>2, <1>3 DEF Call, CallRecord, CallState
  <2>2. Starts(t, call)
    BY <1>9 DEF ExecExternal, NoReentry
  <2>3. ContentsInv'
    BY <1>2, <1>9, PlansAreTyped DEF ExecExternal, ContentsInv
  <2> QED BY <1>4, <2>1, <2>2, <2>3
<1> QED BY <1>5, <1>6, <1>7, <1>8, <1>9 DEF Starting

(* A running call goes on, commits, fails or is cancelled, and does not    *)
(* schedule anything.                                                      *)
LEMMA ProgressCall ==
    ASSUME IInv, NEW t \in Task, NEW n \in DOMAIN execs[t], Progress(t, n)
    PROVE  /\ n = 1 /\ stack = <<>> /\ State(t) = "running" /\ ContentsInv'
           /\ execs[t][1] \in CallRecord /\ execs[t][1].undo \in Partial
<1>1. /\ n = 1 /\ State(t) # "none" /\ State(t) = execs[t][1].state
      /\ execs[t][1] \in CallRecord
  BY OneCall DEF IInv, Control
<1>2. Running(t, n) /\ stack = <<>>
  BY DEF Progress, ExecPlan, CommitQuery, CommitUpdate, CommitImport, Fail, Rollback, Idle
<1>3. State(t) = "running"
  BY <1>1, <1>2 DEF Running
<1>4. execs[t][1].undo \in Partial /\ execs[t][1].results \in Seq(Partial)
  BY <1>1 DEF CallRecord
<1>5. \A T \in SUBSET Table : /\ Overwrite(cache, T, t) \in [Table -> Holder]
                              /\ Overwrite(committed, T, t) \in [Table -> Holder]
  BY ContentsTyped DEF IInv
<1>6. Undone(execs[t][1].undo) \in [Table -> Holder]
  BY <1>4, ContentsTyped DEF IInv
<1>7. DOMAIN execs[t][1].undo \in SUBSET Table
  BY <1>4 DEF Partial
<1>8. ContentsInv'
  <2>1. CASE ExecPlan(t, n)
    <3> DEFINE T == PlansOf[t][Len(execs[t][1].results) + 1].tables
    <3>1. cache' = cache \/ cache' = Overwrite(cache, T, t)
      BY <1>1, <2>1 DEF ExecPlan
    <3>2. Overwrite(cache, T, t) \in [Table -> Holder]
      BY DEF IInv, ContentsInv, Overwrite, Holder
    <3>3. committed' = committed
      BY <2>1 DEF ExecPlan
    <3> QED BY <3>1, <3>2, <3>3 DEF IInv, ContentsInv
  <2>2. CASE CommitQuery(t, n)
    BY <2>2 DEF CommitQuery, IInv, ContentsInv
  <2>3. CASE CommitUpdate(t, n)
    BY <1>1, <1>5, <1>7, <2>3 DEF CommitUpdate, IInv, ContentsInv
  <2>4. CASE CommitImport(t, n)
    BY <1>5, <2>4 DEF CommitImport, IInv, ContentsInv
  <2>5. CASE Fail(t, n)
    BY <1>1, <1>6, <2>5 DEF Fail, IInv, ContentsInv
  <2>6. CASE Rollback(t, n)
    BY <1>1, <1>6, <2>6 DEF Rollback, IInv, ContentsInv
  <2> QED BY <2>1, <2>2, <2>3, <2>4, <2>5, <2>6 DEF Progress
<1> QED BY <1>1, <1>2, <1>3, <1>4, <1>8


(* The next plan of a running call is executed.                            *)
LEMMA ExecPlanCall ==
    ASSUME IInv, NEW t \in Task, State(t) = "running", ExecPlan(t, 1)
    PROVE  /\ execs' \in [Task -> Seq(CallRecord)] /\ \A u \in Task : Len(execs'[u]) <= 1
           /\ State(t)' = "running"
           /\ \A u \in Task \ {t} : State(u)' = State(u) /\ execs'[u] = execs[u]
           /\ Len(execs[t][1].results) + 1 \in DOMAIN PlansOf[t]
           /\ Len(execs'[t][1].results) = Len(execs[t][1].results) + 1
           /\ Len(execs'[t][1].results) <= Len(PlansOf[t])
           /\ LET tables == PlansOf[t][Len(execs[t][1].results) + 1].tables IN
              /\ execs'[t][1].results = Append(execs[t][1].results,
                                               IF ReadOnly(t) THEN Contents(tables) ELSE <<>>)
              /\ execs'[t][1].undo = IF ReadOnly(t) THEN execs[t][1].undo
                                     ELSE Journaled(execs[t][1].undo, tables)
<1> USE DEF IInv
<1> DEFINE e == execs[t][1]
           T == PlansOf[t][Len(e.results) + 1].tables
           results == Append(e.results, IF ReadOnly(t) THEN Contents(T) ELSE <<>>)
           undo == IF ReadOnly(t) THEN e.undo ELSE Journaled(e.undo, T)
           c == [e EXCEPT !.results = results, !.undo = undo]
<1>1. e \in CallRecord /\ e.results \in Seq(Partial) /\ e.undo \in Partial /\ e.state = "running"
  BY OneCall DEF Control, CallRecord
<1>2. PlansOf[t] \in Seq(Plan) /\ DOMAIN PlansOf[t] = 1 .. Len(PlansOf[t]) /\ Len(PlansOf[t]) \in Nat
  BY PlansAreTyped
<1>3. Len(e.results) + 1 \in DOMAIN PlansOf[t]
  <2>1. Len(e.results) # Len(PlansOf[t]) /\ Len(e.results) <= Len(PlansOf[t])
    BY DEF ExecPlan, PlansDone, PlanInv
  <2>2. Len(e.results) \in Nat
    BY <1>1
  <2>3. \A m, k \in Nat : m # k /\ m <= k => m + 1 \in 1 .. k
    OBVIOUS
  <2> QED BY <1>2, <2>1, <2>2, <2>3
<1>4. T \in SUBSET Table
  BY <1>3, PlansAreTyped
<1>5. c \in CallRecord /\ c.state = "running" /\ c.results = results /\ c.undo = undo
  <2>1. Contents(T) \in Partial /\ Journaled(e.undo, T) \in Partial /\ <<>> \in Partial
    BY <1>1, <1>4, ContentsTyped
  <2>2. results \in Seq(Partial) /\ undo \in Partial
    BY <1>1, <2>1
  <2> HIDE DEF results, undo
  <2> QED BY <1>1, <2>2 DEF CallRecord
<1>6. execs' = [execs EXCEPT ![t] = [@ EXCEPT ![1] = c]]
  <2>1. CASE ReadOnly(t)
    <3>1. execs' = [execs EXCEPT ![t][1].results = Append(@, Contents(T))]
      BY <2>1 DEF ExecPlan
    <3>2. c = [e EXCEPT !.results = Append(@, Contents(T))]
      BY <1>1, <2>1 DEF CallRecord
    <3> QED BY <3>1, <3>2
  <2>2. CASE ~ReadOnly(t)
    <3>1. execs' = [execs EXCEPT ![t][1].results = Append(@, <<>>),
                                 ![t][1].undo = Journaled(@, T)]
      BY <2>2 DEF ExecPlan
    <3>2. c = [e EXCEPT !.results = Append(@, <<>>), !.undo = Journaled(@, T)]
      BY <1>1, <2>2 DEF CallRecord
    <3>3. execs \in [Task -> Seq(CallRecord)] /\ execs[t] \in Seq(CallRecord) /\ 1 \in DOMAIN execs[t]
      BY OneCall DEF Control, TypeInv
    <3> QED BY <3>1, <3>2, <3>3
  <2> QED BY <2>1, <2>2
<1> HIDE DEF c
<1>7. /\ execs' \in [Task -> Seq(CallRecord)] /\ \A u \in Task : Len(execs'[u]) <= 1
      /\ State(t)' = c.state /\ execs'[t][1] = c
      /\ \A u \in Task \ {t} : State(u)' = State(u) /\ execs'[u] = execs[u]
  BY <1>5, <1>6, CallReplaced DEF Control
<1>8. Len(results) = Len(e.results) + 1 /\ Len(results) <= Len(PlansOf[t])
  <2>1. Len(results) = Len(e.results) + 1
    BY <1>1
  <2>2. Len(e.results) + 1 <= Len(PlansOf[t])
    BY <1>2, <1>3
  <2> QED BY <2>1, <2>2
<1> QED BY <1>3, <1>5, <1>7, <1>8

(* A call that commits, fails or is cancelled without calling scheduleTask *)
(* only changes its state.                                                 *)
LEMMA SettledCall ==
    ASSUME IInv, NEW t \in Task, Progress(t, 1), State(t) = "running", ~ExecPlan(t, 1),
           ~(CommitUpdate(t, 1) /\ IsObserved[t])
    PROVE  /\ execs' \in [Task -> Seq(CallRecord)] /\ \A u \in Task : Len(execs'[u]) <= 1
           /\ State(t)' \in {"ok", "failed"} /\ (State(t)' = "failed" => Fail(t, 1))
           /\ execs'[t][1] = [execs[t][1] EXCEPT !.state = State(t)']
           /\ \A u \in Task \ {t} : State(u)' = State(u) /\ execs'[u] = execs[u]
           /\ UNCHANGED <<lockTable, queue, stack, outcome>>
<1>1. \A s \in {"ok", "failed"} : s \in CallState
  BY DEF CallState
<1>2. /\ UNCHANGED <<lockTable, queue, stack, outcome>>
      /\ execs' = SetState(t, 1, "ok") \/ (execs' = SetState(t, 1, "failed") /\ Fail(t, 1))
  BY DEF Progress, CommitQuery, CommitUpdate, CommitImport, Fail, Rollback
<1> DEFINE s == IF execs' = SetState(t, 1, "ok") THEN "ok" ELSE "failed"
<1>3. s \in {"ok", "failed"} /\ execs' = SetState(t, 1, s) /\ (s = "failed" => Fail(t, 1))
  BY <1>2
<1> HIDE DEF s
<1>4. /\ execs' \in [Task -> Seq(CallRecord)] /\ \A u \in Task : Len(execs'[u]) <= 1
      /\ State(t)' = s
      /\ execs'[t][1] = [execs[t][1] EXCEPT !.state = s]
      /\ \A u \in Task \ {t} : State(u)' = State(u) /\ execs'[u] = execs[u]
  BY <1>1, <1>3, StateSet DEF IInv, Control
<1> QED BY <1>2, <1>3, <1>4

(* A change that observed queries refer to has the observer task scheduled *)
(* while the task that made it still has its locks.                        *)
LEMMA NotifyingKeeps ==
    ASSUME IInv, NEW t \in Task, State(t) = "running", CommitUpdate(t, 1), IsObserved[t]
    PROVE  /\ Control' /\ UNCHANGED execs /\ \A u \in Task : State(u)' = State(u)
           /\ t \in DOMAIN ObserverOf /\ outcome[ObserverOf[t]] = "new"
           /\ outcome' = [outcome EXCEPT ![ObserverOf[t]] = "pending"]
           /\ \A u \in Task : ~Notifying(u) /\ (Notifying(u)' <=> u = t)
<1>1. t \in DOMAIN ObserverOf
  BY NotifiersAreTyped DEF CommitUpdate
<1> DEFINE o == ObserverOf[t]
<1>2. o \in Task
  BY <1>1, NotifiersAreTyped
<1>3. /\ stack = <<>> /\ UNCHANGED execs
      /\ Len(execs[t][1].results) = Len(PlansOf[t])
      /\ ScheduleTask(o, lockTable, queue, stack, <<t, 1>>)
  BY DEF CommitUpdate, Idle, PlansDone
<1>4. \A u \in Task : ~Notifying(u)
  BY <1>3 DEF Notifying
<1>5. outcome[o] = "new"
  BY <1>1, <1>4 DEF IInv, Control, NotifyInv
<1>6. <<t, 1>> \in {Nil} \cup (Task \X {1}) /\ <<t, 1>> # Nil
  BY RunnerAssumption
<1>7. Control'
  <2> HIDE DEF o
  <2>1. t \in DOMAIN ObserverOf /\ o = ObserverOf[t]
    BY <1>1 DEF o
  <2> QED BY <1>2, <1>3, <1>5, <1>6, <2>1, ScheduleKeeps DEF IInv
<1>8. stack' # <<>> /\ stack'[1].caller = <<t, 1>>
  <2>1. stack' = <<[todo |-> queue', caller |-> <<t, 1>>]>> \o <<>>
    BY <1>3 DEF ScheduleTask
  <2>2. queue' \in Seq(Task)
    BY <1>7 DEF Control, TypeInv
  <2>3. [todo |-> queue', caller |-> <<t, 1>>] \in Frame
    BY <1>6, <2>2 DEF Frame
  <2> DEFINE f == [todo |-> queue', caller |-> <<t, 1>>]
  <2>4. f.caller = <<t, 1>> /\ f \in Frame /\ stack' = <<f>> \o <<>>
    BY <2>1, <2>3
  <2> HIDE DEF f
  <2> QED BY <2>4, FramePushed
<1>9. \A u \in Task : Notifying(u)' <=> u = t
  BY <1>8 DEF Notifying
<1>10. outcome' = [outcome EXCEPT ![o] = "pending"]
  BY <1>3 DEF ScheduleTask
<1>11. \A u \in Task : State(u)' = State(u)
  BY <1>3 DEF State
<1> QED BY <1>1, <1>3, <1>4, <1>5, <1>7, <1>9, <1>10, <1>11

(* No task is executed or scheduled in the initial states.                 *)
LEMMA InitIInv == Init => IInv
<1> SUFFICES ASSUME Init PROVE IInv
  OBVIOUS
<1>1. \A t \in Task : State(t) = "none" /\ outcome[t] = "new" /\ ~Notifying(t)
  BY DEF Init, State, Notifying
<1>2. AllOK(lockTable)
  <2>1. \A d \in Table : EntryOK(lockTable[d]) /\ lockTable[d] \in Entry
    BY FreeEntryOK DEF Init, EntryOK
  <2> QED BY <2>1 DEF Init, AllOK
<1>3. TypeInv
  <2>1. \A S : <<>> \in Seq(S)
    OBVIOUS
  <2>2. Len(<<>>) = 0 /\ 0 <= 1
    OBVIOUS
  <2> QED BY <1>2, <2>1, <2>2 DEF Init, TypeInv
<1>4. QueueInv
  BY DEF Init, QueueInv, Distinct, ToSet
<1>5. CallInv /\ HoldInv /\ PlanInv
  BY <1>1 DEF CallInv, HoldInv, PlanInv, Unfinished
<1>6. NotifyInv
  BY <1>1, NotifiersAreTyped DEF NotifyInv
<1>7. ContentsInv
  BY DEF Init, ContentsInv, Holder
<1> QED BY <1>3, <1>4, <1>5, <1>6, <1>7 DEF IInv, Control

(* A user schedules a task.                                                *)
LEMMA UserSchedulesKeeps ==
    ASSUME IInv, NEW t \in Task, UserSchedules(t)
    PROVE  /\ Control' /\ UNCHANGED <<execs, cache, committed>> /\ t \in UserTask
           /\ outcome[t] = "new" /\ outcome' = [outcome EXCEPT ![t] = "pending"]
           /\ \A u \in Task : ~Notifying(u) /\ ~Notifying(u)' /\ State(u)' = State(u)
<1>1. /\ stack = <<>> /\ Kind[t] # "observer" /\ outcome[t] = "new" /\ t \in UserTask
      /\ ScheduleTask(t, lockTable, queue, stack, Nil)
      /\ UNCHANGED <<execs, cache, committed>>
  BY DEF UserSchedules, Idle, UserTask
<1>2. Nil \in {Nil} \cup (Task \X {1})
  OBVIOUS
<1>3. Control'
  BY <1>1, <1>2, ScheduleKeeps DEF IInv
<1>4. stack' # <<>> /\ stack'[1].caller = Nil
  <2>1. queue' \in Seq(Task)
    BY <1>3 DEF Control, TypeInv
  <2> DEFINE f == [todo |-> queue', caller |-> Nil]
  <2>2. f.caller = Nil /\ f \in Frame /\ stack' = <<f>> \o <<>>
    BY <1>1, <2>1 DEF ScheduleTask, Frame
  <2> HIDE DEF f
  <2> QED BY <2>2, FramePushed
<1>5. \A u \in Task : ~Notifying(u) /\ ~Notifying(u)' /\ State(u)' = State(u)
  BY <1>1, <1>4, RunnerAssumption DEF Notifying, State
<1>6. outcome' = [outcome EXCEPT ![t] = "pending"]
  BY <1>1 DEF ScheduleTask
<1> QED BY <1>1, <1>3, <1>5, <1>6

(* Every step keeps the invariant.                                         *)
LEMMA NextIInv == IInv /\ NoReentry /\ [Next]_vars => IInv'
<1> SUFFICES ASSUME IInv, NoReentry, [Next]_vars PROVE IInv'
  OBVIOUS
<1> USE DEF IInv
<1>1. CASE UNCHANGED vars
  <2>1. /\ \A u \in Task : State(u)' = State(u) /\ (Notifying(u)' <=> Notifying(u))
        /\ UNCHANGED vars
    BY <1>1 DEF vars, State, Notifying
  <2>2. TypeInv' /\ ContentsInv' /\ PlanInv'
    BY <2>1 DEF vars, TypeInv, ContentsInv, PlanInv, Control
  <2>3. QueueInv'
    <3>1. \A u \in ToSet(queue) : u \in Task
      BY DEF ToSet, TypeInv, Control
    <3> QED BY <2>1, <3>1 DEF vars, QueueInv, Control
  <2>4. CallInv'
    BY <2>1 DEF vars, CallInv, Control
  <2>5. NotifyInv' /\ HoldInv'
    BY <2>1, NotifiersAreTyped DEF vars, NotifyInv, HoldInv, Control
  <2> QED BY <2>2, <2>3, <2>4, <2>5 DEF Control
<1>2. CASE Return
  <2>1. Control' /\ \A u \in Task : State(u)' = "running" => execs'[u] = execs[u] /\ State(u) = "running"
    BY <1>2, ReturnKeeps
  <2>2. UNCHANGED <<cache, committed>>
    BY <1>2 DEF Return
  <2> QED BY <2>1, <2>2 DEF ContentsInv, PlanInv
<1>3. ASSUME NEW t \in Task, PassOver(t) PROVE IInv'
  <2>1. Control'
    BY <1>3, PassOverKeeps
  <2>2. UNCHANGED <<execs, cache, committed>>
    BY <1>3 DEF PassOver
  <2> QED BY <2>1, <2>2 DEF ContentsInv, PlanInv, State
<1>4. ASSUME NEW t \in Task, Starting(t) PROVE IInv'
  <2>1. Visiting(t) /\ Acquires(t)
    BY <1>4 DEF Starting
  <2>2. CASE ExecThrows(t)
    <3>1. /\ Control' /\ Kind[t] = "import" /\ State(t)' = "lost"
          /\ \A u \in Task \ {t} : State(u)' = State(u) /\ execs'[u] = execs[u]
      BY <2>1, <2>2, ThrowsKeeps
    <3>2. PlanInv'
      BY <3>1 DEF PlanInv
    <3>3. ContentsInv'
      <4>1. PICK part \in SUBSET Scope[t] : cache' = Overwrite(cache, part, t)
        BY <2>2 DEF ExecThrows
      <4>2. cache' \in [Table -> Holder]
        BY <4>1 DEF Overwrite, ContentsInv, Holder
      <4>3. committed' = committed
        BY <2>2 DEF ExecThrows
      <4> QED BY <4>2, <4>3 DEF ContentsInv
    <3> QED BY <3>1, <3>2, <3>3
  <2>3. CASE ~ExecThrows(t)
    <3>1. PICK call \in CallRecord : /\ call.state \in {"running", "ok"}
                                     /\ Kind[t] = "external" => call.state = "ok"
                                     /\ Len(call.results) <= Len(PlansOf[t])
                                     /\ Starts(t, call) /\ ContentsInv'
      BY <1>4, <2>3, StartingCall
    <3>2. Control'
      BY <2>1, <3>1, StartsKeeps
    <3>3. State(t) = "none"
      BY <2>1, FrameVisited DEF QueueInv, Control
    <3>4. /\ State(t)' = call.state /\ execs'[t][1] = call
          /\ \A u \in Task \ {t} : State(u)' = State(u) /\ execs'[u] = execs[u]
      BY <3>1, <3>3, CallAppended DEF Starts, Control
    <3>5. PlanInv'
      BY <3>1, <3>4 DEF PlanInv
    <3> QED BY <3>1, <3>2, <3>5
  <2> QED BY <2>2, <2>3
<1>5. ASSUME NEW t \in Task, UserSchedules(t) PROVE IInv'
  <2>1. Control' /\ UNCHANGED <<execs, cache, committed>>
    BY <1>5, UserSchedulesKeeps
  <2> QED BY <2>1 DEF ContentsInv, PlanInv, State
<1>6. ASSUME NEW t \in Task, NEW n \in DOMAIN execs[t], Progress(t, n) PROVE IInv'
  <2>1. /\ n = 1 /\ stack = <<>> /\ State(t) = "running" /\ ContentsInv' /\ Progress(t, 1)
    BY <1>6, ProgressCall
  <2>2. CASE ExecPlan(t, 1)
    <3>1. /\ execs' \in [Task -> Seq(CallRecord)] /\ \A u \in Task : Len(execs'[u]) <= 1
          /\ State(t)' = "running"
          /\ \A u \in Task \ {t} : State(u)' = State(u) /\ execs'[u] = execs[u]
          /\ Len(execs'[t][1].results) <= Len(PlansOf[t])
      BY <2>1, <2>2, ExecPlanCall
    <3>2. UNCHANGED <<lockTable, queue, stack, outcome>>
      BY <2>2 DEF ExecPlan
    <3>3. Control'
      BY <2>1, <3>1, <3>2, ProgressKeeps
    <3>4. PlanInv'
      BY <2>1, <3>1 DEF PlanInv
    <3> QED BY <2>1, <3>3, <3>4
  <2>3. CASE CommitUpdate(t, 1) /\ IsObserved[t]
    <3>1. Control' /\ UNCHANGED execs /\ \A u \in Task : State(u)' = State(u)
      BY <2>1, <2>3, NotifyingKeeps
    <3> QED BY <2>1, <3>1 DEF PlanInv
  <2>4. CASE ~ExecPlan(t, 1) /\ ~(CommitUpdate(t, 1) /\ IsObserved[t])
    <3>1. /\ execs' \in [Task -> Seq(CallRecord)] /\ \A u \in Task : Len(execs'[u]) <= 1
          /\ State(t)' \in {"ok", "failed"}
          /\ \A u \in Task \ {t} : State(u)' = State(u) /\ execs'[u] = execs[u]
          /\ UNCHANGED <<lockTable, queue, stack, outcome>>
      BY <2>1, <2>4, SettledCall
    <3>2. Control'
      BY <2>1, <3>1, ProgressKeeps
    <3>3. PlanInv'
      BY <3>1 DEF PlanInv
    <3> QED BY <2>1, <3>2, <3>3
  <2> QED BY <2>2, <2>3, <2>4
<1>7. ASSUME NEW t \in Task, NEW n \in DOMAIN execs[t], Finish(t, n) PROVE IInv'
  <2>1. /\ Control' /\ State(t)' = "done"
        /\ \A u \in Task \ {t} : State(u)' = State(u) /\ execs'[u] = execs[u]
    BY <1>7, FinishKeeps
  <2>2. UNCHANGED <<cache, committed>>
    BY <1>7 DEF Finish
  <2> QED BY <2>1, <2>2 DEF ContentsInv, PlanInv
<1> QED BY <1>1, <1>2, <1>3, <1>4, <1>5, <1>6, <1>7 DEF Next, Consume

-----------------------------------------------------------------------------
(* The invariant holds in every program of the kind above.                 *)
THEOREM RunnerInvariant == NoReentry => (Spec => []IInv)
<1> SUFFICES ASSUME NoReentry PROVE Spec => []IInv
  OBVIOUS
<1>1. IInv /\ [Next]_vars => IInv'
  BY NextIInv
<1> QED BY <1>1, InitIInv, PTL DEF Spec

(* Isolation: two tasks in progress together both read or have no table in *)
(* common.  From the locks that each holds on its whole scope, whatever    *)
(* happens to the others' requests, reservations and releases.             *)
THEOREM IsolationHolds == NoReentry => (Spec => []Isolation)
<1>1. IInv => Isolation
  <2> SUFFICES ASSUME IInv, NEW t \in Task, NEW u \in Task, Live(t) # {}, Live(u) # {},
                      Conflict(t, u)
               PROVE  FALSE
    BY DEF Isolation
  <2>1. ASSUME NEW v \in Task, Live(v) # {} PROVE Holds(lockTable, v, Scope[v], SecondLock(v))
    <3>1. PICK n \in DOMAIN execs[v] : execs[v][n].state \in {"running", "ok", "failed"}
      BY <2>1 DEF Live
    <3>2. n = 1 /\ State(v) = execs[v][1].state
      BY <3>1, OneCall DEF IInv, Control
    <3> QED BY <3>1, <3>2 DEF IInv, Control, HoldInv, Unfinished
  <2>2. PICK d \in Table : d \in Scope[t] /\ d \in Scope[u]
    BY PlansAreTyped DEF Conflict
  <2>3. /\ AllOK(lockTable) /\ t # u
        /\ SecondLock(t) \in {"SHARED", "EXCLUSIVE"} /\ SecondLock(u) \in {"SHARED", "EXCLUSIVE"}
        /\ Holds(lockTable, t, Scope[t], SecondLock(t))
        /\ Holds(lockTable, u, Scope[u], SecondLock(u))
    BY <2>1 DEF IInv, Control, TypeInv, Conflict, SecondLock
  <2>4. SecondLock(t) = "SHARED" /\ SecondLock(u) = "SHARED"
    BY <2>2, <2>3, HoldersExclude
  <2> QED BY <2>4 DEF Conflict, SecondLock
<1> QED BY <1>1, RunnerInvariant, PTL

(* Neither a request of the runner nor the locks it is granted take the    *)
(* reservation of a waiting writer away.                                   *)
LEMMA ReservationSurvives ==
    ASSUME AllOK(lockTable), NEW t \in Task, NEW w \in Task, NEW d \in Table,
           lockTable[d].reservedRW = w
    PROVE  /\ Reserved(t)[d].reservedRW = w
           /\ Acquires(t) /\ t # w => Acquired(t)[d].reservedRW = w
<1>1. lockTable[d] \in Entry /\ w # Nil
  BY NilAssumption DEF AllOK
<1>2. Reserved(t)[d].reservedRW = w
  <2>1. CASE ~CanAcquireLock(lockTable, t, Scope[t], FirstLock(t)) \/ d \notin Scope[t]
    BY <2>1 DEF Reserved, Request, GrantLock
  <2>2. CASE CanAcquireLock(lockTable, t, Scope[t], FirstLock(t)) /\ d \in Scope[t]
    <3>1. /\ Reserved(t)[d] = Lock(lockTable[d], t, FirstLock(t))
          /\ CanLock(lockTable[d], t, FirstLock(t))
      BY <2>2 DEF Reserved, Request, GrantLock, CanAcquireLock
    <3>2. CASE FirstLock(t) = "RESERVED_READ_ONLY"
      BY <1>1, <3>1, <3>2 DEF Lock, Entry
    <3>3. CASE FirstLock(t) = "RESERVED_READ_WRITE"
      <4>1. w = t
        BY <1>1, <3>1, <3>3 DEF CanLock
      <4> QED BY <1>1, <3>1, <3>3, <4>1 DEF Lock, Entry
    <3> QED BY <3>2, <3>3 DEF FirstLock
  <2> QED BY <2>1, <2>2
<1>3. ASSUME Acquires(t), t # w PROVE Acquired(t)[d].reservedRW = w
  <2>1. CanAcquireLock(Reserved(t), t, Scope[t], SecondLock(t)) /\ Reserved(t)[d] \in Entry
    BY <1>3, ReservedKeeps DEF Acquires, AllOK
  <2>2. CASE d \notin Scope[t]
    BY <1>2, <2>2 DEF Acquired, GrantLock
  <2>3. CASE d \in Scope[t]
    <3>1. /\ Acquired(t)[d] = Lock(Reserved(t)[d], t, SecondLock(t))
          /\ CanLock(Reserved(t)[d], t, SecondLock(t))
      BY <2>1, <2>3 DEF Acquired, GrantLock, CanAcquireLock
    <3>2. SecondLock(t) = "SHARED"
      BY <1>2, <1>3, <3>1 DEF CanLock, SecondLock
    <3> QED BY <1>2, <2>1, <3>1, <3>2 DEF Lock, Entry
  <2> QED BY <2>2, <2>3
<1> QED BY <1>2, <1>3

\* What ReservationKept says of one step.
KeepsReservations ==
    \A w \in ToSet(queue) : \A d \in Scope[w] :
        (/\ w \in ToSet(queue')
         /\ lockTable[d].reservedRW = w /\ lockTable'[d].reservedRW # w) =>
            \E t \in Task : /\ outcome[t] = "new" /\ outcome'[t] = "pending"
                            /\ Priority[t] < 2 /\ d \in Scope[t]

(* scheduleTask takes reservations away only as the runner's own tasks may.*)
LEMMA ScheduleReserves ==
    ASSUME IInv, NEW t \in Task, outcome[t] = "new", outcome'[t] = "pending",
           NEW calls, NEW caller,
           ScheduleTask(t, lockTable, queue, calls, caller)
    PROVE  KeepsReservations
<1> SUFFICES ASSUME NEW w \in Task, NEW d \in Scope[w], lockTable[d].reservedRW = w,
                    lockTable'[d].reservedRW # w
             PROVE  Priority[t] < 2 /\ d \in Scope[t]
  BY DEF KeepsReservations, ToSet, IInv, Control, TypeInv
<1>1. d \in Table
  BY PlansAreTyped
<1>2. lockTable' = ClearReserved(lockTable, Scope[t]) /\ Priority[t] < 2
  BY DEF ScheduleTask
<1> QED BY <1>1, <1>2 DEF ClearReserved

(* Every step keeps the reservations that it must keep.                    *)
LEMMA NextReserves == IInv /\ NoReentry /\ [Next]_vars => KeepsReservations
<1> SUFFICES ASSUME IInv, NoReentry, [Next]_vars PROVE KeepsReservations
  OBVIOUS
<1>1. /\ AllOK(lockTable) /\ \A w \in ToSet(queue) : w \in Task /\ State(w) = "none"
      /\ \A w \in Task : Scope[w] \subseteq Table
  BY PlansAreTyped DEF IInv, Control, TypeInv, QueueInv, ToSet
<1>2. CASE UNCHANGED lockTable
  BY <1>2 DEF KeepsReservations
<1>3. ASSUME NEW t \in Task, PassOver(t) PROVE KeepsReservations
  BY <1>1, <1>3, ReservationSurvives DEF PassOver, KeepsReservations
<1>4. ASSUME NEW t \in Task, Starting(t) PROVE KeepsReservations
  <2>1. Visiting(t) /\ Acquires(t) /\ lockTable' = Acquired(t) /\ queue' = RemoveFirst(queue, t)
    BY <1>4 DEF Starting, ExecQuery, ExecUpdate, ExecExport, ExecImport, ExecExternal,
                ExecThrows, Starts, Unqueued, NoReentry
  <2>2. t \in ToSet(queue) /\ queue \in Seq(Task) /\ Distinct(queue)
    BY <2>1, FrameVisited DEF IInv, Control, TypeInv, QueueInv
  <2>3. ToSet(queue') = ToSet(queue) \ {t}
    <3>1. ToSet(RemoveFirst(queue, t)) = ToSet(queue) \ {t}
      BY <2>2, RemoveTakesOut
    <3> QED BY <2>1, <3>1
  <2> QED BY <1>1, <2>1, <2>3, ReservationSurvives DEF KeepsReservations
<1>5. ASSUME NEW t \in Task, UserSchedules(t) PROVE KeepsReservations
  <2>1. outcome[t] = "new" /\ outcome'[t] = "pending"
    BY <1>5, UserSchedulesKeeps DEF IInv, Control, TypeInv
  <2> QED BY <1>5, <2>1, ScheduleReserves DEF UserSchedules
<1>6. ASSUME NEW t \in Task, NEW n \in DOMAIN execs[t], Progress(t, n) PROVE KeepsReservations
  <2>1. n = 1 /\ State(t) = "running" /\ Progress(t, 1)
    BY <1>6, ProgressCall
  <2>2. CASE CommitUpdate(t, 1) /\ IsObserved[t]
    <3>1. ObserverOf[t] \in Task /\ outcome[ObserverOf[t]] = "new" /\ outcome'[ObserverOf[t]] = "pending"
      BY <2>1, <2>2, NotifyingKeeps, NotifiersAreTyped DEF IInv, Control, TypeInv
    <3> QED BY <2>2, <3>1, ScheduleReserves DEF CommitUpdate
  <2>3. CASE ~(CommitUpdate(t, 1) /\ IsObserved[t])
    <3>1. UNCHANGED lockTable
      BY <2>1, <2>3 DEF Progress, ExecPlan, CommitQuery, CommitUpdate, CommitImport, Fail, Rollback
    <3> QED BY <1>2, <3>1
  <2> QED BY <2>2, <2>3
<1>7. ASSUME NEW t \in Task, NEW n \in DOMAIN execs[t], Finish(t, n) PROVE KeepsReservations
  <2>1. State(t) # "none" /\ lockTable' = Release(lockTable, t, Scope[t])
    BY <1>7, FinishKeeps DEF IInv, Finish
  <2>2. ASSUME NEW w \in Task, w # t, NEW d \in Table, lockTable[d].reservedRW = w
        PROVE  lockTable'[d].reservedRW = w
    BY <2>1, <2>2 DEF Release, Unlock
  <2> QED BY <1>1, <2>1, <2>2 DEF KeepsReservations
<1> QED BY <1>2, <1>3, <1>4, <1>5, <1>6, <1>7 DEF Next, Consume, Return, vars

(* A waiting writer loses a reservation only to a task of the runner's own *)
(* that is being scheduled on that table.                                  *)
THEOREM ReservationKeptHolds == NoReentry => (Spec => ReservationKept)
<1> SUFFICES ASSUME NoReentry PROVE Spec => ReservationKept
  OBVIOUS
<1>1. IInv /\ [Next]_vars => [KeepsReservations]_vars
  BY NextReserves
<1> QED BY <1>1, RunnerInvariant, PTL DEF Spec, ReservationKept, KeepsReservations

-----------------------------------------------------------------------------
(* Nobody is stranded.                                                     *)

Queued == ToSet(queue)

\* The task u has a table reserved so that m cannot have its own reserved.
Obstructs(u, m) ==
    \E d \in Scope[m] : \/ lockTable[d].reservedRW = u
                        \/ ~ReadOnly(m) /\ u \in lockTable[d].reservedRO

\* Nothing that waits is in the way of the task m.
Unobstructed(m) == \A u \in Queued \ {m} : ~Obstructs(u, m)

\* Locks are those of tasks in progress, reservations those of waiting ones.
LockersInv ==
    \A d \in Table, t \in Task :
        /\ lockTable[d].exclusive = t \/ t \in lockTable[d].shared =>
              State(t) \in Unfinished /\ d \in Scope[t]
        /\ lockTable[d].reservedRW = t => t \in Queued /\ ~ReadOnly(t) /\ d \in Scope[t]
        /\ t \in lockTable[d].reservedRO => t \in Queued /\ ReadOnly(t) /\ d \in Scope[t]

\* Tasks that wait do not wait for one another: of any of them one is in the
\* way of the others but none of them in its own, as the one that was the
\* last to have its whole scope reserved.
ChainInv ==
    \A Q \in SUBSET Queued : Q # {} => \E m \in Q : \A u \in Q \ {m} : ~Obstructs(u, m)

NoneUnfinished == \A t \in Task : State(t) \notin Unfinished

\* While none is in progress, the walk has still to come to a task that it
\* can execute.
WalkInv ==
    queue # <<>> /\ NoneUnfinished =>
        stack # <<>> /\ \E m \in ToSet(stack[1].todo) : Unobstructed(m)

StrandInv == LockersInv /\ ChainInv /\ WalkInv

(* The tasks that wait.                                                    *)
LEMMA QueuedTyped ==
    ASSUME IInv
    PROVE  /\ AllOK(lockTable) /\ queue \in Seq(Task) /\ Distinct(queue)
           /\ \A u \in Queued : u \in Task /\ outcome[u] = "pending"
           /\ \A t \in Task : Visiting(t) => t \in Queued
<1>1. AllOK(lockTable) /\ queue \in Seq(Task) /\ Distinct(queue)
  BY DEF IInv, Control, TypeInv, QueueInv
<1>2. \A u \in Queued : u \in Task /\ outcome[u] = "pending"
  BY <1>1 DEF IInv, Control, QueueInv, Queued, ToSet
<1>3. \A t \in Task : Visiting(t) => t \in Queued
  BY FrameVisited DEF IInv, Control, Queued
<1> QED BY <1>1, <1>2, <1>3

(* A request reserves tables of the task's scope on its side only.         *)
LEMMA ReservedEntries ==
    ASSUME AllOK(lockTable), NEW t \in Task, NEW d \in Table
    PROVE  /\ Reserved(t)[d].exclusive = lockTable[d].exclusive
           /\ Reserved(t)[d].shared = lockTable[d].shared
           /\ \/ Reserved(t)[d].reservedRW = lockTable[d].reservedRW
              \/ Reserved(t)[d].reservedRW = t /\ ~ReadOnly(t) /\ d \in Scope[t]
           /\ \/ Reserved(t)[d].reservedRO = lockTable[d].reservedRO
              \/ /\ Reserved(t)[d].reservedRO = lockTable[d].reservedRO \cup {t}
                 /\ ReadOnly(t) /\ d \in Scope[t]
<1>1. lockTable[d] \in Entry
  BY DEF AllOK
<1>2. CASE Reserved(t)[d] = lockTable[d]
  BY <1>2
<1>3. CASE Reserved(t)[d] # lockTable[d]
  <2>1. d \in Scope[t] /\ Reserved(t)[d] = Lock(lockTable[d], t, FirstLock(t))
    BY <1>3 DEF Reserved, Request, GrantLock
  <2>2. CASE ReadOnly(t)
    <3>1. Reserved(t)[d] = [lockTable[d] EXCEPT !.reservedRO = @ \cup {t}]
      BY <2>1, <2>2 DEF FirstLock, Lock
    <3> QED BY <1>1, <2>1, <2>2, <3>1 DEF Entry
  <2>3. CASE ~ReadOnly(t)
    <3>1. Reserved(t)[d] = [lockTable[d] EXCEPT !.reservedRW = t]
      BY <2>1, <2>3 DEF FirstLock, Lock
    <3> QED BY <1>1, <2>1, <2>3, <3>1 DEF Entry
  <2> QED BY <2>2, <2>3
<1> QED BY <1>2, <1>3

(* A task that is executed has locks on its scope and no reservations.     *)
LEMMA AcquiredEntries ==
    ASSUME AllOK(lockTable), NEW t \in Task, Acquires(t), NEW d \in Table
    PROVE  /\ \/ Acquired(t)[d].exclusive = lockTable[d].exclusive
              \/ Acquired(t)[d].exclusive = t /\ d \in Scope[t]
           /\ \/ Acquired(t)[d].shared = lockTable[d].shared
              \/ Acquired(t)[d].shared = lockTable[d].shared \cup {t} /\ d \in Scope[t]
           /\ Acquired(t)[d].reservedRW = IF d \in Scope[t] THEN Nil ELSE lockTable[d].reservedRW
           /\ Acquired(t)[d].reservedRO = IF d \in Scope[t] THEN lockTable[d].reservedRO \ {t}
                                                           ELSE lockTable[d].reservedRO
<1>1. /\ lockTable[d] \in Entry
      /\ CanAcquireLock(lockTable, t, Scope[t], FirstLock(t))
      /\ CanAcquireLock(Reserved(t), t, Scope[t], SecondLock(t))
  BY DEF AllOK, Acquires
<1>2. CASE d \notin Scope[t]
  BY <1>2 DEF Acquired, Reserved, Request, GrantLock
<1>3. CASE d \in Scope[t]
  <2>1. /\ Reserved(t)[d] = Lock(lockTable[d], t, FirstLock(t))
        /\ Acquired(t)[d] = Lock(Reserved(t)[d], t, SecondLock(t))
        /\ CanLock(Reserved(t)[d], t, SecondLock(t))
    BY <1>1, <1>3 DEF Acquired, Reserved, Request, GrantLock, CanAcquireLock
  <2>2. CASE ReadOnly(t)
    <3> DEFINE e == lockTable[d]
               f == [e EXCEPT !.reservedRO = @ \cup {t}]
               g == [f EXCEPT !.shared = @ \cup {t}, !.reservedRO = @ \ {t}]
    <3>1. Reserved(t)[d] = f
      BY <2>1, <2>2 DEF FirstLock, Lock
    <3>2. Acquired(t)[d] = g
      BY <2>1, <2>2, <3>1 DEF SecondLock, Lock
    <3>3. f.reservedRW = Nil
      BY <2>1, <2>2, <3>1 DEF SecondLock, CanLock
    <3>4. /\ f \in Entry /\ f.reservedRO = e.reservedRO \cup {t} /\ f.shared = e.shared
          /\ f.exclusive = e.exclusive
      BY <1>1 DEF Entry
    <3> HIDE DEF f
    <3>5. /\ g.reservedRO = f.reservedRO \ {t} /\ g.shared = f.shared \cup {t}
          /\ g.exclusive = f.exclusive /\ g.reservedRW = f.reservedRW
      BY <3>4 DEF Entry
    <3> HIDE DEF g
    <3> QED BY <1>3, <3>2, <3>3, <3>4, <3>5
  <2>3. CASE ~ReadOnly(t)
    <3> DEFINE e == lockTable[d]
               f == [e EXCEPT !.reservedRW = t]
               g == [f EXCEPT !.reservedRW = Nil, !.exclusive = t]
    <3>1. Reserved(t)[d] = f
      BY <2>1, <2>3 DEF FirstLock, Lock
    <3>2. Acquired(t)[d] = g
      BY <2>1, <2>3, <3>1 DEF SecondLock, Lock
    <3>3. f.reservedRO = {}
      BY <2>1, <2>3, <3>1 DEF SecondLock, CanLock
    <3>4. f \in Entry /\ f.reservedRO = e.reservedRO /\ f.shared = e.shared
      BY <1>1 DEF Entry
    <3> HIDE DEF f
    <3>5. /\ g.reservedRO = f.reservedRO /\ g.shared = f.shared
          /\ g.exclusive = t /\ g.reservedRW = Nil
      BY <3>4 DEF Entry
    <3> HIDE DEF g
    <3> QED BY <1>3, <3>2, <3>3, <3>4, <3>5
  <2> QED BY <2>2, <2>3
<1> QED BY <1>2, <1>3

(* When no task is in progress, one that can have its scope reserved can   *)
(* have it locked.                                                         *)
LEMMA ReservingIsEnough ==
    ASSUME AllOK(lockTable), LockersInv, NoneUnfinished, NEW t \in Task,
           CanAcquireLock(lockTable, t, Scope[t], FirstLock(t))
    PROVE  Acquires(t)
<1>1. \A d \in Table : lockTable[d] \in Entry /\ lockTable[d].exclusive = Nil /\ lockTable[d].shared = {}
  <2> SUFFICES ASSUME NEW d \in Table
               PROVE  /\ lockTable[d] \in Entry
                      /\ lockTable[d].exclusive = Nil /\ lockTable[d].shared = {}
    OBVIOUS
  <2>1. lockTable[d] \in Entry
    BY DEF AllOK
  <2>2. \A u \in Task : lockTable[d].exclusive # u /\ u \notin lockTable[d].shared
    BY DEF LockersInv, NoneUnfinished
  <2> QED BY <2>1, <2>2 DEF Entry
<1>2. Scope[t] \subseteq Table
  BY PlansAreTyped
<1>3. ASSUME NEW d \in Scope[t] PROVE CanLock(Reserved(t)[d], t, SecondLock(t))
  <2>1. /\ Reserved(t)[d] = Lock(lockTable[d], t, FirstLock(t))
        /\ CanLock(lockTable[d], t, FirstLock(t))
    BY <1>2, <1>3 DEF Reserved, Request, GrantLock, CanAcquireLock
  <2>2. CASE ReadOnly(t)
    <3>1. /\ Reserved(t)[d] = [lockTable[d] EXCEPT !.reservedRO = @ \cup {t}]
          /\ lockTable[d].reservedRW = Nil
      BY <2>1, <2>2 DEF FirstLock, Lock, CanLock
    <3>2. /\ Reserved(t)[d].exclusive = Nil /\ Reserved(t)[d].reservedRW = Nil
          /\ t \in Reserved(t)[d].reservedRO
      BY <1>1, <1>2, <3>1 DEF Entry
    <3> QED BY <2>2, <3>2 DEF SecondLock, CanLock
  <2>3. CASE ~ReadOnly(t)
    <3>1. /\ Reserved(t)[d] = [lockTable[d] EXCEPT !.reservedRW = t]
          /\ lockTable[d].reservedRO = {}
      BY <2>1, <2>3 DEF FirstLock, Lock, CanLock
    <3>2. /\ Reserved(t)[d].exclusive = Nil /\ Reserved(t)[d].reservedRW = t
          /\ Reserved(t)[d].reservedRO = {} /\ Reserved(t)[d].shared = {}
      BY <1>1, <1>2, <3>1 DEF Entry
    <3> QED BY <2>3, <3>2 DEF SecondLock, CanLock
  <2> QED BY <2>2, <2>3
<1> QED BY <1>3 DEF Acquires, CanAcquireLock

(* A task that nothing is in the way of can have its scope reserved.       *)
LEMMA UnobstructedReserves ==
    ASSUME AllOK(lockTable), LockersInv, NEW t \in Task, Unobstructed(t)
    PROVE  CanAcquireLock(lockTable, t, Scope[t], FirstLock(t))
<1> SUFFICES ASSUME NEW d \in Scope[t] PROVE CanLock(lockTable[d], t, FirstLock(t))
  BY DEF CanAcquireLock
<1>1. d \in Table
  BY PlansAreTyped
<1>2. lockTable[d].reservedRW \in Task \cup {Nil} /\ lockTable[d].reservedRO \subseteq Task
  BY <1>1 DEF AllOK, Entry
<1>3. ASSUME NEW u \in Task, u # t, u \in Queued PROVE ~Obstructs(u, t)
  BY <1>3 DEF Unobstructed
<1>4. CASE ReadOnly(t)
  <2>1. lockTable[d].reservedRW = Nil
    BY <1>1, <1>2, <1>3, <1>4 DEF LockersInv, Obstructs
  <2> QED BY <1>4, <2>1 DEF FirstLock, CanLock
<1>5. CASE ~ReadOnly(t)
  <2>1. lockTable[d].reservedRW \in {Nil, t}
    BY <1>1, <1>2, <1>3 DEF LockersInv, Obstructs
  <2>2. lockTable[d].reservedRO = {}
    BY <1>1, <1>2, <1>3, <1>5 DEF LockersInv, Obstructs
  <2> QED BY <1>5, <2>1, <2>2 DEF FirstLock, CanLock
<1> QED BY <1>4, <1>5

(* Obstacles come only from new reservations.                              *)
LEMMA ChainShrinks ==
    ASSUME ChainInv, Queued' \subseteq Queued,
           \A u, m \in Queued' : Obstructs(u, m)' => Obstructs(u, m)
    PROVE  ChainInv'
<1> SUFFICES ASSUME NEW Q \in SUBSET Queued', Q # {}
             PROVE  \E m \in Q : \A u \in Q \ {m} : ~Obstructs(u, m)'
  BY DEF ChainInv
<1>1. PICK m \in Q : \A u \in Q \ {m} : ~Obstructs(u, m)
  BY DEF ChainInv
<1> QED BY <1>1

(* A new walk over the queue comes to a task that nothing is in the way of.*)
LEMMA WalkStarts ==
    ASSUME ChainInv', stack' # <<>>, stack'[1].todo = queue', queue' \in Seq(Task)
    PROVE  WalkInv'
<1> SUFFICES ASSUME queue' # <<>> PROVE \E m \in Queued' : Unobstructed(m)'
  BY DEF WalkInv, Queued, ToSet
<1>1. Queued' # {}
  <2>1. Len(queue') \in Nat /\ Len(queue') # 0 /\ DOMAIN queue' = 1 .. Len(queue')
    BY EmptySeq
  <2>2. 1 \in DOMAIN queue'
    BY <2>1
  <2> QED BY <2>2 DEF Queued, ToSet
<1>2. PICK m \in Queued' : \A u \in Queued' \ {m} : ~Obstructs(u, m)'
  BY <1>1 DEF ChainInv
<1> QED BY <1>2 DEF Unobstructed

(* scheduleTask: the new task has nothing reserved.                        *)
LEMMA StrandScheduled ==
    ASSUME IInv, StrandInv, NEW t \in Task, outcome[t] = "new", stack = <<>>, NEW caller,
           ScheduleTask(t, lockTable, queue, stack, caller), UNCHANGED execs
    PROVE  StrandInv'
<1>1. /\ t \notin Queued /\ queue \in Seq(Task) /\ lockTable \in [Table -> Entry]
      /\ \A u \in Task : State(u)' = State(u)
  BY DEF IInv, Control, QueueInv, TypeInv, Queued, State, AllOK
<1>2. Queued' = Queued \cup {t} /\ queue' \in Seq(Task)
  <2>1. queue' = Insert(queue, t)
    BY DEF ScheduleTask
  <2>2. ToSet(queue') = ToSet(queue) \cup {t} /\ queue' \in Seq(Task)
    BY <1>1, <2>1, InsertAdds
  <2> QED BY <2>2 DEF Queued, ToSet
<1>3. ASSUME NEW d \in Table
      PROVE  /\ lockTable'[d].exclusive = lockTable[d].exclusive
             /\ lockTable'[d].shared = lockTable[d].shared
             /\ lockTable'[d].reservedRW \in {lockTable[d].reservedRW, Nil}
             /\ lockTable'[d].reservedRO = lockTable[d].reservedRO
  <2>1. lockTable[d] \in Entry
    BY <1>1
  <2>2. \/ lockTable'[d] = lockTable[d]
        \/ lockTable'[d] = [lockTable[d] EXCEPT !.reservedRW = Nil]
    BY DEF ScheduleTask, ClearReserved
  <2> QED BY <2>1, <2>2 DEF Entry
<1>4. LockersInv'
  <2> SUFFICES ASSUME NEW d \in Table, NEW u \in Task
               PROVE  /\ lockTable'[d].exclusive = u \/ u \in lockTable'[d].shared =>
                            State(u)' \in Unfinished /\ d \in Scope[u]
                      /\ lockTable'[d].reservedRW = u => u \in Queued' /\ ~ReadOnly(u) /\ d \in Scope[u]
                      /\ u \in lockTable'[d].reservedRO => u \in Queued' /\ ReadOnly(u) /\ d \in Scope[u]
    BY DEF LockersInv
  <2> QED BY <1>1, <1>2, <1>3, NilAssumption DEF StrandInv, LockersInv
<1>5. \A u, m \in Task : Obstructs(u, m)' => Obstructs(u, m) /\ u \in Queued
  <2> SUFFICES ASSUME NEW u \in Task, NEW m \in Task, Obstructs(u, m)'
               PROVE  Obstructs(u, m) /\ u \in Queued
    OBVIOUS
  <2>1. PICK d \in Scope[m] : \/ lockTable'[d].reservedRW = u
                              \/ ~ReadOnly(m) /\ u \in lockTable'[d].reservedRO
    BY DEF Obstructs
  <2>2. d \in Table
    BY PlansAreTyped
  <2>3. lockTable[d].reservedRW = u \/ (~ReadOnly(m) /\ u \in lockTable[d].reservedRO)
    BY <1>3, <2>1, <2>2, NilAssumption
  <2> QED BY <2>2, <2>3 DEF Obstructs, StrandInv, LockersInv
<1>6. ChainInv'
  <2> SUFFICES ASSUME NEW Q \in SUBSET Queued', Q # {}
               PROVE  \E m \in Q : \A u \in Q \ {m} : ~Obstructs(u, m)'
    BY DEF ChainInv
  <2>1. Q \subseteq Task
    BY <1>1, <1>2 DEF Queued, ToSet
  <2>2. CASE Q = {t}
    BY <2>2
  <2>3. CASE Q # {t}
    <3>1. Q \ {t} # {} /\ Q \ {t} \in SUBSET Queued
      BY <1>2, <2>3
    <3>2. PICK m \in Q \ {t} : \A u \in (Q \ {t}) \ {m} : ~Obstructs(u, m)
      BY <3>1 DEF StrandInv, ChainInv
    <3>3. ASSUME NEW u \in Q \ {m} PROVE ~Obstructs(u, m)'
      <4>1. CASE u = t
        BY <1>1, <1>5, <2>1, <4>1
      <4>2. CASE u # t
        BY <1>5, <2>1, <3>2, <4>2
      <4> QED BY <4>1, <4>2
    <3> QED BY <3>3
  <2> QED BY <2>2, <2>3
<1>7. WalkInv'
  <2>1. /\ [todo |-> queue', caller |-> caller].todo = queue'
        /\ stack' = <<[todo |-> queue', caller |-> caller]>> \o <<>>
    BY DEF ScheduleTask
  <2>2. stack' # <<>> /\ stack'[1].todo = queue'
    BY <2>1
  <2> QED BY <1>2, <1>6, <2>2, WalkStarts
<1> QED BY <1>4, <1>6, <1>7 DEF StrandInv

(* A task that is executed takes its reservations with it.                 *)
LEMMA StrandStarts ==
    ASSUME IInv, StrandInv, NEW t \in Task, Visiting(t), Acquires(t),
           lockTable' = Acquired(t), queue' = RemoveFirst(queue, t),
           State(t)' \in Unfinished, \A u \in Task \ {t} : State(u)' = State(u)
    PROVE  StrandInv'
<1>1. /\ AllOK(lockTable) /\ t \in Queued /\ queue \in Seq(Task) /\ Distinct(queue)
      /\ \A u \in Queued : u \in Task
  BY QueuedTyped
<1>2. Queued' = Queued \ {t}
  <2>1. ToSet(queue') = ToSet(queue) \ {t}
    BY <1>1, RemoveTakesOut DEF Queued
  <2> QED BY <2>1 DEF Queued, ToSet
<1>3. ASSUME NEW d \in Table, NEW u \in Task
      PROVE  /\ lockTable'[d].exclusive = u =>
                   lockTable[d].exclusive = u \/ (u = t /\ d \in Scope[t])
             /\ u \in lockTable'[d].shared =>
                   u \in lockTable[d].shared \/ (u = t /\ d \in Scope[t])
             /\ lockTable'[d].reservedRW = u =>
                   lockTable[d].reservedRW = u /\ d \notin Scope[t]
             /\ u \in lockTable'[d].reservedRO =>
                   u \in lockTable[d].reservedRO /\ (u # t \/ d \notin Scope[t])
  <2>1. lockTable'[d] = Acquired(t)[d]
    OBVIOUS
  <2>2. u # Nil
    BY NilAssumption
  <2>3. \/ lockTable'[d].exclusive = lockTable[d].exclusive
        \/ lockTable'[d].exclusive = t /\ d \in Scope[t]
    BY <1>1, <2>1, AcquiredEntries
  <2>4. \/ lockTable'[d].shared = lockTable[d].shared
        \/ lockTable'[d].shared = lockTable[d].shared \cup {t} /\ d \in Scope[t]
    BY <1>1, <2>1, AcquiredEntries
  <2>5. /\ lockTable'[d].reservedRW = IF d \in Scope[t] THEN Nil ELSE lockTable[d].reservedRW
        /\ lockTable'[d].reservedRO = IF d \in Scope[t] THEN lockTable[d].reservedRO \ {t}
                                                        ELSE lockTable[d].reservedRO
    BY <1>1, <2>1, AcquiredEntries
  <2> QED BY <2>2, <2>3, <2>4, <2>5
<1>4. LockersInv'
  <2> SUFFICES ASSUME NEW d \in Table, NEW u \in Task
               PROVE  /\ lockTable'[d].exclusive = u \/ u \in lockTable'[d].shared =>
                            State(u)' \in Unfinished /\ d \in Scope[u]
                      /\ lockTable'[d].reservedRW = u => u \in Queued' /\ ~ReadOnly(u) /\ d \in Scope[u]
                      /\ u \in lockTable'[d].reservedRO => u \in Queued' /\ ReadOnly(u) /\ d \in Scope[u]
    BY DEF LockersInv
  <2> QED BY <1>2, <1>3 DEF StrandInv, LockersInv
<1>5. ChainInv'
  <2>1. ASSUME NEW u \in Queued', NEW m \in Queued', Obstructs(u, m)' PROVE Obstructs(u, m)
    <3>1. PICK d \in Scope[m] : \/ lockTable'[d].reservedRW = u
                                \/ ~ReadOnly(m) /\ u \in lockTable'[d].reservedRO
      BY <2>1 DEF Obstructs
    <3>2. d \in Table /\ u \in Task
      BY <1>1, <1>2, PlansAreTyped
    <3> QED BY <1>3, <3>1, <3>2 DEF Obstructs
  <2> QED BY <1>2, <2>1, ChainShrinks DEF StrandInv
<1>6. WalkInv'
  BY DEF WalkInv, NoneUnfinished
<1> QED BY <1>4, <1>5, <1>6 DEF StrandInv

(* A task that is passed over while none is in progress was in the way of  *)
(* some other's reservation; one that reserves is in nobody's way itself.  *)
LEMMA StrandPassed ==
    ASSUME IInv, StrandInv, NEW t \in Task, PassOver(t)
    PROVE  StrandInv'
<1>1. /\ AllOK(lockTable) /\ t \in Queued /\ queue \in Seq(Task) /\ Distinct(queue)
      /\ Visiting(t) /\ ~Acquires(t) /\ lockTable' = Reserved(t) /\ stack' = Visited
      /\ UNCHANGED <<queue, execs>>
      /\ \A u \in Queued : u \in Task
  BY QueuedTyped DEF PassOver
<1>2. Queued' = Queued /\ \A u \in Task : State(u)' = State(u)
  BY <1>1 DEF Queued, ToSet, State
<1>3. ASSUME NEW d \in Table
      PROVE  /\ lockTable'[d].exclusive = lockTable[d].exclusive
             /\ lockTable'[d].shared = lockTable[d].shared
             /\ \/ lockTable'[d].reservedRW = lockTable[d].reservedRW
                \/ lockTable'[d].reservedRW = t /\ ~ReadOnly(t) /\ d \in Scope[t]
             /\ \/ lockTable'[d].reservedRO = lockTable[d].reservedRO
                \/ /\ lockTable'[d].reservedRO = lockTable[d].reservedRO \cup {t}
                   /\ ReadOnly(t) /\ d \in Scope[t]
  BY <1>1, ReservedEntries
<1>4. LockersInv'
  <2> SUFFICES ASSUME NEW d \in Table, NEW u \in Task
               PROVE  /\ lockTable'[d].exclusive = u \/ u \in lockTable'[d].shared =>
                            State(u)' \in Unfinished /\ d \in Scope[u]
                      /\ lockTable'[d].reservedRW = u => u \in Queued' /\ ~ReadOnly(u) /\ d \in Scope[u]
                      /\ u \in lockTable'[d].reservedRO => u \in Queued' /\ ReadOnly(u) /\ d \in Scope[u]
    BY DEF LockersInv
  <2> QED BY <1>1, <1>2, <1>3 DEF StrandInv, LockersInv
<1>5. \A u, m \in Task : Obstructs(u, m)' /\ u # t => Obstructs(u, m)
  <2> SUFFICES ASSUME NEW u \in Task, NEW m \in Task, Obstructs(u, m)', u # t
               PROVE  Obstructs(u, m)
    OBVIOUS
  <2>1. PICK d \in Scope[m] : \/ lockTable'[d].reservedRW = u
                              \/ ~ReadOnly(m) /\ u \in lockTable'[d].reservedRO
    BY DEF Obstructs
  <2>2. d \in Table
    BY PlansAreTyped
  <2> QED BY <1>3, <2>1, <2>2 DEF Obstructs
<1>6. CASE CanAcquireLock(lockTable, t, Scope[t], FirstLock(t))
  <2>1. \A u \in Task \ {t} : ~Obstructs(u, t)'
    <3> SUFFICES ASSUME NEW u \in Task \ {t}, NEW d \in Scope[t]
                 PROVE  /\ lockTable'[d].reservedRW # u
                        /\ ~ReadOnly(t) => u \notin lockTable'[d].reservedRO
      BY DEF Obstructs
    <3>1. d \in Table /\ CanLock(lockTable[d], t, FirstLock(t)) /\ u # Nil
      BY <1>6, PlansAreTyped, NilAssumption DEF CanAcquireLock
    <3>2. CASE ReadOnly(t)
      BY <1>3, <3>1, <3>2 DEF FirstLock, CanLock
    <3>3. CASE ~ReadOnly(t)
      BY <1>3, <3>1, <3>3 DEF FirstLock, CanLock
    <3> QED BY <3>2, <3>3
  <2>2. ChainInv'
    <3> SUFFICES ASSUME NEW Q \in SUBSET Queued', Q # {}
                 PROVE  \E m \in Q : \A u \in Q \ {m} : ~Obstructs(u, m)'
      BY DEF ChainInv
    <3>1. Q \subseteq Task /\ Q \in SUBSET Queued
      BY <1>1, <1>2
    <3>2. CASE t \in Q
      BY <2>1, <3>1, <3>2
    <3>3. CASE t \notin Q
      <4>1. PICK m \in Q : \A u \in Q \ {m} : ~Obstructs(u, m)
        BY <3>1 DEF StrandInv, ChainInv
      <4> QED BY <1>5, <3>1, <3>3, <4>1
    <3> QED BY <3>2, <3>3
  <2>3. ~NoneUnfinished
    BY <1>1, <1>6, ReservingIsEnough DEF StrandInv
  <2>4. WalkInv'
    BY <1>2, <2>3 DEF WalkInv, NoneUnfinished
  <2> QED BY <1>4, <2>2, <2>4 DEF StrandInv
<1>7. CASE ~CanAcquireLock(lockTable, t, Scope[t], FirstLock(t))
  <2>1. lockTable' = lockTable
    BY <1>1, <1>7 DEF Reserved, Request
  <2>2. \A u, m : Obstructs(u, m)' <=> Obstructs(u, m)
    BY <2>1 DEF Obstructs
  <2>3. ChainInv'
    BY <1>2, <2>2, ChainShrinks DEF StrandInv
  <2>4. ~Unobstructed(t)
    BY <1>1, <1>7, UnobstructedReserves DEF StrandInv
  <2>5. ToSet(Visited[1].todo) = ToSet(stack[1].todo) \ {t} /\ Visited # <<>>
    <3>1. /\ stack \in Seq(Frame) /\ stack # <<>> /\ Len(stack) <= 1 /\ Len(stack) \in Nat
          /\ stack[1].todo # <<>> /\ t = Head(stack[1].todo) /\ Distinct(stack[1].todo)
      BY <1>1 DEF Visiting, IInv, Control, TypeInv, QueueInv
    <3>2. Len(stack) = 1 /\ DOMAIN stack = {1} /\ stack[1] \in Frame
      BY <3>1, OneElement
    <3>3. Visited[1].todo = Tail(stack[1].todo)
      BY <3>2 DEF Visited, Frame
    <3>4. stack[1].todo \in Seq(Task)
      BY <3>2 DEF Frame
    <3>5. ToSet(Tail(stack[1].todo)) = ToSet(stack[1].todo) \ {t}
      BY <3>1, <3>4, TailIsTheRest
    <3>6. Visited # <<>>
      BY <1>1, FrameVisited DEF IInv, Control
    <3> QED BY <3>3, <3>5, <3>6
  <2>6. WalkInv'
    <3> SUFFICES ASSUME queue # <<>>, NoneUnfinished
                 PROVE  stack' # <<>> /\ \E m \in ToSet(stack'[1].todo) : Unobstructed(m)'
      BY <1>1, <1>2 DEF WalkInv, NoneUnfinished, ToSet
    <3>1. PICK m \in ToSet(stack[1].todo) : Unobstructed(m)
      BY DEF StrandInv, WalkInv
    <3>2. m \in ToSet(stack'[1].todo)
      BY <1>1, <2>4, <2>5, <3>1
    <3>3. Unobstructed(m)'
      BY <1>2, <2>2, <3>1 DEF Unobstructed
    <3> QED BY <1>1, <2>5, <3>2, <3>3
  <2> QED BY <1>4, <2>3, <2>6 DEF StrandInv
<1> QED BY <1>6, <1>7

(* A task that has ended lets go of its locks, and a new walk begins.      *)
LEMMA StrandFinished ==
    ASSUME IInv, StrandInv, NEW t \in Task, NEW n \in DOMAIN execs[t], Finish(t, n)
    PROVE  StrandInv'
<1>1. /\ lockTable' = Release(lockTable, t, Scope[t]) /\ queue' = queue
      /\ stack' = <<[todo |-> queue, caller |-> Nil]>>
      /\ queue \in Seq(Task) /\ t \in Task /\ t # Nil
      /\ \A u \in Task \ {t} : State(u)' = State(u)
  BY QueuedTyped, FinishKeeps, NilAssumption DEF Finish, IInv
<1>2. Queued' = Queued
  BY <1>1 DEF Queued, ToSet
<1>3. ASSUME NEW d \in Table, NEW u \in Task
      PROVE  /\ lockTable'[d].exclusive = u =>
                   lockTable[d].exclusive = u /\ (u # t \/ d \notin Scope[t])
             /\ u \in lockTable'[d].shared =>
                   u \in lockTable[d].shared /\ (u # t \/ d \notin Scope[t])
             /\ lockTable'[d].reservedRW = u => lockTable[d].reservedRW = u
             /\ u \in lockTable'[d].reservedRO => u \in lockTable[d].reservedRO
  <2>1. lockTable'[d] = IF d \in Scope[t] THEN Unlock(lockTable[d], t) ELSE lockTable[d]
    BY <1>1 DEF Release
  <2>2. u # Nil
    BY NilAssumption
  <2> QED BY <2>1, <2>2 DEF Unlock
<1>4. LockersInv'
  <2> SUFFICES ASSUME NEW d \in Table, NEW u \in Task
               PROVE  /\ lockTable'[d].exclusive = u \/ u \in lockTable'[d].shared =>
                            State(u)' \in Unfinished /\ d \in Scope[u]
                      /\ lockTable'[d].reservedRW = u => u \in Queued' /\ ~ReadOnly(u) /\ d \in Scope[u]
                      /\ u \in lockTable'[d].reservedRO => u \in Queued' /\ ReadOnly(u) /\ d \in Scope[u]
    BY DEF LockersInv
  <2> QED BY <1>1, <1>2, <1>3 DEF StrandInv, LockersInv
<1>5. ChainInv'
  <2>1. ASSUME NEW u \in Queued', NEW m \in Queued', Obstructs(u, m)' PROVE Obstructs(u, m)
    <3>1. PICK d \in Scope[m] : \/ lockTable'[d].reservedRW = u
                                \/ ~ReadOnly(m) /\ u \in lockTable'[d].reservedRO
      BY <2>1 DEF Obstructs
    <3>2. d \in Table /\ u \in Task
      BY <1>2, QueuedTyped, PlansAreTyped
    <3> QED BY <1>3, <3>1, <3>2 DEF Obstructs
  <2> QED BY <1>2, <2>1, ChainShrinks DEF StrandInv
<1>6. WalkInv'
  <2>1. stack' # <<>> /\ stack'[1].todo = queue'
    BY <1>1
  <2> QED BY <1>1, <1>5, <2>1, WalkStarts
<1> QED BY <1>4, <1>5, <1>6 DEF StrandInv

(* Steps of tasks in progress that leave locks and queue alone.            *)
LEMMA StrandKept ==
    ASSUME StrandInv, UNCHANGED <<lockTable, queue>>,
           \A u \in Task : State(u)' \in Unfinished <=> State(u) \in Unfinished,
           WalkInv'
    PROVE  StrandInv'
<1>1. Queued' = Queued /\ \A u, m : Obstructs(u, m)' <=> Obstructs(u, m)
  BY DEF Queued, ToSet, Obstructs
<1>2. ChainInv'
  BY <1>1, ChainShrinks DEF StrandInv
<1>3. LockersInv'
  BY <1>1 DEF StrandInv, LockersInv
<1> QED BY <1>2, <1>3 DEF StrandInv

(* Every step keeps the queue moving.                                      *)
LEMMA NextStrand == IInv /\ StrandInv /\ NoReentry /\ [Next]_vars => StrandInv'
<1> SUFFICES ASSUME IInv, StrandInv, NoReentry, [Next]_vars PROVE StrandInv'
  OBVIOUS
<1> USE DEF IInv
<1>1. CASE UNCHANGED vars
  <2>1. UNCHANGED <<lockTable, queue, stack, execs>>
    BY <1>1 DEF vars
  <2>2. \A u \in Task : State(u)' = State(u)
    BY <2>1 DEF State
  <2>3. \A m : Unobstructed(m)' <=> Unobstructed(m)
    BY <2>1 DEF Unobstructed, Obstructs, Queued, ToSet
  <2>4. WalkInv'
    BY <2>1, <2>2, <2>3 DEF StrandInv, WalkInv, NoneUnfinished, ToSet
  <2> QED BY <2>1, <2>2, <2>4, StrandKept
<1>2. CASE Return
  <2>1. UNCHANGED <<lockTable, queue>> /\ stack # <<>> /\ stack[1].todo = <<>>
    BY <1>2 DEF Return
  <2>2. \A u \in Task : State(u)' \in Unfinished <=> State(u) \in Unfinished
    BY <1>2, ReturnKeeps DEF Unfinished
  <2>3. ToSet(stack[1].todo) = {}
    BY <2>1 DEF ToSet
  <2>4. WalkInv'
    BY <2>1, <2>2, <2>3 DEF StrandInv, WalkInv, NoneUnfinished
  <2> QED BY <2>1, <2>2, <2>4, StrandKept
<1>3. ASSUME NEW t \in Task, PassOver(t) PROVE StrandInv'
  BY <1>3, StrandPassed
<1>4. ASSUME NEW t \in Task, Starting(t) PROVE StrandInv'
  <2>1. Visiting(t) /\ Acquires(t)
    BY <1>4 DEF Starting
  <2>2. CASE ExecThrows(t)
    <3>1. State(t)' \in Unfinished /\ \A u \in Task \ {t} : State(u)' = State(u)
      BY <2>1, <2>2, ThrowsKeeps DEF Unfinished
    <3>2. lockTable' = Acquired(t) /\ queue' = RemoveFirst(queue, t)
      BY <2>2 DEF ExecThrows, Unqueued
    <3> QED BY <2>1, <3>1, <3>2, StrandStarts
  <2>3. CASE ~ExecThrows(t)
    <3>1. PICK call \in CallRecord : call.state \in {"running", "ok"} /\ Starts(t, call)
      BY <1>4, <2>3, StartingCall
    <3>2. State(t)' \in Unfinished /\ \A u \in Task \ {t} : State(u)' = State(u)
      BY <2>1, <3>1, StartsKeeps DEF Unfinished
    <3>3. lockTable' = Acquired(t) /\ queue' = RemoveFirst(queue, t)
      BY <3>1 DEF Starts, Unqueued
    <3> QED BY <2>1, <3>2, <3>3, StrandStarts
  <2> QED BY <2>2, <2>3
<1>5. ASSUME NEW t \in Task, UserSchedules(t) PROVE StrandInv'
  <2>1. /\ outcome[t] = "new" /\ stack = <<>> /\ UNCHANGED execs
        /\ ScheduleTask(t, lockTable, queue, stack, Nil)
    BY <1>5 DEF UserSchedules, Idle
  <2> QED BY <2>1, StrandScheduled
<1>6. ASSUME NEW t \in Task, NEW n \in DOMAIN execs[t], Progress(t, n) PROVE StrandInv'
  <2>1. n = 1 /\ stack = <<>> /\ State(t) = "running" /\ Progress(t, 1)
    BY <1>6, ProgressCall
  <2>2. CASE CommitUpdate(t, 1) /\ IsObserved[t]
    <3>1. /\ UNCHANGED execs /\ outcome[ObserverOf[t]] = "new" /\ ObserverOf[t] \in Task
      BY <2>1, <2>2, NotifyingKeeps, NotifiersAreTyped
    <3>2. ScheduleTask(ObserverOf[t], lockTable, queue, stack, <<t, 1>>)
      BY <2>2 DEF CommitUpdate
    <3> QED BY <2>1, <3>1, <3>2, StrandScheduled
  <2>3. CASE ~(CommitUpdate(t, 1) /\ IsObserved[t])
    <3>1. /\ UNCHANGED <<lockTable, queue>>
          /\ State(t)' \in {"running", "ok", "failed"}
          /\ \A u \in Task \ {t} : State(u)' = State(u)
      <4>1. CASE ExecPlan(t, 1)
        BY <2>1, <4>1, ExecPlanCall DEF ExecPlan
      <4>2. CASE ~ExecPlan(t, 1)
        BY <2>1, <2>3, <4>2, SettledCall
      <4> QED BY <4>1, <4>2
    <3>2. \A u \in Task : State(u)' \in Unfinished <=> State(u) \in Unfinished
      BY <2>1, <3>1 DEF Unfinished
    <3>3. WalkInv'
      BY <2>1, <3>2 DEF WalkInv, NoneUnfinished, Unfinished
    <3> QED BY <3>1, <3>2, <3>3, StrandKept
  <2> QED BY <2>2, <2>3
<1>7. ASSUME NEW t \in Task, NEW n \in DOMAIN execs[t], Finish(t, n) PROVE StrandInv'
  BY <1>7, StrandFinished
<1> QED BY <1>1, <1>2, <1>3, <1>4, <1>5, <1>6, <1>7 DEF Next, Consume

(* At first nothing waits.                                                 *)
LEMMA InitStrand == Init => StrandInv
<1> SUFFICES ASSUME Init PROVE StrandInv
  OBVIOUS
<1>1. queue = <<>> /\ Queued = {} /\ \A d \in Table : lockTable[d] = FreeEntry
  BY DEF Init, Queued, ToSet
<1> QED BY <1>1, NilAssumption DEF StrandInv, LockersInv, ChainInv, WalkInv, FreeEntry

(* Locks belong to tasks in progress and reservations to waiting tasks,    *)
(* the tasks that wait do not wait for one another, and a walk over the    *)
(* queue will come to one that can be executed.                            *)
THEOREM StrandInvariant == NoReentry => (Spec => []StrandInv)
<1> SUFFICES ASSUME NoReentry PROVE Spec => []StrandInv
  OBVIOUS
<1>1. IInv /\ StrandInv /\ [Next]_vars => StrandInv'
  BY NextStrand
<1> QED BY <1>1, InitStrand, RunnerInvariant, PTL DEF Spec

(* Nobody is stranded: when no task is in progress nothing waits and       *)
(* nothing is locked, whatever reservations tasks held, lost or waited for.*)
THEOREM NoneStrandedHolds == NoReentry => (Spec => []NoneStranded)
<1> SUFFICES ASSUME NoReentry PROVE Spec => []NoneStranded
  OBVIOUS
<1>1. IInv /\ StrandInv => NoneStranded
  <2> SUFFICES ASSUME IInv, StrandInv, Idle, ~Thrown, \A t \in Task : Live(t) = {}
               PROVE  queue = <<>> /\ \A d \in Table : lockTable[d] = FreeEntry
    BY DEF NoneStranded
  <2>1. NoneUnfinished
    <3> SUFFICES ASSUME NEW t \in Task, State(t) \in Unfinished PROVE FALSE
      BY DEF NoneUnfinished
    <3>1. 1 \in DOMAIN execs[t] /\ execs[t][1].state \in {"running", "ok", "failed", "lost"}
      BY OneElement, OneCall DEF IInv, Control, TypeInv, Unfinished
    <3>2. execs[t][1].state # "lost"
      BY <3>1 DEF Thrown
    <3>3. 1 \in Live(t)
      BY <3>1, <3>2 DEF Live
    <3> QED BY <3>3
  <2>2. queue = <<>>
    BY <2>1 DEF StrandInv, WalkInv, Idle
  <2>3. ASSUME NEW d \in Table PROVE lockTable[d] = FreeEntry
    <3>1. Queued = {}
      BY <2>2 DEF Queued, ToSet
    <3>2. lockTable[d] \in Entry
      BY DEF IInv, Control, TypeInv, AllOK
    <3>3. \A t \in Task : /\ lockTable[d].exclusive # t /\ t \notin lockTable[d].shared
                          /\ lockTable[d].reservedRW # t /\ t \notin lockTable[d].reservedRO
      BY <2>1, <3>1 DEF StrandInv, LockersInv, NoneUnfinished
    <3>4. /\ lockTable[d].exclusive = Nil /\ lockTable[d].reservedRW = Nil
          /\ lockTable[d].shared = {} /\ lockTable[d].reservedRO = {}
      BY <3>2, <3>3 DEF Entry
    <3> QED BY <3>2, <3>4 DEF Entry, FreeEntry
  <2> QED BY <2>2, <2>3
<1> QED BY <1>1, RunnerInvariant, StrandInvariant, PTL

-----------------------------------------------------------------------------
(* The serial database.  What tasks find in the cache follows from the     *)
(* locks they hold: a table differs from what was last committed only by   *)
(* the changes of one task that has it locked.                             *)

\* The task w has called exec() and has not committed yet.
Working(w) == State(w) = "running" /\ ~Notifying(w)

\* The task w has put something in the cache that is not committed.
Changes(w, d) ==
    \/ Kind[w] = "import" /\ State(w) \in {"running", "lost"}
    \/ Kind[w] \in {"update", "transaction"} /\ Working(w) /\ d \in DOMAIN execs[w][1].undo

CacheInv == \A d \in Table : cache[d] = committed[d] \/ \E w \in Task : Changes(w, d)

\* The tables of the plans of w that were executed so far.
FirstPlans(w) == UNION {PlansOf[w][i].tables : i \in DOMAIN execs[w][1].results}

\* A writer's journal has the committed contents of the tables it changed.
UpdateInv(w) ==
    Kind[w] \in {"update", "transaction"} /\ Working(w) =>
        /\ DOMAIN execs[w][1].undo = FirstPlans(w)
        /\ \A d \in DOMAIN execs[w][1].undo :
              cache[d] = w /\ execs[w][1].undo[d] = committed[d]

ImportInv(w) ==
    Kind[w] = "import" /\ State(w) = "running" =>
        /\ Len(execs[w][1].results) = Len(PlansOf[w])
        /\ \A d \in Table : cache[d] = w

\* A reader's results are the committed contents of the tables it read.
ReaderInv(t) ==
    ReadOnly(t) /\ State(t) = "running" =>
        /\ DOMAIN execs[t][1].undo = {}
        /\ \A i \in DOMAIN execs[t][1].results :
              execs[t][1].results[i] = [d \in PlansOf[t][i].tables |-> committed[d]]

DataInv == CacheInv /\ \A t \in Task : UpdateInv(t) /\ ImportInv(t) /\ ReaderInv(t)

SInv == IInv /\ (ImportFailed \/ DataInv)

-----------------------------------------------------------------------------
(* What the locks say of the contents.                                     *)

(* Two tasks that hold their locks have no table in common unless both     *)
(* read.                                                                   *)
LEMMA ScopesApart ==
    ASSUME IInv, NEW t \in Task, NEW u \in Task, t # u,
           State(t) \in Unfinished, State(u) \in Unfinished,
           ~ReadOnly(t) \/ ~ReadOnly(u)
    PROVE  Scope[t] \cap Scope[u] = {}
<1> SUFFICES ASSUME NEW d \in Table, d \in Scope[t], d \in Scope[u] PROVE FALSE
  BY PlansAreTyped
<1>1. /\ AllOK(lockTable)
      /\ SecondLock(t) \in {"SHARED", "EXCLUSIVE"} /\ SecondLock(u) \in {"SHARED", "EXCLUSIVE"}
      /\ Holds(lockTable, t, Scope[t], SecondLock(t))
      /\ Holds(lockTable, u, Scope[u], SecondLock(u))
  BY DEF IInv, Control, TypeInv, HoldInv, SecondLock
<1>2. SecondLock(t) = "SHARED" /\ SecondLock(u) = "SHARED"
  BY <1>1, HoldersExclude
<1> QED BY <1>2 DEF SecondLock

(* A running import is the only task in progress.                          *)
LEMMA ImportAlone ==
    ASSUME IInv, NEW t \in Task, Kind[t] = "import", State(t) \in Unfinished
    PROVE  \A u \in Task \ {t} : State(u) \notin Unfinished
<1> SUFFICES ASSUME NEW u \in Task, u # t, State(u) \in Unfinished PROVE FALSE
  OBVIOUS
<1>1. Scope[t] = Table /\ ~ReadOnly(t)
  BY WholeDatabase DEF ReadOnly
<1>2. Scope[t] \cap Scope[u] = {}
  BY <1>1, ScopesApart
<1> QED BY <1>1, <1>2, PlansAreTyped

(* What a task has read or changed so far is in its scope.                 *)
LEMMA FirstPlansInScope ==
    ASSUME IInv, NEW t \in Task, State(t) = "running"
    PROVE  /\ execs[t][1] \in CallRecord /\ execs[t][1].state = "running"
           /\ execs[t][1].results \in Seq(Partial)
           /\ Len(execs[t][1].results) \in Nat /\ Len(execs[t][1].results) <= Len(PlansOf[t])
           /\ DOMAIN execs[t][1].results = 1 .. Len(execs[t][1].results)
           /\ DOMAIN PlansOf[t] = 1 .. Len(PlansOf[t]) /\ Len(PlansOf[t]) \in Nat
           /\ DOMAIN execs[t][1].results \subseteq DOMAIN PlansOf[t]
           /\ FirstPlans(t) \subseteq Scope[t]
           /\ Len(execs[t][1].results) = Len(PlansOf[t]) => FirstPlans(t) = Scope[t]
<1>1. /\ execs[t][1] \in CallRecord /\ execs[t][1].state = "running"
      /\ execs[t][1].results \in Seq(Partial)
  BY OneCall DEF IInv, Control, CallRecord
<1>2. Len(execs[t][1].results) <= Len(PlansOf[t])
  BY DEF IInv, PlanInv
<1>3. PlansOf[t] \in Seq(Plan)
  BY PlansAreTyped
<1>4. /\ Len(execs[t][1].results) \in Nat
      /\ DOMAIN execs[t][1].results = 1 .. Len(execs[t][1].results)
      /\ DOMAIN PlansOf[t] = 1 .. Len(PlansOf[t]) /\ Len(PlansOf[t]) \in Nat
  BY <1>1, <1>3
<1>5. \A m, k \in Nat : m <= k => 1 .. m \subseteq 1 .. k
  OBVIOUS
<1>6. DOMAIN execs[t][1].results \subseteq DOMAIN PlansOf[t]
  BY <1>2, <1>4, <1>5
<1>7. FirstPlans(t) \subseteq Scope[t]
  BY <1>6 DEF FirstPlans, Scope, TablesOf
<1>8. Len(execs[t][1].results) = Len(PlansOf[t]) => FirstPlans(t) = Scope[t]
  BY <1>4 DEF FirstPlans, Scope, TablesOf
<1> QED BY <1>1, <1>2, <1>4, <1>6, <1>7, <1>8

(* A task that changes a table has it in its scope and locked.             *)
LEMMA ChangesInScope ==
    ASSUME IInv, NEW w \in Task, UpdateInv(w), NEW d \in Table, Changes(w, d)
    PROVE  d \in Scope[w] /\ State(w) \in Unfinished /\ ~ReadOnly(w)
<1>1. CASE Kind[w] = "import" /\ State(w) \in {"running", "lost"}
  BY <1>1, WholeDatabase DEF ReadOnly, Unfinished
<1>2. CASE Kind[w] \in {"update", "transaction"} /\ Working(w) /\ d \in DOMAIN execs[w][1].undo
  <2>1. d \in FirstPlans(w) /\ State(w) = "running"
    BY <1>2 DEF UpdateInv, Working
  <2> QED BY <1>2, <2>1, FirstPlansInScope DEF ReadOnly, Unfinished
<1> QED BY <1>1, <1>2 DEF Changes

(* A table that a task has locked is as last committed, unless the task    *)
(* itself changed it.                                                      *)
LEMMA LockedIsCommitted ==
    ASSUME IInv, DataInv, NEW t \in Task, State(t) \in Unfinished, NEW d \in Scope[t],
           ~Changes(t, d)
    PROVE  cache[d] = committed[d]
<1>1. d \in Table
  BY PlansAreTyped
<1>2. ASSUME NEW w \in Task, Changes(w, d) PROVE FALSE
  <2>1. d \in Scope[w] /\ State(w) \in Unfinished /\ ~ReadOnly(w) /\ w # t
    BY <1>1, <1>2, ChangesInScope DEF DataInv
  <2> QED BY <2>1, ScopesApart
<1> QED BY <1>1, <1>2 DEF DataInv, CacheInv

-----------------------------------------------------------------------------
(* What keeps the contents as they should be: three kinds of step.         *)

Same(u) == State(u)' = State(u) /\ (Working(u)' <=> Working(u)) /\ execs'[u] = execs[u]

(* Steps that leave the contents alone, of tasks that have changed nothing.*)
LEMMA DataKept ==
    ASSUME DataInv, UNCHANGED <<cache, committed>>,
           \A u \in Task : Same(u) \/ /\ \A d \in Table : ~Changes(u, d)
                                      /\ UpdateInv(u)' /\ ImportInv(u)' /\ ReaderInv(u)'
    PROVE  DataInv'
<1>1. CacheInv'
  BY DEF DataInv, CacheInv, Changes, Same
<1>2. ASSUME NEW u \in Task PROVE UpdateInv(u)' /\ ImportInv(u)' /\ ReaderInv(u)'
  <2>1. CASE Same(u)
    <3>1. UpdateInv(u)'
      BY <2>1 DEF DataInv, UpdateInv, Same, FirstPlans
    <3>2. ImportInv(u)'
      BY <2>1 DEF DataInv, ImportInv, Same
    <3>3. ReaderInv(u)'
      BY <2>1 DEF DataInv, ReaderInv, Same
    <3> QED BY <3>1, <3>2, <3>3
  <2> QED BY <2>1
<1> QED BY <1>1, <1>2 DEF DataInv

(* Steps of a task on tables that no other task in progress refers to.     *)
LEMMA DataApart ==
    ASSUME IInv, DataInv, NEW t \in Task, NEW S \in SUBSET Table,
           \A u \in Task \ {t} : State(u) \in Unfinished => Scope[u] \cap S = {},
           \A d \in Table \ S : cache'[d] = cache[d] /\ committed'[d] = committed[d],
           \A d \in Table : Changes(t, d) => d \in S,
           \A d \in S : cache'[d] = committed'[d] \/ Changes(t, d)',
           UpdateInv(t)', ImportInv(t)', ReaderInv(t)', \A u \in Task \ {t} : Same(u)
    PROVE  DataInv'
<1>1. CacheInv'
  <2> SUFFICES ASSUME NEW d \in Table
               PROVE  cache'[d] = committed'[d] \/ \E w \in Task : Changes(w, d)'
    BY DEF CacheInv
  <2>1. CASE d \in S
    BY <2>1
  <2>2. CASE d \notin S
    <3>1. ASSUME NEW w \in Task, Changes(w, d) PROVE Changes(w, d)'
      BY <2>2, <3>1 DEF Changes, Same
    <3> QED BY <2>2, <3>1 DEF DataInv, CacheInv
  <2> QED BY <2>1, <2>2
<1>2. ASSUME NEW u \in Task \ {t} PROVE UpdateInv(u)'
  <2> SUFFICES ASSUME Kind[u] \in {"update", "transaction"}, Working(u)
               PROVE  /\ DOMAIN execs[u][1].undo = FirstPlans(u)
                      /\ \A d \in DOMAIN execs[u][1].undo :
                            cache'[d] = u /\ execs[u][1].undo[d] = committed'[d]
    BY DEF UpdateInv, Same, FirstPlans
  <2>1. /\ DOMAIN execs[u][1].undo = FirstPlans(u)
        /\ \A d \in DOMAIN execs[u][1].undo : cache[d] = u /\ execs[u][1].undo[d] = committed[d]
    BY DEF DataInv, UpdateInv
  <2>2. FirstPlans(u) \subseteq Scope[u] /\ State(u) \in Unfinished
    BY FirstPlansInScope DEF Working, Unfinished
  <2>3. \A d \in FirstPlans(u) : d \in Table \ S
    BY <2>2, PlansAreTyped
  <2> QED BY <2>1, <2>3
<1>3. ASSUME NEW u \in Task \ {t} PROVE ImportInv(u)'
  <2>1. CASE Kind[u] = "import" /\ State(u) = "running"
    <3>1. Scope[u] = Table /\ State(u) \in Unfinished
      BY <2>1, WholeDatabase DEF Unfinished
    <3>2. \A d \in Table : cache'[d] = cache[d]
      BY <3>1
    <3> QED BY <2>1, <3>2 DEF DataInv, ImportInv, Same
  <2>2. CASE ~(Kind[u] = "import" /\ State(u) = "running")
    BY <2>2 DEF ImportInv, Same
  <2> QED BY <2>1, <2>2
<1>4. ASSUME NEW u \in Task \ {t} PROVE ReaderInv(u)'
  <2> SUFFICES ASSUME ReadOnly(u), State(u) = "running"
               PROVE  /\ DOMAIN execs[u][1].undo = {}
                      /\ \A i \in DOMAIN execs[u][1].results :
                            execs[u][1].results[i] = [d \in PlansOf[u][i].tables |-> committed'[d]]
    BY DEF ReaderInv, Same
  <2>1. /\ DOMAIN execs[u][1].undo = {}
        /\ \A i \in DOMAIN execs[u][1].results :
              execs[u][1].results[i] = [d \in PlansOf[u][i].tables |-> committed[d]]
    BY DEF DataInv, ReaderInv
  <2>2. FirstPlans(u) \subseteq Scope[u] /\ State(u) \in Unfinished
    BY FirstPlansInScope DEF Unfinished
  <2>3. \A i \in DOMAIN execs[u][1].results : \A d \in PlansOf[u][i].tables : d \in Table \ S
    BY <2>2, PlansAreTyped DEF FirstPlans
  <2>4. \A i \in DOMAIN execs[u][1].results :
           [d \in PlansOf[u][i].tables |-> committed[d]] = [d \in PlansOf[u][i].tables |-> committed'[d]]
    BY <2>3
  <2> QED BY <2>1, <2>4
<1> QED BY <1>1, <1>2, <1>3, <1>4 DEF DataInv

(* Steps of a task on tables that it has locked to change them.            *)
LEMMA DataMoved ==
    ASSUME IInv, DataInv, NEW t \in Task, Kind[t] \in {"update", "transaction"}, Working(t),
           NEW S \in SUBSET Scope[t],
           \A d \in Table \ S : cache'[d] = cache[d] /\ committed'[d] = committed[d],
           \A d \in Table : Changes(t, d) => d \in S,
           \A d \in S : cache'[d] = committed'[d] \/ Changes(t, d)',
           UpdateInv(t)', \A u \in Task \ {t} : Same(u)
    PROVE  DataInv'
<1>1. State(t) \in Unfinished /\ ~ReadOnly(t) /\ S \in SUBSET Table
  BY PlansAreTyped DEF Working, Unfinished, ReadOnly
<1>2. ImportInv(t)' /\ ReaderInv(t)'
  BY DEF ImportInv, ReaderInv, ReadOnly
<1>3. ASSUME NEW u \in Task \ {t}, State(u) \in Unfinished PROVE Scope[u] \cap S = {}
  <2>1. Scope[t] \cap Scope[u] = {}
    BY <1>1, <1>3, ScopesApart
  <2> QED BY <2>1
<1> QED BY <1>1, <1>2, <1>3, DataApart

(* Steps of an import, which has the database to itself.                   *)
LEMMA DataImported ==
    ASSUME NEW t \in Task, Kind[t] = "import", ImportInv(t)',
           \A u \in Task \ {t} : State(u)' \notin Unfinished,
           State(t)' \in {"running", "lost"} \/ \A d \in Table : cache'[d] = committed'[d]
    PROVE  DataInv'
<1>1. CacheInv'
  BY DEF CacheInv, Changes
<1>2. UpdateInv(t)' /\ ReaderInv(t)'
  BY DEF UpdateInv, ReaderInv, ReadOnly
<1>3. ASSUME NEW u \in Task \ {t} PROVE UpdateInv(u)' /\ ImportInv(u)' /\ ReaderInv(u)'
  BY DEF UpdateInv, ImportInv, ReaderInv, Working, Unfinished
<1> QED BY <1>1, <1>2, <1>3 DEF DataInv

-----------------------------------------------------------------------------
(* The contents after each action.                                         *)

(* Steps of the runner that execute nothing.                               *)
LEMMA RunnerData ==
    ASSUME IInv, DataInv,
           \/ Return
           \/ \E t \in Task : PassOver(t) \/ UserSchedules(t)
           \/ \E t \in Task : \E n \in DOMAIN execs[t] : Finish(t, n)
    PROVE  DataInv'
<1>1. CASE Return
  <2>1. UNCHANGED <<cache, committed>>
    BY <1>1 DEF Return
  <2>2. ASSUME NEW u \in Task, Notifying(u)
        PROVE  /\ \A d \in Table : ~Changes(u, d)
               /\ UpdateInv(u)' /\ ImportInv(u)' /\ ReaderInv(u)'
    <3>1. State(u) = "running" /\ State(u)' = "ok" /\ u \in DOMAIN ObserverOf
      BY <1>1, <2>2, ReturnKeeps DEF IInv, Control, NotifyInv
    <3>2. Kind[u] # "import"
      BY <3>1, NotifiersAreTyped
    <3>3. \A d \in Table : ~Changes(u, d)
      BY <2>2, <3>2 DEF Changes, Working
    <3> QED BY <3>1, <3>3 DEF UpdateInv, ImportInv, ReaderInv, Working
  <2>3. \A u \in Task : ~Notifying(u) => Same(u)
    BY <1>1, ReturnKeeps DEF IInv, Same, Working
  <2> QED BY <2>1, <2>2, <2>3, DataKept
<1>2. ASSUME NEW t \in Task, PassOver(t) PROVE DataInv'
  <2>1. UNCHANGED <<cache, committed, execs>>
    BY <1>2 DEF PassOver
  <2>2. \A u \in Task : Same(u)
    BY <1>2, <2>1, PassOverKeeps DEF IInv, Same, Working
  <2> QED BY <2>1, <2>2, DataKept
<1>3. ASSUME NEW t \in Task, UserSchedules(t) PROVE DataInv'
  <2>1. UNCHANGED <<cache, committed, execs>>
    BY <1>3 DEF UserSchedules
  <2>2. \A u \in Task : Same(u)
    BY <1>3, <2>1, UserSchedulesKeeps DEF Same, Working
  <2> QED BY <2>1, <2>2, DataKept
<1>4. ASSUME NEW t \in Task, NEW n \in DOMAIN execs[t], Finish(t, n) PROVE DataInv'
  <2>1. UNCHANGED <<cache, committed>>
    BY <1>4 DEF Finish
  <2>2. /\ State(t) \in {"ok", "failed"} /\ State(t)' = "done"
        /\ \A u \in Task \ {t} : Same(u)
    BY <1>4, FinishKeeps DEF IInv, Same, Working
  <2>3. /\ \A d \in Table : ~Changes(t, d)
        /\ UpdateInv(t)' /\ ImportInv(t)' /\ ReaderInv(t)'
    BY <2>2 DEF Changes, Working, UpdateInv, ImportInv, ReaderInv
  <2> QED BY <2>1, <2>2, <2>3, DataKept
<1> QED BY <1>1, <1>2, <1>3, <1>4

(* A task about to start has no table in common with one in progress,      *)
(* unless both read.                                                       *)
LEMMA StartsApart ==
    ASSUME IInv, NEW t \in Task, Visiting(t), Acquires(t), State(t) = "none",
           NEW u \in Task, State(u) \in Unfinished, ~ReadOnly(t) \/ ~ReadOnly(u)
    PROVE  Scope[u] \cap Scope[t] = {}
<1> SUFFICES ASSUME NEW d \in Table, d \in Scope[t], d \in Scope[u] PROVE FALSE
  BY PlansAreTyped
<1>1. t # u
  BY DEF Unfinished
<1>2. /\ AllOK(Acquired(t))
      /\ SecondLock(t) \in {"SHARED", "EXCLUSIVE"} /\ SecondLock(u) \in {"SHARED", "EXCLUSIVE"}
      /\ Holds(Acquired(t), t, Scope[t], SecondLock(t))
      /\ Holds(Acquired(t), u, Scope[u], SecondLock(u))
  BY AcquiredHolds DEF IInv, Control, TypeInv, HoldInv, SecondLock
<1>3. SecondLock(t) = "SHARED" /\ SecondLock(u) = "SHARED"
  BY <1>1, <1>2, HoldersExclude
<1> QED BY <1>3 DEF SecondLock

(* A table that the task about to start can lock is as last committed.     *)
LEMMA StartsOnCommitted ==
    ASSUME IInv, DataInv, NEW t \in Task, Visiting(t), Acquires(t), State(t) = "none"
    PROVE  \A d \in Scope[t] : cache[d] = committed[d]
<1> SUFFICES ASSUME NEW d \in Scope[t], NEW w \in Task, Changes(w, d) PROVE FALSE
  BY PlansAreTyped DEF DataInv, CacheInv
<1>1. d \in Scope[w] /\ State(w) \in Unfinished /\ ~ReadOnly(w)
  BY PlansAreTyped, ChangesInScope DEF DataInv
<1> QED BY <1>1, StartsApart

(* What the first call of exec() on a task starts with.                    *)
LEMMA FirstCall ==
    ASSUME IInv, NEW t \in Task, State(t) = "none", NEW c, execs' = Append1(t, c)
    PROVE  execs'[t][1] = c /\ State(t)' = c.state
<1>1. execs[t] = <<>> /\ execs \in [Task -> Seq(CallRecord)]
  BY OneCall DEF IInv, Control, TypeInv
<1>2. Append(<<>>, c) = <<c>> /\ <<c>>[1] = c /\ <<c>> # <<>>
  OBVIOUS
<1>3. execs'[t] = <<c>>
  BY <1>1, <1>2 DEF Append1
<1> QED BY <1>2, <1>3 DEF State

(* Calls of exec().                                                        *)
LEMMA StartingData ==
    ASSUME IInv, IInv', DataInv, NoReentry, NEW t \in Task, Starting(t)
    PROVE  DataInv'
<1>1. Visiting(t) /\ Acquires(t)
  BY DEF Starting
<1>2. PlansOf[t] \in Seq(Plan) /\ Scope[t] \in SUBSET Table /\ Scope[t] # {}
  BY PlansAreTyped
<1>3. CASE ExecThrows(t)
  <2>1. /\ Kind[t] = "import" /\ State(t)' = "lost"
        /\ \A u \in Task \ {t} : State(u)' = State(u)
        /\ \A u \in Task : State(u) \notin Unfinished
    BY <1>1, <1>3, ThrowsKeeps DEF IInv
  <2>2. ImportInv(t)'
    BY <2>1 DEF ImportInv
  <2>3. \A u \in Task \ {t} : State(u)' \notin Unfinished
    BY <2>1
  <2> QED BY <2>1, <2>2, <2>3, DataImported
<1>4. CASE ~ExecThrows(t)
  <2>1. PICK call \in CallRecord : call.state \in {"running", "ok"} /\ Starts(t, call)
    BY <1>4, StartingCall
  <2>2. /\ State(t) = "none" /\ State(t)' = call.state /\ execs'[t][1] = call
        /\ \A u \in Task \ {t} : State(u)' = State(u) /\ execs'[u] = execs[u]
        /\ \A u \in Task : Notifying(u)' <=> Notifying(u)
    BY <1>1, <2>1, StartsKeeps DEF IInv
  <2>3. \A d \in Table : ~Changes(t, d)
    BY <2>2 DEF Changes, Working
  <2>4. \A u \in Task \ {t} : Same(u)
    BY <2>2 DEF Same, Working
  <2>5. CASE ExecQuery(t)
    <3> DEFINE c == Call("running", <<Contents(PlansOf[t][1].tables)>>, <<>>)
    <3>1. execs' = Append1(t, c) /\ UNCHANGED <<cache, committed>> /\ Kind[t] \in {"query", "observer"}
      BY <2>5 DEF ExecQuery, Starts
    <3>2. execs'[t][1] = c /\ State(t)' = c.state
      BY <2>2, <3>1, FirstCall
    <3>3. /\ c.state = "running" /\ c.undo = <<>>
          /\ DOMAIN c.results = {1} /\ c.results[1] = Contents(PlansOf[t][1].tables)
      BY DEF Call
    <3>4. Contents(PlansOf[t][1].tables) = [d \in PlansOf[t][1].tables |-> committed[d]]
      <4>1. Len(execs'[t][1].results) <= Len(PlansOf[t])
        <5>1. State(t)' = "running"
          BY <2>2, <3>2, <3>3
        <5> QED BY <5>1 DEF IInv, PlanInv
      <4>2. Len(execs'[t][1].results) = 1
        BY <3>2 DEF Call
      <4>3. 1 \in DOMAIN PlansOf[t]
        <5>1. Len(PlansOf[t]) \in Nat /\ DOMAIN PlansOf[t] = 1 .. Len(PlansOf[t])
          BY <1>2
        <5>2. \A k \in Nat : 1 <= k => 1 \in 1 .. k
          OBVIOUS
        <5> QED BY <4>1, <4>2, <5>1, <5>2
      <4>4. \A d \in PlansOf[t][1].tables : cache[d] = committed[d]
        BY <1>1, <2>2, <3>1, <4>3, StartsOnCommitted, PlansAreTyped DEF ReadOnly
      <4> QED BY <4>4 DEF Contents
    <3>5. ReaderInv(t)'
      <4>1. DOMAIN execs'[t][1].undo = {}
        BY <3>2, <3>3
      <4>2. \A i \in DOMAIN execs'[t][1].results :
               execs'[t][1].results[i] = [d \in PlansOf[t][i].tables |-> committed'[d]]
        <5> HIDE DEF c
        <5> QED BY <3>1, <3>2, <3>3, <3>4
      <4> QED BY <4>1, <4>2 DEF ReaderInv
    <3>6. UpdateInv(t)' /\ ImportInv(t)'
      BY <3>1 DEF UpdateInv, ImportInv
    <3> QED BY <2>3, <2>4, <3>1, <3>5, <3>6, DataKept
  <2>6. CASE ExecUpdate(t)
    <3> DEFINE c == Call("running", <<>>, <<>>)
    <3>1. /\ execs' = Append1(t, c) /\ UNCHANGED <<cache, committed>>
          /\ Kind[t] \in {"update", "transaction"}
      BY <2>6 DEF ExecUpdate, Starts
    <3>2. execs'[t][1] = c /\ State(t)' = c.state
      BY <2>2, <3>1, FirstCall
    <3>3. c.undo = <<>> /\ c.results = <<>>
      BY DEF Call
    <3>4. DOMAIN execs'[t][1].undo = {} /\ DOMAIN execs'[t][1].results = {}
      BY <3>2, <3>3
    <3>5. UpdateInv(t)'
      BY <3>4 DEF UpdateInv, FirstPlans
    <3>6. ImportInv(t)' /\ ReaderInv(t)'
      BY <3>1 DEF ImportInv, ReaderInv, ReadOnly
    <3> QED BY <2>3, <2>4, <3>1, <3>5, <3>6, DataKept
  <2>7. CASE ExecExport(t)
    <3>1. UNCHANGED <<cache, committed>> /\ Kind[t] = "export"
      BY <2>7 DEF ExecExport
    <3> DEFINE c == Call("ok", <<Contents(Table)>>, <<>>)
    <3>2. State(t)' = c.state /\ c.state = "ok"
      BY <2>2, <2>7, FirstCall DEF ExecExport, Starts, Call
    <3>3. UpdateInv(t)' /\ ImportInv(t)' /\ ReaderInv(t)'
      BY <3>2 DEF UpdateInv, ImportInv, ReaderInv, Working
    <3> QED BY <2>3, <2>4, <3>1, <3>3, DataKept
  <2>8. CASE ExecImport(t)
    <3> DEFINE c == Call("running", <<<<>>>>, <<>>)
    <3>1. /\ execs' = Append1(t, c) /\ Kind[t] = "import"
          /\ cache' = Overwrite(cache, Table, t)
      BY <2>8 DEF ExecImport, Starts
    <3>2. execs'[t][1] = c /\ State(t)' = c.state
      BY <2>2, <3>1, FirstCall
    <3>3. c.state = "running" /\ Len(c.results) = 1
      BY DEF Call
    <3>4. \A u \in Task : State(u) \notin Unfinished
      BY <1>1, <3>1, NobodyInterrupted DEF IInv
    <3>5. State(t)' = "running" /\ \A u \in Task \ {t} : State(u)' \notin Unfinished
      BY <2>2, <3>2, <3>3, <3>4
    <3>6. ImportInv(t)'
      <4>1. \A d \in Table : cache'[d] = t
        BY <3>1 DEF Overwrite
      <4>2. PlansOf[t] = <<[tables |-> Table, query |-> Nil]>>
        BY <3>1 DEF PlansOf
      <4>3. Len(PlansOf[t]) = 1
        BY <4>2
      <4> QED BY <3>2, <3>3, <4>1, <4>3 DEF ImportInv
    <3> QED BY <3>1, <3>5, <3>6, DataImported
  <2>9. CASE ExecExternal(t)
    <3>1. /\ Kind[t] = "external" /\ cache' = Overwrite(cache, Scope[t], t)
          /\ committed' = Overwrite(committed, Scope[t], t)
      BY <2>9 DEF ExecExternal
    <3>2. UpdateInv(t)' /\ ImportInv(t)' /\ ReaderInv(t)'
      BY <3>1 DEF UpdateInv, ImportInv, ReaderInv, ReadOnly
    <3>3. \A u \in Task \ {t} : State(u) \in Unfinished => Scope[u] \cap Scope[t] = {}
      BY <1>1, <2>2, <3>1, StartsApart DEF ReadOnly
    <3>4. \A d \in Table \ Scope[t] : cache'[d] = cache[d] /\ committed'[d] = committed[d]
      BY <3>1 DEF Overwrite
    <3>5. \A d \in Scope[t] : cache'[d] = committed'[d]
      BY <1>2, <3>1 DEF Overwrite
    <3> QED BY <1>2, <2>3, <2>4, <3>2, <3>3, <3>4, <3>5, DataApart
  <2> QED BY <1>4, <2>5, <2>6, <2>7, <2>8, <2>9 DEF Starting
<1> QED BY <1>3, <1>4

(* The next plan of a running call.                                        *)
LEMMA ExecPlanData ==
    ASSUME IInv, DataInv, NEW t \in Task, State(t) = "running", stack = <<>>, ExecPlan(t, 1)
    PROVE  DataInv'
<1> DEFINE e == execs[t][1]
           T == PlansOf[t][Len(e.results) + 1].tables
<1>1. /\ State(t)' = "running"
      /\ \A u \in Task \ {t} : State(u)' = State(u) /\ execs'[u] = execs[u]
      /\ Len(e.results) + 1 \in DOMAIN PlansOf[t]
      /\ execs'[t][1].results = Append(e.results, IF ReadOnly(t) THEN Contents(T) ELSE <<>>)
      /\ execs'[t][1].undo = IF ReadOnly(t) THEN e.undo ELSE Journaled(e.undo, T)
  BY ExecPlanCall
<1>2. \A u \in Task : ~Notifying(u) /\ ~Notifying(u)'
  BY DEF Notifying, ExecPlan
<1>3. \A u \in Task \ {t} : Same(u)
  BY <1>1, <1>2 DEF Same, Working
<1>4. /\ e.results \in Seq(Partial) /\ Len(e.results) \in Nat
      /\ DOMAIN e.results = 1 .. Len(e.results)
      /\ FirstPlans(t) \subseteq Scope[t] /\ T \subseteq Scope[t] /\ T \subseteq Table
      /\ Scope[t] \subseteq Table
  BY <1>1, FirstPlansInScope, PlansAreTyped
<1> DEFINE n == Len(e.results) + 1
<1>5. /\ DOMAIN execs'[t][1].results = 1 .. n
      /\ \A i \in DOMAIN e.results : execs'[t][1].results[i] = e.results[i]
      /\ execs'[t][1].results[n] = IF ReadOnly(t) THEN Contents(T) ELSE <<>>
      /\ 1 .. n = (DOMAIN e.results) \cup {n}
  <2>1. \A k \in Nat : 1 .. k + 1 = (1 .. k) \cup {k + 1}
    OBVIOUS
  <2>2. /\ Contents(T) \in Partial /\ <<>> \in Partial
    BY <1>4, ContentsTyped DEF IInv
  <2> DEFINE p == IF ReadOnly(t) THEN Contents(T) ELSE <<>>
  <2>3. p \in Partial
    BY <2>2
  <2> HIDE DEF p
  <2>4. /\ Append(e.results, p) \in Seq(Partial)
        /\ Len(Append(e.results, p)) = n
        /\ \A i \in 1 .. Len(e.results) : Append(e.results, p)[i] = e.results[i]
        /\ Append(e.results, p)[n] = p
    BY <1>4, <2>3, AppendProperties
  <2>5. execs'[t][1].results = Append(e.results, p)
    BY <1>1 DEF p
  <2>6. DOMAIN Append(e.results, p) = 1 .. n
    BY <2>4
  <2> QED BY <1>4, <2>1, <2>4, <2>5, <2>6 DEF p
<1>6. CASE ReadOnly(t)
  <2>1. UNCHANGED <<cache, committed>>
    BY <1>6 DEF ExecPlan
  <2>2. \A d \in Table : ~Changes(t, d)
    BY <1>6 DEF Changes, ReadOnly
  <2>3. Contents(T) = [d \in T |-> committed[d]]
    <3>1. State(t) \in Unfinished
      BY DEF Unfinished
    <3>2. \A d \in T : cache[d] = committed[d]
      BY <1>4, <2>2, <3>1, LockedIsCommitted
    <3> QED BY <3>2 DEF Contents
  <2>4. /\ DOMAIN e.undo = {}
        /\ \A i \in DOMAIN e.results : e.results[i] = [d \in PlansOf[t][i].tables |-> committed[d]]
    BY <1>6 DEF DataInv, ReaderInv
  <2>5. ReaderInv(t)'
    <3>1. DOMAIN execs'[t][1].undo = {}
      BY <1>1, <1>6, <2>4
    <3>2. \A i \in DOMAIN execs'[t][1].results :
             execs'[t][1].results[i] = [d \in PlansOf[t][i].tables |-> committed'[d]]
      <4>1. ASSUME NEW i \in DOMAIN e.results
            PROVE  execs'[t][1].results[i] = [d \in PlansOf[t][i].tables |-> committed'[d]]
        <5>1. execs'[t][1].results[i] = e.results[i]
          BY <1>5
        <5>2. e.results[i] = [d \in PlansOf[t][i].tables |-> committed[d]]
          BY <2>4
        <5> QED BY <2>1, <5>1, <5>2
      <4>2. execs'[t][1].results[n] = [d \in T |-> committed'[d]]
        BY <1>5, <1>6, <2>1, <2>3
      <4> QED BY <1>5, <4>1, <4>2
    <3> QED BY <3>1, <3>2 DEF ReaderInv
  <2>6. UpdateInv(t)' /\ ImportInv(t)'
    BY <1>6 DEF UpdateInv, ImportInv, ReadOnly
  <2> QED BY <1>3, <2>1, <2>2, <2>5, <2>6, DataKept
<1>7. CASE ~ReadOnly(t)
  <2>1. Kind[t] \in {"update", "transaction"}
    <3>1. Kind[t] \in TaskKind
      BY RunnerAssumption
    <3>2. Kind[t] # "import"
      BY DEF ExecPlan, PlansDone, DataInv, ImportInv
    <3>3. Kind[t] # "external"
      BY DEF IInv, PlanInv
    <3> QED BY <1>7, <3>1, <3>2, <3>3 DEF TaskKind, ReadOnly
  <2>2. Working(t) /\ Working(t)'
    BY <1>1, <1>2 DEF Working
  <2>3. /\ DOMAIN e.undo = FirstPlans(t)
        /\ \A d \in DOMAIN e.undo : cache[d] = t /\ e.undo[d] = committed[d]
    BY <2>1, <2>2 DEF DataInv, UpdateInv
  <2>4. /\ execs'[t][1].undo = Journaled(e.undo, T)
        /\ cache' = Overwrite(cache, T, t) /\ UNCHANGED committed
    BY <1>1, <1>7 DEF ExecPlan
  <2> DEFINE S == FirstPlans(t) \cup T
  <2>5. S \in SUBSET Scope[t] /\ S \subseteq Table
    BY <1>4
  <2>6. DOMAIN Journaled(e.undo, T) = S
    BY <2>3 DEF Journaled
  <2>7. \A d \in S : cache'[d] = t
    BY <1>4, <2>3, <2>4 DEF Overwrite
  <2>8. \A d \in S : Journaled(e.undo, T)[d] = committed[d]
    <3>1. \A d \in FirstPlans(t) : Journaled(e.undo, T)[d] = committed[d]
      BY <2>3 DEF Journaled
    <3>2. ASSUME NEW d \in T, d \notin FirstPlans(t)
          PROVE  Journaled(e.undo, T)[d] = committed[d]
      <4>1. Journaled(e.undo, T)[d] = cache[d]
        BY <2>3, <3>2 DEF Journaled
      <4>2. ~Changes(t, d) /\ State(t) \in Unfinished
        BY <2>1, <2>3, <3>2 DEF Changes, Unfinished
      <4>3. d \in Scope[t]
        BY <1>4
      <4> QED BY <4>1, <4>2, <4>3, LockedIsCommitted
    <3> QED BY <3>1, <3>2
  <2>9. FirstPlans(t)' = S
    <3>1. FirstPlans(t)' = UNION {PlansOf[t][i].tables : i \in (DOMAIN e.results) \cup {n}}
      BY <1>5 DEF FirstPlans
    <3> QED BY <3>1 DEF FirstPlans
  <2>10. UpdateInv(t)'
    BY <2>4, <2>6, <2>7, <2>8, <2>9 DEF UpdateInv
  <2>11. \A d \in Table \ S : cache'[d] = cache[d] /\ committed'[d] = committed[d]
    BY <2>4 DEF Overwrite
  <2>12. \A d \in Table : Changes(t, d) => d \in S
    BY <2>1, <2>3 DEF Changes
  <2>13. \A d \in S : Changes(t, d)'
    BY <2>1, <2>2, <2>4, <2>6 DEF Changes
  <2> HIDE DEF S
  <2> QED BY <1>3, <2>1, <2>2, <2>5, <2>10, <2>11, <2>12, <2>13, DataMoved
<1> QED BY <1>6, <1>7

(* An update or a transaction commits, fails or is cancelled: either way   *)
(* the cache and what is committed agree on the tables it has changed.     *)
LEMMA WriterSettles ==
    ASSUME IInv, DataInv, NEW t \in Task, Kind[t] \in {"update", "transaction"}, Working(t),
           ~Working(t)', \A u \in Task \ {t} : Same(u),
           \/ UNCHANGED cache /\ committed' = Overwrite(committed, DOMAIN execs[t][1].undo, t)
           \/ UNCHANGED committed /\ cache' = Undone(execs[t][1].undo)
    PROVE  DataInv'
<1> DEFINE undo == execs[t][1].undo
<1>1. /\ DOMAIN undo = FirstPlans(t)
      /\ \A d \in DOMAIN undo : cache[d] = t /\ undo[d] = committed[d]
  BY DEF DataInv, UpdateInv
<1>2. DOMAIN undo \in SUBSET Scope[t] /\ Scope[t] \subseteq Table
  BY <1>1, FirstPlansInScope, PlansAreTyped DEF Working
<1>3. \A d \in Table \ DOMAIN undo : cache'[d] = cache[d] /\ committed'[d] = committed[d]
  BY DEF Overwrite, Undone
<1>4. \A d \in DOMAIN undo : cache'[d] = committed'[d]
  BY <1>1, <1>2 DEF Overwrite, Undone
<1>5. \A d \in Table : Changes(t, d) => d \in DOMAIN undo
  BY DEF Changes
<1>6. UpdateInv(t)'
  BY DEF UpdateInv
<1> HIDE DEF undo
<1> QED BY <1>2, <1>3, <1>4, <1>5, <1>6, DataMoved

\* ImportFailed in terms of the state of an import's one call.
ImportBroke ==
    \E t \in Task : Kind[t] = "import" /\ (outcome[t] = "rejected" \/ State(t) = "failed")

(* The two say the same.                                                   *)
LEMMA ImportFailedStates == TypeInv => (ImportFailed <=> ImportBroke)
<1> SUFFICES ASSUME TypeInv, NEW t \in Task
             PROVE  (\E n \in DOMAIN execs[t] : execs[t][n].state = "failed") <=> State(t) = "failed"
  BY DEF ImportFailed, ImportBroke
<1>1. ASSUME NEW n \in DOMAIN execs[t], execs[t][n].state = "failed" PROVE State(t) = "failed"
  BY <1>1, OneCall
<1>2. ASSUME State(t) = "failed" PROVE 1 \in DOMAIN execs[t] /\ execs[t][1].state = "failed"
  BY <1>2, OneCall
<1> QED BY <1>1, <1>2

(* Promise callbacks of running tasks.                                     *)
LEMMA ProgressData ==
    ASSUME IInv, IInv', DataInv, ~ImportFailed', NEW t \in Task, State(t) = "running",
           stack = <<>>, Progress(t, 1)
    PROVE  DataInv'
<1>1. \A u \in Task : ~Notifying(u)
  BY DEF Notifying
<1>2. Working(t) /\ State(t) \in Unfinished
  BY <1>1 DEF Working, Unfinished
<1>3. CASE ExecPlan(t, 1)
  BY <1>3, ExecPlanData
<1>4. CASE CommitUpdate(t, 1) /\ IsObserved[t]
  <2>1. /\ UNCHANGED execs /\ \A u \in Task : State(u)' = State(u)
        /\ \A u \in Task : Notifying(u)' <=> u = t
    BY <1>4, NotifyingKeeps
  <2>2. ~Working(t)' /\ \A u \in Task \ {t} : Same(u)
    BY <1>1, <2>1 DEF Working, Same
  <2>3. /\ Kind[t] \in {"update", "transaction"} /\ UNCHANGED cache
        /\ committed' = Overwrite(committed, DOMAIN execs[t][1].undo, t)
    BY <1>4 DEF CommitUpdate
  <2> QED BY <1>2, <2>2, <2>3, WriterSettles
<1>5. CASE ~ExecPlan(t, 1) /\ ~(CommitUpdate(t, 1) /\ IsObserved[t])
  <2>1. /\ State(t)' \in {"ok", "failed"}
        /\ execs'[t][1] = [execs[t][1] EXCEPT !.state = State(t)']
        /\ State(t)' = "failed" => Fail(t, 1)
        /\ \A u \in Task \ {t} : State(u)' = State(u) /\ execs'[u] = execs[u]
        /\ UNCHANGED stack
    BY <1>5, SettledCall
  <2>2. \A u \in Task : ~Notifying(u)'
    BY <2>1 DEF Notifying
  <2>3. ~Working(t)' /\ \A u \in Task \ {t} : Same(u)
    BY <1>1, <2>1, <2>2 DEF Working, Same
  <2>4. UpdateInv(t)' /\ ImportInv(t)' /\ ReaderInv(t)'
    BY <2>1, <2>3 DEF UpdateInv, ImportInv, ReaderInv
  <2>5. CASE Kind[t] \in {"update", "transaction"}
    <3>1. \/ UNCHANGED cache /\ committed' = Overwrite(committed, DOMAIN execs[t][1].undo, t)
          \/ UNCHANGED committed /\ cache' = Undone(execs[t][1].undo)
      BY <1>5, <2>5 DEF Progress, CommitQuery, CommitUpdate, CommitImport, Fail, Rollback
    <3> QED BY <1>2, <2>3, <2>5, <3>1, WriterSettles
  <2>6. CASE ReadOnly(t)
    <3>1. DOMAIN execs[t][1].undo = {} /\ cache \in [Table -> Holder]
      BY <2>6 DEF DataInv, ReaderInv, IInv, ContentsInv
    <3>2. Undone(execs[t][1].undo) = cache
      BY <3>1 DEF Undone
    <3>3. UNCHANGED <<cache, committed>>
      BY <1>5, <2>6, <3>2 DEF Progress, CommitQuery, CommitUpdate, CommitImport, Fail, Rollback,
                              ReadOnly
    <3>4. \A d \in Table : ~Changes(t, d)
      BY <2>6 DEF Changes, ReadOnly
    <3> QED BY <2>3, <2>4, <3>3, <3>4, DataKept
  <2>7. CASE Kind[t] = "import"
    <3>1. ~Fail(t, 1)
      <4>1. ASSUME Fail(t, 1) PROVE State(t)' = "failed"
        BY <4>1, StateSet DEF Fail, CallState, IInv, Control
      <4>2. ASSUME State(t)' = "failed" PROVE ImportFailed'
        <5>1. (TypeInv => (ImportFailed <=> ImportBroke))'
          BY ImportFailedStates, PTL
        <5> QED BY <2>7, <4>2, <5>1 DEF IInv, Control, ImportBroke
      <4> QED BY <4>1, <4>2
    <3>2. CommitImport(t, 1)
      BY <1>5, <2>7, <3>1 DEF Progress, CommitQuery, CommitUpdate, Rollback
    <3>3. \A d \in Table : cache[d] = t
      BY <2>7 DEF DataInv, ImportInv
    <3>4. \A d \in Table : cache'[d] = committed'[d]
      BY <3>2, <3>3 DEF CommitImport, Overwrite
    <3>5. \A u \in Task \ {t} : State(u)' \notin Unfinished
      BY <1>2, <2>1, <2>7, ImportAlone
    <3> QED BY <2>4, <2>7, <3>4, <3>5, DataImported
  <2>8. Kind[t] \in TaskKind /\ Kind[t] # "external"
    BY RunnerAssumption DEF IInv, PlanInv
  <2> QED BY <2>5, <2>6, <2>7, <2>8 DEF TaskKind, ReadOnly
<1> QED BY <1>3, <1>4, <1>5

(* The failure of an import is not forgotten.                              *)
LEMMA ImportFailedStays ==
    ASSUME IInv, NoReentry, Next, ImportBroke
    PROVE  ImportBroke'
<1>1. PICK t \in Task : Kind[t] = "import" /\ (outcome[t] = "rejected" \/ State(t) = "failed")
  BY DEF ImportBroke
<1>2. CASE Return
  <2>1. UNCHANGED outcome
    BY <1>2 DEF Return
  <2>2. State(t) = "failed" => State(t)' = "failed"
    BY <1>2, ReturnKeeps DEF IInv
  <2> QED BY <1>1, <2>1, <2>2 DEF ImportBroke
<1>3. ASSUME NEW u \in Task, PassOver(u) PROVE ImportBroke'
  <2>1. UNCHANGED outcome /\ State(t)' = State(t)
    BY <1>3, PassOverKeeps DEF IInv, PassOver
  <2> QED BY <1>1, <2>1 DEF ImportBroke
<1>4. ASSUME NEW u \in Task, Starting(u) PROVE ImportBroke'
  <2>1. Visiting(u) /\ Acquires(u)
    BY <1>4 DEF Starting
  <2>2. UNCHANGED outcome /\ (State(t) = "failed" => State(t)' = "failed")
    <3>1. CASE ExecThrows(u)
      BY <2>1, <3>1, ThrowsKeeps DEF IInv
    <3>2. CASE ~ExecThrows(u)
      <4>1. PICK call \in CallRecord : call.state \in {"running", "ok"} /\ Starts(u, call)
        BY <1>4, <3>2, StartingCall
      <4> QED BY <2>1, <4>1, StartsKeeps DEF IInv, Starts
    <3> QED BY <3>1, <3>2
  <2> QED BY <1>1, <2>2 DEF ImportBroke
<1>5. ASSUME NEW u \in Task, UserSchedules(u) PROVE ImportBroke'
  <2>1. /\ State(t)' = State(t) /\ outcome[u] = "new"
        /\ outcome' = [outcome EXCEPT ![u] = "pending"]
    BY <1>5, UserSchedulesKeeps
  <2>2. outcome[t] = "rejected" => outcome'[t] = "rejected"
    BY <2>1 DEF IInv, Control, TypeInv
  <2> QED BY <1>1, <2>1, <2>2 DEF ImportBroke
<1>6. ASSUME NEW u \in Task, NEW n \in DOMAIN execs[u], Progress(u, n) PROVE ImportBroke'
  <2>1. n = 1 /\ State(u) = "running" /\ Progress(u, 1)
    BY <1>6, ProgressCall
  <2>2. CASE ExecPlan(u, 1)
    <3>1. UNCHANGED outcome /\ (State(t) = "failed" => State(t)' = "failed")
      BY <2>1, <2>2, ExecPlanCall DEF ExecPlan
    <3> QED BY <1>1, <3>1 DEF ImportBroke
  <2>3. CASE CommitUpdate(u, 1) /\ IsObserved[u]
    <3>1. /\ State(t)' = State(t) /\ outcome[ObserverOf[u]] = "new"
          /\ outcome' = [outcome EXCEPT ![ObserverOf[u]] = "pending"]
      BY <2>1, <2>3, NotifyingKeeps
    <3>2. outcome[t] = "rejected" => outcome'[t] = "rejected"
      BY <3>1 DEF IInv, Control, TypeInv
    <3> QED BY <1>1, <3>1, <3>2 DEF ImportBroke
  <2>4. CASE ~ExecPlan(u, 1) /\ ~(CommitUpdate(u, 1) /\ IsObserved[u])
    <3>1. UNCHANGED outcome /\ (State(t) = "failed" => State(t)' = "failed")
      BY <2>1, <2>4, SettledCall
    <3> QED BY <1>1, <3>1 DEF ImportBroke
  <2> QED BY <2>2, <2>3, <2>4
<1>7. ASSUME NEW u \in Task, NEW n \in DOMAIN execs[u], Finish(u, n) PROVE ImportBroke'
  <2>1. /\ State(u) \in {"ok", "failed"} /\ outcome[u] = "pending"
        /\ outcome'[u] = IF State(u) = "ok" THEN "resolved" ELSE "rejected"
        /\ \A v \in Task \ {u} : State(v)' = State(v) /\ outcome'[v] = outcome[v]
    BY <1>7, FinishKeeps DEF IInv
  <2> QED BY <1>1, <2>1 DEF ImportBroke
<1> QED BY <1>2, <1>3, <1>4, <1>5, <1>6, <1>7 DEF Next, Consume

(* Every step keeps the whole invariant.                                   *)
LEMMA NextSInv == SInv /\ NoReentry /\ [Next]_vars => SInv'
<1> SUFFICES ASSUME SInv, NoReentry, [Next]_vars PROVE SInv'
  OBVIOUS
<1>1. IInv /\ IInv'
  BY NextIInv DEF SInv
<1>2. (ImportFailed <=> ImportBroke) /\ (ImportFailed <=> ImportBroke)'
  <2>1. (TypeInv => (ImportFailed <=> ImportBroke))'
    BY ImportFailedStates, PTL
  <2> QED BY <1>1, <2>1, ImportFailedStates DEF IInv, Control
<1>3. CASE UNCHANGED vars
  <2>1. \A u \in Task : Same(u)
    BY <1>3 DEF vars, Same, Working, Notifying, State
  <2>2. ImportFailed => ImportFailed'
    BY <1>3 DEF vars, ImportFailed
  <2>3. DataInv => DataInv'
    BY <1>3, <2>1, DataKept DEF vars
  <2> QED BY <1>1, <2>2, <2>3 DEF SInv
<1>4. CASE Next /\ ImportFailed
  BY <1>1, <1>2, <1>4, ImportFailedStays DEF SInv
<1>5. CASE Next /\ ~ImportFailed /\ ~ImportFailed'
  <2>1. DataInv
    BY <1>5 DEF SInv
  <2>2. ASSUME NEW t \in Task, NEW n \in DOMAIN execs[t], Progress(t, n) PROVE DataInv'
    <3>1. n = 1 /\ stack = <<>> /\ State(t) = "running" /\ Progress(t, 1)
      BY <1>1, <2>2, ProgressCall
    <3> QED BY <1>1, <1>5, <2>1, <3>1, ProgressData
  <2>3. DataInv'
    BY <1>1, <1>5, <2>1, <2>2, RunnerData, StartingData DEF Next, Consume
  <2> QED BY <1>1, <2>3 DEF SInv
<1> QED BY <1>1, <1>3, <1>4, <1>5 DEF SInv

-----------------------------------------------------------------------------
(* The refinement mapping.                                                 *)

PhaseOf(t) == IF outcome[t] # "pending" THEN outcome[t]
              ELSE IF State(t) = "ok" \/ Notifying(t) THEN "effective" ELSE "called"

AnswerTo(t) == IF State(t) = "ok" \/ outcome[t] = "resolved" THEN execs[t][1].results ELSE Nil

Readers == {t \in Task : ReadOnly(t)}

(* A task is effective from its commit on, while it still schedules its    *)
(* observer task.                                                          *)
LEMMA EffectiveStates ==
    ASSUME IInv, NEW t \in Task
    PROVE  Effective(t) <=> State(t) = "ok" \/ Notifying(t)
<1>1. ASSUME Effective(t) PROVE State(t) = "ok" \/ Notifying(t)
  <2>1. PICK n \in DOMAIN execs[t] : execs[t][n].state = "ok" \/ <<t, n>> \in Interrupted
    BY <1>1 DEF Effective
  <2>2. n = 1 /\ State(t) = execs[t][1].state
    BY <2>1, OneCall DEF IInv, Control
  <2>3. CASE <<t, n>> \in Interrupted
    <3>1. PICK i \in DOMAIN stack : stack[i].caller = <<t, 1>>
      BY <2>2, <2>3 DEF Interrupted
    <3>2. stack \in Seq(Frame) /\ stack # <<>> /\ Len(stack) <= 1
      BY <3>1 DEF IInv, Control, TypeInv
    <3>3. i = 1
      BY <3>1, <3>2, OneElement
    <3> QED BY <3>1, <3>2, <3>3 DEF Notifying
  <2> QED BY <2>1, <2>2, <2>3
<1>2. ASSUME State(t) = "ok" PROVE Effective(t)
  <2>1. 1 \in DOMAIN execs[t] /\ execs[t][1].state = "ok"
    BY <1>2, OneCall DEF IInv, Control
  <2> QED BY <2>1 DEF Effective
<1>3. ASSUME Notifying(t) PROVE Effective(t)
  <2>1. stack \in Seq(Frame) /\ stack # <<>> /\ Len(stack) <= 1 /\ stack[1].caller = <<t, 1>>
    BY <1>3 DEF IInv, Control, TypeInv, Notifying
  <2>2. 1 \in DOMAIN stack
    BY <2>1, OneElement
  <2>3. <<t, 1>> \in Interrupted
    BY <2>1, <2>2, RunnerAssumption DEF Interrupted
  <2>4. State(t) = "running"
    BY <1>3 DEF IInv, Control, NotifyInv
  <2>5. 1 \in DOMAIN execs[t]
    BY <2>4, OneCall DEF IInv, Control
  <2> QED BY <2>3, <2>5 DEF Effective
<1> QED BY <1>1, <1>2, <1>3

Mapping == /\ Phase = [t \in Task |-> PhaseOf(t)]
           /\ AnswerOf = [t \in Readers |-> AnswerTo(t)]

(* The mapping in terms of the state of each task's one call.              *)
LEMMA MappingStates == IInv => Mapping
<1> SUFFICES ASSUME IInv
             PROVE  /\ Phase = [t \in Task |-> PhaseOf(t)]
                    /\ AnswerOf = [t \in Readers |-> AnswerTo(t)]
  BY DEF Mapping
<1>1. \A t \in Task : Effective(t) <=> State(t) = "ok" \/ Notifying(t)
  BY EffectiveStates
<1>2. Phase = [t \in Task |-> PhaseOf(t)]
  BY <1>1 DEF Phase, PhaseOf
<1>3. ASSUME NEW t \in Readers
      PROVE  (IF Answered(t) THEN Last(execs[t]).results ELSE Nil) = AnswerTo(t)
  <2>1. t \in Task /\ ~Notifying(t)
    BY NotifiersAreTyped DEF Readers, ReadOnly, IInv, Control, NotifyInv
  <2>2. Answered(t) <=> State(t) = "ok" \/ outcome[t] = "resolved"
    BY <1>1, <2>1 DEF Answered
  <2>3. CASE State(t) = "ok" \/ outcome[t] = "resolved"
    <3>1. State(t) # "none"
      BY <2>1, <2>3 DEF IInv, Control, CallInv
    <3>2. Len(execs[t]) = 1
      BY <2>1, <3>1, OneCall DEF IInv, Control
    <3> QED BY <2>2, <2>3, <3>2 DEF Last, AnswerTo
  <2>4. CASE ~(State(t) = "ok" \/ outcome[t] = "resolved")
    BY <2>2, <2>4 DEF AnswerTo
  <2> QED BY <2>3, <2>4
<1>4. AnswerOf = [t \in Readers |-> AnswerTo(t)]
  BY <1>3 DEF AnswerOf, Readers
<1> QED BY <1>2, <1>4

(* A step that changes no phase, no answer and nothing committed is none   *)
(* of the serial database's.                                               *)
LEMMA SerialStutter ==
    ASSUME IInv, IInv', UNCHANGED committed,
           \A u \in Task : PhaseOf(u)' = PhaseOf(u),
           \A u \in Readers : AnswerTo(u)' = AnswerTo(u)
    PROVE  UNCHANGED Serial!vars
<1>1. /\ Phase' = [t \in Task |-> PhaseOf(t)']
      /\ AnswerOf' = [t \in Readers |-> AnswerTo(t)']
  <2>1. (IInv => Mapping)'
    BY MappingStates, PTL
  <2> QED BY <2>1 DEF Mapping
<1>2. Phase' = Phase
  BY <1>1, MappingStates DEF Mapping
<1>3. AnswerOf' = AnswerOf
  BY <1>1, MappingStates DEF Mapping
<1> QED BY <1>2, <1>3 DEF Serial!vars

(* A step that changes the phase of one task, and no answer.               *)
LEMMA SerialMove ==
    ASSUME IInv, IInv', NEW t \in Task,
           \A u \in Task \ {t} : PhaseOf(u)' = PhaseOf(u),
           \A u \in Readers : AnswerTo(u)' = AnswerTo(u)
    PROVE  /\ Phase[t] = PhaseOf(t) /\ Phase' = [Phase EXCEPT ![t] = PhaseOf(t)']
           /\ AnswerOf' = AnswerOf
<1>1. /\ Phase' = [u \in Task |-> PhaseOf(u)']
      /\ AnswerOf' = [u \in Readers |-> AnswerTo(u)']
  <2>1. (IInv => Mapping)'
    BY MappingStates, PTL
  <2> QED BY <2>1 DEF Mapping
<1>2. /\ Phase = [u \in Task |-> PhaseOf(u)]
      /\ AnswerOf = [u \in Readers |-> AnswerTo(u)]
  BY MappingStates DEF Mapping
<1>3. AnswerOf' = AnswerOf
  BY <1>1, <1>2
<1>4. Phase' = [Phase EXCEPT ![t] = PhaseOf(t)']
  BY <1>1, <1>2
<1> QED BY <1>2, <1>3, <1>4

-----------------------------------------------------------------------------
(* Each action is one of the serial database's or none.                    *)

(* A task in progress is pending.                                          *)
LEMMA InProgressIsPending ==
    ASSUME IInv, NEW t \in Task, State(t) \in Unfinished
    PROVE  outcome[t] = "pending"
BY DEF IInv, Control, CallInv, TypeInv, Unfinished

(* A walk over the queue that goes on or returns.                          *)
LEMMA WalkIsNothing ==
    ASSUME IInv, IInv', Return \/ \E t \in Task : PassOver(t)
    PROVE  UNCHANGED Serial!vars
<1>1. CASE Return
  <2>1. UNCHANGED <<outcome, committed>>
    BY <1>1 DEF Return
  <2>2. ASSUME NEW u \in Task, Notifying(u)
        PROVE  PhaseOf(u)' = PhaseOf(u) /\ u \notin Readers
    <3>1. State(u) = "running" /\ State(u)' = "ok" /\ u \in DOMAIN ObserverOf
      BY <1>1, <2>2, ReturnKeeps DEF IInv, Control, NotifyInv
    <3>2. outcome[u] = "pending"
      BY <3>1, InProgressIsPending DEF Unfinished
    <3>3. u \notin Readers
      BY <3>1, NotifiersAreTyped DEF Readers, ReadOnly
    <3> QED BY <2>1, <2>2, <3>1, <3>2, <3>3 DEF PhaseOf
  <2>3. ASSUME NEW u \in Task, ~Notifying(u)
        PROVE  PhaseOf(u)' = PhaseOf(u) /\ AnswerTo(u)' = AnswerTo(u)
    <3>1. State(u)' = State(u) /\ execs'[u] = execs[u] /\ ~Notifying(u)'
      BY <1>1, <2>3, ReturnKeeps DEF IInv
    <3> QED BY <2>1, <2>3, <3>1 DEF PhaseOf, AnswerTo
  <2> QED BY <2>1, <2>2, <2>3, SerialStutter DEF Readers
<1>2. ASSUME NEW t \in Task, PassOver(t) PROVE UNCHANGED Serial!vars
  <2>1. UNCHANGED <<outcome, committed, execs>>
    BY <1>2 DEF PassOver
  <2>2. \A u \in Task : State(u)' = State(u) /\ (Notifying(u)' <=> Notifying(u))
    BY <1>2, PassOverKeeps DEF IInv
  <2>3. \A u \in Task : PhaseOf(u)' = PhaseOf(u) /\ AnswerTo(u)' = AnswerTo(u)
    BY <2>1, <2>2 DEF PhaseOf, AnswerTo
  <2> QED BY <2>1, <2>3, SerialStutter DEF Readers
<1> QED BY <1>1, <1>2

(* A user schedules a task: the call of the task.                          *)
LEMMA ScheduleIsCall ==
    ASSUME IInv, IInv', NEW t \in Task, UserSchedules(t)
    PROVE  Serial!Call(t)
<1>1. /\ UNCHANGED <<execs, committed>> /\ t \in UserTask
      /\ outcome[t] = "new" /\ outcome' = [outcome EXCEPT ![t] = "pending"]
      /\ \A u \in Task : ~Notifying(u) /\ ~Notifying(u)' /\ State(u)' = State(u)
  BY UserSchedulesKeeps
<1>2. outcome'[t] = "pending" /\ \A u \in Task \ {t} : outcome'[u] = outcome[u]
  BY <1>1 DEF IInv, Control, TypeInv
<1>3. PhaseOf(t) = "new" /\ PhaseOf(t)' = "called"
  <2>1. State(t) = "none"
    BY <1>1 DEF IInv, Control, CallInv
  <2> QED BY <1>1, <1>2, <2>1 DEF PhaseOf
<1>4. \A u \in Task \ {t} : PhaseOf(u)' = PhaseOf(u)
  BY <1>1, <1>2 DEF PhaseOf
<1>5. \A u \in Readers : AnswerTo(u)' = AnswerTo(u)
  BY <1>1, <1>2 DEF AnswerTo, Readers
<1>6. t \notin {ObserverOf[w] : w \in DOMAIN ObserverOf}
  BY <1>1, NotifiersAreTyped DEF UserTask
<1>7. Phase[t] = "new" /\ Phase' = [Phase EXCEPT ![t] = "called"] /\ AnswerOf' = AnswerOf
  BY <1>3, <1>4, <1>5, SerialMove
<1> QED BY <1>1, <1>6, <1>7 DEF Serial!Call, Serial!Move

(* The caller of a task is told of its end.                                *)
LEMMA FinishIsReturn ==
    ASSUME IInv, IInv', NEW t \in Task, NEW n \in DOMAIN execs[t], Finish(t, n)
    PROVE  Serial!Return(t) \/ Serial!Reject(t)
<1>1. /\ State(t) \in {"ok", "failed"} /\ State(t)' = "done" /\ outcome[t] = "pending"
      /\ outcome'[t] = IF State(t) = "ok" THEN "resolved" ELSE "rejected"
      /\ \A u \in Task \ {t} : /\ State(u)' = State(u) /\ execs'[u] = execs[u]
                               /\ outcome'[u] = outcome[u]
      /\ execs'[t][1] = [execs[t][1] EXCEPT !.state = "done"]
      /\ \A u \in Task : ~Notifying(u) /\ ~Notifying(u)'
  BY FinishKeeps DEF IInv
<1>2. UNCHANGED committed
  BY DEF Finish
<1>3. \A u \in Task \ {t} : PhaseOf(u)' = PhaseOf(u) /\ AnswerTo(u)' = AnswerTo(u)
  BY <1>1 DEF PhaseOf, AnswerTo
<1>4. AnswerTo(t)' = AnswerTo(t)
  <2>1. execs[t][1] \in CallRecord
    BY <1>1, OneCall DEF IInv, Control
  <2>2. execs'[t][1].results = execs[t][1].results
    BY <1>1, <2>1 DEF CallRecord
  <2> QED BY <1>1, <2>2 DEF AnswerTo
<1>5. /\ PhaseOf(t) = IF State(t) = "ok" THEN "effective" ELSE "called"
      /\ PhaseOf(t)' = IF State(t) = "ok" THEN "resolved" ELSE "rejected"
  BY <1>1 DEF PhaseOf
<1>6. /\ Phase[t] = PhaseOf(t) /\ Phase' = [Phase EXCEPT ![t] = PhaseOf(t)']
      /\ AnswerOf' = AnswerOf
  BY <1>3, <1>4, SerialMove DEF Readers
<1>7. CASE State(t) = "ok"
  BY <1>2, <1>5, <1>6, <1>7 DEF Serial!Return, Serial!Move
<1>8. CASE State(t) = "failed"
  BY <1>1, <1>2, <1>5, <1>6, <1>8 DEF Serial!Reject, Serial!Move
<1> QED BY <1>1, <1>7, <1>8

\* What the plans of t read of tables as last committed.
Committed(t) == [i \in DOMAIN PlansOf[t] |-> [d \in PlansOf[t][i].tables |-> committed[d]]]

(* A step that only gives one reader its answer.                           *)
LEMMA SerialAnswer ==
    ASSUME IInv, IInv', NEW t \in Readers, UNCHANGED committed,
           PhaseOf(t) = "called", PhaseOf(t)' = "effective", AnswerTo(t)' = Committed(t),
           \A u \in Task \ {t} : PhaseOf(u)' = PhaseOf(u) /\ AnswerTo(u)' = AnswerTo(u)
    PROVE  Serial!Answer(t)
<1>1. /\ Phase' = [u \in Task |-> PhaseOf(u)']
      /\ AnswerOf' = [u \in Readers |-> AnswerTo(u)']
  <2>1. (IInv => Mapping)'
    BY MappingStates, PTL
  <2> QED BY <2>1 DEF Mapping
<1>2. /\ Phase = [u \in Task |-> PhaseOf(u)]
      /\ AnswerOf = [u \in Readers |-> AnswerTo(u)]
  BY MappingStates DEF Mapping
<1>3. t \in Task /\ Readers \subseteq Task
  BY DEF Readers
<1>4. Phase[t] = "called" /\ Phase' = [Phase EXCEPT ![t] = "effective"]
  BY <1>1, <1>2, <1>3
<1>5. AnswerOf' = [AnswerOf EXCEPT ![t] = Committed(t)]
  BY <1>1, <1>2, <1>3
<1>6. Committed(t) = [i \in DOMAIN ReadsOf[t] |-> [d \in ReadsOf[t][i] |-> committed[d]]]
  <2>1. ReadsOf[t] = [i \in DOMAIN PlansOf[t] |-> PlansOf[t][i].tables]
    BY DEF ReadsOf, Readers
  <2> QED BY <2>1 DEF Committed
<1> QED BY <1>4, <1>5, <1>6 DEF Serial!Answer, Serial!Move

(* A step that only commits what one writer has changed.                   *)
LEMMA SerialChange ==
    ASSUME IInv, IInv', NEW t \in Task, ~ReadOnly(t),
           PhaseOf(t) = "called", PhaseOf(t)' = "effective",
           committed' = Overwrite(committed, Scope[t], t),
           \A u \in Readers : AnswerTo(u)' = AnswerTo(u),
           \A u \in Task \ {t} :
              PhaseOf(u)' = IF t \in DOMAIN ObserverOf /\ u = ObserverOf[t] THEN "called"
                                                                       ELSE PhaseOf(u)
    PROVE  Serial!Change(t)
<1>1. /\ Phase' = [u \in Task |-> PhaseOf(u)']
      /\ AnswerOf' = [u \in Readers |-> AnswerTo(u)']
  <2>1. (IInv => Mapping)'
    BY MappingStates, PTL
  <2> QED BY <2>1 DEF Mapping
<1>2. /\ Phase = [u \in Task |-> PhaseOf(u)]
      /\ AnswerOf = [u \in Readers |-> AnswerTo(u)]
  BY MappingStates DEF Mapping
<1>3. AnswerOf' = AnswerOf
  BY <1>1, <1>2
<1>4. Phase' = [u \in Task |-> IF u = t THEN "effective"
                               ELSE IF t \in DOMAIN ObserverOf /\ u = ObserverOf[t] THEN "called"
                               ELSE Phase[u]]
  BY <1>1, <1>2
<1>5. WritesOf[t] = Scope[t]
  BY DEF WritesOf
<1>6. committed' = [d \in Table |-> IF d \in WritesOf[t] THEN t ELSE committed[d]]
  BY <1>5 DEF Overwrite
<1> QED BY <1>2, <1>3, <1>4, <1>6 DEF Serial!Change

(* A call of exec(): an export reads all at once, the change of another    *)
(* client is there at once, the others only start.                         *)
LEMMA StartIsNothing ==
    ASSUME IInv, IInv', DataInv, NoReentry, NEW t \in Task, Starting(t)
    PROVE  \/ t \in Readers /\ Serial!Answer(t)
           \/ ~ReadOnly(t) /\ Serial!Change(t)
           \/ UNCHANGED Serial!vars
<1>1. Visiting(t) /\ Acquires(t)
  BY DEF Starting
<1>2. CASE ExecThrows(t)
  <2>1. /\ State(t) = "none" /\ State(t)' = "lost" /\ Kind[t] = "import"
        /\ \A u \in Task \ {t} : State(u)' = State(u) /\ execs'[u] = execs[u]
        /\ \A u \in Task : ~Notifying(u) /\ ~Notifying(u)'
        /\ UNCHANGED <<outcome, committed>>
    BY <1>1, <1>2, ThrowsKeeps DEF IInv
  <2>2. \A u \in Task : PhaseOf(u)' = PhaseOf(u)
    BY <2>1 DEF PhaseOf
  <2>3. \A u \in Readers : AnswerTo(u)' = AnswerTo(u)
    BY <2>1 DEF AnswerTo, Readers, ReadOnly
  <2> QED BY <2>1, <2>2, <2>3, SerialStutter
<1>3. CASE ~ExecThrows(t)
  <2>1. PICK call \in CallRecord : call.state \in {"running", "ok"} /\ Starts(t, call)
    BY <1>3, StartingCall
  <2>2. /\ State(t) = "none" /\ outcome[t] = "pending"
        /\ State(t)' = call.state /\ execs'[t][1] = call
        /\ \A u \in Task \ {t} : State(u)' = State(u) /\ execs'[u] = execs[u]
        /\ \A u \in Task : Notifying(u)' <=> Notifying(u)
        /\ UNCHANGED outcome
    BY <1>1, <2>1, StartsKeeps DEF IInv, Starts
  <2>3. ~Notifying(t)
    BY <2>2 DEF IInv, Control, NotifyInv
  <2>4. \A u \in Task \ {t} : PhaseOf(u)' = PhaseOf(u) /\ AnswerTo(u)' = AnswerTo(u)
    BY <2>2 DEF PhaseOf, AnswerTo
  <2>5. ~ExecExternal(t) => UNCHANGED committed
    BY <1>3 DEF Starting, ExecQuery, ExecUpdate, ExecExport, ExecImport
  <2>6. CASE ExecExport(t)
    <3> DEFINE c == Call("ok", <<Contents(Table)>>, <<>>)
    <3>1. execs' = Append1(t, c) /\ Kind[t] = "export"
      BY <2>6 DEF ExecExport, Starts
    <3>2. execs'[t][1] = c /\ State(t)' = c.state
      BY <2>2, <3>1, FirstCall
    <3>3. c.state = "ok" /\ c.results = <<Contents(Table)>>
      BY DEF Call
    <3>4. PhaseOf(t) = "called" /\ PhaseOf(t)' = "effective"
      BY <2>2, <2>3, <3>2, <3>3 DEF PhaseOf
    <3>5. AnswerTo(t)' = <<Contents(Table)>>
      BY <3>2, <3>3 DEF AnswerTo
    <3>6. Committed(t) = <<Contents(Table)>>
      <4>1. PlansOf[t] = <<[tables |-> Table, query |-> Nil]>>
        BY <3>1 DEF PlansOf
      <4>2. DOMAIN PlansOf[t] = {1} /\ PlansOf[t][1].tables = Table
        BY <4>1
      <4>3. Committed(t) = [i \in {1} |-> [d \in Table |-> committed[d]]]
        BY <4>2 DEF Committed
      <4>4. \A d \in Table : cache[d] = committed[d]
        BY <1>1, <2>2, <3>1, StartsOnCommitted, WholeDatabase DEF ReadOnly
      <4>5. Contents(Table) = [d \in Table |-> committed[d]]
        BY <4>4 DEF Contents
      <4>6. \A x : <<x>> = [i \in {1} |-> x]
        OBVIOUS
      <4> QED BY <4>3, <4>5, <4>6
    <3>7. t \in Readers /\ UNCHANGED committed
      BY <2>6, <3>1 DEF Readers, ReadOnly, ExecExport
    <3> QED BY <2>4, <3>4, <3>5, <3>6, <3>7, SerialAnswer
  <2>7. CASE ExecExternal(t)
    <3> DEFINE c == Call("ok", <<>>, <<>>)
    <3>1. /\ execs' = Append1(t, c) /\ Kind[t] = "external" /\ ~IsObserved[t]
          /\ committed' = Overwrite(committed, Scope[t], t)
      BY <2>7 DEF ExecExternal, Starts, NoReentry
    <3>2. State(t)' = c.state
      BY <2>2, <3>1, FirstCall
    <3>3. c.state = "ok"
      BY DEF Call
    <3>4. PhaseOf(t) = "called" /\ PhaseOf(t)' = "effective"
      BY <2>2, <2>3, <3>2, <3>3 DEF PhaseOf
    <3>5. t \notin DOMAIN ObserverOf /\ ~ReadOnly(t)
      BY <3>1, NotifiersAreTyped DEF ReadOnly
    <3>6. \A u \in Readers : AnswerTo(u)' = AnswerTo(u)
      BY <2>4, <3>5 DEF Readers
    <3>7. Serial!Change(t)
      BY <2>4, <3>1, <3>4, <3>5, <3>6, SerialChange
    <3> QED BY <3>5, <3>7
  <2>8. CASE ~ExecExport(t) /\ ~ExecExternal(t)
    <3>1. State(t)' = "running"
      <4>1. CASE ExecQuery(t)
        <5> DEFINE c == Call("running", <<Contents(PlansOf[t][1].tables)>>, <<>>)
        <5>1. execs' = Append1(t, c)
          BY <4>1 DEF ExecQuery, Starts
        <5>2. State(t)' = c.state /\ c.state = "running"
          BY <2>2, <5>1, FirstCall DEF Call
        <5> QED BY <5>2
      <4>2. CASE ExecUpdate(t)
        <5> DEFINE c == Call("running", <<>>, <<>>)
        <5>1. execs' = Append1(t, c)
          BY <4>2 DEF ExecUpdate, Starts
        <5>2. State(t)' = c.state /\ c.state = "running"
          BY <2>2, <5>1, FirstCall DEF Call
        <5> QED BY <5>2
      <4>3. CASE ExecImport(t)
        <5> DEFINE c == Call("running", <<<<>>>>, <<>>)
        <5>1. execs' = Append1(t, c)
          BY <4>3 DEF ExecImport, Starts
        <5>2. State(t)' = c.state /\ c.state = "running"
          BY <2>2, <5>1, FirstCall DEF Call
        <5> QED BY <5>2
      <4> QED BY <1>3, <2>8, <4>1, <4>2, <4>3 DEF Starting
    <3>2. PhaseOf(t)' = PhaseOf(t) /\ AnswerTo(t)' = AnswerTo(t)
      BY <2>2, <2>3, <3>1 DEF PhaseOf, AnswerTo
    <3> QED BY <2>4, <2>5, <2>8, <3>2, SerialStutter DEF Readers
  <2> QED BY <2>6, <2>7, <2>8
<1> QED BY <1>2, <1>3

(* The promise of a running task settles, or the next plan is executed:    *)
(* the whole effect of the task at once, or nothing yet.                   *)
LEMMA ProgressIsEffect ==
    ASSUME IInv, IInv', DataInv, NEW t \in Task, State(t) = "running",
           stack = <<>>, Progress(t, 1)
    PROVE  \/ t \in Readers /\ Serial!Answer(t)
           \/ ~ReadOnly(t) /\ Serial!Change(t)
           \/ Kind[t] = "transaction" /\ Serial!Cancel(t)
           \/ UNCHANGED Serial!vars
<1>1. /\ outcome[t] = "pending" /\ \A u \in Task : ~Notifying(u)
      /\ PhaseOf(t) = "called" /\ Working(t)
  <2>1. outcome[t] = "pending"
    BY InProgressIsPending DEF Unfinished
  <2>2. \A u \in Task : ~Notifying(u)
    BY DEF Notifying
  <2> QED BY <2>1, <2>2 DEF PhaseOf, Working
<1>2. CASE ExecPlan(t, 1)
  <2>1. /\ State(t)' = "running"
        /\ \A u \in Task \ {t} : State(u)' = State(u) /\ execs'[u] = execs[u]
    BY <1>2, ExecPlanCall
  <2>2. UNCHANGED <<outcome, committed, stack>>
    BY <1>2 DEF ExecPlan
  <2>3. \A u \in Task : ~Notifying(u)'
    BY <1>1, <2>2 DEF Notifying
  <2>4. \A u \in Task : PhaseOf(u)' = PhaseOf(u)
    BY <1>1, <2>1, <2>2, <2>3 DEF PhaseOf
  <2>5. \A u \in Task : AnswerTo(u)' = AnswerTo(u)
    BY <1>1, <2>1, <2>2 DEF AnswerTo
  <2> QED BY <2>2, <2>4, <2>5, SerialStutter DEF Readers
<1>3. CASE CommitUpdate(t, 1) /\ IsObserved[t]
  <2>1. /\ UNCHANGED execs /\ \A u \in Task : State(u)' = State(u)
        /\ t \in DOMAIN ObserverOf /\ outcome[ObserverOf[t]] = "new"
        /\ outcome' = [outcome EXCEPT ![ObserverOf[t]] = "pending"]
        /\ \A u \in Task : ~Notifying(u) /\ (Notifying(u)' <=> u = t)
    BY <1>3, NotifyingKeeps
  <2> DEFINE o == ObserverOf[t]
  <2>2. o \in Task /\ o # t /\ State(o) = "none" /\ outcome'[o] = "pending"
    BY <1>1, <2>1, NotifiersAreTyped DEF IInv, Control, CallInv, TypeInv
  <2>3. \A u \in Task \ {o} : outcome'[u] = outcome[u]
    BY <2>1, <2>2 DEF IInv, Control, TypeInv
  <2>4. t \in DOMAIN ObserverOf /\ ObserverOf[t] = o
    BY <2>1
  <2>5. PhaseOf(t)' = "effective" /\ PhaseOf(o)' = "called"
    BY <1>1, <2>1, <2>2, <2>3 DEF PhaseOf
  <2>6. \A u \in Task \ {t, o} : PhaseOf(u)' = PhaseOf(u)
    BY <2>1, <2>3 DEF PhaseOf
  <2>7. \A u \in Readers : AnswerTo(u)' = AnswerTo(u)
    <3>1. AnswerTo(o)' = AnswerTo(o)
      BY <2>1, <2>2 DEF AnswerTo
    <3>2. \A u \in Task \ {o} : AnswerTo(u)' = AnswerTo(u)
      BY <2>1, <2>3 DEF AnswerTo
    <3> QED BY <3>1, <3>2 DEF Readers
  <2>8. ~ReadOnly(t) /\ committed' = Overwrite(committed, Scope[t], t)
    <3>1. /\ Kind[t] \in {"update", "transaction"} /\ PlansDone(t, 1)
          /\ committed' = Overwrite(committed, DOMAIN execs[t][1].undo, t)
      BY <1>3 DEF CommitUpdate
    <3>2. DOMAIN execs[t][1].undo = Scope[t]
      BY <1>1, <3>1, FirstPlansInScope DEF DataInv, UpdateInv, PlansDone
    <3> QED BY <3>1, <3>2 DEF ReadOnly
  <2> HIDE DEF o
  <2>9. \A u \in Task \ {t} :
           PhaseOf(u)' = IF t \in DOMAIN ObserverOf /\ u = ObserverOf[t] THEN "called"
                                                                    ELSE PhaseOf(u)
    BY <2>4, <2>5, <2>6
  <2>10. Serial!Change(t)
    BY <1>1, <2>5, <2>7, <2>8, <2>9, SerialChange
  <2> QED BY <2>8, <2>10
<1>4. CASE ~ExecPlan(t, 1) /\ ~(CommitUpdate(t, 1) /\ IsObserved[t])
  <2>1. /\ State(t)' \in {"ok", "failed"} /\ (State(t)' = "failed" => Fail(t, 1))
        /\ execs'[t][1] = [execs[t][1] EXCEPT !.state = State(t)']
        /\ \A u \in Task \ {t} : State(u)' = State(u) /\ execs'[u] = execs[u]
        /\ UNCHANGED <<stack, outcome>>
    BY <1>4, SettledCall
  <2>2. \A u \in Task : ~Notifying(u)'
    BY <1>1, <2>1 DEF Notifying
  <2>3. \A u \in Task \ {t} : PhaseOf(u)' = PhaseOf(u) /\ AnswerTo(u)' = AnswerTo(u)
    BY <1>1, <2>1, <2>2 DEF PhaseOf, AnswerTo
  <2>4. CASE State(t)' = "failed"
    <3>1. UNCHANGED committed
      BY <2>1, <2>4 DEF Fail
    <3>2. PhaseOf(t)' = PhaseOf(t) /\ AnswerTo(t)' = AnswerTo(t)
      BY <1>1, <2>1, <2>2, <2>4 DEF PhaseOf, AnswerTo
    <3> QED BY <2>3, <3>1, <3>2, SerialStutter DEF Readers
  <2>5. CASE State(t)' = "ok"
    <3>1. PhaseOf(t)' = "effective"
      BY <1>1, <2>1, <2>5 DEF PhaseOf
    <3>2. execs[t][1] \in CallRecord /\ execs'[t][1].results = execs[t][1].results
      <4>1. execs[t][1] \in CallRecord
        BY FirstPlansInScope
      <4> QED BY <2>1, <4>1 DEF CallRecord
    <3>3. CASE CommitQuery(t, 1)
      <4>1. t \in Readers /\ UNCHANGED committed /\ PlansDone(t, 1)
        BY <3>3 DEF CommitQuery, Readers, ReadOnly
      <4>2. DOMAIN execs[t][1].results = DOMAIN PlansOf[t]
        BY <4>1, FirstPlansInScope DEF PlansDone
      <4>3. \A i \in DOMAIN execs[t][1].results :
               execs[t][1].results[i] = [d \in PlansOf[t][i].tables |-> committed[d]]
        BY <4>1 DEF DataInv, ReaderInv, Readers
      <4>4. \A r \in Seq(Partial) : r = [i \in DOMAIN r |-> r[i]]
        OBVIOUS
      <4>5. execs[t][1].results = Committed(t)
        <5>1. execs[t][1].results \in Seq(Partial)
          BY FirstPlansInScope
        <5> QED BY <4>2, <4>3, <4>4, <5>1 DEF Committed
      <4>6. AnswerTo(t)' = Committed(t)
        BY <2>5, <3>2, <4>5 DEF AnswerTo
      <4> QED BY <1>1, <2>3, <3>1, <4>1, <4>6, SerialAnswer
    <3>4. CASE CommitUpdate(t, 1) /\ ~IsObserved[t]
      <4>1. /\ Kind[t] \in {"update", "transaction"} /\ PlansDone(t, 1)
            /\ committed' = Overwrite(committed, DOMAIN execs[t][1].undo, t)
        BY <3>4 DEF CommitUpdate
      <4>2. DOMAIN execs[t][1].undo = Scope[t]
        BY <1>1, <4>1, FirstPlansInScope DEF DataInv, UpdateInv, PlansDone
      <4>3. t \notin DOMAIN ObserverOf /\ ~ReadOnly(t)
        BY <3>4, <4>1, NotifiersAreTyped DEF ReadOnly
      <4>4. \A u \in Readers : AnswerTo(u)' = AnswerTo(u)
        BY <2>3, <4>3 DEF Readers
      <4>5. Serial!Change(t)
        BY <1>1, <2>3, <3>1, <4>1, <4>2, <4>3, <4>4, SerialChange
      <4> QED BY <4>3, <4>5
    <3>5. CASE CommitImport(t, 1)
      <4>1. Kind[t] = "import" /\ committed' = Overwrite(committed, Scope[t], t)
        BY <3>5, WholeDatabase DEF CommitImport
      <4>2. t \notin DOMAIN ObserverOf /\ ~ReadOnly(t)
        BY <4>1, NotifiersAreTyped DEF ReadOnly
      <4>3. \A u \in Readers : AnswerTo(u)' = AnswerTo(u)
        BY <2>3, <4>2 DEF Readers
      <4>4. Serial!Change(t)
        BY <1>1, <2>3, <3>1, <4>1, <4>2, <4>3, SerialChange
      <4> QED BY <4>2, <4>4
    <3>6. CASE Rollback(t, 1)
      <4>1. Kind[t] = "transaction" /\ UNCHANGED committed
        BY <3>6 DEF Rollback
      <4>2. \A u \in Readers : AnswerTo(u)' = AnswerTo(u)
        BY <2>3, <4>1 DEF Readers, ReadOnly
      <4>3. Phase[t] = "called" /\ Phase' = [Phase EXCEPT ![t] = "effective"] /\ AnswerOf' = AnswerOf
        BY <1>1, <2>3, <3>1, <4>2, SerialMove
      <4> QED BY <4>1, <4>3 DEF Serial!Cancel, Serial!Move
    <3>7. CASE Fail(t, 1)
      <4>1. State(t)' = "failed"
        BY <3>7, StateSet DEF Fail, CallState, IInv, Control
      <4> QED BY <2>5, <4>1
    <3> QED BY <1>4, <3>3, <3>4, <3>5, <3>6, <3>7 DEF Progress
  <2> QED BY <2>1, <2>4, <2>5
<1> QED BY <1>2, <1>3, <1>4

(* Every step is one of the serial database's, or none.                    *)
LEMMA NextSerial == SInv /\ NoReentry /\ [Next]_vars => [Serial!Next \/ ImportFailed']_(Serial!vars)
<1> SUFFICES ASSUME SInv, NoReentry, [Next]_vars, ~ImportFailed'
             PROVE  Serial!Next \/ UNCHANGED Serial!vars
  OBVIOUS
<1>1. IInv /\ IInv'
  BY NextIInv DEF SInv
<1>2. CASE UNCHANGED vars
  BY <1>2 DEF vars, Serial!vars, Phase, AnswerOf, Effective, Answered, Interrupted
<1>3. CASE Next
  <2>1. DataInv
    <3>1. (ImportFailed <=> ImportBroke) /\ (ImportFailed <=> ImportBroke)'
      <4>1. (TypeInv => (ImportFailed <=> ImportBroke))'
        BY ImportFailedStates, PTL
      <4> QED BY <1>1, <4>1, ImportFailedStates DEF IInv, Control
    <3> QED BY <1>1, <1>3, <3>1, ImportFailedStays DEF SInv
  <2>2. CASE Return \/ \E t \in Task : PassOver(t)
    BY <1>1, <2>2, WalkIsNothing
  <2>3. ASSUME NEW t \in Task, Starting(t) PROVE Serial!Next \/ UNCHANGED Serial!vars
    <3>1. \/ t \in Readers /\ Serial!Answer(t)
          \/ ~ReadOnly(t) /\ Serial!Change(t)
          \/ UNCHANGED Serial!vars
      BY <1>1, <2>1, <2>3, StartIsNothing
    <3>2. DOMAIN ReadsOf = Readers /\ DOMAIN WritesOf = {u \in Task : ~ReadOnly(u)}
      BY DEF ReadsOf, WritesOf, Readers
    <3> QED BY <3>1, <3>2 DEF Serial!Next
  <2>4. ASSUME NEW t \in Task, UserSchedules(t) PROVE Serial!Next
    <3>1. Serial!Call(t)
      BY <1>1, <2>4, ScheduleIsCall
    <3> QED BY <3>1 DEF Serial!Next
  <2>5. ASSUME NEW t \in Task, NEW n \in DOMAIN execs[t], Progress(t, n)
        PROVE  Serial!Next \/ UNCHANGED Serial!vars
    <3>1. n = 1 /\ stack = <<>> /\ State(t) = "running" /\ Progress(t, 1)
      BY <1>1, <2>5, ProgressCall
    <3>2. \/ t \in Readers /\ Serial!Answer(t)
          \/ ~ReadOnly(t) /\ Serial!Change(t)
          \/ Kind[t] = "transaction" /\ Serial!Cancel(t)
          \/ UNCHANGED Serial!vars
      BY <1>1, <2>1, <3>1, ProgressIsEffect
    <3>3. DOMAIN ReadsOf = Readers /\ DOMAIN WritesOf = {u \in Task : ~ReadOnly(u)}
      BY DEF ReadsOf, WritesOf, Readers
    <3> QED BY <3>2, <3>3 DEF Serial!Next
  <2>6. ASSUME NEW t \in Task, NEW n \in DOMAIN execs[t], Finish(t, n) PROVE Serial!Next
    <3>1. Serial!Return(t) \/ Serial!Reject(t)
      BY <1>1, <2>6, FinishIsReturn
    <3> QED BY <3>1 DEF Serial!Next
  <2> QED BY <1>3, <2>2, <2>3, <2>4, <2>5, <2>6 DEF Next, Consume
<1> QED BY <1>2, <1>3

(* An empty database to begin with, in both.                               *)
LEMMA InitSerial == Init => SInv /\ Serial!Init
<1> SUFFICES ASSUME Init PROVE SInv /\ Serial!Init
  OBVIOUS
<1>1. /\ IInv /\ \A t \in Task : State(t) = "none" /\ outcome[t] = "new" /\ ~Notifying(t)
      /\ \A d \in Table : cache[d] = Nil /\ committed[d] = Nil
  BY InitIInv DEF Init, State, Notifying
<1>2. DataInv
  BY <1>1 DEF DataInv, CacheInv, UpdateInv, ImportInv, ReaderInv, Working
<1>3. Serial!Init
  <2>1. \A t \in Task : PhaseOf(t) = "new" /\ AnswerTo(t) = Nil
    BY <1>1 DEF PhaseOf, AnswerTo
  <2>2. Phase = [t \in Task |-> "new"]
    BY <1>1, <2>1, MappingStates DEF Mapping
  <2>3. AnswerOf = [t \in DOMAIN ReadsOf |-> Nil]
    <3>1. DOMAIN ReadsOf = Readers /\ Readers \subseteq Task
      BY DEF ReadsOf, Readers
    <3> QED BY <1>1, <2>1, <3>1, MappingStates DEF Mapping
  <2> QED BY <2>2, <2>3 DEF Init, Serial!Init
<1> QED BY <1>1, <1>2, <1>3 DEF SInv

(* What the locks protect: the cache is what was last committed, but for   *)
(* what tasks that hold the tables have changed; what they have to undo is *)
(* what was committed; and what a reader has read of its first plans is    *)
(* still committed when it reads the next.                                 *)
THEOREM SerialInvariant == NoReentry => (Spec => []SInv)
<1> SUFFICES ASSUME NoReentry PROVE Spec => []SInv
  OBVIOUS
<1>1. SInv /\ [Next]_vars => SInv'
  BY NextSInv
<1> QED BY <1>1, InitSerial, PTL DEF Spec

(* The runner, with its locks, its queue and its cache, implements the     *)
(* serial database: every task has its whole effect at one moment between  *)
(* its call and its return.                                                *)
THEOREM SerialSpecHolds == NoReentry => (Spec => SerialSpec)
<1> SUFFICES ASSUME NoReentry PROVE Spec => SerialSpec
  OBVIOUS
<1>1. SInv /\ [Next]_vars => [Serial!Next \/ ImportFailed']_(Serial!vars)
  BY NextSerial
<1> QED BY <1>1, InitSerial, SerialInvariant, PTL DEF Spec, SerialSpec
-----------------------------------------------------------------------------
(* Observers.  An observer task is scheduled by the commit whose change it *)
(* is to report, while that task still has its tables locked.  From then   *)
(* on the order of the queue and the reservations keep other writers away  *)
(* from these tables until the observer task has read them.                *)

\* The task a is somewhere before b in a queue.
Before(q, a, b) == \E i, j \in DOMAIN q : i < j /\ q[i] = a /\ q[j] = b

\* What is left of the copy of the queue that consumePending_ walks over.
Todo == IF stack = <<>> THEN <<>> ELSE stack[1].todo

\* The queue is ordered by priority, a walk goes along the queue, and the
\* tasks that wait for their exec() are in the queue.
OrderInv ==
    /\ \A a, b \in Task : Before(queue, a, b) => Priority[a] <= Priority[b]
    /\ \A a, b \in Task : Before(queue, a, b) /\ a \in ToSet(Todo) => Before(Todo, a, b)
    /\ \A t \in Task : outcome[t] = "pending" /\ State(t) = "none" => t \in ToSet(queue)

\* An import has thrown: it has every table locked for ever.
Stuck == \E t \in Task : Kind[t] = "import" /\ State(t) = "lost"

\* The task t has its tables reserved.
Reserves(t) == \A d \in Scope[t] : t \in lockTable[d].reservedRO

\* The import t is the next to be executed, and the whole database is
\* reserved for it or will be once the walk comes to it.
Blocks(t) ==
    /\ Kind[t] = "import" /\ t \in ToSet(queue)
    /\ \A u \in Task : Before(queue, u, t) => Kind[u] = "import"
    /\ \A d \in Table : lockTable[d].reservedRW \in {Nil, t} /\ lockTable[d].reservedRO = {}
    /\ (\A d \in Table : lockTable[d].reservedRW = t) \/ t \in ToSet(Todo)

\* The walk will come to the task t and find its tables unreserved.
Awaits(t) == t \in ToSet(Todo) /\ \A d \in Scope[t] : lockTable[d].reservedRW = Nil

\* Tasks such as observer tasks: the most urgent ones that only read.
Urgently(t) == ReadOnly(t) /\ Priority[t] = 0

Guarded(t) == Stuck \/ Reserves(t) \/ (\E u \in Task : Blocks(u)) \/ Awaits(t)

GuardInv == \A t \in ToSet(queue) : Urgently(t) => Guarded(t)

-----------------------------------------------------------------------------
(* The order of a queue.                                                   *)

(* Tasks are before one another in one way at most.                        *)
LEMMA BeforeOrders ==
    ASSUME NEW q \in Seq(Task), Distinct(q)
    PROVE  /\ \A a, b : Before(q, a, b) => /\ a \in ToSet(q) /\ b \in ToSet(q) /\ a # b
                                           /\ ~Before(q, b, a)
           /\ \A a, b \in ToSet(q) : a # b => Before(q, a, b) \/ Before(q, b, a)
           /\ \A a, b, c : Before(q, a, b) /\ Before(q, b, c) => Before(q, a, c)
<1>1. DOMAIN q = 1 .. Len(q) /\ Len(q) \in Nat
  OBVIOUS
<1>2. \A i, j \in DOMAIN q : q[i] = q[j] => i = j
  BY DEF Distinct
<1>3. \A a, b : Before(q, a, b) => a \in ToSet(q) /\ b \in ToSet(q) /\ a # b /\ ~Before(q, b, a)
  <2> SUFFICES ASSUME NEW a, NEW b, Before(q, a, b)
               PROVE  a \in ToSet(q) /\ b \in ToSet(q) /\ a # b /\ ~Before(q, b, a)
    OBVIOUS
  <2>1. PICK i, j \in DOMAIN q : i < j /\ q[i] = a /\ q[j] = b
    BY DEF Before
  <2>2. a \in ToSet(q) /\ b \in ToSet(q)
    BY <2>1 DEF ToSet
  <2>3. a # b
    BY <1>1, <1>2, <2>1
  <2>4. ASSUME NEW k \in DOMAIN q, NEW l \in DOMAIN q, k < l, q[k] = b, q[l] = a PROVE FALSE
    <3>1. k = j /\ l = i
      BY <1>2, <2>1, <2>4
    <3> QED BY <1>1, <2>1, <2>4, <3>1
  <2> QED BY <2>2, <2>3, <2>4 DEF Before
<1>4. \A a, b \in ToSet(q) : a # b => Before(q, a, b) \/ Before(q, b, a)
  <2> SUFFICES ASSUME NEW i \in DOMAIN q, NEW j \in DOMAIN q, q[i] # q[j]
               PROVE  Before(q, q[i], q[j]) \/ Before(q, q[j], q[i])
    BY DEF ToSet
  <2>1. i < j \/ j < i
    BY <1>1
  <2> QED BY <2>1 DEF Before
<1>5. \A a, b, c : Before(q, a, b) /\ Before(q, b, c) => Before(q, a, c)
  <2> SUFFICES ASSUME NEW a, NEW b, NEW c, Before(q, a, b), Before(q, b, c)
               PROVE  Before(q, a, c)
    OBVIOUS
  <2>1. PICK i, j \in DOMAIN q : i < j /\ q[i] = a /\ q[j] = b
    BY DEF Before
  <2>2. PICK k, l \in DOMAIN q : k < l /\ q[k] = b /\ q[l] = c
    BY DEF Before
  <2>3. i < l
    BY <1>1, <1>2, <2>1, <2>2
  <2> QED BY <2>1, <2>2, <2>3 DEF Before
<1> QED BY <1>3, <1>4, <1>5

(* Nothing is before the first, and the rest stays in order.               *)
LEMMA BeforeInTail ==
    ASSUME NEW q \in Seq(Task), Distinct(q), q # <<>>
    PROVE  /\ \A a : ~Before(q, a, Head(q))
           /\ \A a, b : Before(q, a, b) /\ a # Head(q) => Before(Tail(q), a, b)
<1>1. /\ Len(q) \in Nat /\ Len(q) > 0 /\ DOMAIN q = 1 .. Len(q) /\ Head(q) = q[1]
      /\ DOMAIN Tail(q) = 1 .. Len(q) - 1
      /\ \A i \in 1 .. Len(q) - 1 : Tail(q)[i] = q[i + 1]
  BY HeadTailProperties
<1>2. \A i, j \in 1 .. Len(q) : q[i] = q[j] => i = j
  BY <1>1 DEF Distinct
<1>3. ASSUME NEW a, Before(q, a, Head(q)) PROVE FALSE
  <2>1. PICK i, j \in 1 .. Len(q) : i < j /\ q[j] = q[1]
    BY <1>1, <1>3 DEF Before
  <2> QED BY <1>1, <1>2, <2>1
<1>4. ASSUME NEW a, NEW b, Before(q, a, b), a # Head(q) PROVE Before(Tail(q), a, b)
  <2>1. PICK i, j \in 1 .. Len(q) : i < j /\ q[i] = a /\ q[j] = b
    BY <1>1, <1>4 DEF Before
  <2>2. i # 1
    BY <1>1, <1>4, <2>1
  <2>3. /\ i - 1 \in 1 .. Len(q) - 1 /\ j - 1 \in 1 .. Len(q) - 1 /\ i - 1 < j - 1
        /\ (i - 1) + 1 = i /\ (j - 1) + 1 = j
    BY <1>1, <2>1, <2>2
  <2>4. Tail(q)[i - 1] = a /\ Tail(q)[j - 1] = b
    BY <1>1, <2>1, <2>3
  <2> QED BY <1>1, <2>3, <2>4 DEF Before
<1> QED BY <1>3, <1>4

(* Taking a task out leaves the others in order.                           *)
LEMMA BeforeRemoved ==
    ASSUME NEW q \in Seq(Task), Distinct(q), NEW t \in ToSet(q)
    PROVE  \A a, b : Before(RemoveFirst(q, t), a, b) => Before(q, a, b)
<1> DEFINE new == RemoveFirst(q, t)
<1>1. Len(q) \in Nat /\ DOMAIN q = 1 .. Len(q)
  OBVIOUS
<1>2. PICK p \in 1 .. Len(q) :
         /\ new \in Seq(Task) /\ Len(new) = Len(q) - 1
         /\ \A i \in 1 .. Len(q) - 1 : new[i] = IF i < p THEN q[i] ELSE q[i + 1]
  BY RemovePlaces
<1> HIDE DEF new
<1> SUFFICES ASSUME NEW a, NEW b, Before(new, a, b) PROVE Before(q, a, b)
  BY DEF new
<1>3. PICK i, j \in 1 .. Len(q) - 1 : i < j /\ new[i] = a /\ new[j] = b
  BY <1>2 DEF Before
<1> DEFINE I == IF i < p THEN i ELSE i + 1
           J == IF j < p THEN j ELSE j + 1
<1>4. I \in 1 .. Len(q) /\ J \in 1 .. Len(q) /\ I < J
  BY <1>1, <1>3
<1>5. a = q[I] /\ b = q[J]
  BY <1>2, <1>3
<1> HIDE DEF I, J
<1> QED BY <1>1, <1>4, <1>5 DEF Before

(* The levels of TaskPriority.                                             *)
LEMMA PriorityLevels ==
    \A t \in Task : /\ Priority[t] \in 0 .. 2
                    /\ Kind[t] \in {"export", "import", "observer"} <=> Priority[t] = 0
<1> SUFFICES ASSUME NEW t \in Task
             PROVE  /\ Priority[t] \in 0 .. 2
                    /\ Kind[t] \in {"export", "import", "observer"} <=> Priority[t] = 0
  OBVIOUS
<1>1. CASE Kind[t] \in {"export", "import", "observer"}
  <2>1. Priority[t] = 0
    BY <1>1 DEF Priority
  <2> QED BY <1>1, <2>1
<1>2. CASE Kind[t] = "external"
  <2>1. Priority[t] = 1
    BY <1>2 DEF Priority
  <2> QED BY <1>2, <2>1
<1>3. CASE Kind[t] \notin {"export", "import", "observer", "external"}
  <2>1. Priority[t] = 2
    BY <1>3 DEF Priority
  <2> QED BY <1>3, <2>1
<1> QED BY <1>1, <1>2, <1>3

(* In an ordered queue the tasks at least as urgent as t come first.       *)
LEMMA UrgentFirst ==
    ASSUME NEW q \in Seq(Task), NEW t \in Task,
           \A i, j \in DOMAIN q : i < j => Priority[q[i]] <= Priority[q[j]]
    PROVE  \A i \in DOMAIN q : i <= Cardinality(Urgent(q, t)) <=> Priority[q[i]] <= Priority[t]
<1> DEFINE S == Urgent(q, t)
<1>1. /\ Len(q) \in Nat /\ DOMAIN q = 1 .. Len(q)
      /\ \A i \in 1 .. Len(q) : q[i] \in Task /\ Priority[q[i]] \in Int
      /\ Priority[t] \in Int
  BY PriorityLevels
<1>2. \A i \in 1 .. Len(q) : i \in S <=> Priority[q[i]] <= Priority[t]
  BY <1>1 DEF Urgent
<1>3. S \subseteq 1 .. Len(q) /\ IsFiniteSet(1 .. Len(q))
  BY <1>1, FS_Interval DEF Urgent
<1>4. IsFiniteSet(S) /\ Cardinality(S) \in Nat
  BY <1>3, FS_Subset, FS_CardinalityType
<1>5. \A k \in Nat : IsFiniteSet(1 .. k) /\ Cardinality(1 .. k) = k
  <2> SUFFICES ASSUME NEW k \in Nat PROVE IsFiniteSet(1 .. k) /\ Cardinality(1 .. k) = k
    OBVIOUS
  <2>1. 1 \in Int /\ k \in Int
    OBVIOUS
  <2>2. IsFiniteSet(1 .. k) /\ Cardinality(1 .. k) = IF 1 > k THEN 0 ELSE k - 1 + 1
    BY <2>1, FS_Interval
  <2> QED BY <2>2
<1> HIDE DEF S
<1> SUFFICES ASSUME NEW i \in 1 .. Len(q) PROVE i <= Cardinality(S) <=> i \in S
  BY <1>1, <1>2 DEF S
<1>6. ASSUME i \in S PROVE i <= Cardinality(S)
  <2>1. ASSUME NEW j \in 1 .. i PROVE j \in S
    <3>1. j \in 1 .. Len(q) /\ (j < i \/ j = i)
      BY <1>1
    <3>2. Priority[q[j]] <= Priority[q[i]]
      BY <1>1, <3>1
    <3>3. Priority[q[i]] <= Priority[t]
      BY <1>2, <1>6
    <3>4. Priority[q[j]] <= Priority[t]
      BY <1>1, <3>1, <3>2, <3>3
    <3> QED BY <1>2, <3>1, <3>4
  <2>2. 1 .. i \subseteq S /\ i \in Nat
    BY <2>1
  <2>3. Cardinality(1 .. i) <= Cardinality(S)
    BY <1>4, <2>2, FS_Subset
  <2> QED BY <1>5, <2>2, <2>3
<1>7. ASSUME i \notin S PROVE ~(i <= Cardinality(S))
  <2>1. ASSUME NEW j \in S PROVE j \in 1 .. i - 1
    <3>1. j \in 1 .. Len(q) /\ j # i
      BY <1>3, <1>7, <2>1
    <3>2. ASSUME i < j PROVE FALSE
      <4>1. Priority[q[i]] <= Priority[q[j]]
        BY <1>1, <3>1, <3>2
      <4>2. Priority[q[j]] <= Priority[t]
        BY <1>2, <2>1, <3>1
      <4>3. Priority[q[i]] <= Priority[t]
        BY <1>1, <3>1, <4>1, <4>2
      <4> QED BY <1>2, <1>7, <4>3
    <3> QED BY <3>1, <3>2
  <2>2. S \subseteq 1 .. i - 1 /\ i - 1 \in Nat
    BY <2>1
  <2>3. Cardinality(S) <= Cardinality(1 .. i - 1) /\ Cardinality(1 .. i - 1) = i - 1
    BY <1>5, <2>2, FS_Subset
  <2> QED BY <1>4, <2>2, <2>3
<1> QED BY <1>6, <1>7

(* A task is inserted after the tasks at least as urgent, and the others   *)
(* stay in order.                                                          *)
LEMMA BeforeInserted ==
    ASSUME NEW q \in Seq(Task), Distinct(q), NEW t \in Task, t \notin ToSet(q),
           \A a, b \in Task : Before(q, a, b) => Priority[a] <= Priority[b]
    PROVE  /\ \A a, b \in Task : Before(Insert(q, t), a, b) => Priority[a] <= Priority[b]
           /\ \A a, b \in ToSet(q) : Before(Insert(q, t), a, b) => Before(q, a, b)
           /\ \A a \in ToSet(q) : Priority[a] <= Priority[t] => ~Before(Insert(q, t), t, a)
<1> DEFINE new == Insert(q, t)
<1>1. /\ Len(q) \in Nat /\ DOMAIN q = 1 .. Len(q)
      /\ \A i \in 1 .. Len(q) : q[i] \in Task /\ q[i] \in ToSet(q) /\ q[i] # t
  BY DEF ToSet
<1>2. \A u \in Task : Priority[u] \in Int
  BY PriorityLevels
<1>3. PICK p \in 1 .. Len(q) + 1 :
         /\ p = Cardinality(Urgent(q, t)) + 1
         /\ new \in Seq(Task) /\ Len(new) = Len(q) + 1
         /\ \A i \in 1 .. Len(q) + 1 : new[i] = IF i < p THEN q[i] ELSE IF i = p THEN t ELSE q[i - 1]
  BY InsertPlaces
<1> HIDE DEF new
<1>4. \A i, j \in DOMAIN q : i < j => Priority[q[i]] <= Priority[q[j]]
  BY <1>1 DEF Before
<1>5. \A i \in 1 .. Len(q) : i < p <=> Priority[q[i]] <= Priority[t]
  <2>1. \A i \in 1 .. Len(q) : i <= Cardinality(Urgent(q, t)) <=> Priority[q[i]] <= Priority[t]
    BY <1>1, <1>4, UrgentFirst
  <2>2. Cardinality(Urgent(q, t)) = p - 1
    <3>1. Cardinality(Urgent(q, t)) \in Nat
      <4>1. Urgent(q, t) \subseteq 1 .. Len(q) /\ IsFiniteSet(1 .. Len(q))
        BY <1>1, FS_Interval DEF Urgent
      <4> QED BY <4>1, FS_Subset, FS_CardinalityType
    <3> QED BY <1>3, <3>1
  <2> QED BY <1>1, <2>1, <2>2
<1>6. \A i \in 1 .. Len(q) + 1 :
         /\ i < p => i \in 1 .. Len(q) /\ new[i] = q[i]
         /\ i = p => new[i] = t
         /\ i > p => i - 1 \in 1 .. Len(q) /\ new[i] = q[i - 1]
  <2> SUFFICES ASSUME NEW i \in 1 .. Len(q) + 1
               PROVE  /\ i < p => i \in 1 .. Len(q) /\ new[i] = q[i]
                      /\ i = p => new[i] = t
                      /\ i > p => i - 1 \in 1 .. Len(q) /\ new[i] = q[i - 1]
    OBVIOUS
  <2>1. new[i] = IF i < p THEN q[i] ELSE IF i = p THEN t ELSE q[i - 1]
    BY <1>3
  <2>2. /\ i < p => i \in 1 .. Len(q)
        /\ i = p => ~(i < p)
        /\ i > p => i - 1 \in 1 .. Len(q) /\ ~(i < p) /\ i # p
    BY <1>1
  <2> QED BY <2>1, <2>2
<1>7. ASSUME NEW i \in 1 .. Len(q) + 1, NEW j \in 1 .. Len(q) + 1, i < j
      PROVE  /\ Priority[new[i]] <= Priority[new[j]]
             /\ new[i] \in ToSet(q) /\ new[j] \in ToSet(q) => Before(q, new[i], new[j])
             /\ new[i] = t => ~(Priority[new[j]] <= Priority[t])
  <2>1. CASE i < p /\ j < p
    <3>1. /\ i \in 1 .. Len(q) /\ j \in 1 .. Len(q) /\ new[i] = q[i] /\ new[j] = q[j]
      BY <1>6, <2>1
    <3> QED BY <1>1, <1>4, <1>7, <3>1 DEF Before
  <2>2. CASE i < p /\ j = p
    <3>1. i \in 1 .. Len(q) /\ new[i] = q[i] /\ new[j] = t
      BY <1>6, <2>2
    <3> QED BY <1>1, <1>5, <2>2, <3>1
  <2>3. CASE i < p /\ j > p
    <3>1. /\ i \in 1 .. Len(q) /\ j - 1 \in 1 .. Len(q) /\ i < j - 1
          /\ new[i] = q[i] /\ new[j] = q[j - 1]
      BY <1>6, <2>3
    <3> QED BY <1>1, <1>4, <3>1 DEF Before
  <2>4. CASE i = p /\ j > p
    <3>1. /\ j - 1 \in 1 .. Len(q) /\ ~(j - 1 < p) /\ new[i] = t /\ new[j] = q[j - 1]
      BY <1>6, <2>4
    <3>2. ~(Priority[q[j - 1]] <= Priority[t]) /\ q[j - 1] \in Task
      BY <1>1, <1>5, <3>1
    <3>3. Priority[t] <= Priority[q[j - 1]]
      BY <1>2, <3>2
    <3> QED BY <1>1, <3>1, <3>2, <3>3 DEF ToSet
  <2>5. CASE i > p
    <3>1. /\ i - 1 \in 1 .. Len(q) /\ j - 1 \in 1 .. Len(q) /\ i - 1 < j - 1
          /\ new[i] = q[i - 1] /\ new[j] = q[j - 1]
      BY <1>6, <1>7, <2>5
    <3> QED BY <1>1, <1>4, <3>1 DEF Before
  <2> QED BY <1>7, <2>1, <2>2, <2>3, <2>4, <2>5
<1>8. ASSUME NEW a, NEW b, Before(new, a, b)
      PROVE  \E i, j \in 1 .. Len(q) + 1 : i < j /\ new[i] = a /\ new[j] = b
  BY <1>3, <1>8 DEF Before
<1> QED BY <1>7, <1>8 DEF new

-----------------------------------------------------------------------------
(* What requests do to reservations.                                       *)

(* A reader's request leaves those of writers, a writer's is granted on    *)
(* its whole scope or not at all.                                          *)
LEMMA ReservedLocks ==
    ASSUME AllOK(lockTable), NEW t \in Task
    PROVE  /\ ReadOnly(t) =>
              /\ \A d \in Table : /\ Reserved(t)[d].reservedRW = lockTable[d].reservedRW
                                  /\ lockTable[d].reservedRO \subseteq Reserved(t)[d].reservedRO
              /\ \/ /\ \A d \in Scope[t] : /\ lockTable[d].reservedRW = Nil
                                           /\ t \in Reserved(t)[d].reservedRO
                 \/ /\ Reserved(t) = lockTable
                    /\ \E d \in Scope[t] : lockTable[d].reservedRW # Nil
           /\ ~ReadOnly(t) =>
              /\ \A d \in Table : Reserved(t)[d].reservedRO = lockTable[d].reservedRO
              /\ \/ /\ \A d \in Scope[t] : /\ lockTable[d].reservedRO = {}
                                           /\ lockTable[d].reservedRW \in {Nil, t}
                                           /\ Reserved(t)[d].reservedRW = t
                 \/ /\ Reserved(t) = lockTable
                    /\ \E d \in Scope[t] : \/ lockTable[d].reservedRO # {}
                                           \/ lockTable[d].reservedRW \notin {Nil, t}
<1>1. /\ lockTable \in [Table -> Entry] /\ Scope[t] \in SUBSET Table
  BY PlansAreTyped DEF AllOK
<1>2. CASE ReadOnly(t)
  <2>1. FirstLock(t) = "RESERVED_READ_ONLY"
    BY <1>2 DEF FirstLock
  <2>2. CASE CanAcquireLock(lockTable, t, Scope[t], "RESERVED_READ_ONLY")
    <3>1. Reserved(t) = GrantLock(lockTable, t, Scope[t], "RESERVED_READ_ONLY")
      BY <2>1, <2>2 DEF Reserved, Request
    <3>2. \A d \in Scope[t] : lockTable[d].reservedRW = Nil
      BY <2>2 DEF CanAcquireLock, CanLock
    <3>3. \A d \in Table : /\ Reserved(t)[d].reservedRW = lockTable[d].reservedRW
                           /\ lockTable[d].reservedRO \subseteq Reserved(t)[d].reservedRO
                           /\ d \in Scope[t] => t \in Reserved(t)[d].reservedRO
      <4> SUFFICES ASSUME NEW d \in Table
                   PROVE  /\ Reserved(t)[d].reservedRW = lockTable[d].reservedRW
                          /\ lockTable[d].reservedRO \subseteq Reserved(t)[d].reservedRO
                          /\ d \in Scope[t] => t \in Reserved(t)[d].reservedRO
        OBVIOUS
      <4>1. lockTable[d] \in Entry
        BY <1>1
      <4>2. Reserved(t)[d] = IF d \in Scope[t] THEN Lock(lockTable[d], t, "RESERVED_READ_ONLY")
                                               ELSE lockTable[d]
        BY <3>1 DEF GrantLock
      <4>3. /\ Lock(lockTable[d], t, "RESERVED_READ_ONLY").reservedRW = lockTable[d].reservedRW
            /\ Lock(lockTable[d], t, "RESERVED_READ_ONLY").reservedRO
                  = lockTable[d].reservedRO \cup {t}
        BY <4>1 DEF Lock, Entry
      <4> HIDE DEF Lock
      <4> QED BY <4>2, <4>3
    <3> QED BY <1>1, <1>2, <3>2, <3>3
  <2>3. CASE ~CanAcquireLock(lockTable, t, Scope[t], "RESERVED_READ_ONLY")
    <3>1. Reserved(t) = lockTable
      BY <2>1, <2>3 DEF Reserved, Request
    <3>2. \E d \in Scope[t] : lockTable[d].reservedRW # Nil
      BY <2>3 DEF CanAcquireLock, CanLock
    <3> QED BY <1>2, <3>1, <3>2
  <2> QED BY <2>2, <2>3
<1>3. CASE ~ReadOnly(t)
  <2>1. FirstLock(t) = "RESERVED_READ_WRITE"
    BY <1>3 DEF FirstLock
  <2>2. CASE CanAcquireLock(lockTable, t, Scope[t], "RESERVED_READ_WRITE")
    <3>1. Reserved(t) = GrantLock(lockTable, t, Scope[t], "RESERVED_READ_WRITE")
      BY <2>1, <2>2 DEF Reserved, Request
    <3>2. \A d \in Scope[t] : lockTable[d].reservedRO = {} /\ lockTable[d].reservedRW \in {Nil, t}
      BY <2>2 DEF CanAcquireLock, CanLock
    <3>3. \A d \in Table : /\ Reserved(t)[d].reservedRO = lockTable[d].reservedRO
                           /\ d \in Scope[t] => Reserved(t)[d].reservedRW = t
      BY <1>1, <3>1 DEF GrantLock, Lock, Entry
    <3> QED BY <1>1, <1>3, <3>2, <3>3
  <2>3. CASE ~CanAcquireLock(lockTable, t, Scope[t], "RESERVED_READ_WRITE")
    <3>1. Reserved(t) = lockTable
      BY <2>1, <2>3 DEF Reserved, Request
    <3>2. \E d \in Scope[t] : \/ lockTable[d].reservedRO # {}
                              \/ lockTable[d].reservedRW \notin {Nil, t}
      BY <2>3 DEF CanAcquireLock, CanLock
    <3> QED BY <1>3, <3>1, <3>2
  <2> QED BY <2>2, <2>3
<1> QED BY <1>2, <1>3

(* A task that is executed has used up its own reservations and needed     *)
(* that there were none of others against it.                              *)
LEMMA AcquiredLocks ==
    ASSUME AllOK(lockTable), NEW t \in Task, Acquires(t)
    PROVE  /\ \A d \in Table :
                 /\ Acquired(t)[d].reservedRW = IF d \in Scope[t] THEN Nil
                                                ELSE lockTable[d].reservedRW
                 /\ Acquired(t)[d].reservedRO \subseteq lockTable[d].reservedRO
                 /\ lockTable[d].reservedRO \ {t} \subseteq Acquired(t)[d].reservedRO
           /\ \A d \in Scope[t] : /\ lockTable[d].reservedRW \in IF ReadOnly(t) THEN {Nil} ELSE {Nil, t}
                                  /\ ~ReadOnly(t) => lockTable[d].reservedRO = {}
<1>1. /\ lockTable \in [Table -> Entry] /\ Scope[t] \in SUBSET Table
  BY PlansAreTyped DEF AllOK
<1>2. /\ CanAcquireLock(lockTable, t, Scope[t], FirstLock(t))
      /\ Reserved(t) = GrantLock(lockTable, t, Scope[t], FirstLock(t))
      /\ Acquired(t) = GrantLock(Reserved(t), t, Scope[t], SecondLock(t))
  BY DEF Acquires, Acquired, Reserved, Request
<1>3. CASE ReadOnly(t)
  <2>1. FirstLock(t) = "RESERVED_READ_ONLY" /\ SecondLock(t) = "SHARED"
    BY <1>3 DEF FirstLock, SecondLock
  <2>2. \A d \in Scope[t] : lockTable[d].reservedRW = Nil
    BY <1>2, <2>1 DEF CanAcquireLock, CanLock
  <2>3. \A d \in Table : Reserved(t)[d] = IF d \in Scope[t] THEN Lock(lockTable[d], t, "RESERVED_READ_ONLY")
                                         ELSE lockTable[d]
    BY <1>2, <2>1 DEF GrantLock
  <2>4. \A d \in Table : Acquired(t)[d] = IF d \in Scope[t] THEN Lock(Reserved(t)[d], t, "SHARED")
                                         ELSE Reserved(t)[d]
    BY <1>2, <2>1 DEF GrantLock
  <2>5. \A d \in Table : lockTable[d] \in Entry
    BY <1>1
  <2>6. \A e \in Entry : LET f == Lock(Lock(e, t, "RESERVED_READ_ONLY"), t, "SHARED") IN
           f.reservedRW = e.reservedRW /\ f.reservedRO = e.reservedRO \ {t}
    <3> SUFFICES ASSUME NEW e \in Entry
                 PROVE  LET f == Lock(Lock(e, t, "RESERVED_READ_ONLY"), t, "SHARED") IN
                           f.reservedRW = e.reservedRW /\ f.reservedRO = e.reservedRO \ {t}
      OBVIOUS
    <3> DEFINE g == [e EXCEPT !.reservedRO = @ \cup {t}]
    <3>1. Lock(e, t, "RESERVED_READ_ONLY") = g
      BY DEF Lock
    <3>2. g \in Entry /\ g.reservedRW = e.reservedRW /\ g.reservedRO = e.reservedRO \cup {t}
      BY DEF Entry
    <3> HIDE DEF g
    <3>3. /\ Lock(g, t, "SHARED").reservedRW = g.reservedRW
          /\ Lock(g, t, "SHARED").reservedRO = g.reservedRO \ {t}
      BY <3>2 DEF Lock, Entry
    <3> QED BY <3>1, <3>2, <3>3
  <2>7. \A d \in Scope[t] : /\ Acquired(t)[d].reservedRW = lockTable[d].reservedRW
                            /\ Acquired(t)[d].reservedRO = lockTable[d].reservedRO \ {t}
    <3> SUFFICES ASSUME NEW d \in Scope[t]
                 PROVE  /\ Acquired(t)[d].reservedRW = lockTable[d].reservedRW
                        /\ Acquired(t)[d].reservedRO = lockTable[d].reservedRO \ {t}
      OBVIOUS
    <3>1. d \in Table /\ lockTable[d] \in Entry
      BY <1>1
    <3>2. Acquired(t)[d] = Lock(Lock(lockTable[d], t, "RESERVED_READ_ONLY"), t, "SHARED")
      BY <2>3, <2>4, <3>1
    <3> QED BY <2>6, <3>1, <3>2
  <2>8. \A d \in Table \ Scope[t] : Acquired(t)[d] = lockTable[d]
    BY <2>3, <2>4
  <2> QED BY <1>1, <1>3, <2>2, <2>7, <2>8
<1>4. CASE ~ReadOnly(t)
  <2>1. FirstLock(t) = "RESERVED_READ_WRITE" /\ SecondLock(t) = "EXCLUSIVE"
    BY <1>4 DEF FirstLock, SecondLock
  <2>2. \A d \in Scope[t] : lockTable[d].reservedRO = {} /\ lockTable[d].reservedRW \in {Nil, t}
    BY <1>2, <2>1 DEF CanAcquireLock, CanLock
  <2>3. \A d \in Table : Reserved(t)[d] = IF d \in Scope[t] THEN Lock(lockTable[d], t, "RESERVED_READ_WRITE")
                                         ELSE lockTable[d]
    BY <1>2, <2>1 DEF GrantLock
  <2>4. \A d \in Table : Acquired(t)[d] = IF d \in Scope[t] THEN Lock(Reserved(t)[d], t, "EXCLUSIVE")
                                         ELSE Reserved(t)[d]
    BY <1>2, <2>1 DEF GrantLock
  <2>5. \A d \in Table : lockTable[d] \in Entry
    BY <1>1
  <2>6. \A e \in Entry : LET f == Lock(Lock(e, t, "RESERVED_READ_WRITE"), t, "EXCLUSIVE") IN
           f.reservedRW = Nil /\ f.reservedRO = e.reservedRO
    BY DEF Lock, Entry
  <2>7. \A d \in Scope[t] : /\ Acquired(t)[d].reservedRW = Nil
                            /\ Acquired(t)[d].reservedRO = lockTable[d].reservedRO
    <3> SUFFICES ASSUME NEW d \in Scope[t]
                 PROVE  /\ Acquired(t)[d].reservedRW = Nil
                        /\ Acquired(t)[d].reservedRO = lockTable[d].reservedRO
      OBVIOUS
    <3>1. d \in Table /\ lockTable[d] \in Entry
      BY <1>1
    <3>2. Acquired(t)[d] = Lock(Lock(lockTable[d], t, "RESERVED_READ_WRITE"), t, "EXCLUSIVE")
      BY <2>3, <2>4, <3>1
    <3> QED BY <2>6, <3>1, <3>2
  <2>8. \A d \in Table \ Scope[t] : Acquired(t)[d] = lockTable[d]
    BY <2>3, <2>4
  <2> QED BY <1>1, <1>4, <2>2, <2>7, <2>8
<1> QED BY <1>3, <1>4

-----------------------------------------------------------------------------
(* A walk over the queue.                                                  *)

(* The operators on queues, of the next state.                             *)
LEMMA PrimedOrder ==
    /\ \A a, b : Before(queue, a, b)' <=> Before(queue', a, b)
    /\ \A a, b : Before(Todo, a, b)' <=> Before(Todo', a, b)
    /\ ToSet(queue)' = ToSet(queue') /\ ToSet(Todo)' = ToSet(Todo')
BY DEF Before, ToSet

(* The queue and what is left of its copy.                                 *)
LEMMA QueueTyped ==
    ASSUME IInv
    PROVE  /\ queue \in Seq(Task) /\ Distinct(queue) /\ \A u \in ToSet(queue) : u \in Task
           /\ Todo \in Seq(Task) /\ Distinct(Todo) /\ ToSet(Todo) \subseteq ToSet(queue)
<1>1. /\ queue \in Seq(Task) /\ Distinct(queue) /\ stack \in Seq(Frame) /\ Len(stack) <= 1
      /\ stack # <<>> => Distinct(stack[1].todo) /\ ToSet(stack[1].todo) \subseteq ToSet(queue)
  BY DEF IInv, Control, TypeInv, QueueInv
<1>2. \A u \in ToSet(queue) : u \in Task
  BY <1>1 DEF ToSet
<1>3. CASE stack = <<>>
  <2>1. Todo = <<>> /\ ToSet(<<>>) = {} /\ Distinct(<<>>)
    BY <1>3 DEF Todo, ToSet, Distinct
  <2> QED BY <1>1, <1>2, <2>1
<1>4. CASE stack # <<>>
  <2>1. stack[1] \in Frame
    BY <1>1, <1>4, OneElement
  <2>2. Todo = stack[1].todo /\ Todo \in Seq(Task)
    BY <1>4, <2>1 DEF Todo, Frame
  <2> QED BY <1>1, <1>2, <1>4, <2>2
<1> QED BY <1>3, <1>4

(* The task visited comes before all that the walk still has to visit.     *)
LEMMA VisitedFirst ==
    ASSUME IInv, OrderInv, NEW t \in Task, Visiting(t)
    PROVE  /\ t \in ToSet(queue) /\ t \in ToSet(Todo)
           /\ ToSet(Tail(Todo)) = ToSet(Todo) \ {t}
           /\ \A u \in ToSet(Todo) \ {t} : Before(queue, t, u) /\ Priority[t] <= Priority[u]
           /\ \A u \in Task : Before(queue, u, t) => u \notin ToSet(Todo)
           /\ \A a, b \in Task : Before(queue, a, b) /\ a \in ToSet(Tail(Todo)) =>
                                    Before(Tail(Todo), a, b)
           /\ stack' = Visited => Todo' = Tail(Todo)
<1>1. Todo = stack[1].todo /\ Todo # <<>> /\ t = Head(Todo) /\ stack # <<>>
  BY DEF Visiting, Todo
<1>2. /\ queue \in Seq(Task) /\ Distinct(queue) /\ \A u \in ToSet(queue) : u \in Task
      /\ Todo \in Seq(Task) /\ Distinct(Todo) /\ ToSet(Todo) \subseteq ToSet(queue)
  BY QueueTyped
<1>3. t \in ToSet(Todo) /\ ToSet(Tail(Todo)) = ToSet(Todo) \ {t}
  BY <1>1, <1>2, TailIsTheRest
<1>4. ASSUME NEW u \in Task, Before(queue, u, t), u \in ToSet(Todo) PROVE FALSE
  <2>1. Before(Todo, u, t)
    BY <1>4 DEF OrderInv
  <2> QED BY <1>1, <1>2, <2>1, BeforeInTail
<1>5. ASSUME NEW u \in ToSet(Todo) \ {t} PROVE Before(queue, t, u) /\ Priority[t] <= Priority[u]
  <2>1. u \in Task /\ u \in ToSet(queue) /\ t \in ToSet(queue)
    BY <1>2, <1>3
  <2>2. Before(queue, t, u)
    BY <1>2, <1>4, <2>1, BeforeOrders
  <2> QED BY <2>1, <2>2 DEF OrderInv
<1>6. ASSUME NEW a \in Task, NEW b \in Task, Before(queue, a, b), a \in ToSet(Tail(Todo))
      PROVE  Before(Tail(Todo), a, b)
  <2>1. a \in ToSet(Todo) /\ a # t
    BY <1>3, <1>6
  <2>2. Before(Todo, a, b)
    BY <1>6, <2>1 DEF OrderInv
  <2> QED BY <1>1, <1>2, <2>1, <2>2, BeforeInTail
<1>7. ASSUME stack' = Visited PROVE Todo' = Tail(Todo)
  <2>1. stack \in Seq(Frame) /\ Len(stack) <= 1
    BY DEF IInv, Control, TypeInv
  <2>2. Len(stack) = 1 /\ DOMAIN stack = {1} /\ stack[1] \in Frame
    BY <1>1, <2>1, OneElement
  <2>3. Visited # <<>> /\ Visited[1] = [stack[1] EXCEPT !.todo = Tail(@)]
    BY <2>1, <2>2, FrameVisited DEF Visited, IInv, Control
  <2>4. Visited[1].todo = Tail(stack[1].todo)
    BY <2>2, <2>3 DEF Frame
  <2> QED BY <1>1, <1>7, <2>3, <2>4 DEF Todo
<1> QED BY <1>2, <1>3, <1>4, <1>5, <1>6, <1>7

-----------------------------------------------------------------------------
(* Each kind of step keeps the guard of the urgent readers.                *)

(* scheduleTask: the new task goes behind those that guard others, and     *)
(* finds its tables unreserved if it is urgent itself.                     *)
LEMMA GuardScheduled ==
    ASSUME IInv, OrderInv, GuardInv, NEW t \in Task, outcome[t] = "new", stack = <<>>, NEW caller,
           ScheduleTask(t, lockTable, queue, stack, caller), UNCHANGED execs
    PROVE  OrderInv' /\ GuardInv'
<1>1. /\ queue \in Seq(Task) /\ Distinct(queue) /\ \A u \in ToSet(queue) : u \in Task
      /\ ToSet(Todo) = {} /\ lockTable \in [Table -> Entry] /\ outcome \in [Task -> {"new", "pending", "resolved", "rejected"}]
  <2>1. Todo = <<>> /\ ToSet(<<>>) = {}
    BY DEF Todo, ToSet
  <2> QED BY <2>1, QueueTyped DEF IInv, Control, TypeInv, AllOK
<1>2. /\ lockTable' = IF Priority[t] < 2 THEN ClearReserved(lockTable, Scope[t]) ELSE lockTable
      /\ queue' = Insert(queue, t) /\ outcome' = [outcome EXCEPT ![t] = "pending"]
  BY DEF ScheduleTask
<1>3. Todo' = queue'
  <2> DEFINE f == [todo |-> queue', caller |-> caller]
  <2>1. stack' = <<f>> \o <<>> /\ f.todo = queue'
    BY DEF ScheduleTask
  <2> HIDE DEF f
  <2>2. stack' # <<>> /\ stack'[1] = f
    BY <2>1
  <2> QED BY <2>1, <2>2 DEF Todo
<1>4. t \notin ToSet(queue)
  BY DEF IInv, Control, QueueInv
<1>5. /\ ToSet(queue') = ToSet(queue) \cup {t} /\ queue' \in Seq(Task) /\ Distinct(queue')
      /\ \A a, b \in Task : Before(queue', a, b) => Priority[a] <= Priority[b]
      /\ \A a, b \in ToSet(queue) : Before(queue', a, b) => Before(queue, a, b)
      /\ \A a \in ToSet(queue) : Priority[a] <= Priority[t] => ~Before(queue', t, a)
  BY <1>1, <1>2, <1>4, InsertAdds, BeforeInserted DEF OrderInv
<1>6. \A d \in Table : /\ lockTable'[d].reservedRW \in {lockTable[d].reservedRW, Nil}
                       /\ lockTable'[d].reservedRO = lockTable[d].reservedRO
                       /\ Priority[t] < 2 /\ d \in Scope[t] => lockTable'[d].reservedRW = Nil
  BY <1>1, <1>2 DEF ClearReserved, Entry
<1>7. \A u \in Task : State(u)' = State(u)
  BY DEF State
<1>8. OrderInv'
  <2>1. \A u \in Task : outcome'[u] = "pending" /\ State(u)' = "none" => u \in ToSet(queue')
    BY <1>1, <1>2, <1>5, <1>7 DEF OrderInv
  <2> QED BY <1>3, <1>5, <2>1, PrimedOrder DEF OrderInv
<1>9. ASSUME NEW u \in Task, Blocks(u) PROVE Blocks(u)'
  <2>1. Kind[u] = "import" /\ u \in ToSet(queue) /\ Priority[u] <= Priority[t]
    BY <1>9, PriorityLevels DEF Blocks
  <2>2. ASSUME NEW v \in Task, Before(queue', v, u) PROVE Kind[v] = "import"
    <3>1. v \in ToSet(queue') /\ v # t
      BY <1>5, <2>1, <2>2, BeforeOrders
    <3>2. Before(queue, v, u)
      BY <1>5, <2>1, <2>2, <3>1
    <3> QED BY <1>9, <3>2 DEF Blocks
  <2>3. \A d \in Table : lockTable'[d].reservedRW \in {Nil, u} /\ lockTable'[d].reservedRO = {}
    BY <1>6, <1>9 DEF Blocks
  <2>4. u \in ToSet(queue') /\ u \in ToSet(Todo')
    BY <1>3, <1>5, <2>1
  <2> QED BY <2>1, <2>2, <2>3, <2>4, PrimedOrder DEF Blocks
<1>10. ASSUME NEW o \in ToSet(queue'), Urgently(o) PROVE Guarded(o)'
  <2>1. CASE o = t
    <3>1. Priority[t] < 2 /\ Scope[t] \in SUBSET Table
      BY <1>10, <2>1, PlansAreTyped DEF Urgently
    <3>2. \A d \in Scope[o] : lockTable'[d].reservedRW = Nil
      BY <1>6, <2>1, <3>1
    <3>3. Awaits(o)'
      BY <1>3, <3>2, PrimedOrder DEF Awaits
    <3> QED BY <3>3 DEF Guarded
  <2>2. CASE o \in ToSet(queue)
    <3>1. Guarded(o) /\ ~Awaits(o) /\ Scope[o] \in SUBSET Table
      BY <1>1, <1>10, <2>2, PlansAreTyped DEF GuardInv, Awaits
    <3>2. CASE Stuck
      BY <1>7, <3>2 DEF Guarded, Stuck
    <3>3. CASE Reserves(o)
      <4>1. \A d \in Scope[o] : o \in lockTable'[d].reservedRO
        BY <1>6, <3>1, <3>3 DEF Reserves
      <4> QED BY <4>1 DEF Guarded, Reserves
    <3>4. CASE \E u \in Task : Blocks(u)
      BY <1>9, <3>4 DEF Guarded
    <3> QED BY <3>1, <3>2, <3>3, <3>4 DEF Guarded
  <2> QED BY <1>5, <1>10, <2>1, <2>2
<1> QED BY <1>8, <1>10, PrimedOrder DEF GuardInv, Urgently

(* A task is passed over: an import may have reserved the whole database,  *)
(* and then no reader is before it.                                        *)
LEMMA GuardPassed ==
    ASSUME IInv, OrderInv, GuardInv, NEW t \in Task, PassOver(t)
    PROVE  OrderInv' /\ GuardInv'
<1>1. /\ Visiting(t) /\ lockTable' = Reserved(t) /\ stack' = Visited
      /\ UNCHANGED <<queue, execs, outcome>> /\ AllOK(lockTable)
  BY DEF PassOver, IInv, Control, TypeInv
<1>2. /\ t \in ToSet(queue) /\ t \in ToSet(Todo) /\ ToSet(Todo') = ToSet(Todo) \ {t}
      /\ \A u \in ToSet(Todo) \ {t} : Before(queue, t, u) /\ Priority[t] <= Priority[u]
      /\ \A u \in Task : Before(queue, u, t) => u \notin ToSet(Todo)
      /\ \A a, b \in Task : Before(queue, a, b) /\ a \in ToSet(Todo') => Before(Todo', a, b)
  BY <1>1, VisitedFirst
<1>3. /\ queue \in Seq(Task) /\ Distinct(queue) /\ \A u \in ToSet(queue) : u \in Task
      /\ ToSet(Todo) \subseteq ToSet(queue)
  BY QueueTyped
<1>4. \A u \in Task : State(u)' = State(u)
  BY <1>1 DEF State
<1>5. /\ Scope[t] # {} /\ \A u \in Task : Scope[u] \in SUBSET Table /\ Scope[u] # {}
  BY PlansAreTyped
<1>6. OrderInv'
  BY <1>1, <1>2, <1>4, PrimedOrder DEF OrderInv
<1>7. ASSUME Stuck PROVE Stuck'
  BY <1>4, <1>7 DEF Stuck
<1>8. \A u \in Task : Kind[u] = "import" => ~ReadOnly(u) /\ Scope[u] = Table /\ Priority[u] = 0
  BY WholeDatabase, PriorityLevels DEF ReadOnly
<1>9. ASSUME NEW u \in Task, Blocks(u) PROVE \E v \in Task : Blocks(v)'
  <2>1. /\ Kind[u] = "import" /\ u \in ToSet(queue)
        /\ \A v \in Task : Before(queue, v, u) => Kind[v] = "import"
        /\ \A d \in Table : lockTable[d].reservedRW \in {Nil, u} /\ lockTable[d].reservedRO = {}
        /\ (\A d \in Table : lockTable[d].reservedRW = u) \/ u \in ToSet(Todo)
    BY <1>9 DEF Blocks
  <2>2. u # Nil
    BY NilAssumption
  <2>3. CASE t = u
    <3>1. \A d \in Table : lockTable'[d].reservedRW = u /\ lockTable'[d].reservedRO = {}
      BY <1>1, <1>8, <2>1, <2>3, ReservedLocks
    <3> QED BY <1>1, <2>1, <3>1, PrimedOrder DEF Blocks
  <2>4. CASE t # u /\ lockTable' = lockTable
    <3>1. (\A d \in Table : lockTable'[d].reservedRW = u) \/ u \in ToSet(Todo')
      BY <1>2, <2>1, <2>4
    <3> QED BY <1>1, <2>1, <2>4, <3>1, PrimedOrder DEF Blocks
  <2>5. CASE t # u /\ lockTable' # lockTable
    <3>1. ~ \A d \in Table : lockTable[d].reservedRW = u
      <4>1. ASSUME \A d \in Table : lockTable[d].reservedRW = u PROVE FALSE
        <5>1. \E d \in Scope[t] : lockTable[d].reservedRW \in {Nil, t}
          BY <1>1, <1>5, <2>5, ReservedLocks
        <5> QED BY <1>5, <2>2, <2>5, <4>1, <5>1
      <4> QED BY <4>1
    <3>2. u \in ToSet(Todo) \ {t}
      BY <2>1, <2>5, <3>1
    <3>3. Before(queue, t, u)
      BY <1>2, <3>2
    <3>4. Kind[t] = "import" /\ \A v \in Task : Before(queue, v, t) => Kind[v] = "import"
      BY <1>3, <2>1, <3>3, BeforeOrders
    <3>5. \A d \in Table : lockTable'[d].reservedRW = t /\ lockTable'[d].reservedRO = {}
      BY <1>1, <1>8, <2>1, <2>5, <3>4, ReservedLocks
    <3>6. Blocks(t)'
      BY <1>1, <1>2, <3>4, <3>5, PrimedOrder DEF Blocks
    <3> QED BY <3>6
  <2> QED BY <2>3, <2>4, <2>5
<1>10. ASSUME NEW o \in ToSet(queue), Urgently(o), Awaits(o)
       PROVE  Guarded(o)'
  <2>1. o \in ToSet(Todo) /\ \A d \in Scope[o] : lockTable[d].reservedRW = Nil
    BY <1>10 DEF Awaits
  <2>2. ReadOnly(o) /\ Priority[o] = 0 /\ o \in Task
    BY <1>3, <1>10 DEF Urgently
  <2>3. CASE o = t
    <3>1. \A d \in Scope[o] : o \in lockTable'[d].reservedRO
      <4>1. ~ \E d \in Scope[t] : lockTable[d].reservedRW # Nil
        BY <2>1, <2>3
      <4> QED BY <1>1, <2>2, <2>3, <4>1, ReservedLocks
    <3> QED BY <3>1 DEF Guarded, Reserves
  <2>4. CASE o # t /\ \A d \in Scope[o] : lockTable'[d].reservedRW = Nil
    <3>1. Awaits(o)'
      BY <1>2, <2>1, <2>4, PrimedOrder DEF Awaits
    <3> QED BY <3>1 DEF Guarded
  <2>5. CASE o # t /\ ~ \A d \in Scope[o] : lockTable'[d].reservedRW = Nil
    <3>1. ~ReadOnly(t)
      BY <1>1, <1>5, <2>1, <2>2, <2>5, ReservedLocks
    <3>2. Priority[t] = 0
      <4>1. Priority[t] <= 0 /\ Priority[t] \in 0 .. 2
        BY <1>2, <2>1, <2>2, <2>5, PriorityLevels
      <4> QED BY <4>1
    <3>3. Kind[t] = "import" /\ Scope[t] = Table
      BY <3>1, <3>2, PriorityLevels, WholeDatabase DEF ReadOnly
    <3>4. lockTable' # lockTable
      BY <2>1, <2>5
    <3>5. \A d \in Table : /\ lockTable[d].reservedRO = {} /\ lockTable'[d].reservedRO = {}
                           /\ lockTable'[d].reservedRW = t
      BY <1>1, <3>1, <3>3, <3>4, ReservedLocks
    <3>6. CASE Stuck \/ \E u \in Task : Blocks(u)
      BY <1>7, <1>9, <3>6 DEF Guarded
    <3>7. CASE ~Stuck /\ ~ \E u \in Task : Blocks(u)
      <4>1. ASSUME NEW v \in Task, Before(queue, v, t) PROVE Kind[v] = "import"
        <5>1. v \in ToSet(queue) /\ v \notin ToSet(Todo)
          BY <1>2, <1>3, <4>1, BeforeOrders
        <5>2. Priority[v] = 0
          <6>1. Priority[v] <= 0 /\ Priority[v] \in 0 .. 2
            BY <3>2, <4>1, PriorityLevels DEF OrderInv
          <6> QED BY <6>1
        <5>3. ASSUME ReadOnly(v) PROVE FALSE
          <6>1. Guarded(v)
            BY <5>1, <5>2, <5>3 DEF GuardInv, Urgently
          <6>2. Reserves(v)
            BY <3>7, <5>1, <6>1 DEF Guarded, Awaits
          <6> QED BY <1>5, <3>5, <6>2 DEF Reserves
        <5> QED BY <5>2, <5>3, PriorityLevels DEF ReadOnly
      <4>2. Blocks(t)'
        BY <1>1, <1>2, <3>3, <3>5, <4>1, PrimedOrder DEF Blocks
      <4> QED BY <4>2 DEF Guarded
    <3> QED BY <3>6, <3>7
  <2> QED BY <2>3, <2>4, <2>5
<1>11. ASSUME NEW o \in ToSet(queue), Reserves(o) PROVE Reserves(o)'
  <2>1. o \in Task
    BY <1>3
  <2>2. \A d \in Table : lockTable[d].reservedRO \subseteq lockTable'[d].reservedRO
    BY <1>1, ReservedLocks
  <2> QED BY <1>5, <1>11, <2>1, <2>2 DEF Reserves
<1>12. ASSUME NEW o \in ToSet(queue), Urgently(o) PROVE Guarded(o)'
  <2>1. Guarded(o)
    BY <1>12 DEF GuardInv
  <2> QED BY <1>7, <1>9, <1>10, <1>11, <1>12, <2>1 DEF Guarded
<1> QED BY <1>1, <1>6, <1>12, PrimedOrder DEF GuardInv, Urgently

(* A task leaves the queue to be executed.  If it is an import that others *)
(* were blocked by, the walk goes on to them.                              *)
LEMMA GuardStarts ==
    ASSUME IInv, OrderInv, GuardInv, NEW t \in Task, Visiting(t), Acquires(t),
           lockTable' = Acquired(t), queue' = RemoveFirst(queue, t), stack' = Visited,
           UNCHANGED outcome, State(t) = "none", State(t)' # "none",
           \A u \in Task \ {t} : State(u)' = State(u)
    PROVE  OrderInv' /\ GuardInv'
<1>1. /\ t \in ToSet(queue) /\ t \in ToSet(Todo) /\ ToSet(Todo') = ToSet(Todo) \ {t}
      /\ \A u \in Task : Before(queue, u, t) => u \notin ToSet(Todo)
      /\ \A a, b \in Task : Before(queue, a, b) /\ a \in ToSet(Todo') => Before(Todo', a, b)
  BY VisitedFirst
<1>2. /\ queue \in Seq(Task) /\ Distinct(queue) /\ \A u \in ToSet(queue) : u \in Task
      /\ Todo \in Seq(Task) /\ Distinct(Todo) /\ AllOK(lockTable)
  BY QueueTyped DEF IInv, Control, TypeInv
<1>3. /\ ToSet(queue') = ToSet(queue) \ {t}
      /\ \A a, b : Before(queue', a, b) => Before(queue, a, b)
  BY <1>1, <1>2, RemoveTakesOut, BeforeRemoved
<1>4. /\ \A u \in Task : Scope[u] \in SUBSET Table /\ Scope[u] # {}
      /\ \A u \in Task : Kind[u] = "import" => ~ReadOnly(u) /\ Scope[u] = Table
      /\ t # Nil
  BY PlansAreTyped, WholeDatabase, NilAssumption DEF ReadOnly
<1>5. OrderInv'
  <2>1. \A u \in Task : outcome'[u] = "pending" /\ State(u)' = "none" => u \in ToSet(queue')
    BY <1>3 DEF OrderInv
  <2>2. \A a, b \in Task : Before(queue', a, b) => Priority[a] <= Priority[b]
    BY <1>3 DEF OrderInv
  <2>3. \A a, b \in Task : Before(queue', a, b) /\ a \in ToSet(Todo') => Before(Todo', a, b)
    BY <1>1, <1>3
  <2> QED BY <2>1, <2>2, <2>3, PrimedOrder DEF OrderInv
<1>6. /\ \A d \in Table : /\ lockTable'[d].reservedRW \in {lockTable[d].reservedRW, Nil}
                          /\ d \in Scope[t] => lockTable'[d].reservedRW = Nil
                          /\ lockTable'[d].reservedRO \subseteq lockTable[d].reservedRO
                          /\ lockTable[d].reservedRO \ {t} \subseteq lockTable'[d].reservedRO
      /\ \A d \in Scope[t] : lockTable[d].reservedRW \in {Nil, t}
  BY <1>2, AcquiredLocks
<1>7. ASSUME NEW o \in ToSet(queue'), Urgently(o) PROVE Guarded(o)'
  <2>1. o \in Task /\ o \in ToSet(queue) /\ o # t /\ Guarded(o)
    BY <1>2, <1>3, <1>7 DEF GuardInv
  <2>2. CASE Stuck
    BY <2>2 DEF Guarded, Stuck
  <2>3. CASE Reserves(o)
    BY <1>4, <1>6, <2>1, <2>3 DEF Guarded, Reserves
  <2>4. CASE Awaits(o)
    <3>1. o \in ToSet(Todo') /\ \A d \in Scope[o] : lockTable'[d].reservedRW = Nil
      BY <1>1, <1>4, <1>6, <2>1, <2>4 DEF Awaits
    <3> QED BY <3>1, PrimedOrder DEF Guarded, Awaits
  <2>5. ASSUME NEW u \in Task, Blocks(u) PROVE Guarded(o)'
    <3>1. /\ Kind[u] = "import" /\ u \in ToSet(queue)
          /\ \A v \in Task : Before(queue, v, u) => Kind[v] = "import"
          /\ \A d \in Table : lockTable[d].reservedRW \in {Nil, u} /\ lockTable[d].reservedRO = {}
          /\ (\A d \in Table : lockTable[d].reservedRW = u) \/ u \in ToSet(Todo)
      BY <2>5 DEF Blocks
    <3>2. CASE u = t
      <4>1. o # u /\ ~Before(queue, o, u)
        BY <1>4, <1>7, <2>1, <3>1, <3>2 DEF Urgently
      <4>2. Before(queue, u, o)
        BY <1>2, <2>1, <3>1, <4>1, BeforeOrders
      <4>3. Before(Todo, u, o)
        BY <1>1, <2>1, <3>2, <4>2 DEF OrderInv
      <4>4. o \in ToSet(Todo')
        BY <1>1, <1>2, <2>1, <4>3, BeforeOrders
      <4>5. \A d \in Scope[o] : lockTable'[d].reservedRW = Nil
        BY <1>4, <1>6, <2>1, <3>1, <3>2
      <4> QED BY <4>4, <4>5, PrimedOrder DEF Guarded, Awaits
    <3>3. CASE u # t
      <4>1. u \in ToSet(Todo)
        <5>1. ASSUME \A d \in Table : lockTable[d].reservedRW = u PROVE FALSE
          <6>1. PICK d \in Scope[t] : d \in Table
            BY <1>4
          <6>2. u # Nil
            BY NilAssumption
          <6> QED BY <1>6, <3>3, <5>1, <6>1, <6>2
        <5> QED BY <3>1, <5>1
      <4>2. u \in ToSet(Todo') /\ u \in ToSet(queue')
        BY <1>1, <1>3, <3>1, <3>3, <4>1
      <4>3. \A d \in Table : lockTable'[d].reservedRW \in {Nil, u} /\ lockTable'[d].reservedRO = {}
        BY <1>6, <3>1
      <4>4. Blocks(u)'
        BY <1>3, <3>1, <4>2, <4>3, PrimedOrder DEF Blocks
      <4> QED BY <4>4 DEF Guarded
    <3> QED BY <3>2, <3>3
  <2> QED BY <2>1, <2>2, <2>3, <2>4, <2>5 DEF Guarded
<1> QED BY <1>5, <1>7, PrimedOrder DEF GuardInv, Urgently

(* An import throws: whoever waits goes on waiting.                        *)
LEMMA GuardThrows ==
    ASSUME IInv, OrderInv, NEW t \in Task, t \in ToSet(queue), Kind[t] = "import",
           queue' = RemoveFirst(queue, t), stack' = <<>>,
           UNCHANGED outcome, State(t)' = "lost", \A u \in Task \ {t} : State(u)' = State(u)
    PROVE  OrderInv' /\ GuardInv'
<1>1. queue \in Seq(Task) /\ Distinct(queue)
  BY QueueTyped
<1>2. /\ ToSet(queue') = ToSet(queue) \ {t}
      /\ \A a, b : Before(queue', a, b) => Before(queue, a, b)
  BY <1>1, RemoveTakesOut, BeforeRemoved
<1>3. ToSet(Todo') = {}
  BY DEF Todo, ToSet
<1>4. \A u \in Task : outcome'[u] = "pending" /\ State(u)' = "none" => u \in ToSet(queue')
  BY <1>2 DEF OrderInv
<1>5. \A a, b \in Task : Before(queue', a, b) => Priority[a] <= Priority[b]
  BY <1>2 DEF OrderInv
<1>6. OrderInv'
  BY <1>3, <1>4, <1>5, PrimedOrder DEF OrderInv
<1>7. Stuck'
  BY DEF Stuck
<1> QED BY <1>6, <1>7 DEF GuardInv, Guarded

(* Steps that execute and schedule nothing.                                *)
LEMMA GuardKept ==
    ASSUME OrderInv, GuardInv, UNCHANGED <<lockTable, queue, outcome>>, Todo' = Todo,
           \A u \in Task : /\ State(u)' = "none" => State(u) = "none"
                           /\ State(u) = "lost" => State(u)' = "lost"
    PROVE  OrderInv' /\ GuardInv'
<1>1. OrderInv'
  BY PrimedOrder DEF OrderInv
<1>2. ASSUME NEW o \in ToSet(queue), Urgently(o) PROVE Guarded(o)'
  <2>1. Guarded(o)
    BY <1>2 DEF GuardInv
  <2>2. Stuck => Stuck'
    BY DEF Stuck
  <2>3. (Reserves(o) => Reserves(o)') /\ (Awaits(o) => Awaits(o)')
    BY PrimedOrder DEF Reserves, Awaits
  <2>4. \A u \in Task : Blocks(u) => Blocks(u)'
    BY PrimedOrder DEF Blocks
  <2> QED BY <2>1, <2>2, <2>3, <2>4 DEF Guarded
<1> QED BY <1>1, <1>2, PrimedOrder DEF GuardInv, Urgently

(* A task is done: it takes only its own locks away, and the walk over the *)
(* queue begins anew.                                                      *)
LEMMA GuardFinished ==
    ASSUME IInv, OrderInv, GuardInv, NEW t \in Task, State(t) \in {"ok", "failed"}, stack = <<>>,
           lockTable' = Release(lockTable, t, Scope[t]), UNCHANGED queue, Todo' = queue,
           State(t)' = "done", \A u \in Task \ {t} : State(u)' = State(u) /\ outcome'[u] = outcome[u]
    PROVE  OrderInv' /\ GuardInv'
<1>1. /\ \A u \in ToSet(queue) : u \in Task /\ u # t
      /\ lockTable \in [Table -> Entry] /\ t # Nil /\ ToSet(Todo) = {}
  <2>1. \A u \in ToSet(queue) : State(u) = "none"
    BY DEF IInv, Control, QueueInv
  <2>2. ToSet(Todo) = {}
    BY DEF Todo, ToSet
  <2> QED BY <2>1, <2>2, QueueTyped, NilAssumption DEF IInv, Control, TypeInv, AllOK
<1>2. \A d \in Table : /\ lockTable'[d].reservedRW \in {lockTable[d].reservedRW, Nil}
                       /\ lockTable'[d].reservedRO \subseteq lockTable[d].reservedRO
                       /\ lockTable[d].reservedRO \ {t} \subseteq lockTable'[d].reservedRO
  <2> SUFFICES ASSUME NEW d \in Table
               PROVE  /\ lockTable'[d].reservedRW \in {lockTable[d].reservedRW, Nil}
                      /\ lockTable'[d].reservedRO \subseteq lockTable[d].reservedRO
                      /\ lockTable[d].reservedRO \ {t} \subseteq lockTable'[d].reservedRO
    OBVIOUS
  <2>1. lockTable'[d] = IF d \in Scope[t] THEN Unlock(lockTable[d], t) ELSE lockTable[d]
    BY DEF Release
  <2> QED BY <2>1 DEF Unlock
<1>3. OrderInv'
  <2>1. \A u \in Task : outcome'[u] = "pending" /\ State(u)' = "none" => u \in ToSet(queue')
    BY DEF OrderInv
  <2> QED BY <2>1, PrimedOrder DEF OrderInv
<1>4. ASSUME NEW u \in Task, Blocks(u) PROVE Blocks(u)'
  <2>1. \A d \in Table : lockTable'[d].reservedRW \in {Nil, u} /\ lockTable'[d].reservedRO = {}
    BY <1>2, <1>4 DEF Blocks
  <2>2. /\ Kind[u] = "import" /\ u \in ToSet(queue)
        /\ \A v \in Task : Before(queue, v, u) => Kind[v] = "import"
    BY <1>4 DEF Blocks
  <2> QED BY <2>1, <2>2, PrimedOrder DEF Blocks
<1>5. ASSUME NEW o \in ToSet(queue), Urgently(o) PROVE Guarded(o)'
  <2>1. Guarded(o) /\ ~Awaits(o) /\ o \in Task /\ o # t
    BY <1>1, <1>5 DEF GuardInv, Awaits
  <2>2. Stuck => Stuck'
    BY DEF Stuck
  <2>3. Reserves(o) => Reserves(o)'
    BY <1>2, <2>1, PlansAreTyped DEF Reserves
  <2> QED BY <1>4, <2>1, <2>2, <2>3 DEF Guarded
<1> QED BY <1>3, <1>5, PrimedOrder DEF GuardInv, Urgently

(* Every step keeps the guard.                                             *)
LEMMA NextGuard ==
    ASSUME IInv, OrderInv, GuardInv, NoReentry, Next
    PROVE  OrderInv' /\ GuardInv'
<1> USE DEF IInv
<1>1. CASE Return
  <2>1. /\ stack # <<>> /\ stack[1].todo = <<>> /\ stack' = Tail(stack)
        /\ UNCHANGED <<lockTable, queue, outcome>>
    BY <1>1 DEF Return
  <2>2. stack' = <<>>
    <3>1. stack \in Seq(Frame) /\ Len(stack) = 1
      BY <2>1, OneElement DEF Control, TypeInv
    <3>2. Tail(stack) \in Seq(Frame) /\ Len(Tail(stack)) = 0
      BY <2>1, <3>1, HeadTailProperties
    <3> QED BY <2>1, <3>2, EmptySeq
  <2>3. Todo' = Todo
    BY <2>1, <2>2 DEF Todo
  <2>4. \A u \in Task : /\ State(u)' = "none" => State(u) = "none"
                        /\ State(u) = "lost" => State(u)' = "lost"
    BY <1>1, ReturnKeeps
  <2> QED BY <2>1, <2>3, <2>4, GuardKept
<1>2. ASSUME NEW t \in Task, PassOver(t) PROVE OrderInv' /\ GuardInv'
  BY <1>2, GuardPassed
<1>3. ASSUME NEW t \in Task, Starting(t) PROVE OrderInv' /\ GuardInv'
  <2>1. Visiting(t) /\ Acquires(t)
    BY <1>3 DEF Starting
  <2>2. CASE ExecThrows(t)
    <3>1. /\ Kind[t] = "import" /\ State(t)' = "lost" /\ UNCHANGED outcome
          /\ \A u \in Task \ {t} : State(u)' = State(u)
      BY <2>1, <2>2, ThrowsKeeps
    <3>2. queue' = RemoveFirst(queue, t) /\ stack' = <<>>
      BY <2>2 DEF ExecThrows, Unqueued
    <3> QED BY <2>1, <3>1, <3>2, VisitedFirst, GuardThrows
  <2>3. CASE ~ExecThrows(t)
    <3>1. PICK call \in CallRecord : call.state \in {"running", "ok"} /\ Starts(t, call)
      BY <1>3, <2>3, StartingCall
    <3>2. /\ State(t) = "none" /\ State(t)' # "none"
          /\ \A u \in Task \ {t} : State(u)' = State(u)
      BY <2>1, <3>1, StartsKeeps
    <3>3. /\ lockTable' = Acquired(t) /\ queue' = RemoveFirst(queue, t) /\ stack' = Visited
          /\ UNCHANGED outcome
      BY <3>1 DEF Starts, Unqueued
    <3> QED BY <2>1, <3>2, <3>3, GuardStarts
  <2> QED BY <2>2, <2>3
<1>4. ASSUME NEW t \in Task, UserSchedules(t) PROVE OrderInv' /\ GuardInv'
  <2>1. /\ outcome[t] = "new" /\ stack = <<>> /\ UNCHANGED execs
        /\ ScheduleTask(t, lockTable, queue, stack, Nil)
    BY <1>4 DEF UserSchedules, Idle
  <2> QED BY <2>1, GuardScheduled
<1>5. ASSUME NEW t \in Task, NEW n \in DOMAIN execs[t], Progress(t, n)
      PROVE  OrderInv' /\ GuardInv'
  <2>1. n = 1 /\ stack = <<>> /\ State(t) = "running" /\ Progress(t, 1)
    BY <1>5, ProgressCall
  <2>2. CASE CommitUpdate(t, 1) /\ IsObserved[t]
    <3>1. /\ UNCHANGED execs /\ t \in DOMAIN ObserverOf /\ outcome[ObserverOf[t]] = "new"
          /\ ObserverOf[t] \in Task
      BY <2>1, <2>2, NotifyingKeeps, NotifiersAreTyped
    <3>2. ScheduleTask(ObserverOf[t], lockTable, queue, stack, <<t, 1>>)
      BY <2>2 DEF CommitUpdate
    <3> QED BY <2>1, <3>1, <3>2, GuardScheduled
  <2>3. CASE ~(CommitUpdate(t, 1) /\ IsObserved[t])
    <3>1. /\ UNCHANGED <<lockTable, queue, stack, outcome>>
          /\ State(t)' \in {"running", "ok", "failed"}
          /\ \A u \in Task \ {t} : State(u)' = State(u)
      <4>1. CASE ExecPlan(t, 1)
        BY <2>1, <4>1, ExecPlanCall DEF ExecPlan
      <4>2. CASE ~ExecPlan(t, 1)
        BY <2>1, <2>3, <4>2, SettledCall
      <4> QED BY <4>1, <4>2
    <3>2. Todo' = Todo
      BY <3>1 DEF Todo
    <3>3. \A u \in Task : /\ State(u)' = "none" => State(u) = "none"
                          /\ State(u) = "lost" => State(u)' = "lost"
      BY <2>1, <3>1
    <3> QED BY <3>1, <3>2, <3>3, GuardKept
  <2> QED BY <2>2, <2>3
<1>6. ASSUME NEW t \in Task, NEW n \in DOMAIN execs[t], Finish(t, n)
      PROVE  OrderInv' /\ GuardInv'
  <2>1. /\ State(t) \in {"ok", "failed"} /\ State(t)' = "done"
        /\ \A u \in Task \ {t} : State(u)' = State(u) /\ outcome'[u] = outcome[u]
    BY <1>6, FinishKeeps
  <2>2. /\ stack = <<>> /\ lockTable' = Release(lockTable, t, Scope[t]) /\ UNCHANGED queue
        /\ stack' = <<[todo |-> queue, caller |-> Nil]>>
    BY <1>6 DEF Finish, Idle
  <2>3. Todo' = queue
    BY <2>2 DEF Todo
  <2> QED BY <2>1, <2>2, <2>3, GuardFinished
<1> QED BY <1>1, <1>2, <1>3, <1>4, <1>5, <1>6 DEF Next, Consume

(* A writer other than an import can be executed only if it has no table   *)
(* in common with the urgent readers that wait.                            *)
LEMMA WriterWaits ==
    ASSUME IInv, OrderInv, GuardInv, NEW t \in Task, Visiting(t), Acquires(t), State(t) = "none",
           ~ReadOnly(t), Kind[t] # "import", NEW o \in ToSet(queue), Urgently(o)
    PROVE  Scope[t] \cap Scope[o] = {}
<1>1. /\ t \in ToSet(Todo)
      /\ \A u \in ToSet(Todo) \ {t} : Priority[t] <= Priority[u]
  BY VisitedFirst
<1>2. o \in Task /\ Guarded(o) /\ ReadOnly(o) /\ Priority[o] = 0 /\ o # t
  BY QueueTyped DEF GuardInv, Urgently
<1>3. Priority[t] \in 0 .. 2 /\ Priority[t] # 0
  BY PriorityLevels DEF ReadOnly
<1>4. \A u \in ToSet(Todo) \ {t} : Priority[u] # 0
  <2> SUFFICES ASSUME NEW u \in ToSet(Todo) \ {t}, Priority[u] = 0 PROVE FALSE
    OBVIOUS
  <2>1. Priority[t] <= 0
    BY <1>1
  <2> QED BY <1>3, <2>1
<1>5. \A d \in Scope[t] : lockTable[d].reservedRW \in {Nil, t} /\ lockTable[d].reservedRO = {}
  BY AcquiredLocks DEF IInv, Control, TypeInv
<1>6. Scope[t] \in SUBSET Table /\ Scope[t] # {}
  BY PlansAreTyped
<1>7. CASE Stuck
  <2>1. PICK u \in Task : Kind[u] = "import" /\ State(u) = "lost"
    BY <1>7 DEF Stuck
  <2>2. Scope[u] \cap Scope[t] = {} /\ Scope[u] = Table
    BY <2>1, StartsApart, WholeDatabase DEF Unfinished
  <2> QED BY <1>6, <2>2
<1>8. CASE Reserves(o)
  BY <1>5, <1>8 DEF Reserves
<1>9. ASSUME NEW u \in Task, Blocks(u) PROVE FALSE
  <2>1. /\ Kind[u] = "import" /\ Priority[u] = 0 /\ u # t /\ u # Nil
        /\ (\A d \in Table : lockTable[d].reservedRW = u) \/ u \in ToSet(Todo)
    BY <1>9, PriorityLevels, NilAssumption DEF Blocks
  <2> QED BY <1>4, <1>5, <1>6, <2>1
<1>10. CASE Awaits(o)
  BY <1>2, <1>4, <1>10 DEF Awaits
<1> QED BY <1>2, <1>7, <1>8, <1>9, <1>10 DEF Guarded

-----------------------------------------------------------------------------
(* What observers find.                                                    *)

\* A task can undo only what is in its scope, and what it has changed is
\* its own until it commits.
Undoable(t) == IF Kind[t] \in {"update", "transaction"} THEN Scope[t] ELSE {}

WriteInv(t) ==
    State(t) = "running" =>
        /\ DOMAIN execs[t][1].undo \subseteq Undoable(t)
        /\ Kind[t] = "import" => Len(execs[t][1].results) = Len(PlansOf[t])
        /\ Kind[t] \in {"update", "transaction"} /\ Working(t) =>
              \A d \in FirstPlans(t) : cache[d] = t

\* The tables the task w changes and its observer task reads.
Affected(w) == Scope[w] \cap Scope[ObserverOf[w]]

\* A task in progress that has not thrown.
InProgress(t) == State(t) \in {"running", "ok", "failed"}

\* The observer task of w is scheduled and may still have tables to read.
Awaited(w) == outcome[ObserverOf[w]] = "pending" /\ State(ObserverOf[w]) \in {"none", "running"}

\* The contents c are what w left, or what an import made of them.
Sees(w, c) == c = w \/ ImportAfter(w, c)

\* The writer v may change a table of w before the observers have seen it.
Passes(v, w) == Kind[v] = "import" /\ w \in Empties

\* The tables it has to read are as w left them, or imported to since, and
\* no other writer in progress can change them.
KeepInv(w) ==
    Awaited(w) =>
        /\ \A d \in Affected(w) : Sees(w, cache[d])
        /\ \A v \in Task \ {w} : InProgress(v) /\ ~ReadOnly(v) =>
              Scope[v] \cap Affected(w) = {} \/ Passes(v, w)

\* The tables it has read are as w left them.
ResultsInv(w) ==
    LET o == ObserverOf[w] IN
    State(o) \in Unfinished =>
        \A i \in DOMAIN execs[o][1].results :
            \A d \in DOMAIN execs[o][1].results[i] \cap Scope[w] : Sees(w, execs[o][1].results[i][d])

SeenInv == /\ \A t \in Task : WriteInv(t)
           /\ \A w \in DOMAIN ObserverOf : KeepInv(w) /\ ResultsInv(w)

\* The step puts the rows of the import t in the tables S that w emptied.
Imported(t, S, w) == Passes(t, w) /\ \A d \in S : cache'[d] = t

(* A step of the task t that changes the tables S at most.                 *)
LEMMA SeenKept ==
    ASSUME IInv, SeenInv, NEW t \in Task, NEW S \in SUBSET Table,
           \A d \in Table \ S : cache'[d] = cache[d],
           \A u \in Task \ {t} : /\ Same(u)
                                 /\ State(u) \in Unfinished /\ ~ReadOnly(u) => Scope[u] \cap S = {},
           WriteInv(t)',
           \A w \in DOMAIN ObserverOf :
              /\ Awaited(w)' => /\ Awaited(w)
                                /\ Affected(w) \cap S = {} \/ Imported(t, S, w)
                                /\ InProgress(t)' /\ ~ReadOnly(t) /\ t # w =>
                                      \/ InProgress(t)
                                      \/ Scope[t] \cap Affected(w) = {} \/ Passes(t, w)
              /\ t = ObserverOf[w] => ResultsInv(w)'
    PROVE  SeenInv'
<1>1. ASSUME NEW u \in Task PROVE WriteInv(u)'
  <2>1. CASE u = t
    BY <2>1
  <2>2. CASE u # t
    <3> SUFFICES ASSUME State(u)' = "running" PROVE WriteInv(u)'
      BY DEF WriteInv
    <3>1. /\ State(u) = "running" /\ execs'[u] = execs[u] /\ (Working(u)' <=> Working(u))
          /\ FirstPlans(u) \subseteq Scope[u] /\ Scope[u] \in SUBSET Table
          /\ ~ReadOnly(u) => Scope[u] \cap S = {}
      BY <2>2, FirstPlansInScope, PlansAreTyped DEF Same, Unfinished
    <3>2. FirstPlans(u)' = FirstPlans(u)
      BY <3>1 DEF FirstPlans
    <3>3. WriteInv(u)
      BY DEF SeenInv
    <3>4. /\ DOMAIN execs'[u][1].undo \subseteq Undoable(u)
          /\ Kind[u] = "import" => Len(execs'[u][1].results) = Len(PlansOf[u])
      BY <3>1, <3>3 DEF WriteInv
    <3>5. ASSUME Kind[u] \in {"update", "transaction"}, Working(u)', NEW d \in FirstPlans(u)'
          PROVE  cache'[d] = u
      <4>1. d \in FirstPlans(u) /\ ~ReadOnly(u) /\ cache[d] = u
        BY <3>1, <3>2, <3>3, <3>5 DEF WriteInv, ReadOnly
      <4>2. d \in Table \ S
        BY <3>1, <4>1
      <4> QED BY <4>1, <4>2
    <3> QED BY <3>4, <3>5 DEF WriteInv
  <2> QED BY <2>1, <2>2
<1>2. ASSUME NEW w \in DOMAIN ObserverOf PROVE KeepInv(w)'
  <2> SUFFICES ASSUME Awaited(w)' PROVE KeepInv(w)'
    BY DEF KeepInv
  <2>1. /\ Awaited(w) /\ (Affected(w) \cap S = {} \/ Imported(t, S, w))
        /\ Affected(w) \subseteq Table
        /\ \A d \in Affected(w) : Sees(w, cache[d])
        /\ \A v \in Task \ {w} : InProgress(v) /\ ~ReadOnly(v) =>
              Scope[v] \cap Affected(w) = {} \/ Passes(v, w)
    <3>1. w \in Task /\ Scope[w] \in SUBSET Table
      BY NotifiersAreTyped, PlansAreTyped
    <3> QED BY <3>1 DEF SeenInv, KeepInv, Affected
  <2>2. ASSUME NEW d \in Affected(w) PROVE Sees(w, cache'[d])
    <3>1. CASE d \in S
      BY <2>1, <3>1 DEF Imported, Passes, Sees, ImportAfter
    <3>2. CASE d \notin S
      BY <2>1, <3>2
    <3> QED BY <3>1, <3>2
  <2>3. ASSUME NEW v \in Task \ {w}, InProgress(v)', ~ReadOnly(v)
        PROVE  Scope[v] \cap Affected(w) = {} \/ Passes(v, w)
    <3>1. CASE v = t
      BY <2>1, <2>3, <3>1
    <3>2. CASE v # t
      BY <2>1, <2>3, <3>2 DEF Same, InProgress
    <3> QED BY <3>1, <3>2
  <2> QED BY <2>2, <2>3 DEF KeepInv, Affected
<1>3. ASSUME NEW w \in DOMAIN ObserverOf PROVE ResultsInv(w)'
  <2>1. CASE t = ObserverOf[w]
    BY <2>1
  <2>2. CASE t # ObserverOf[w]
    <3>1. Same(ObserverOf[w]) /\ ResultsInv(w)
      BY <2>2, NotifiersAreTyped DEF SeenInv
    <3> QED BY <3>1 DEF ResultsInv, Same
  <2> QED BY <2>1, <2>2
<1> QED BY <1>1, <1>2, <1>3 DEF SeenInv

(* A writer that runs on has nothing in common with what an observer task  *)
(* of another still has to read.                                           *)
LEMMA RunningApart ==
    ASSUME IInv, SeenInv, NEW t \in Task, State(t) = "running", stack = <<>>, ~ReadOnly(t),
           NEW w \in DOMAIN ObserverOf, Awaited(w)
    PROVE  (Scope[t] \cap Affected(w) = {} \/ Passes(t, w)) /\ t # w
<1>1. t # w
  <2>1. ASSUME t = w PROVE FALSE
    <3>1. ~Notifying(w)
      BY DEF Notifying
    <3>2. outcome[ObserverOf[w]] = "new"
      BY <2>1, <3>1 DEF IInv, Control, NotifyInv
    <3> QED BY <3>2 DEF Awaited
  <2> QED BY <2>1
<1> QED BY <1>1 DEF SeenInv, KeepInv, InProgress

(* A writer that starts has nothing in common with it either, unless it is *)
(* an import: into a database that is not empty, or was emptied.           *)
LEMMA StartingApart ==
    ASSUME IInv, OrderInv, GuardInv, SeenInv, NEW t \in Task, Visiting(t), Acquires(t),
           State(t) = "none", ~ReadOnly(t), NEW w \in DOMAIN ObserverOf, Awaited(w)
    PROVE  \/ Scope[t] \cap Affected(w) = {}
           \/ Kind[t] = "import" /\ (EmptyDB => w \in Empties)
<1>1. /\ ObserverOf[w] \in Task /\ Kind[ObserverOf[w]] = "observer" /\ w \in Task
      /\ ReadOnly(ObserverOf[w]) /\ Priority[ObserverOf[w]] = 0 /\ Scope[w] \in SUBSET Table
  BY NotifiersAreTyped, PriorityLevels, PlansAreTyped DEF ReadOnly
<1>2. CASE State(ObserverOf[w]) = "running"
  <2>1. Scope[ObserverOf[w]] \cap Scope[t] = {}
    BY <1>1, <1>2, StartsApart DEF Unfinished
  <2> QED BY <2>1 DEF Affected
<1>3. CASE State(ObserverOf[w]) = "none" /\ Kind[t] # "import"
  <2>1. ObserverOf[w] \in ToSet(queue) /\ Urgently(ObserverOf[w])
    BY <1>1, <1>3 DEF OrderInv, Awaited, Urgently
  <2>2. Scope[t] \cap Scope[ObserverOf[w]] = {}
    BY <1>3, <2>1, WriterWaits
  <2> QED BY <2>2 DEF Affected
<1>4. CASE State(ObserverOf[w]) = "none" /\ Kind[t] = "import"
  <2>1. ASSUME NEW d \in Affected(w), EmptyDB PROVE w \in Empties
    <3>1. Sees(w, cache[d]) /\ w # Nil /\ d \in Table
      BY <1>1, <2>1, NilAssumption DEF SeenInv, KeepInv, Affected
    <3> QED BY <2>1, <3>1 DEF EmptyDB, Sees, ImportAfter
  <2> QED BY <1>4, <2>1
<1> QED BY <1>2, <1>3, <1>4 DEF Awaited

(* Steps that execute nothing: at most one call changes its state.         *)
LEMMA SeenQuiet ==
    ASSUME IInv, SeenInv, UNCHANGED cache, NEW t \in Task,
           \A u \in Task \ {t} : Same(u), Same(t) \/ State(t)' \in {"ok", "failed", "done"},
           InProgress(t)' => InProgress(t),
           State(t)' \in Unfinished => State(t) \in Unfinished /\ execs'[t][1].results = execs[t][1].results,
           \A w \in DOMAIN ObserverOf : Awaited(w)' => Awaited(w)
    PROVE  SeenInv'
<1>1. WriteInv(t)'
  <2>1. CASE State(t)' # "running"
    BY <2>1 DEF WriteInv
  <2>2. CASE Same(t)
    BY <2>2 DEF WriteInv, SeenInv, Same, FirstPlans
  <2> QED BY <2>1, <2>2
<1>2. ASSUME NEW w \in DOMAIN ObserverOf, t = ObserverOf[w] PROVE ResultsInv(w)'
  <2> SUFFICES ASSUME State(t)' \in Unfinished
               PROVE  \A i \in DOMAIN execs'[t][1].results :
                         \A d \in DOMAIN execs'[t][1].results[i] \cap Scope[w] :
                            Sees(w, execs'[t][1].results[i][d])
    BY <1>2 DEF ResultsInv
  <2>1. ResultsInv(w) /\ State(t) \in Unfinished /\ execs'[t][1].results = execs[t][1].results
    BY DEF SeenInv
  <2>2. \A i \in DOMAIN execs[t][1].results :
           \A d \in DOMAIN execs[t][1].results[i] \cap Scope[w] : Sees(w, execs[t][1].results[i][d])
    BY <1>2, <2>1 DEF ResultsInv
  <2> QED BY <2>1, <2>2
<1>3. \A w \in DOMAIN ObserverOf :
         /\ Awaited(w)' => /\ Awaited(w) /\ Affected(w) \cap {} = {}
                           /\ InProgress(t)' /\ ~ReadOnly(t) /\ t # w =>
                                 InProgress(t) \/ Scope[t] \cap Affected(w) = {}
         /\ t = ObserverOf[w] => ResultsInv(w)'
  BY <1>2
<1>4. /\ {} \in SUBSET Table /\ \A d \in Table \ {} : cache'[d] = cache[d]
      /\ \A u \in Task \ {t} : Same(u) /\ Scope[u] \cap {} = {}
  OBVIOUS
<1> QED BY <1>1, <1>3, <1>4, SeenKept

(* The runner's own steps.                                                 *)
LEMMA SeenByRunner ==
    ASSUME IInv, SeenInv,
           \/ Return
           \/ \E t \in Task : PassOver(t) \/ UserSchedules(t)
           \/ \E t \in Task : \E n \in DOMAIN execs[t] : Finish(t, n)
    PROVE  SeenInv'
<1> USE DEF IInv
<1>1. \A w \in DOMAIN ObserverOf : /\ w \in Task /\ ObserverOf[w] \in Task
                                   /\ Kind[ObserverOf[w]] = "observer"
  BY NotifiersAreTyped
<1>2. ASSUME Return, NEW t \in Task, Notifying(t) PROVE SeenInv'
  <2>1. UNCHANGED <<cache, outcome>>
    BY <1>2 DEF Return
  <2>2. /\ State(t) = "running" /\ State(t)' = "ok"
        /\ execs'[t][1] = [execs[t][1] EXCEPT !.state = "ok"]
        /\ \A u \in Task : ~Notifying(u) => State(u)' = State(u) /\ execs'[u] = execs[u]
        /\ \A u \in Task : ~Notifying(u)'
    BY <1>2, ReturnKeeps
  <2>3. \A u \in Task \ {t} : ~Notifying(u)
    BY <1>2 DEF Notifying
  <2>4. \A u \in Task \ {t} : Same(u)
    BY <2>2, <2>3 DEF Same, Working
  <2>5. execs'[t][1].results = execs[t][1].results
    <3>1. execs[t][1] \in CallRecord
      BY <2>2, OneCall DEF Control
    <3> QED BY <2>2, <3>1 DEF CallRecord
  <2>6. InProgress(t)' => InProgress(t)
    BY <2>2 DEF InProgress
  <2>7. \A w \in DOMAIN ObserverOf : Awaited(w)' => Awaited(w)
    BY <1>1, <2>1, <2>2, <2>4 DEF Awaited, Same
  <2> QED BY <2>1, <2>2, <2>4, <2>5, <2>6, <2>7, SeenQuiet DEF Unfinished
<1>3. ASSUME UNCHANGED cache, \A u \in Task : Same(u),
             \A w \in DOMAIN ObserverOf : outcome'[ObserverOf[w]] = outcome[ObserverOf[w]],
             Task # {}
      PROVE  SeenInv'
  <2>1. PICK t \in Task : TRUE
    BY <1>3
  <2>2. /\ State(t)' = State(t) /\ execs'[t] = execs[t] /\ Same(t)
        /\ \A u \in Task \ {t} : Same(u)
    BY <1>3 DEF Same
  <2>3. \A w \in DOMAIN ObserverOf : Awaited(w)' => Awaited(w)
    BY <1>1, <1>3 DEF Awaited, Same
  <2>4. InProgress(t)' => InProgress(t)
    BY <2>2 DEF InProgress
  <2> QED BY <1>3, <2>2, <2>3, <2>4, SeenQuiet
<1>4. ASSUME Return, \A t \in Task : ~Notifying(t) PROVE SeenInv'
  <2>1. UNCHANGED <<cache, outcome>>
    BY <1>4 DEF Return
  <2>2. \A u \in Task : Same(u)
    BY <1>4, ReturnKeeps DEF Same, Working
  <2>3. CASE Task # {}
    BY <1>3, <2>1, <2>2, <2>3
  <2>4. CASE Task = {}
    BY <1>1, <2>4 DEF SeenInv
  <2> QED BY <2>3, <2>4
<1>5. ASSUME NEW t \in Task, PassOver(t) PROVE SeenInv'
  <2>1. UNCHANGED <<cache, execs, outcome>>
    BY <1>5 DEF PassOver
  <2>2. \A u \in Task : Same(u)
    BY <1>5, <2>1, PassOverKeeps DEF Same, Working
  <2> QED BY <1>3, <2>1, <2>2
<1>6. ASSUME NEW t \in Task, UserSchedules(t) PROVE SeenInv'
  <2>1. /\ UNCHANGED <<cache, execs>> /\ t \in UserTask
        /\ outcome' = [outcome EXCEPT ![t] = "pending"]
        /\ \A u \in Task : Same(u)
    BY <1>6, UserSchedulesKeeps DEF Same, Working
  <2>2. \A w \in DOMAIN ObserverOf : outcome'[ObserverOf[w]] = outcome[ObserverOf[w]]
    BY <1>1, <2>1 DEF UserTask
  <2> QED BY <1>3, <2>1, <2>2
<1>7. ASSUME NEW t \in Task, NEW n \in DOMAIN execs[t], Finish(t, n) PROVE SeenInv'
  <2>1. UNCHANGED cache
    BY <1>7 DEF Finish
  <2>2. /\ State(t)' = "done" /\ outcome'[t] \in {"resolved", "rejected"}
        /\ \A u \in Task \ {t} : Same(u) /\ outcome'[u] = outcome[u]
    BY <1>7, FinishKeeps DEF Same, Working
  <2>3. \A w \in DOMAIN ObserverOf : Awaited(w)' => Awaited(w)
    BY <1>1, <2>2 DEF Awaited, Same
  <2>4. State(t)' \notin Unfinished /\ ~InProgress(t)'
    BY <2>2 DEF Unfinished, InProgress
  <2> QED BY <2>1, <2>2, <2>3, <2>4, SeenQuiet
<1> QED BY <1>2, <1>4, <1>5, <1>6, <1>7

(* A call of exec(): an observer task that starts reads what it was        *)
(* scheduled for, a writer changes nothing that others wait to read.       *)
LEMMA SeenByStarting ==
    ASSUME IInv, IInv', OrderInv, GuardInv, SeenInv, NoReentry, NEW t \in Task, Starting(t)
    PROVE  SeenInv'
<1>1. /\ Visiting(t) /\ Acquires(t) /\ Scope[t] \in SUBSET Table
      /\ \A w \in DOMAIN ObserverOf : /\ w \in Task /\ ObserverOf[w] \in Task
                                      /\ Kind[ObserverOf[w]] = "observer"
  BY PlansAreTyped, NotifiersAreTyped DEF Starting
<1>2. CASE ExecThrows(t)
  <2>1. /\ Kind[t] = "import" /\ State(t) = "none" /\ State(t)' = "lost"
        /\ \A u \in Task \ {t} : State(u)' = State(u) /\ execs'[u] = execs[u]
        /\ \A u \in Task : State(u) \notin Unfinished /\ ~Notifying(u) /\ ~Notifying(u)'
        /\ UNCHANGED outcome
    BY <1>1, <1>2, ThrowsKeeps DEF IInv
  <2>2. PICK S \in SUBSET Scope[t] : /\ ~EmptyDB => S = {}
                                     /\ cache' = Overwrite(cache, S, t)
    BY <1>2, <2>1 DEF ExecThrows
  <2>3. \A u \in Task \ {t} : Same(u)
    BY <2>1 DEF Same, Working
  <2>4. WriteInv(t)' /\ ~InProgress(t)' /\ ~ReadOnly(t)
    BY <2>1 DEF WriteInv, InProgress, ReadOnly
  <2>5. \A d \in Table \ S : cache'[d] = cache[d]
    BY <2>2 DEF Overwrite
  <2>6. ASSUME NEW w \in DOMAIN ObserverOf, Awaited(w)'
        PROVE  Awaited(w) /\ (Affected(w) \cap S = {} \/ Imported(t, S, w))
    <3>1. ObserverOf[w] # t
      BY <1>1, <2>1
    <3>2. Awaited(w)
      BY <1>1, <2>1, <2>6, <3>1 DEF Awaited
    <3>3. Scope[t] \cap Affected(w) = {} \/ (EmptyDB => w \in Empties)
      BY <1>1, <2>1, <2>4, <3>2, StartingApart
    <3>4. \A d \in S : cache'[d] = t
      BY <1>1, <2>2 DEF Overwrite
    <3> QED BY <2>1, <2>2, <3>2, <3>3, <3>4 DEF Imported, Passes
  <2>7. S \in SUBSET Table /\ \A w \in DOMAIN ObserverOf : t # ObserverOf[w]
    BY <1>1, <2>1
  <2> QED BY <2>1, <2>3, <2>4, <2>5, <2>6, <2>7, SeenKept
<1>3. CASE ~ExecThrows(t)
  <2>1. PICK call \in CallRecord : call.state \in {"running", "ok"} /\ Starts(t, call)
    BY <1>3, StartingCall
  <2>2. /\ State(t) = "none" /\ State(t)' = call.state /\ execs'[t][1] = call
        /\ outcome[t] = "pending" /\ UNCHANGED outcome
        /\ \A u \in Task \ {t} : State(u)' = State(u) /\ execs'[u] = execs[u]
        /\ \A u \in Task : Notifying(u)' <=> Notifying(u)
    BY <1>1, <2>1, StartsKeeps DEF IInv, Starts
  <2>3. \A u \in Task \ {t} : Same(u)
    BY <2>2 DEF Same, Working
  <2>4. \A w \in DOMAIN ObserverOf : Awaited(w)' => Awaited(w)
    BY <1>1, <2>2 DEF Awaited
  <2>5. CASE ReadOnly(t)
    <3>1. UNCHANGED cache
      BY <1>3, <2>5 DEF Starting, ReadOnly, ExecQuery, ExecUpdate, ExecExport, ExecImport, ExecExternal
    <3>2. WriteInv(t)'
      <4>1. ASSUME State(t)' = "running" PROVE DOMAIN execs'[t][1].undo = {}
        <5>1. ExecQuery(t) \/ ExecExport(t)
          BY <1>3, <2>5 DEF Starting, ReadOnly, ExecUpdate, ExecImport, ExecExternal
        <5>2. CASE ExecQuery(t)
          <6> DEFINE c == Call("running", <<Contents(PlansOf[t][1].tables)>>, <<>>)
          <6>1. execs'[t][1] = c
            BY <2>2, <5>2, FirstCall DEF ExecQuery, Starts
          <6>2. c.undo = <<>>
            BY DEF Call
          <6> QED BY <6>1, <6>2
        <5>3. CASE ExecExport(t)
          <6> DEFINE c == Call("ok", <<Contents(Table)>>, <<>>)
          <6>1. State(t)' = c.state /\ c.state = "ok"
            BY <2>2, <5>3, FirstCall DEF ExecExport, Starts, Call
          <6> QED BY <4>1, <6>1
        <5> QED BY <5>1, <5>2, <5>3
      <4> QED BY <2>5, <4>1 DEF WriteInv, ReadOnly
    <3>3. ASSUME NEW w \in DOMAIN ObserverOf, t = ObserverOf[w] PROVE ResultsInv(w)'
      <4>1. Kind[t] = "observer" /\ ExecQuery(t)
        BY <1>1, <1>3, <3>3 DEF Starting, ExecUpdate, ExecImport, ExecExternal, ExecExport
      <4> DEFINE tables == PlansOf[t][1].tables
                 c == Call("running", <<Contents(tables)>>, <<>>)
      <4>2. execs'[t][1] = c /\ State(t)' = "running"
        <5>1. execs'[t][1] = c /\ State(t)' = c.state
          BY <2>2, <4>1, FirstCall DEF ExecQuery, Starts
        <5>2. c.state = "running"
          BY DEF Call
        <5> QED BY <5>1, <5>2
      <4>3. c.results = <<Contents(tables)>> /\ Len(c.results) = 1 /\ DOMAIN c.results = {1}
        BY DEF Call
      <4>4. 1 \in DOMAIN PlansOf[t]
        <5>1. Len(execs'[t][1].results) <= Len(PlansOf[t])
          BY <4>2 DEF IInv, PlanInv
        <5>2. Len(PlansOf[t]) \in Nat /\ DOMAIN PlansOf[t] = 1 .. Len(PlansOf[t])
          BY PlansAreTyped
        <5>3. \A k \in Nat : 1 <= k => 1 \in 1 .. k
          OBVIOUS
        <5> QED BY <4>2, <4>3, <5>1, <5>2, <5>3
      <4>5. tables \subseteq Scope[t] /\ Awaited(w)
        BY <2>2, <3>3, <4>4, PlansAreTyped DEF Awaited
      <4>6. \A d \in tables \cap Scope[w] : Sees(w, Contents(tables)[d])
        BY <1>1, <3>3, <4>5 DEF SeenInv, KeepInv, Affected, Contents
      <4>7. c.results[1] = Contents(tables) /\ DOMAIN Contents(tables) = tables
        BY DEF Call, Contents
      <4> HIDE DEF c, tables
      <4>8. \A i \in DOMAIN c.results : \A d \in DOMAIN c.results[i] \cap Scope[w] :
               Sees(w, c.results[i][d])
        BY <4>3, <4>6, <4>7
      <4>9. \A i \in DOMAIN execs'[t][1].results :
               \A d \in DOMAIN execs'[t][1].results[i] \cap Scope[w] :
                  Sees(w, execs'[t][1].results[i][d])
        BY <4>2, <4>8
      <4> QED BY <3>3, <4>9 DEF ResultsInv
    <3>4. \A w \in DOMAIN ObserverOf :
             /\ Awaited(w)' => /\ Awaited(w) /\ Affected(w) \cap {} = {}
                               /\ InProgress(t)' /\ ~ReadOnly(t) /\ t # w =>
                                     InProgress(t) \/ Scope[t] \cap Affected(w) = {}
             /\ t = ObserverOf[w] => ResultsInv(w)'
      BY <2>4, <2>5, <3>3
    <3>5. /\ {} \in SUBSET Table /\ \A d \in Table \ {} : cache'[d] = cache[d]
          /\ \A u \in Task \ {t} : Same(u) /\ Scope[u] \cap {} = {}
      BY <2>3, <3>1
    <3> QED BY <3>2, <3>4, <3>5, SeenKept
  <2>6. CASE ~ReadOnly(t)
    <3>1. \A d \in Table \ Scope[t] : cache'[d] = cache[d]
      BY <1>3, <2>6, WholeDatabase
      DEF Starting, ReadOnly, ExecQuery, ExecUpdate, ExecExport, ExecImport, ExecExternal, Overwrite
    <3>2. \A u \in Task \ {t} : State(u) \in Unfinished /\ ~ReadOnly(u) => Scope[u] \cap Scope[t] = {}
      BY <1>1, <2>2, <2>6, StartsApart
    <3>3. ASSUME NEW w \in DOMAIN ObserverOf, Awaited(w)'
          PROVE  Scope[t] \cap Affected(w) = {} \/ (Passes(t, w) /\ Imported(t, Scope[t], w))
      <4>1. Scope[t] \cap Affected(w) = {} \/ (Kind[t] = "import" /\ (EmptyDB => w \in Empties))
        BY <1>1, <2>2, <2>4, <2>6, <3>3, StartingApart
      <4>2. Kind[t] = "import" => EmptyDB /\ cache' = Overwrite(cache, Table, t)
        BY <1>3 DEF Starting, ExecQuery, ExecUpdate, ExecExport, ExecImport, ExecExternal
      <4> QED BY <1>1, <4>1, <4>2 DEF Passes, Imported, Overwrite
    <3>4. WriteInv(t)'
      <4> SUFFICES ASSUME State(t)' = "running"
                   PROVE  /\ DOMAIN execs'[t][1].undo = {}
                          /\ IF Kind[t] = "import"
                             THEN Len(execs'[t][1].results) = Len(PlansOf[t])
                             ELSE FirstPlans(t)' = {}
        BY <2>6 DEF WriteInv, Undoable
      <4>1. CASE ExecUpdate(t)
        <5> DEFINE c == Call("running", <<>>, <<>>)
        <5>1. execs'[t][1] = c
          BY <2>2, <4>1, FirstCall DEF ExecUpdate, Starts
        <5>2. c.undo = <<>> /\ c.results = <<>>
          BY DEF Call
        <5>3. DOMAIN execs'[t][1].undo = {} /\ DOMAIN execs'[t][1].results = {}
          BY <5>1, <5>2
        <5> QED BY <4>1, <5>3 DEF FirstPlans, ExecUpdate
      <4>2. CASE ExecImport(t)
        <5> DEFINE c == Call("running", <<<<>>>>, <<>>)
        <5>1. execs'[t][1] = c /\ Kind[t] = "import"
          BY <2>2, <4>2, FirstCall DEF ExecImport, Starts
        <5>2. c.undo = <<>> /\ Len(c.results) = 1
          BY DEF Call
        <5>3. PlansOf[t] = <<[tables |-> Table, query |-> Nil]>>
          BY <5>1 DEF PlansOf
        <5>4. Len(PlansOf[t]) = 1
          BY <5>3
        <5> QED BY <5>1, <5>2, <5>4
      <4>3. CASE ExecExternal(t)
        BY <4>3 DEF ExecExternal, IInv, PlanInv
      <4> QED BY <1>3, <2>6, <4>1, <4>2, <4>3 DEF Starting, ReadOnly, ExecQuery, ExecExport
    <3>5. \A w \in DOMAIN ObserverOf : t # ObserverOf[w]
      BY <1>1, <2>6 DEF ReadOnly
    <3> QED BY <1>1, <2>3, <2>4, <3>1, <3>2, <3>3, <3>4, <3>5, SeenKept
  <2> QED BY <2>5, <2>6
<1> QED BY <1>2, <1>3

(* A plan is executed: an observer task reads what it was scheduled for, a *)
(* writer changes nothing that others wait to read.                        *)
LEMMA SeenByExecPlan ==
    ASSUME IInv, SeenInv, NEW t \in Task, State(t) = "running", stack = <<>>, ExecPlan(t, 1)
    PROVE  SeenInv'
<1> DEFINE e == execs[t][1]
           T == PlansOf[t][Len(e.results) + 1].tables
           n == Len(e.results) + 1
           S == IF ReadOnly(t) THEN {} ELSE T
<1>1. /\ State(t)' = "running"
      /\ \A u \in Task \ {t} : State(u)' = State(u) /\ execs'[u] = execs[u]
      /\ Len(e.results) + 1 \in DOMAIN PlansOf[t]
      /\ execs'[t][1].results = Append(e.results, IF ReadOnly(t) THEN Contents(T) ELSE <<>>)
      /\ execs'[t][1].undo = IF ReadOnly(t) THEN e.undo ELSE Journaled(e.undo, T)
  BY ExecPlanCall
<1>2. (\A u \in Task : ~Notifying(u) /\ ~Notifying(u)') /\ UNCHANGED outcome
  BY DEF Notifying, ExecPlan
<1>3. \A u \in Task \ {t} : Same(u)
  BY <1>1, <1>2 DEF Same, Working
<1>4. /\ e.results \in Seq(Partial) /\ Len(e.results) \in Nat
      /\ DOMAIN e.results = 1 .. Len(e.results)
      /\ T \subseteq Scope[t] /\ T \subseteq Table
  BY <1>1, FirstPlansInScope, PlansAreTyped
<1>5. /\ DOMAIN execs'[t][1].results = (DOMAIN e.results) \cup {n}
      /\ \A i \in DOMAIN e.results : execs'[t][1].results[i] = e.results[i]
      /\ execs'[t][1].results[n] = IF ReadOnly(t) THEN Contents(T) ELSE <<>>
  <2>1. 1 .. n = (DOMAIN e.results) \cup {n}
    <3>1. \A k \in Nat : 1 .. k + 1 = (1 .. k) \cup {k + 1}
      OBVIOUS
    <3> QED BY <1>4, <3>1
  <2> DEFINE p == IF ReadOnly(t) THEN Contents(T) ELSE <<>>
  <2>2. p \in Partial
    BY <1>4, ContentsTyped DEF IInv
  <2> HIDE DEF p
  <2>3. /\ Append(e.results, p) \in Seq(Partial)
        /\ Len(Append(e.results, p)) = n
        /\ \A i \in 1 .. Len(e.results) : Append(e.results, p)[i] = e.results[i]
        /\ Append(e.results, p)[n] = p
    BY <1>4, <2>2, AppendProperties
  <2>4. execs'[t][1].results = Append(e.results, p)
    BY <1>1 DEF p
  <2>5. DOMAIN Append(e.results, p) = 1 .. n
    BY <2>3
  <2> QED BY <1>4, <2>1, <2>3, <2>4, <2>5 DEF p
<1>6. /\ S \in SUBSET Table /\ \A d \in Table \ S : cache'[d] = cache[d]
      /\ ReadOnly(t) => UNCHANGED cache
      /\ ~ReadOnly(t) => cache' = Overwrite(cache, T, t)
  BY <1>4 DEF ExecPlan, Overwrite
<1>10. ~ReadOnly(t) => Kind[t] \in {"update", "transaction"}
  <2>1. DOMAIN PlansOf[t] = 1 .. Len(PlansOf[t]) /\ Len(PlansOf[t]) \in Nat
    BY PlansAreTyped
  <2>2. WriteInv(t) /\ Len(e.results) # Len(PlansOf[t])
    BY <1>1, <1>4, <2>1 DEF SeenInv
  <2>3. Kind[t] \in TaskKind /\ Kind[t] # "external"
    BY RunnerAssumption DEF IInv, PlanInv
  <2> QED BY <2>2, <2>3 DEF WriteInv, ReadOnly, TaskKind
<1>7. \A u \in Task \ {t} : State(u) \in Unfinished /\ ~ReadOnly(u) => Scope[u] \cap S = {}
  <2> SUFFICES ASSUME NEW u \in Task \ {t}, State(u) \in Unfinished, ~ReadOnly(u), ~ReadOnly(t)
               PROVE  Scope[u] \cap T = {}
    OBVIOUS
  <2>1. Scope[u] \cap Scope[t] = {}
    BY ScopesApart DEF Unfinished
  <2> QED BY <1>4, <2>1
<1>8. WriteInv(t)'
  <2>1. WriteInv(t) /\ Working(t)
    BY <1>2 DEF SeenInv, Working
  <2>2. CASE ReadOnly(t)
    <3>1. DOMAIN execs'[t][1].undo = {}
      BY <1>1, <2>1, <2>2 DEF WriteInv, Undoable, ReadOnly
    <3> QED BY <2>2, <3>1 DEF WriteInv, ReadOnly, Undoable
  <2>3. CASE ~ReadOnly(t)
    <3>1. DOMAIN execs'[t][1].undo = DOMAIN e.undo \cup T
      BY <1>1, <2>3 DEF Journaled
    <3>2. DOMAIN e.undo \subseteq Scope[t]
      BY <1>10, <2>1, <2>3 DEF WriteInv, Undoable
    <3>3. FirstPlans(t)' = FirstPlans(t) \cup T
      <4>1. \A i \in DOMAIN execs'[t][1].results :
               PlansOf[t][i].tables = IF i = n THEN T ELSE PlansOf[t][i].tables
        OBVIOUS
      <4> QED BY <1>5 DEF FirstPlans
    <3>4. ASSUME Kind[t] \in {"update", "transaction"}, NEW d \in FirstPlans(t)'
          PROVE  cache'[d] = t
      <4>1. d \in FirstPlans(t) => cache[d] = t
        BY <2>1, <3>4 DEF WriteInv
      <4>2. d \in Table
        BY <1>4, <3>3, <3>4, FirstPlansInScope, PlansAreTyped
      <4> QED BY <1>6, <2>3, <3>3, <3>4, <4>1, <4>2 DEF Overwrite
    <3> QED BY <1>4, <1>10, <2>3, <3>1, <3>2, <3>4 DEF WriteInv, Undoable
  <2> QED BY <2>2, <2>3
<1>9. ASSUME NEW w \in DOMAIN ObserverOf
      PROVE  /\ Awaited(w)' => /\ Awaited(w) /\ Affected(w) \cap S = {}
                               /\ InProgress(t)
             /\ t = ObserverOf[w] => ResultsInv(w)'
  <2>1. /\ ObserverOf[w] \in Task /\ Kind[ObserverOf[w]] = "observer" /\ w \in Task
        /\ Scope[w] \in SUBSET Table
    BY NotifiersAreTyped, PlansAreTyped
  <2>2. Awaited(w)' => Awaited(w)
    BY <1>1, <1>2, <2>1 DEF Awaited
  <2>3. Awaited(w) => Affected(w) \cap S = {}
    <3> SUFFICES ASSUME Awaited(w), ~ReadOnly(t) PROVE Affected(w) \cap T = {}
      OBVIOUS
    <3>1. Scope[t] \cap Affected(w) = {}
      BY <1>10, RunningApart DEF Passes
    <3> QED BY <1>4, <3>1
  <2>4. ASSUME t = ObserverOf[w] PROVE ResultsInv(w)'
    <3>1. ReadOnly(t) /\ Awaited(w)
      <4>1. outcome[t] = "pending"
        BY InProgressIsPending DEF Unfinished
      <4> QED BY <2>1, <2>4, <4>1 DEF ReadOnly, Awaited
    <3>2. \A d \in T \cap Scope[w] : Sees(w, Contents(T)[d])
      <4>1. \A d \in Affected(w) : Sees(w, cache[d])
        BY <3>1 DEF SeenInv, KeepInv
      <4> QED BY <1>4, <2>4, <4>1 DEF Affected, Contents
    <3>3. DOMAIN Contents(T) = T
      BY DEF Contents
    <3>4. \A i \in DOMAIN e.results : \A d \in DOMAIN e.results[i] \cap Scope[w] :
             Sees(w, e.results[i][d])
      BY <2>4 DEF SeenInv, ResultsInv, Unfinished
    <3>5. ASSUME NEW i \in DOMAIN execs'[t][1].results,
                 NEW d \in DOMAIN execs'[t][1].results[i] \cap Scope[w]
          PROVE  Sees(w, execs'[t][1].results[i][d])
      <4>1. CASE i \in DOMAIN e.results
        <5>1. execs'[t][1].results[i] = e.results[i]
          BY <1>5, <4>1
        <5> QED BY <3>4, <3>5, <4>1, <5>1
      <4>2. CASE i = n
        <5>1. execs'[t][1].results[i] = Contents(T)
          BY <1>5, <3>1, <4>2
        <5> QED BY <3>2, <3>3, <3>5, <5>1
      <4> QED BY <1>5, <3>5, <4>1, <4>2
    <3> QED BY <2>4, <3>5 DEF ResultsInv
  <2>5. InProgress(t)
    BY DEF InProgress
  <2> QED BY <2>2, <2>3, <2>4, <2>5
<1> HIDE DEF S
<1> QED BY <1>3, <1>6, <1>7, <1>8, <1>9, SeenKept

(* A task ends and notifies nobody; what it undoes is its own.             *)
LEMMA SeenBySettling ==
    ASSUME IInv, SeenInv, NEW t \in Task, State(t) = "running", Progress(t, 1), ~ExecPlan(t, 1),
           ~(CommitUpdate(t, 1) /\ IsObserved[t])
    PROVE  SeenInv'
<1> DEFINE S == DOMAIN execs[t][1].undo
<1>1. /\ State(t)' \in {"ok", "failed"}
      /\ execs'[t][1] = [execs[t][1] EXCEPT !.state = State(t)']
      /\ \A u \in Task \ {t} : State(u)' = State(u) /\ execs'[u] = execs[u]
      /\ UNCHANGED <<lockTable, queue, stack, outcome>>
  BY SettledCall
<1>2. /\ stack = <<>> /\ execs[t][1] \in CallRecord
      /\ cache \in [Table -> Holder] /\ Scope[t] \in SUBSET Table
  BY ProgressCall, OneCall, PlansAreTyped DEF IInv, Control, ContentsInv, TypeInv
<1>3. \A u \in Task \ {t} : Same(u)
  BY <1>1 DEF Same, Working, Notifying
<1>4. S \subseteq Undoable(t) /\ S \subseteq IF ReadOnly(t) THEN {} ELSE Scope[t]
  BY DEF SeenInv, WriteInv, Undoable, ReadOnly
<1>5. \A d \in Table \ S : cache'[d] = cache[d]
  <2>1. UNCHANGED cache \/ cache' = Undone(execs[t][1].undo)
    BY DEF Progress, CommitQuery, CommitUpdate, CommitImport, Fail, Rollback
  <2> QED BY <2>1 DEF Undone
<1>6. \A u \in Task \ {t} : State(u) \in Unfinished /\ ~ReadOnly(u) => Scope[u] \cap S = {}
  <2> SUFFICES ASSUME NEW u \in Task \ {t}, State(u) \in Unfinished, ~ReadOnly(u), ~ReadOnly(t)
               PROVE  Scope[u] \cap S = {}
    BY <1>4
  <2>1. Scope[u] \cap Scope[t] = {}
    BY ScopesApart DEF Unfinished
  <2> QED BY <1>4, <2>1
<1>7. WriteInv(t)'
  BY <1>1 DEF WriteInv
<1>8. ASSUME NEW w \in DOMAIN ObserverOf
      PROVE  /\ Awaited(w)' => /\ Awaited(w) /\ Affected(w) \cap S = {}
                               /\ InProgress(t)
             /\ t = ObserverOf[w] => ResultsInv(w)'
  <2>1. ObserverOf[w] \in Task
    BY NotifiersAreTyped
  <2>2. Awaited(w)' => Awaited(w)
    BY <1>1, <2>1 DEF Awaited
  <2>3. Awaited(w) => Affected(w) \cap S = {}
    <3> SUFFICES ASSUME Awaited(w), ~ReadOnly(t) PROVE Affected(w) \cap S = {}
      BY <1>4
    <3>1. Scope[t] \cap Affected(w) = {} \/ Passes(t, w)
      BY <1>2, RunningApart
    <3> QED BY <1>4, <3>1 DEF Passes, Undoable
  <2>4. ASSUME t = ObserverOf[w] PROVE ResultsInv(w)'
    <3>1. execs'[t][1].results = execs[t][1].results
      BY <1>1, <1>2 DEF CallRecord
    <3>2. \A i \in DOMAIN execs[t][1].results :
             \A d \in DOMAIN execs[t][1].results[i] \cap Scope[w] : Sees(w, execs[t][1].results[i][d])
      BY <2>4 DEF SeenInv, ResultsInv, Unfinished
    <3>3. \A i \in DOMAIN execs'[t][1].results :
             \A d \in DOMAIN execs'[t][1].results[i] \cap Scope[w] :
                Sees(w, execs'[t][1].results[i][d])
      BY <3>1, <3>2
    <3> QED BY <2>4, <3>3 DEF ResultsInv
  <2>5. InProgress(t)
    BY DEF InProgress
  <2> QED BY <2>2, <2>3, <2>4, <2>5
<1>9. S \in SUBSET Table
  BY <1>2, <1>4
<1> HIDE DEF S
<1> QED BY <1>3, <1>5, <1>6, <1>7, <1>8, <1>9, SeenKept

(* A writer commits and schedules its observer task: the tables are as it  *)
(* left them, and as it holds them locked no other writer is at them.      *)
LEMMA SeenByNotifying ==
    ASSUME IInv, SeenInv, NEW t \in Task, State(t) = "running", stack = <<>>,
           CommitUpdate(t, 1), IsObserved[t]
    PROVE  SeenInv'
<1>1. /\ UNCHANGED execs /\ (\A u \in Task : State(u)' = State(u)) /\ t \in DOMAIN ObserverOf
      /\ outcome' = [outcome EXCEPT ![ObserverOf[t]] = "pending"]
      /\ \A u \in Task : ~Notifying(u) /\ (Notifying(u)' <=> u = t)
  BY NotifyingKeeps
<1>2. UNCHANGED cache /\ Kind[t] \in {"update", "transaction"} /\ ~ReadOnly(t)
  BY DEF CommitUpdate, ReadOnly
<1>3. FirstPlans(t) = Scope[t] /\ \A d \in Scope[t] : cache[d] = t
  <2>1. Len(execs[t][1].results) = Len(PlansOf[t])
    BY DEF CommitUpdate, PlansDone
  <2>2. FirstPlans(t) = Scope[t]
    BY <2>1, FirstPlansInScope
  <2>3. Working(t) /\ WriteInv(t)
    BY <1>1 DEF Working, SeenInv
  <2> QED BY <1>2, <2>2, <2>3 DEF WriteInv
<1>4. ASSUME NEW u \in Task PROVE WriteInv(u)'
  <2>1. WriteInv(u) /\ (Working(u)' => Working(u)) /\ FirstPlans(u)' = FirstPlans(u)
    BY <1>1 DEF SeenInv, Working, FirstPlans
  <2> QED BY <1>1, <1>2, <2>1 DEF WriteInv
<1>5. ASSUME NEW w \in DOMAIN ObserverOf PROVE KeepInv(w)' /\ ResultsInv(w)'
  <2>1. w \in Task /\ ObserverOf[w] \in Task
    BY NotifiersAreTyped
  <2>2. ResultsInv(w)'
    BY <1>1, <2>1 DEF SeenInv, ResultsInv
  <2>3. CASE w = t
    <3>1. \A d \in Affected(w) : Sees(w, cache'[d])
      BY <1>2, <1>3, <2>3 DEF Affected, Sees
    <3>2. ASSUME NEW v \in Task \ {w}, InProgress(v)', ~ReadOnly(v)
          PROVE  Scope[v] \cap Affected(w) = {}
      <4>1. State(v) \in Unfinished /\ State(t) \in Unfinished
        BY <1>1, <3>2 DEF InProgress, Unfinished
      <4>2. Scope[v] \cap Scope[t] = {}
        BY <2>3, <3>2, <4>1, ScopesApart
      <4> QED BY <2>3, <4>2 DEF Affected
    <3>3. KeepInv(w)'
      BY <3>1, <3>2 DEF KeepInv, Affected
    <3> QED BY <2>2, <3>3
  <2>4. CASE w # t
    <3>1. ObserverOf[w] # ObserverOf[t]
      BY <1>1, <2>4, NotifiersAreTyped
    <3>2. Awaited(w)' => Awaited(w)
      BY <1>1, <2>1, <3>1 DEF Awaited, IInv, Control, TypeInv
    <3>3. KeepInv(w) /\ \A v \in Task : InProgress(v)' => InProgress(v)
      BY <1>1 DEF SeenInv, InProgress
    <3>4. KeepInv(w)'
      BY <1>2, <3>2, <3>3 DEF KeepInv, Affected
    <3> QED BY <2>2, <3>4
  <2> QED BY <2>3, <2>4
<1> QED BY <1>4, <1>5 DEF SeenInv

(* Every step keeps what the observer tasks rely on.                       *)
LEMMA NextSeen ==
    ASSUME IInv, IInv', OrderInv, GuardInv, SeenInv, NoReentry, Next
    PROVE  SeenInv'
<1>1. CASE Return
  BY <1>1, SeenByRunner
<1>2. ASSUME NEW t \in Task, PassOver(t) \/ UserSchedules(t) PROVE SeenInv'
  BY <1>2, SeenByRunner
<1>3. ASSUME NEW t \in Task, Starting(t) PROVE SeenInv'
  BY <1>3, SeenByStarting
<1>4. ASSUME NEW t \in Task, NEW n \in DOMAIN execs[t], Finish(t, n) PROVE SeenInv'
  BY <1>4, SeenByRunner
<1>5. ASSUME NEW t \in Task, NEW n \in DOMAIN execs[t], Progress(t, n) PROVE SeenInv'
  <2>1. stack = <<>> /\ State(t) = "running" /\ Progress(t, 1)
    BY <1>5, ProgressCall
  <2>2. CASE ExecPlan(t, 1)
    BY <2>1, <2>2, SeenByExecPlan
  <2>3. CASE CommitUpdate(t, 1) /\ IsObserved[t]
    BY <2>1, <2>3, SeenByNotifying
  <2>4. CASE ~ExecPlan(t, 1) /\ ~(CommitUpdate(t, 1) /\ IsObserved[t])
    BY <2>1, <2>4, SeenBySettling
  <2> QED BY <2>2, <2>3, <2>4
<1> QED BY <1>1, <1>2, <1>3, <1>4, <1>5 DEF Next, Consume

-----------------------------------------------------------------------------
\* The inductive invariant of this module.
ObserverInv == IInv /\ OrderInv /\ GuardInv /\ SeenInv

(* Nothing is scheduled at first.                                          *)
LEMMA InitObserver == Init => ObserverInv
<1> SUFFICES ASSUME Init PROVE ObserverInv
  OBVIOUS
<1>1. IInv
  BY InitIInv
<1>2. /\ queue = <<>> /\ stack = <<>> /\ DOMAIN queue = {} /\ ToSet(queue) = {}
      /\ \A t \in Task : State(t) = "none" /\ outcome[t] = "new"
  BY DEF Init, State, ToSet
<1>3. \A a, b \in Task : ~Before(queue, a, b)
  BY <1>2 DEF Before
<1>4. OrderInv
  BY <1>2, <1>3 DEF OrderInv
<1>5. GuardInv
  BY <1>2 DEF GuardInv
<1>6. ASSUME NEW w \in DOMAIN ObserverOf PROVE KeepInv(w) /\ ResultsInv(w)
  <2>1. ObserverOf[w] \in Task
    BY NotifiersAreTyped
  <2>2. ~Awaited(w) /\ State(ObserverOf[w]) \notin Unfinished
    BY <1>2, <2>1 DEF Awaited, Unfinished
  <2> QED BY <2>2 DEF KeepInv, ResultsInv
<1>7. \A t \in Task : WriteInv(t)
  BY <1>2 DEF WriteInv
<1> QED BY <1>1, <1>4, <1>5, <1>6, <1>7 DEF ObserverInv, SeenInv

(* No step breaks it.                                                      *)
LEMMA NextObserver == ObserverInv /\ NoReentry /\ [Next]_vars => ObserverInv'
<1> SUFFICES ASSUME ObserverInv, NoReentry, [Next]_vars PROVE ObserverInv'
  OBVIOUS
<1>1. IInv'
  BY NextIInv DEF ObserverInv
<1>2. CASE Next
  BY <1>1, <1>2, NextGuard, NextSeen DEF ObserverInv
<1>3. CASE UNCHANGED vars
  <2> USE <1>3 DEF vars
  <2>1. Todo' = Todo /\ \A t \in Task : State(t)' = State(t)
    BY DEF Todo, State
  <2>2. OrderInv' /\ GuardInv'
    BY <1>1, <2>1, GuardKept DEF ObserverInv
  <2>3. SeenInv'
    <3>1. \A t \in Task : /\ WriteInv(t)' <=> WriteInv(t)
      BY <2>1 DEF WriteInv, Working, Notifying, FirstPlans
    <3>2. \A w \in DOMAIN ObserverOf : (KeepInv(w)' <=> KeepInv(w)) /\ (ResultsInv(w)' <=> ResultsInv(w))
      BY <2>1, NotifiersAreTyped DEF KeepInv, ResultsInv, Awaited, Affected, InProgress
    <3> QED BY <3>1, <3>2 DEF ObserverInv, SeenInv
  <2> QED BY <1>1, <2>2, <2>3 DEF ObserverInv
<1> QED BY <1>2, <1>3

(* The queue stays in order, urgent readers stay guarded by reservations,  *)
(* and the tables an observer task is to read stay as they were left, but  *)
(* for an import into a database that was emptied.                         *)
THEOREM ObserverInvariant == NoReentry => (Spec => []ObserverInv)
<1> SUFFICES ASSUME NoReentry PROVE Spec => []ObserverInv
  OBVIOUS
<1>1. ObserverInv /\ [Next]_vars => ObserverInv'
  BY NextObserver
<1> QED BY <1>1, InitObserver, PTL DEF Spec

(* Observers see every change: what an observer task reads of the tables   *)
(* of the task that scheduled it is what that task left there, or what an  *)
(* import made of them that found the database empty because of it.        *)
THEOREM ObserverSeesChangeHolds == NoReentry => (Spec => []ObserverSeesChange)
<1> SUFFICES ASSUME NoReentry PROVE Spec => []ObserverSeesChange
  OBVIOUS
<1>1. ObserverInv => ObserverSeesChange
  <2> SUFFICES ASSUME ObserverInv, NEW w \in DOMAIN ObserverOf, NEW n \in Live(ObserverOf[w])
               PROVE  \A i \in DOMAIN execs[ObserverOf[w]][n].results :
                         \A d \in DOMAIN execs[ObserverOf[w]][n].results[i] \cap Scope[w] :
                            Sees(w, execs[ObserverOf[w]][n].results[i][d])
    BY DEF ObserverSeesChange, Sees
  <2>1. ObserverOf[w] \in Task /\ n \in DOMAIN execs[ObserverOf[w]]
    BY NotifiersAreTyped DEF Live
  <2>2. n = 1 /\ State(ObserverOf[w]) = execs[ObserverOf[w]][1].state
    BY <2>1, OneCall DEF ObserverInv, IInv, Control
  <2>3. State(ObserverOf[w]) \in Unfinished
    BY <2>2 DEF Live, Unfinished
  <2>4. ResultsInv(w)
    BY DEF ObserverInv, SeenInv
  <2> QED BY <2>2, <2>3, <2>4 DEF ResultsInv
<1> QED BY <1>1, ObserverInvariant, PTL

-----------------------------------------------------------------------------
(* What observers are told.                                                *)

\* The observer task o is on its way to the observers, or has failed.
Telling(o) == \/ outcome[o] = "rejected"
              \/ outcome[o] = "pending" /\ State(o) \in {"none", "running", "failed"}

\* The observers of a query whose tables were changed have its current
\* results, or an observer task for one of these tables is on its way.
Told(i) ==
    (\E d \in Observed[i].tables : committed[d] # Nil /\ Notifies(committed[d])) =>
        \/ delivered[Observed[i].query] = [d \in Observed[i].tables |-> committed[d]]
        \/ \E w \in DOMAIN ObserverOf : /\ Scope[w] \cap Observed[i].tables # {}
                                        /\ Telling(ObserverOf[w])

ToldInv == \A i \in DOMAIN Observed : Told(i)

(* A nonempty set of places in a sequence has a last one.                  *)
LEMMA LastPlace ==
    ASSUME NEW n \in Nat, NEW S \in SUBSET (1 .. n), S # {}
    PROVE  \E i \in S : \A j \in S : j <= i
<1> DEFINE R == {n - i : i \in S}
<1>1. R \in SUBSET Nat /\ R # {}
  <2>1. \A i \in S : n - i \in Nat
    OBVIOUS
  <2> QED BY <2>1
<1>2. IsWellFoundedOn(OpToRel(<, Nat), Nat)
  BY NatLessThanWellFounded
<1>3. PICK x \in R : \A y \in R : ~(<<y, x>> \in OpToRel(<, Nat))
  BY <1>1, <1>2, WFMin
<1>4. \A y \in R : ~(y < x)
  BY <1>1, <1>3 DEF OpToRel
<1>5. PICK i \in S : x = n - i
  BY <1>3
<1>6. \A j \in S : ~(n - j < n - i)
  BY <1>4, <1>5
<1> QED BY <1>6

(* The observed queries that the registry's tasks answer.                  *)
LEMMA ObservedPlans ==
    ASSUME NEW i \in DOMAIN Observed
    PROVE  /\ Observed[i].tables \in SUBSET Table /\ Observed[i].query \in ObservedQuery
           /\ \A t \in Task : ~IsObserved[t] => Scope[t] \cap Observed[i].tables = {}
           /\ \A w \in DOMAIN ObserverOf : Scope[w] \cap Observed[i].tables # {} =>
                 \E j \in DOMAIN PlansOf[ObserverOf[w]] :
                    PlansOf[ObserverOf[w]][j].query = Observed[i].query
<1>1. Observed[i].tables \in SUBSET Table /\ Observed[i].query \in ObservedQuery
  <2>1. Observed \in Seq(Plan)
    BY RunnerAssumption
  <2>2. Observed[i] \in Plan
    BY <2>1, ElementOfSeq
  <2> QED BY <2>2 DEF Plan, ObservedQuery
<1>2. ASSUME NEW t \in Task, Scope[t] \cap Observed[i].tables # {} PROVE IsObserved[t]
  <2>1. PICK j \in DOMAIN ItemsFor(Scope[t]) : ItemsFor(Scope[t])[j] = Observed[i]
    BY <1>2, SelectionAssumption
  <2>2. DOMAIN <<>> = {}
    OBVIOUS
  <2>3. ItemsFor(Scope[t]) # <<>>
    BY <2>1, <2>2
  <2> QED BY <2>3 DEF IsObserved
<1>3. ASSUME NEW w \in DOMAIN ObserverOf, Scope[w] \cap Observed[i].tables # {}
      PROVE  \E j \in DOMAIN PlansOf[ObserverOf[w]] :
                PlansOf[ObserverOf[w]][j].query = Observed[i].query
  <2> DEFINE o == ObserverOf[w]
  <2>1. /\ w \in Task /\ o \in Task /\ Kind[o] = "observer"
        /\ Kind[w] \notin {"observer", "import", "export"}
    BY NotifiersAreTyped
  <2>2. Notifier(o) = w
    BY NotifiersAreTyped DEF Notifier
  <2>3. PlansOf[w] = Plans[w]
    BY <2>1 DEF PlansOf
  <2>4. TablesOf(Plans[w]) = Scope[w]
    BY <2>1, <2>3 DEF Scope
  <2>5. PlansOf[o] = ItemsFor(TablesOf(Plans[Notifier(o)]))
    BY <2>1 DEF PlansOf
  <2>6. PlansOf[o] = ItemsFor(Scope[w])
    BY <2>2, <2>4, <2>5
  <2>7. PICK j \in DOMAIN ItemsFor(Scope[w]) : ItemsFor(Scope[w])[j] = Observed[i]
    BY <1>3, <2>1, SelectionAssumption
  <2> QED BY <2>6, <2>7
<1> QED BY <1>1, <1>2, <1>3

(* Steps that commit no table of the query and end no observer task.       *)
LEMMA ToldKept ==
    ASSUME NEW i \in DOMAIN Observed, Told(i),
           \A d \in Observed[i].tables : committed'[d] = committed[d],
           delivered'[Observed[i].query] = delivered[Observed[i].query],
           \A w \in DOMAIN ObserverOf : 
              Scope[w] \cap Observed[i].tables # {} /\ Telling(ObserverOf[w]) =>
                 Telling(ObserverOf[w])'
    PROVE  Told(i)'
<1>1. [d \in Observed[i].tables |-> committed'[d]] = [d \in Observed[i].tables |-> committed[d]]
  OBVIOUS
<1> QED BY <1>1 DEF Told

(* Steps that commit nothing and end no observer task.                     *)
LEMMA ToldQuiet ==
    ASSUME ToldInv, UNCHANGED <<committed, delivered>>,
           \A w \in DOMAIN ObserverOf : Telling(ObserverOf[w]) => Telling(ObserverOf[w])'
    PROVE  ToldInv'
<1> SUFFICES ASSUME NEW i \in DOMAIN Observed PROVE Told(i)'
  BY DEF ToldInv
<1>1. Told(i)
  BY DEF ToldInv
<1> QED BY <1>1, ToldKept

(* The runner's own steps end no observer task that may still tell.        *)
LEMMA ToldByRunner ==
    ASSUME IInv, ToldInv,
           \/ Return
           \/ \E t \in Task : PassOver(t) \/ UserSchedules(t)
           \/ \E t \in Task : \E n \in DOMAIN execs[t] : Finish(t, n)
    PROVE  ToldInv'
<1> USE DEF IInv
<1>1. \A w \in DOMAIN ObserverOf : /\ w \in Task /\ ObserverOf[w] \in Task
                                   /\ Kind[ObserverOf[w]] = "observer"
  BY NotifiersAreTyped
<1>2. CASE Return
  <2>1. UNCHANGED <<outcome, committed, delivered>>
    BY <1>2 DEF Return
  <2>2. \A u \in Task : Kind[u] = "observer" => ~Notifying(u)
    BY NotifiersAreTyped DEF Control, NotifyInv
  <2>3. \A w \in DOMAIN ObserverOf : State(ObserverOf[w])' = State(ObserverOf[w])
    BY <1>1, <1>2, <2>2, ReturnKeeps
  <2>4. \A w \in DOMAIN ObserverOf : Telling(ObserverOf[w]) => Telling(ObserverOf[w])'
    BY <2>1, <2>3 DEF Telling
  <2> QED BY <2>1, <2>4, ToldQuiet
<1>3. ASSUME NEW t \in Task, PassOver(t) PROVE ToldInv'
  <2>1. UNCHANGED <<outcome, committed, delivered>>
    BY <1>3 DEF PassOver
  <2>2. \A w \in DOMAIN ObserverOf : State(ObserverOf[w])' = State(ObserverOf[w])
    BY <1>1, <1>3, PassOverKeeps
  <2>3. \A w \in DOMAIN ObserverOf : Telling(ObserverOf[w]) => Telling(ObserverOf[w])'
    BY <2>1, <2>2 DEF Telling
  <2> QED BY <2>1, <2>3, ToldQuiet
<1>4. ASSUME NEW t \in Task, UserSchedules(t) PROVE ToldInv'
  <2>1. UNCHANGED <<committed, delivered>>
    BY <1>4 DEF UserSchedules
  <2>2. /\ Kind[t] # "observer" /\ outcome' = [outcome EXCEPT ![t] = "pending"]
        /\ \A u \in Task : State(u)' = State(u)
    BY <1>4, UserSchedulesKeeps DEF UserTask
  <2>3. \A w \in DOMAIN ObserverOf : outcome'[ObserverOf[w]] = outcome[ObserverOf[w]]
    BY <1>1, <2>2 DEF Control, TypeInv
  <2>4. \A w \in DOMAIN ObserverOf : Telling(ObserverOf[w]) => Telling(ObserverOf[w])'
    BY <1>1, <2>2, <2>3 DEF Telling
  <2> QED BY <2>1, <2>4, ToldQuiet
<1>5. ASSUME NEW t \in Task, NEW n \in DOMAIN execs[t], Finish(t, n) PROVE ToldInv'
  <2>1. UNCHANGED <<committed, delivered>>
    BY <1>5 DEF Finish
  <2>2. /\ State(t) \in {"ok", "failed"} /\ outcome[t] = "pending"
        /\ outcome'[t] = IF State(t) = "ok" THEN "resolved" ELSE "rejected"
        /\ \A u \in Task \ {t} : State(u)' = State(u) /\ outcome'[u] = outcome[u]
    BY <1>5, FinishKeeps
  <2>3. Telling(t) => Telling(t)'
    BY <2>2 DEF Telling
  <2>4. \A u \in Task \ {t} : Telling(u) => Telling(u)'
    BY <2>2 DEF Telling
  <2>5. \A w \in DOMAIN ObserverOf : Telling(ObserverOf[w]) => Telling(ObserverOf[w])'
    BY <1>1, <2>3, <2>4
  <2> QED BY <2>1, <2>5, ToldQuiet
<1> QED BY <1>2, <1>3, <1>4, <1>5

(* An observer task is executed: it is still on its way.  An external      *)
(* change commits to tables that no observed query refers to.              *)
LEMMA ToldByStarting ==
    ASSUME IInv, ToldInv, NoReentry, NEW t \in Task, Starting(t)
    PROVE  ToldInv'
<1>1. /\ Visiting(t) /\ Acquires(t) /\ Scope[t] \in SUBSET Table
      /\ \A w \in DOMAIN ObserverOf : /\ w \in Task /\ ObserverOf[w] \in Task
                                      /\ Kind[ObserverOf[w]] = "observer"
  BY PlansAreTyped, NotifiersAreTyped DEF Starting
<1>2. CASE ExecThrows(t)
  <2>1. /\ Kind[t] = "import" /\ \A u \in Task \ {t} : State(u)' = State(u)
        /\ UNCHANGED <<outcome, committed>>
    BY <1>1, <1>2, ThrowsKeeps DEF IInv
  <2>2. UNCHANGED delivered
    BY <1>2 DEF ExecThrows
  <2>3. \A w \in DOMAIN ObserverOf : State(ObserverOf[w])' = State(ObserverOf[w])
    BY <1>1, <2>1
  <2>4. \A w \in DOMAIN ObserverOf : Telling(ObserverOf[w]) => Telling(ObserverOf[w])'
    BY <2>1, <2>3 DEF Telling
  <2> QED BY <2>1, <2>2, <2>4, ToldQuiet
<1>3. CASE ~ExecThrows(t)
  <2>1. PICK call \in CallRecord : call.state \in {"running", "ok"} /\ Starts(t, call)
    BY <1>3, StartingCall
  <2>2. /\ State(t)' = call.state /\ UNCHANGED <<outcome, delivered>>
        /\ execs'[t][1] = call
        /\ \A u \in Task \ {t} : State(u)' = State(u)
    BY <1>1, <2>1, StartsKeeps DEF IInv, Starts
  <2>3. ASSUME Kind[t] = "observer" PROVE State(t)' = "running"
    <3>1. ExecQuery(t)
      BY <1>3, <2>3 DEF Starting, ExecUpdate, ExecExport, ExecImport, ExecExternal
    <3> DEFINE first == Call("running", <<Contents(PlansOf[t][1].tables)>>, <<>>)
    <3>2. Starts(t, first) /\ first.state = "running"
      BY <3>1 DEF ExecQuery, Call
    <3>3. execs' = Append1(t, first) /\ execs' = Append1(t, call)
      BY <2>1, <3>2 DEF Starts
    <3>4. State(t) = "none"
      BY <1>1, <2>1, StartsKeeps DEF IInv
    <3>5. execs[t] = <<>> /\ execs \in [Task -> Seq(CallRecord)]
      BY <3>4, OneCall DEF IInv, Control, TypeInv
    <3> HIDE DEF first
    <3>6. execs'[t] = <<first>>
      BY <3>3, <3>5 DEF Append1
    <3>7. <<first>>[1] = first /\ <<first>> # <<>>
      OBVIOUS
    <3> QED BY <3>2, <3>6, <3>7 DEF State
  <2>4. ASSUME NEW w \in DOMAIN ObserverOf, Telling(ObserverOf[w]) PROVE Telling(ObserverOf[w])'
    <3>1. CASE ObserverOf[w] = t
      <4>1. State(t)' = "running" /\ outcome'[t] = outcome[t]
        BY <1>1, <2>2, <2>3, <3>1
      <4> QED BY <2>4, <3>1, <4>1 DEF Telling
    <3>2. CASE ObserverOf[w] # t
      BY <1>1, <2>2, <2>4, <3>2 DEF Telling
    <3> QED BY <3>1, <3>2
  <2>5. CASE UNCHANGED committed
    BY <2>2, <2>4, <2>5, ToldQuiet
  <2>6. CASE ~UNCHANGED committed
    <3>1. ExecExternal(t) /\ ~IsObserved[t]
      BY <1>3, <2>6 DEF Starting, ExecQuery, ExecUpdate, ExecExport, ExecImport, ExecExternal, NoReentry
    <3>2. \A d \in Table \ Scope[t] : committed'[d] = committed[d]
      BY <3>1 DEF ExecExternal, Overwrite
    <3>3. ASSUME NEW i \in DOMAIN Observed PROVE Told(i)'
      <4>1. Scope[t] \cap Observed[i].tables = {} /\ Observed[i].tables \in SUBSET Table /\ Told(i)
        BY <3>1, ObservedPlans DEF ToldInv
      <4>2. \A d \in Observed[i].tables : committed'[d] = committed[d]
        BY <3>2, <4>1
      <4>3. UNCHANGED delivered
        BY <2>2
      <4> QED BY <2>4, <4>1, <4>2, <4>3, ToldKept
    <3> QED BY <3>3 DEF ToldInv
  <2> QED BY <2>5, <2>6
<1> QED BY <1>2, <1>3

(* What a reader hands over are the committed contents of the tables of    *)
(* each query it has computed.                                             *)
LEMMA DeliversCommitted ==
    ASSUME IInv, NEW t \in Task, ReadOnly(t), State(t) = "running", ReaderInv(t),
           NEW i \in DOMAIN Observed
    PROVE  LET q == Observed[i].query
               results == execs[t][1].results IN
           /\ (\E j \in DOMAIN results : PlansOf[t][j].query = q) =>
                 Deliver(t, results)[q] = [d \in Observed[i].tables |-> committed[d]]
           /\ ~(\E j \in DOMAIN results : PlansOf[t][j].query = q) =>
                 Deliver(t, results)[q] = delivered[q]
<1> DEFINE q == Observed[i].query
           results == execs[t][1].results
           computed == {j \in DOMAIN results : PlansOf[t][j].query = q}
<1>1. q \in ObservedQuery
  BY ObservedPlans
<1>2. Deliver(t, results)[q] =
        IF computed = {} THEN delivered[q]
        ELSE results[CHOOSE j \in computed : \A k \in computed : k <= j]
  BY <1>1 DEF Deliver
<1>3. /\ DOMAIN results = 1 .. Len(results) /\ Len(results) \in Nat
      /\ DOMAIN results \subseteq DOMAIN PlansOf[t]
  BY FirstPlansInScope
<1>4. ASSUME NEW j \in computed PROVE results[j] = [d \in Observed[i].tables |-> committed[d]]
  <2>1. j \in DOMAIN results /\ PlansOf[t][j].query = q
    OBVIOUS
  <2>2. PlansOf[t][j].tables = Observed[i].tables
    BY <1>3, <2>1, QueryAssumption
  <2>3. results[j] = [d \in PlansOf[t][j].tables |-> committed[d]]
    BY <2>1 DEF ReaderInv
  <2> QED BY <2>2, <2>3
<1>5. computed # {} => \E j \in computed : \A k \in computed : k <= j
  <2>1. computed \in SUBSET (1 .. Len(results))
    BY <1>3
  <2> HIDE DEF computed
  <2> QED BY <1>3, <2>1, LastPlace
<1>6. (\E j \in DOMAIN results : PlansOf[t][j].query = q) <=> computed # {}
  OBVIOUS
<1> HIDE DEF q, results, computed
<1>7. computed # {} => Deliver(t, results)[q] = [d \in Observed[i].tables |-> committed[d]]
  <2> SUFFICES ASSUME computed # {}
               PROVE  Deliver(t, results)[q] = [d \in Observed[i].tables |-> committed[d]]
    OBVIOUS
  <2> DEFINE last == CHOOSE j \in computed : \A k \in computed : k <= j
  <2>1. last \in computed
    BY <1>5
  <2>2. Deliver(t, results)[q] = results[last]
    BY <1>2
  <2> HIDE DEF last
  <2> QED BY <1>4, <2>1, <2>2
<1>8. computed = {} => Deliver(t, results)[q] = delivered[q]
  BY <1>2
<1> QED BY <1>6, <1>7, <1>8 DEF q, results

(* A reader ends: an observer task has told the observers of every query   *)
(* that refers to the tables it was scheduled for.                         *)
LEMMA ToldByReader ==
    ASSUME IInv, ToldInv, NEW t \in Task, State(t) = "running", ReaderInv(t), CommitQuery(t, 1)
    PROVE  ToldInv'
<1> DEFINE results == execs[t][1].results
<1>1. /\ ReadOnly(t) /\ UNCHANGED <<outcome, committed>>
      /\ delivered' = Deliver(t, results) /\ Len(results) = Len(PlansOf[t])
      /\ execs' = SetState(t, 1, "ok")
  BY DEF CommitQuery, ReadOnly, PlansDone
<1>2. \A u \in Task \ {t} : State(u)' = State(u)
  <2>1. TypeInv /\ "ok" \in CallState
    BY DEF IInv, Control, CallState
  <2> QED BY <1>1, <2>1, StateSet
<1>3. DOMAIN results = DOMAIN PlansOf[t]
  BY <1>1, FirstPlansInScope
<1> SUFFICES ASSUME NEW i \in DOMAIN Observed PROVE Told(i)'
  BY DEF ToldInv
<1>4. CASE \E j \in DOMAIN results : PlansOf[t][j].query = Observed[i].query
  <2>1. delivered'[Observed[i].query] = [d \in Observed[i].tables |-> committed[d]]
    BY <1>1, <1>4, DeliversCommitted
  <2> QED BY <1>1, <2>1 DEF Told
<1>5. CASE ~(\E j \in DOMAIN results : PlansOf[t][j].query = Observed[i].query)
  <2>1. delivered'[Observed[i].query] = delivered[Observed[i].query]
    BY <1>1, <1>5, DeliversCommitted
  <2>2. ASSUME NEW w \in DOMAIN ObserverOf, Scope[w] \cap Observed[i].tables # {},
               Telling(ObserverOf[w])
        PROVE  Telling(ObserverOf[w])'
    <3>1. ObserverOf[w] # t
      BY <1>3, <1>5, <2>2, ObservedPlans
    <3>2. State(ObserverOf[w])' = State(ObserverOf[w])
      BY <1>2, <3>1, NotifiersAreTyped
    <3> QED BY <1>1, <2>2, <3>2 DEF Telling
  <2>3. Told(i) /\ \A d \in Observed[i].tables : committed'[d] = committed[d]
    BY <1>1 DEF ToldInv
  <2> HIDE DEF results
  <2> QED BY <2>1, <2>2, <2>3, ToldKept
<1> QED BY <1>4, <1>5

(* A writer commits: what it changed is observed by nobody, or its         *)
(* observer task is on its way.  Of an import nobody is told.              *)
LEMMA ToldByWriter ==
    ASSUME IInv, SeenInv, ToldInv, NEW t \in Task, State(t) = "running", stack = <<>>,
           CommitUpdate(t, 1) \/ CommitImport(t, 1)
    PROVE  ToldInv'
<1>1. \A w \in DOMAIN ObserverOf : /\ w \in Task /\ ObserverOf[w] \in Task
                                   /\ Kind[ObserverOf[w]] = "observer"
  BY NotifiersAreTyped
<1>2. UNCHANGED delivered
  BY DEF CommitUpdate, CommitImport
<1> SUFFICES ASSUME NEW i \in DOMAIN Observed PROVE Told(i)'
  BY DEF ToldInv
<1>3. Observed[i].tables \in SUBSET Table /\ Told(i)
  BY ObservedPlans DEF ToldInv
<1>4. CASE CommitImport(t, 1)
  <2>1. \A d \in Observed[i].tables : committed'[d] = t
    BY <1>3, <1>4 DEF CommitImport, Overwrite
  <2>2. ~Notifies(t)
    BY <1>4 DEF CommitImport, Notifies
  <2> QED BY <2>1, <2>2 DEF Told
<1>5. CASE CommitUpdate(t, 1)
  <2>1. DOMAIN execs[t][1].undo \subseteq Scope[t]
    <3>1. WriteInv(t) /\ ~ReadOnly(t)
      BY <1>5 DEF SeenInv, CommitUpdate, ReadOnly
    <3> QED BY <3>1 DEF WriteInv, Undoable
  <2>2. \A d \in Table \ Scope[t] : committed'[d] = committed[d]
    BY <1>5, <2>1 DEF CommitUpdate, Overwrite
  <2>3. CASE IsObserved[t]
    <3>1. /\ (\A u \in Task : State(u)' = State(u)) /\ t \in DOMAIN ObserverOf
          /\ outcome[ObserverOf[t]] = "new"
          /\ outcome' = [outcome EXCEPT ![ObserverOf[t]] = "pending"]
      BY <1>5, <2>3, NotifyingKeeps
    <3>2. /\ outcome'[ObserverOf[t]] = "pending"
          /\ \A u \in Task \ {ObserverOf[t]} : outcome'[u] = outcome[u]
      BY <1>1, <3>1 DEF IInv, Control, TypeInv
    <3>3. State(ObserverOf[t]) = "none"
      BY <1>1, <3>1 DEF IInv, Control, CallInv
    <3>4. Telling(ObserverOf[t])'
      BY <1>1, <3>1, <3>2, <3>3 DEF Telling
    <3>5. ASSUME NEW w \in DOMAIN ObserverOf, Telling(ObserverOf[w]) PROVE Telling(ObserverOf[w])'
      <4>1. ObserverOf[w] # ObserverOf[t] =>
               State(ObserverOf[w])' = State(ObserverOf[w]) /\ outcome'[ObserverOf[w]] = outcome[ObserverOf[w]]
        BY <1>1, <3>1, <3>2
      <4> QED BY <3>4, <3>5, <4>1 DEF Telling
    <3>6. CASE Scope[t] \cap Observed[i].tables = {}
      <4>1. \A d \in Observed[i].tables : committed'[d] = committed[d]
        BY <1>3, <2>2, <3>6
      <4> QED BY <1>2, <1>3, <3>5, <4>1, ToldKept
    <3>7. CASE Scope[t] \cap Observed[i].tables # {}
      BY <3>1, <3>4, <3>7 DEF Told
    <3> QED BY <3>6, <3>7
  <2>4. CASE ~IsObserved[t]
    <3>1. execs' = SetState(t, 1, "ok") /\ UNCHANGED outcome /\ Kind[t] # "observer"
      BY <1>5, <2>4 DEF CommitUpdate
    <3>2. \A u \in Task \ {t} : State(u)' = State(u)
      <4>1. TypeInv /\ "ok" \in CallState
        BY DEF IInv, Control, CallState
      <4> QED BY <3>1, <4>1, StateSet
    <3>3. \A w \in DOMAIN ObserverOf : Telling(ObserverOf[w]) => Telling(ObserverOf[w])'
      BY <1>1, <3>1, <3>2 DEF Telling
    <3>4. \A d \in Observed[i].tables : committed'[d] = committed[d]
      BY <1>3, <2>2, <2>4, ObservedPlans
    <3> QED BY <1>2, <1>3, <3>3, <3>4, ToldKept
  <2> QED BY <2>3, <2>4
<1> QED BY <1>4, <1>5

(* Every step that no failed import precedes.                              *)
LEMMA NextTold ==
    ASSUME SInv, ObserverInv, NoReentry, ~ImportFailed, ToldInv, Next
    PROVE  ToldInv'
<1> USE DEF ObserverInv
<1>1. CASE Return
  BY <1>1, ToldByRunner
<1>2. ASSUME NEW t \in Task, PassOver(t) \/ UserSchedules(t) PROVE ToldInv'
  BY <1>2, ToldByRunner
<1>3. ASSUME NEW t \in Task, Starting(t) PROVE ToldInv'
  BY <1>3, ToldByStarting
<1>4. ASSUME NEW t \in Task, NEW n \in DOMAIN execs[t], Finish(t, n) PROVE ToldInv'
  BY <1>4, ToldByRunner
<1>5. ASSUME NEW t \in Task, NEW n \in DOMAIN execs[t], Progress(t, n) PROVE ToldInv'
  <2>1. n = 1 /\ stack = <<>> /\ State(t) = "running" /\ Progress(t, 1)
    BY <1>5, ProgressCall
  <2>2. CASE CommitQuery(t, 1)
    <3>1. ReaderInv(t)
      BY DEF SInv, DataInv
    <3> QED BY <2>1, <2>2, <3>1, ToldByReader
  <2>3. CASE CommitUpdate(t, 1) \/ CommitImport(t, 1)
    BY <2>1, <2>3, ToldByWriter
  <2>4. CASE ExecPlan(t, 1)
    <3>1. UNCHANGED <<outcome, committed, delivered>>
      BY <2>4 DEF ExecPlan
    <3>2. \A u \in Task : State(u)' = State(u)
      BY <2>1, <2>4, ExecPlanCall
    <3>3. \A w \in DOMAIN ObserverOf : Telling(ObserverOf[w]) => Telling(ObserverOf[w])'
      BY <3>1, <3>2, NotifiersAreTyped DEF Telling
    <3> QED BY <3>1, <3>3, ToldQuiet
  <2>5. CASE Fail(t, 1) \/ Rollback(t, 1)
    <3>1. /\ UNCHANGED <<outcome, committed, delivered>>
          /\ \/ execs' = SetState(t, 1, "failed")
             \/ Kind[t] = "transaction" /\ execs' = SetState(t, 1, "ok")
      BY <2>5 DEF Fail, Rollback
    <3>2. /\ \A u \in Task \ {t} : State(u)' = State(u)
          /\ Kind[t] = "observer" => State(t)' = "failed"
      <4>1. TypeInv /\ "ok" \in CallState /\ "failed" \in CallState
        BY DEF IInv, Control, CallState
      <4> QED BY <2>1, <3>1, <4>1, StateSet
    <3>3. ASSUME NEW w \in DOMAIN ObserverOf, Telling(ObserverOf[w]) PROVE Telling(ObserverOf[w])'
      <4>1. /\ ObserverOf[w] \in Task /\ Kind[ObserverOf[w]] = "observer"
        BY NotifiersAreTyped
      <4>2. \/ State(ObserverOf[w])' = State(ObserverOf[w])
            \/ State(ObserverOf[w])' = "failed"
        BY <3>2, <4>1
      <4> QED BY <3>1, <3>3, <4>2 DEF Telling
    <3> QED BY <3>1, <3>3, ToldQuiet
  <2> QED BY <2>1, <2>2, <2>3, <2>4, <2>5 DEF Progress
<1> QED BY <1>1, <1>2, <1>3, <1>4, <1>5 DEF Next, Consume

(* Whatever the step, observers are told unless an import has failed.      *)
LEMMA ToldUnlessImportFailed ==
    ASSUME SInv, ObserverInv, NoReentry, ImportFailed \/ ToldInv, [Next]_vars
    PROVE  (ImportFailed \/ ToldInv)'
<1>1. IInv /\ IInv'
  BY NextIInv DEF SInv
<1>2. (ImportFailed <=> ImportBroke) /\ (ImportFailed <=> ImportBroke)'
  <2>1. (TypeInv => (ImportFailed <=> ImportBroke))'
    BY ImportFailedStates, PTL
  <2> QED BY <1>1, <2>1, ImportFailedStates DEF IInv, Control
<1>3. CASE UNCHANGED vars
  <2>1. ImportFailed => ImportFailed'
    BY <1>3 DEF vars, ImportFailed
  <2>2. UNCHANGED <<committed, delivered>> /\ \A o : Telling(o) => Telling(o)'
    BY <1>3 DEF vars, Telling, State
  <2>3. ToldInv => ToldInv'
    BY <2>2, ToldQuiet
  <2> QED BY <2>1, <2>3
<1>4. CASE Next /\ ImportFailed
  BY <1>1, <1>2, <1>4, ImportFailedStays
<1>5. CASE Next /\ ~ImportFailed
  BY <1>5, NextTold
<1> QED BY <1>3, <1>4, <1>5

(* Observers have current results or an observer task is on its way,       *)
(* unless an import has failed.                                            *)
THEOREM ToldInvariant == NoReentry => (Spec => [](ImportFailed \/ ToldInv))
<1> SUFFICES ASSUME NoReentry PROVE Spec => [](ImportFailed \/ ToldInv)
  OBVIOUS
<1>1. Init => ImportFailed \/ ToldInv
  <2> SUFFICES ASSUME Init PROVE ToldInv
    OBVIOUS
  <2>1. \A i \in DOMAIN Observed : \A d \in Observed[i].tables : committed[d] = Nil
    BY ObservedPlans DEF Init
  <2> QED BY <2>1 DEF ToldInv, Told
<1>2. SInv /\ ObserverInv /\ (ImportFailed \/ ToldInv) /\ [Next]_vars => (ImportFailed \/ ToldInv)'
  BY ToldUnlessImportFailed
<1> QED BY <1>1, <1>2, SerialInvariant, ObserverInvariant, PTL DEF Spec

(* Observers end up with current results: once everything has settled,     *)
(* each observed query whose tables were changed was delivered what is     *)
(* committed, unless an observer task or an import has failed.             *)
THEOREM ObserversCurrentHolds == NoReentry => (Spec => []ObserversCurrent)
<1> SUFFICES ASSUME NoReentry PROVE Spec => []ObserversCurrent
  OBVIOUS
<1>1. ObserverInv /\ (ImportFailed \/ ToldInv) => ObserversCurrent
  <2> SUFFICES ASSUME ObserverInv, ToldInv, queue = <<>>, \A t \in Task : Live(t) = {},
                      \A t \in Task \ UserTask : outcome[t] # "rejected",
                      NEW i \in DOMAIN Observed,
                      \E d \in Observed[i].tables : committed[d] # Nil /\ Notifies(committed[d])
               PROVE  delivered[Observed[i].query] = [d \in Observed[i].tables |-> committed[d]]
    BY DEF ObserversCurrent
  <2>1. ASSUME NEW w \in DOMAIN ObserverOf, Telling(ObserverOf[w]) PROVE FALSE
    <3> DEFINE o == ObserverOf[w]
    <3>1. o \in Task /\ o \notin UserTask
      BY NotifiersAreTyped DEF UserTask
    <3>2. outcome[o] = "pending" /\ State(o) \in {"none", "running", "failed"}
      BY <2>1, <3>1 DEF Telling
    <3>3. State(o) # "none"
      <4>1. ToSet(queue) = {}
        BY DEF ToSet
      <4> QED BY <3>1, <3>2, <4>1 DEF ObserverInv, OrderInv
    <3>4. 1 \in DOMAIN execs[o] /\ execs[o][1].state = State(o)
      BY <3>1, <3>3, OneCall DEF ObserverInv, IInv, Control
    <3>5. 1 \in Live(o)
      BY <3>2, <3>3, <3>4 DEF Live
    <3> QED BY <3>1, <3>5
  <2> QED BY <2>1 DEF ToldInv, Told
<1> QED BY <1>1, ObserverInvariant, ToldInvariant, PTL
=============================================================================
