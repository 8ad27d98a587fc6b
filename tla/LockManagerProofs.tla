-------------------------- MODULE LockManagerProofs --------------------------
(***************************************************************************)
(* Proofs about LockManager.tla for any set of tables and tasks.  The      *)
(* invariants are inductive entry by entry: EntryOK states what one        *)
(* table's entry satisfies, and the first lemmas show that each operation  *)
(* of LockTable.tla keeps it, whoever calls it.                            *)
(***************************************************************************)
EXTENDS LockManager, TLAPS

-----------------------------------------------------------------------------
(* What one entry satisfies: the exclusive lock and shared locks exclude   *)
(* each other, and so do the reservations of writers and readers.          *)
EntryOK(e) == /\ e \in Entry
              /\ e.exclusive # Nil => e.shared = {}
              /\ e.reservedRW # Nil => e.reservedRO = {}

-----------------------------------------------------------------------------
(* An empty entry is as it should be.                                      *)
LEMMA FreeEntryOK == EntryOK(FreeEntry)
BY DEF EntryOK, Entry, FreeEntry

(* Granting a lock that may be granted keeps an entry consistent.          *)
LEMMA LockEntryOK ==
    ASSUME NEW e, EntryOK(e), NEW id \in Task, NEW type \in LockType,
           CanLock(e, id, type)
    PROVE  EntryOK(Lock(e, id, type))
<1>1. CASE type = "EXCLUSIVE"
  BY <1>1, NilAssumption DEF EntryOK, Entry, CanLock, Lock
<1>2. CASE type = "SHARED"
  BY <1>2, NilAssumption DEF EntryOK, Entry, CanLock, Lock
<1>3. CASE type = "RESERVED_READ_ONLY"
  BY <1>3, NilAssumption DEF EntryOK, Entry, CanLock, Lock
<1>4. CASE type = "RESERVED_READ_WRITE"
  BY <1>4, NilAssumption DEF EntryOK, Entry, CanLock, Lock
<1> QED
  BY <1>1, <1>2, <1>3, <1>4 DEF LockType

(* Releasing a task's locks keeps an entry consistent.                     *)
LEMMA UnlockEntryOK ==
    ASSUME NEW e, EntryOK(e), NEW id \in Task
    PROVE  EntryOK(Unlock(e, id))
BY DEF EntryOK, Entry, Unlock

(* Taking a reservation away from its owner keeps an entry consistent.     *)
LEMMA ClearEntryOK ==
    ASSUME NEW e, EntryOK(e)
    PROVE  EntryOK([e EXCEPT !.reservedRW = Nil])
BY DEF EntryOK, Entry

-----------------------------------------------------------------------------
AllOK(lt) == lt \in [Table -> Entry] /\ \A d \in Table : EntryOK(lt[d])

(* The three operations on a whole lock table keep every entry consistent; *)
(* first requestLock.                                                      *)
LEMMA RequestOK ==
    ASSUME NEW lt, AllOK(lt), NEW id \in Task, NEW items \in SUBSET Table,
           NEW type \in LockType
    PROVE  AllOK(Request(lt, id, items, type))
<1>1. CASE ~CanAcquireLock(lt, id, items, type)
  BY <1>1 DEF Request
<1>2. CASE CanAcquireLock(lt, id, items, type)
  <2> DEFINE new == GrantLock(lt, id, items, type)
  <2>1. ASSUME NEW d \in Table PROVE EntryOK(new[d])
    <3>1. CASE d \in items
      <4>1. CanLock(lt[d], id, type) /\ EntryOK(lt[d])
        BY <1>2, <3>1 DEF CanAcquireLock, AllOK
      <4>2. EntryOK(Lock(lt[d], id, type))
        BY <4>1, LockEntryOK
      <4> QED BY <4>2, <3>1 DEF GrantLock
    <3>2. CASE d \notin items
      BY <3>2 DEF GrantLock, AllOK
    <3> QED BY <3>1, <3>2
  <2>2. \A d \in Table : new[d] \in Entry
    BY <2>1 DEF EntryOK
  <2>3. new \in [Table -> Entry]
    BY <2>2 DEF GrantLock
  <2>4. Request(lt, id, items, type) = new
    BY <1>2 DEF Request
  <2> QED BY <2>1, <2>3, <2>4 DEF AllOK
<1> QED BY <1>1, <1>2

(* Then releaseLock.                                                       *)
LEMMA ReleaseOK ==
    ASSUME NEW lt, AllOK(lt), NEW id \in Task, NEW items \in SUBSET Table
    PROVE  AllOK(Release(lt, id, items))
<1> DEFINE new == Release(lt, id, items)
<1>1. ASSUME NEW d \in Table PROVE EntryOK(new[d])
  <2>1. EntryOK(lt[d]) BY DEF AllOK
  <2>2. EntryOK(Unlock(lt[d], id)) BY <2>1, UnlockEntryOK
  <2> QED BY <2>1, <2>2 DEF Release
<1>2. \A d \in Table : new[d] \in Entry BY <1>1 DEF EntryOK
<1>3. new \in [Table -> Entry] BY <1>2 DEF Release
<1> QED BY <1>1, <1>3 DEF AllOK

(* And clearReservedLocks.                                                *)
LEMMA ClearReservedOK ==
    ASSUME NEW lt, AllOK(lt), NEW items \in SUBSET Table
    PROVE  AllOK(ClearReserved(lt, items))
<1> DEFINE new == ClearReserved(lt, items)
<1>1. ASSUME NEW d \in Table PROVE EntryOK(new[d])
  <2>1. EntryOK(lt[d]) BY DEF AllOK
  <2>2. EntryOK([lt[d] EXCEPT !.reservedRW = Nil]) BY <2>1, ClearEntryOK
  <2> QED BY <2>1, <2>2 DEF ClearReserved
<1>2. \A d \in Table : new[d] \in Entry BY <1>1 DEF EntryOK
<1>3. new \in [Table -> Entry] BY <1>2 DEF ClearReserved
<1> QED BY <1>1, <1>3 DEF AllOK

-----------------------------------------------------------------------------
LockInv == /\ TypeOK
           /\ \A d \in Table : EntryOK(lockTable[d])

-----------------------------------------------------------------------------
(* The lock table stays well formed, an exclusive lock and shared locks    *)
(* never meet on a table, and neither do reservations of readers and       *)
(* writers, for any client.                                                *)
THEOREM LockInvariant == Spec => []LockInv
<1>1. Init => LockInv
  <2> SUFFICES ASSUME Init PROVE LockInv
    OBVIOUS
  <2>1. lockTable = [d \in Table |-> FreeEntry] BY DEF Init
  <2>2. FreeEntry \in Entry BY FreeEntryOK DEF EntryOK
  <2> QED BY <2>1, <2>2, FreeEntryOK DEF LockInv, TypeOK
<1>2. LockInv /\ [Next]_lockTable => LockInv'
  <2> SUFFICES ASSUME LockInv, [Next]_lockTable PROVE LockInv'
    OBVIOUS
  <2>1. AllOK(lockTable) BY DEF LockInv, TypeOK, AllOK
  <2>2. AllOK(lockTable')
    <3>1. CASE UNCHANGED lockTable BY <2>1, <3>1
    <3>2. ASSUME NEW items \in SUBSET Table, NEW id \in Task,
                 NEW type \in LockType, RequestLock(id, items, type)
          PROVE  AllOK(lockTable')
      BY <2>1, <3>2, RequestOK DEF RequestLock
    <3>3. ASSUME NEW items \in SUBSET Table, NEW id \in Task,
                 ReleaseLock(id, items)
          PROVE  AllOK(lockTable')
      BY <2>1, <3>3, ReleaseOK DEF ReleaseLock
    <3>4. ASSUME NEW items \in SUBSET Table, ClearReservedLocks(items)
          PROVE  AllOK(lockTable')
      BY <2>1, <3>4, ClearReservedOK DEF ClearReservedLocks
    <3> QED BY <3>1, <3>2, <3>3, <3>4 DEF Next
  <2> QED BY <2>2 DEF LockInv, TypeOK, AllOK
<1> QED BY <1>1, <1>2, PTL DEF Spec

(* Nobody reads a table under another task's exclusive lock.               *)
THEOREM ExclusionHolds == Spec => []Exclusion
<1>1. LockInv => Exclusion BY DEF LockInv, EntryOK, Exclusion
<1> QED BY <1>1, LockInvariant, PTL

(* Whatever is requested, released and cleared, the lock table keeps one   *)
(* well-formed entry for each table.                                       *)
THEOREM TypeCorrect == Spec => []TypeOK
<1>1. LockInv => TypeOK BY DEF LockInv
<1> QED BY <1>1, LockInvariant, PTL

(* Readers and writers never both hold reservations on a table.            *)
THEOREM OneSideReservedHolds == Spec => []OneSideReserved
<1>1. LockInv => OneSideReserved BY DEF LockInv, EntryOK, OneSideReserved
<1> QED BY <1>1, LockInvariant, PTL

-----------------------------------------------------------------------------
(* While a task keeps its RESERVED_READ_WRITE lock on a table, nobody gets *)
(* ahead of it there, for any client.                                      *)
THEOREM ReservationBlocksHolds == Spec => ReservationBlocks
<1> DEFINE Kept(e, f) == (e.reservedRW # Nil /\ f.reservedRW = e.reservedRW) =>
                            /\ f.shared \subseteq e.shared
                            /\ f.reservedRO = {}
                            /\ f.exclusive \in {e.exclusive, Nil}
<1>1. ASSUME LockInv, [Next]_lockTable, NEW d \in Table
      PROVE  Kept(lockTable[d], lockTable'[d])
  <2>1. EntryOK(lockTable[d]) BY <1>1 DEF LockInv
  <2>2. CASE lockTable'[d] = lockTable[d]
    BY <2>1, <2>2 DEF EntryOK, Entry
  <2>3. ASSUME NEW id \in Task, NEW type \in LockType,
               CanLock(lockTable[d], id, type),
               lockTable'[d] = Lock(lockTable[d], id, type)
        PROVE  Kept(lockTable[d], lockTable'[d])
    <3>1. CASE type = "EXCLUSIVE"
      BY <2>1, <2>3, <3>1, NilAssumption DEF EntryOK, Entry, CanLock, Lock
    <3>2. CASE type = "SHARED"
      BY <2>1, <2>3, <3>2, NilAssumption DEF EntryOK, Entry, CanLock, Lock
    <3>3. CASE type = "RESERVED_READ_ONLY"
      BY <2>1, <2>3, <3>3, NilAssumption DEF EntryOK, Entry, CanLock, Lock
    <3>4. CASE type = "RESERVED_READ_WRITE"
      BY <2>1, <2>3, <3>4, NilAssumption DEF EntryOK, Entry, CanLock, Lock
    <3> QED BY <3>1, <3>2, <3>3, <3>4, <2>3 DEF LockType
  <2>4. ASSUME NEW id \in Task, lockTable'[d] = Unlock(lockTable[d], id)
        PROVE  Kept(lockTable[d], lockTable'[d])
    BY <2>1, <2>4 DEF EntryOK, Entry, Unlock
  <2>5. CASE lockTable'[d] = [lockTable[d] EXCEPT !.reservedRW = Nil]
    BY <2>1, <2>5 DEF EntryOK, Entry
  <2> HIDE DEF Kept
  <2>6. ASSUME NEW items \in SUBSET Table, NEW id \in Task,
               NEW type \in LockType, RequestLock(id, items, type)
        PROVE  Kept(lockTable[d], lockTable'[d])
    <3>1. CASE lockTable'[d] = lockTable[d] BY <2>2, <3>1
    <3>2. CASE lockTable'[d] # lockTable[d]
      <4>1. /\ CanAcquireLock(lockTable, id, items, type)
            /\ lockTable' = GrantLock(lockTable, id, items, type)
        BY <2>6, <3>2 DEF RequestLock, Request
      <4>2. d \in items /\ lockTable'[d] = Lock(lockTable[d], id, type)
        BY <4>1, <3>2 DEF GrantLock
      <4>3. CanLock(lockTable[d], id, type)
        BY <4>1, <4>2 DEF CanAcquireLock
      <4> QED BY <4>2, <4>3, <2>3
    <3> QED BY <3>1, <3>2
  <2>7. ASSUME NEW items \in SUBSET Table, NEW id \in Task,
               ReleaseLock(id, items)
        PROVE  Kept(lockTable[d], lockTable'[d])
    <3>1. \/ lockTable'[d] = Unlock(lockTable[d], id)
          \/ lockTable'[d] = lockTable[d]
      BY <2>7 DEF ReleaseLock, Release
    <3> QED BY <3>1, <2>2, <2>4
  <2>8. ASSUME NEW items \in SUBSET Table, ClearReservedLocks(items)
        PROVE  Kept(lockTable[d], lockTable'[d])
    <3>1. \/ lockTable'[d] = [lockTable[d] EXCEPT !.reservedRW = Nil]
          \/ lockTable'[d] = lockTable[d]
      BY <2>8 DEF ClearReservedLocks, ClearReserved
    <3> QED BY <3>1, <2>2, <2>5
  <2> QED BY <1>1, <2>2, <2>6, <2>7, <2>8 DEF Next
<1>2. LockInv /\ [Next]_lockTable =>
        [\A d \in Table : LET e == lockTable[d] IN
                           LET f == lockTable'[d] IN
                           (e.reservedRW # Nil /\ f.reservedRW = e.reservedRW) =>
                              /\ f.shared \subseteq e.shared
                              /\ f.reservedRO = {}
                              /\ f.exclusive \in {e.exclusive, Nil}]_lockTable
  BY <1>1
<1> QED BY <1>2, LockInvariant, PTL DEF Spec, ReservationBlocks

-----------------------------------------------------------------------------
(* The lock manager keeps the readers-writers promise of                   *)
(* ReadersWriters.tla: a granted SHARED request is a reader entering, a    *)
(* granted EXCLUSIVE request a writer entering, a release somebody         *)
(* leaving, and everything about reservations is a stutter.                *)
THEOREM PromiseKept == Spec => ImplementsPromise
<1> DEFINE R == [d \in Table |-> lockTable[d].shared]
           W == [d \in Table |-> lockTable[d].exclusive]
<1>1. Init => Promise!Init
  BY DEF Init, Promise!Init, FreeEntry
<1>2. LockInv /\ [Next]_lockTable => [Promise!Next]_(Promise!vars)
  <2> SUFFICES ASSUME LockInv, [Next]_lockTable
               PROVE  Promise!Next \/ UNCHANGED Promise!vars
    OBVIOUS
  <2>t. \A d \in Table : lockTable[d] \in Entry BY DEF LockInv, EntryOK
  <2>0. (R' = R /\ W' = W) => UNCHANGED Promise!vars
    BY DEF Promise!vars
  <2>1. CASE UNCHANGED lockTable BY <2>1 DEF Promise!vars
  <2>2. ASSUME NEW items \in SUBSET Table, NEW id \in Task,
               NEW type \in LockType, RequestLock(id, items, type)
        PROVE  Promise!Next \/ UNCHANGED Promise!vars
    <3>1. CASE ~CanAcquireLock(lockTable, id, items, type)
      BY <2>2, <3>1 DEF RequestLock, Request, Promise!vars
    <3> SUFFICES ASSUME CanAcquireLock(lockTable, id, items, type)
                 PROVE  Promise!Next \/ UNCHANGED Promise!vars
      BY <3>1
    <3>2. lockTable' = [d \in Table |-> IF d \in items
                          THEN Lock(lockTable[d], id, type) ELSE lockTable[d]]
      BY <2>2 DEF RequestLock, Request, GrantLock
    <3>3. \A d \in items : CanLock(lockTable[d], id, type)
      BY DEF CanAcquireLock
    <3>4. CASE type = "EXCLUSIVE"
      <4>1. \A d \in items : W[d] = Nil /\ R[d] = {}
        BY <3>3, <3>4 DEF CanLock
      <4>2. W' = [d \in Table |-> IF d \in items THEN id ELSE W[d]]
        BY <3>2, <3>4, <2>t DEF Lock, Entry
      <4>3. R' = R
        BY <3>2, <3>4, <2>t DEF Lock, Entry
      <4>4. Promise!AcquireExclusive(id, items)
        BY <4>1, <4>2, <4>3 DEF Promise!AcquireExclusive
      <4> QED BY <4>4 DEF Promise!Next
    <3>5. CASE type = "SHARED"
      <4>1. \A d \in items : W[d] = Nil
        BY <3>3, <3>5 DEF CanLock
      <4>2. R' = [d \in Table |-> IF d \in items THEN R[d] \cup {id} ELSE R[d]]
        BY <3>2, <3>5, <2>t DEF Lock, Entry
      <4>3. W' = W
        BY <3>2, <3>5, <2>t DEF Lock, Entry
      <4>4. Promise!AcquireShared(id, items)
        BY <4>1, <4>2, <4>3 DEF Promise!AcquireShared
      <4> QED BY <4>4 DEF Promise!Next
    <3>6. CASE type = "RESERVED_READ_ONLY"
      <4>1. R' = R /\ W' = W
        BY <3>2, <3>6, <2>t DEF Lock, Entry
      <4> QED BY <4>1, <2>0
    <3>7. CASE type = "RESERVED_READ_WRITE"
      <4>1. R' = R /\ W' = W
        BY <3>2, <3>7, <2>t DEF Lock, Entry
      <4> QED BY <4>1, <2>0
    <3> QED BY <3>4, <3>5, <3>6, <3>7 DEF LockType
  <2>3. ASSUME NEW items \in SUBSET Table, NEW id \in Task,
               ReleaseLock(id, items)
        PROVE  Promise!Next \/ UNCHANGED Promise!vars
    <3>1. R' = [d \in Table |-> IF d \in items THEN R[d] \ {id} ELSE R[d]]
      BY <2>3 DEF ReleaseLock, Release, Unlock
    <3>2. W' = [d \in Table |-> IF d \in items /\ W[d] = id
                                THEN Nil ELSE W[d]]
      BY <2>3 DEF ReleaseLock, Release, Unlock
    <3>3. Promise!Release(id, items)
      BY <3>1, <3>2 DEF Promise!Release
    <3> QED BY <3>3 DEF Promise!Next
  <2>4. ASSUME NEW items \in SUBSET Table, ClearReservedLocks(items)
        PROVE  Promise!Next \/ UNCHANGED Promise!vars
    <3>1. R' = R /\ W' = W
      BY <2>4, <2>t DEF ClearReservedLocks, ClearReserved, Entry
    <3> QED BY <3>1, <2>0
  <2> QED BY <2>1, <2>2, <2>3, <2>4 DEF Next
<1> QED BY <1>1, <1>2, LockInvariant, PTL DEF Spec, ImplementsPromise, Promise!Spec
=============================================================================
