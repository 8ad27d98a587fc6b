---------------------------- MODULE LockManager ----------------------------
(***************************************************************************)
(* lf.proc.LockManager (src/lib/proc/lock_manager.js) with the most        *)
(* general client: any task may, at any time, request any lock on any set  *)
(* of tables, release any set of tables, or clear the reserved locks of    *)
(* any set of tables.  Whatever protocol the runner follows, including the *)
(* repeated requests it makes for a task it is already running (see        *)
(* Runner.tla), is a special case of this client.                          *)
(***************************************************************************)
EXTENDS LockTable

VARIABLE lockTable

Init == lockTable = [d \in Table |-> FreeEntry]

RequestLock(id, items, type) == lockTable' = Request(lockTable, id, items, type)

ReleaseLock(id, items) == lockTable' = Release(lockTable, id, items)

ClearReservedLocks(items) == lockTable' = ClearReserved(lockTable, items)

Next ==
    \E items \in SUBSET Table :
        \/ \E id \in Task, type \in LockType : RequestLock(id, items, type)
        \/ \E id \in Task : ReleaseLock(id, items)
        \/ ClearReservedLocks(items)

Spec == Init /\ [][Next]_lockTable

-----------------------------------------------------------------------------

TypeOK == lockTable \in [Table -> Entry]

(* A table that one task may modify is read by nobody: the exclusive lock  *)
(* and shared locks never meet, although reserved locks of other tasks are *)
(* granted while the exclusive lock is held.                               *)
Exclusion == \A d \in Table : lockTable[d].exclusive # Nil
                                 => lockTable[d].shared = {}

(* The two sides of the queue never both wait on one table: as long as a   *)
(* writer has it reserved no reader does.  This is what keeps a reader and *)
(* a writer from each waiting for the other's reservation, even though     *)
(* clearReservedLocks takes reservations away from their owners.           *)
OneSideReserved == \A d \in Table : lockTable[d].reservedRW # Nil
                                       => lockTable[d].reservedRO = {}

(* While a task keeps its RESERVED_READ_WRITE lock on a table nobody else  *)
(* gets ahead of it there: the shared locks only drain, no read            *)
(* reservation appears, and the exclusive lock can only be given back      *)
(* ("It prevents further SHARED, RESERVED_READ_ONLY and                    *)
(* RESERVED_READ_WRITE locks to be granted", lock_manager.js:38).          *)
ReservationBlocks ==
    [][\A d \in Table :
         LET e == lockTable[d] IN
         LET f == lockTable'[d] IN
         (e.reservedRW # Nil /\ f.reservedRW = e.reservedRW) =>
             /\ f.shared \subseteq e.shared
             /\ f.reservedRO = {}
             /\ f.exclusive \in {e.exclusive, Nil}]_lockTable

(* The lock manager implements the readers-writers promise: its shared and *)
(* exclusive locks are the readers and the writer, and reserving or        *)
(* clearing a reservation is invisible.                                    *)
Promise == INSTANCE ReadersWriters
              WITH readers <- [d \in Table |-> lockTable[d].shared],
                   writer  <- [d \in Table |-> lockTable[d].exclusive]

ImplementsPromise == Promise!Spec
=============================================================================
