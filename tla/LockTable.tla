----------------------------- MODULE LockTable -----------------------------
(***************************************************************************)
(* The lock table of src/lib/proc/lock_manager.js as pure operators: one   *)
(* entry per database table, four kinds of lock, and what it takes to      *)
(* grant, release or clear them.  LockManager.tla turns them into a state  *)
(* machine with an arbitrary client; Runner.tla uses them as the runner    *)
(* does.                                                                   *)
(*                                                                         *)
(* An entry is created on first use with nothing held, so the table is a   *)
(* total function here; a null set of holders is the empty set.            *)
(***************************************************************************)

CONSTANTS Table,   \* the tables of the schema (the data items)
          Task,    \* the tasks, which hold locks under their ids
          Nil      \* the code's null: no holder

ASSUME NilAssumption == Nil \notin Task

\* lf.proc.LockType
LockType == {"EXCLUSIVE", "RESERVED_READ_ONLY", "RESERVED_READ_WRITE", "SHARED"}

Entry == [exclusive  : Task \cup {Nil},
          reservedRW : Task \cup {Nil},
          reservedRO : SUBSET Task,
          shared     : SUBSET Task]

FreeEntry == [exclusive  |-> Nil,
              reservedRW |-> Nil,
              reservedRO |-> {},
              shared     |-> {}]

-----------------------------------------------------------------------------
(* One entry: LockTableEntry_.  The definitions whose names have an        *)
(* underscore are faulty variants of the one that follows them; each run   *)
(* uses some to show that its properties would notice such a fault.        *)

CanLock_IgnoresShared(e, id, type) ==
    \/ /\ type = "EXCLUSIVE"
       /\ e.reservedRO = {} /\ e.exclusive = Nil /\ e.reservedRW = id
    \/ /\ type = "SHARED"
       /\ e.exclusive = Nil /\ e.reservedRW = Nil /\ id \in e.reservedRO
    \/ type = "RESERVED_READ_ONLY" /\ e.reservedRW = Nil
    \/ /\ type = "RESERVED_READ_WRITE"
       /\ e.reservedRO = {} /\ e.reservedRW \in {Nil, id}

CanLock_ReservesBothSides(e, id, type) ==
    \/ /\ type = "EXCLUSIVE"
       /\ e.shared = {} /\ e.reservedRO = {}
       /\ e.exclusive = Nil /\ e.reservedRW = id
    \/ /\ type = "SHARED"
       /\ e.exclusive = Nil /\ e.reservedRW = Nil /\ id \in e.reservedRO
    \/ type = "RESERVED_READ_ONLY" /\ e.reservedRW = Nil
    \/ type = "RESERVED_READ_WRITE" /\ e.reservedRW \in {Nil, id}

CanLock_ReaderJumpsQueue(e, id, type) ==
    \/ /\ type = "EXCLUSIVE"
       /\ e.shared = {} /\ e.reservedRO = {}
       /\ e.exclusive = Nil /\ e.reservedRW = id
    \/ type = "SHARED" /\ e.exclusive = Nil /\ id \in e.reservedRO
    \/ type = "RESERVED_READ_ONLY"
    \/ /\ type = "RESERVED_READ_WRITE"
       /\ e.reservedRO = {} /\ e.reservedRW \in {Nil, id}

CanLock(e, id, type) ==
    \/ /\ type = "EXCLUSIVE"
       /\ e.shared = {} /\ e.reservedRO = {}
       /\ e.exclusive = Nil /\ e.reservedRW = id
    \/ /\ type = "SHARED"
       /\ e.exclusive = Nil /\ e.reservedRW = Nil
       /\ id \in e.reservedRO
    \/ /\ type = "RESERVED_READ_ONLY"
       /\ e.reservedRW = Nil
    \/ /\ type = "RESERVED_READ_WRITE"
       /\ e.reservedRO = {}
       /\ e.reservedRW \in {Nil, id}

Lock(e, id, type) ==
    CASE type = "EXCLUSIVE" ->
            [e EXCEPT !.reservedRW = Nil, !.exclusive = id]
      [] type = "SHARED" ->
            [e EXCEPT !.shared = @ \cup {id}, !.reservedRO = @ \ {id}]
      [] type = "RESERVED_READ_ONLY" ->
            [e EXCEPT !.reservedRO = @ \cup {id}]
      [] type = "RESERVED_READ_WRITE" ->
            [e EXCEPT !.reservedRW = id]

Unlock_Anyones(e, id) ==
    [exclusive  |-> Nil,
     reservedRW |-> Nil,
     reservedRO |-> e.reservedRO \ {id},
     shared     |-> e.shared \ {id}]

Unlock_KeepsShared(e, id) ==
    [exclusive  |-> IF e.exclusive = id THEN Nil ELSE e.exclusive,
     reservedRW |-> IF e.reservedRW = id THEN Nil ELSE e.reservedRW,
     reservedRO |-> e.reservedRO \ {id},
     shared     |-> e.shared]

Unlock(e, id) ==
    [exclusive  |-> IF e.exclusive = id THEN Nil ELSE e.exclusive,
     reservedRW |-> IF e.reservedRW = id THEN Nil ELSE e.reservedRW,
     reservedRO |-> e.reservedRO \ {id},
     shared     |-> e.shared \ {id}]

-----------------------------------------------------------------------------
(* A scope of several tables: a request is granted on all of them or on    *)
(* none.                                                                   *)

CanAcquireLock(lt, id, items, type) == \A d \in items : CanLock(lt[d], id, type)

GrantLock(lt, id, items, type) ==
    [d \in Table |-> IF d \in items THEN Lock(lt[d], id, type) ELSE lt[d]]

Request(lt, id, items, type) ==
    IF CanAcquireLock(lt, id, items, type)
    THEN GrantLock(lt, id, items, type) ELSE lt

Release(lt, id, items) ==
    [d \in Table |-> IF d \in items THEN Unlock(lt[d], id) ELSE lt[d]]

ClearReserved(lt, items) ==
    [d \in Table |-> IF d \in items THEN [lt[d] EXCEPT !.reservedRW = Nil]
                                    ELSE lt[d]]
=============================================================================
