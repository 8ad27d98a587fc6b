--------------------------- MODULE ReadersWriters ---------------------------
(***************************************************************************)
(* What the lock manager promises its clients, without saying how: every   *)
(* table is held by any number of readers or by one writer, a scope is     *)
(* taken as a whole or not at all, and only the holder lets go of it.      *)
(* There are no reservations here: they are the means by which             *)
(* LockManager.tla keeps this promise while letting tasks queue.           *)
(***************************************************************************)
CONSTANTS Table, Task, Nil

VARIABLES readers,   \* per table, the holders of a SHARED lock
          writer     \* per table, the holder of the EXCLUSIVE lock, or Nil

vars == <<readers, writer>>

Init == /\ readers = [d \in Table |-> {}]
        /\ writer  = [d \in Table |-> Nil]

AcquireShared(id, items) ==
    /\ \A d \in items : writer[d] = Nil
    /\ readers' = [d \in Table |-> IF d \in items THEN readers[d] \cup {id}
                                                  ELSE readers[d]]
    /\ UNCHANGED writer

AcquireExclusive(id, items) ==
    /\ \A d \in items : writer[d] = Nil /\ readers[d] = {}
    /\ writer' = [d \in Table |-> IF d \in items THEN id ELSE writer[d]]
    /\ UNCHANGED readers

Release(id, items) ==
    /\ readers' = [d \in Table |-> IF d \in items THEN readers[d] \ {id}
                                                  ELSE readers[d]]
    /\ writer'  = [d \in Table |-> IF d \in items /\ writer[d] = id
                                   THEN Nil ELSE writer[d]]

Next == \E id \in Task, items \in SUBSET Table :
            \/ AcquireShared(id, items)
            \/ AcquireExclusive(id, items)
            \/ Release(id, items)

Spec == Init /\ [][Next]_vars
=============================================================================
