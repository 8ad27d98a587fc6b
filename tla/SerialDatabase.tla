--------------------------- MODULE SerialDatabase ---------------------------
(***************************************************************************)
(* What the runner promises the users of a database, without locks, queue  *)
(* or caches: every task takes effect as a whole, at one moment between    *)
(* its call and its return, a task that is rejected has no effect, and a   *)
(* reader is answered with what the tables contain at one such moment.     *)
(* The contents of a table are named by the task that last changed it.     *)
(***************************************************************************)
CONSTANTS Task, Table, Nil,
    Reads,      \* for each reader, the sets of tables its plans read
    Writes,     \* for each writer, the tables it changes
    Watcher,    \* for some writers, the reader that its effect calls
    Cancelling  \* the writers that their user may cancel

VARIABLES
    phase,      \* how far each task is
    contents,   \* of each table
    answer      \* what each reader has read, plan by plan

vars == <<phase, contents, answer>>

Init == /\ phase    = [t \in Task |-> "new"]
        /\ contents = [d \in Table |-> Nil]
        /\ answer   = [t \in DOMAIN Reads |-> Nil]

Move(t, from, to) == phase[t] = from /\ phase' = [phase EXCEPT ![t] = to]

Call(t) ==
    /\ t \notin {Watcher[w] : w \in DOMAIN Watcher}
    /\ Move(t, "new", "called")
    /\ UNCHANGED <<contents, answer>>

Answer(t) ==
    /\ Move(t, "called", "effective")
    /\ answer' = [answer EXCEPT ![t] =
                    [i \in DOMAIN Reads[t] |-> [d \in Reads[t][i] |-> contents[d]]]]
    /\ UNCHANGED contents

\* The change of t and the call of its watcher are one step.
Change(t) ==
    /\ phase[t] = "called"
    /\ phase' = [u \in Task |->
                   IF u = t THEN "effective"
                   ELSE IF t \in DOMAIN Watcher /\ u = Watcher[t] THEN "called"
                   ELSE phase[u]]
    /\ contents' = [d \in Table |-> IF d \in Writes[t] THEN t ELSE contents[d]]
    /\ UNCHANGED answer

Cancel(t) == Move(t, "called", "effective") /\ UNCHANGED <<contents, answer>>

Return(t) == Move(t, "effective", "resolved") /\ UNCHANGED <<contents, answer>>

Reject(t) == Move(t, "called", "rejected") /\ UNCHANGED <<contents, answer>>

Next == \/ \E t \in DOMAIN Reads : Answer(t)
        \/ \E t \in DOMAIN Writes : Change(t)
        \/ \E t \in Cancelling : Cancel(t)
        \/ \E t \in Task : Call(t) \/ Return(t) \/ Reject(t)

Spec == Init /\ [][Next]_vars
=============================================================================
