------------------------------ MODULE ForkJoin ------------------------------
(***************************************************************************)
(* What a caller of TaskDispatch relies on: the tasks it queues are each   *)
(* run once, and when Sync returns all of them have been.                  *)
(***************************************************************************)
CONSTANT Tasks

VARIABLES
    pending,    \* tasks queued and not yet run to their end
    syncing     \* the caller is in Sync

vars == <<pending, syncing>>

Init == pending = {} /\ syncing = FALSE

Queue(t) ==
    /\ ~syncing /\ t \notin pending
    /\ pending' = pending \cup {t}
    /\ UNCHANGED syncing

Run(t) ==
    /\ t \in pending
    /\ pending' = pending \ {t}
    /\ UNCHANGED syncing

StartSync == ~syncing /\ syncing' = TRUE /\ UNCHANGED pending
EndSync == syncing /\ pending = {} /\ syncing' = FALSE /\ UNCHANGED pending

Next == (\E t \in Tasks : Queue(t) \/ Run(t)) \/ StartSync \/ EndSync
Spec == Init /\ [][Next]_vars
=============================================================================
