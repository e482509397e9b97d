---------------------------- MODULE OffloadedJob ----------------------------
(***************************************************************************)
(* What src/main.cpp promises to its user: one job is handed to the GPU,   *)
(* its result is shown after the GPU has completed it and never anything   *)
(* else, and the program ends normally only when it has shown the result.  *)
(* It may abort at any point.  VulkanHost implements this specification.   *)
(***************************************************************************)
VARIABLES
    phase,      \* of the job: "idle", "inFlight" or "complete"
    shown,      \* what the user sees: "nothing" or "result"
    outcome     \* "running", "finished" or "aborted"

vars == <<phase, shown, outcome>>

Init == phase = "idle" /\ shown = "nothing" /\ outcome = "running"

Launch ==
    /\ outcome = "running" /\ phase = "idle"
    /\ phase' = "inFlight"
    /\ UNCHANGED <<shown, outcome>>

Complete ==
    /\ outcome = "running" /\ phase = "inFlight"
    /\ phase' = "complete"
    /\ UNCHANGED <<shown, outcome>>

Show ==
    /\ outcome = "running" /\ phase = "complete" /\ shown = "nothing"
    /\ shown' = "result"
    /\ UNCHANGED <<phase, outcome>>

Finish ==
    /\ outcome = "running" /\ shown = "result"
    /\ outcome' = "finished"
    /\ UNCHANGED <<phase, shown>>

Abort ==
    /\ outcome = "running"
    /\ outcome' = "aborted"
    /\ UNCHANGED <<phase, shown>>

Next == Launch \/ Complete \/ Show \/ Finish \/ Abort

Spec == Init /\ [][Next]_vars
=============================================================================
