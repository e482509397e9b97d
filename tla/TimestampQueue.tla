--------------------------- MODULE TimestampQueue ---------------------------
(***************************************************************************)
(* What VkCtx promises about GPU timestamps: each timestamp is reported    *)
(* once, in the order in which the queries were handed out, with the value *)
(* the GPU wrote for that query, and none is skipped or invented.  How     *)
(* many are reported at a time is left open.  VkQueryRing implements it.   *)
(***************************************************************************)
EXTENDS Naturals, Sequences

CONSTANT Pending        \* the stamp of a query the GPU has not reached

VARIABLES
    stamps,     \* of all queries handed out, in order
    reported    \* the stamps that were reported, in order

vars == <<stamps, reported>>

Init == stamps = <<>> /\ reported = <<>>

HandOut ==
    /\ stamps' = Append(stamps, Pending)
    /\ UNCHANGED reported

Write(i) ==
    /\ stamps[i] = Pending
    /\ stamps' = [stamps EXCEPT ![i] = stamps'[i]]
    /\ stamps'[i] # Pending
    /\ UNCHANGED reported

Report(n) ==
    LET upTo == Len(reported) + n
    IN  /\ \A i \in Len(reported) + 1 .. upTo : stamps[i] # Pending
        /\ reported' = SubSeq(stamps, 1, upTo)
        /\ UNCHANGED stamps

Next ==
    \/ HandOut
    \/ \E i \in DOMAIN stamps : Write(i)
    \/ \E n \in 1 .. Len(stamps) - Len(reported) : Report(n)

Spec == Init /\ [][Next]_vars
=============================================================================
