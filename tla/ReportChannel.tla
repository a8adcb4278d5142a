---------------------------- MODULE ReportChannel ----------------------------
(****************************************************************************)
(* What is promised about an event given to the SDK: it reaches the other   *)
(* end at most once, and an event given up never does.  SdkClient keeps it  *)
(* towards the HTTP library, HermesMonitor towards the monitor's database.  *)
(****************************************************************************)
CONSTANT Events

VARIABLE fate       \* Events -> "new", "held", "delivered" or "lost"

Init == fate = [e \in Events |-> "new"]

Accept(e) ==
    /\ fate[e] = "new"
    /\ fate' = [fate EXCEPT ![e] = "held"]

\* Events that are held are delivered or given up, for good.
Settle(D, L) ==
    /\ D \cap L = {}
    /\ \A e \in D \cup L : fate[e] = "held"
    /\ fate' = [e \in Events |-> IF e \in D THEN "delivered"
                                ELSE IF e \in L THEN "lost" ELSE fate[e]]

Next ==
    \/ \E e \in Events : Accept(e)
    \/ \E D, L \in SUBSET Events : Settle(D, L)

Spec == Init /\ [][Next]_fate
==============================================================================
