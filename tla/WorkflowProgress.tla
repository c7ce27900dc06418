--------------------------- MODULE WorkflowProgress ---------------------------
(***************************************************************************)
(* What the execution of a workflow promises to a WMS: the tasks it sees   *)
(* completed only grow, and never without their parents. Several tasks may *)
(* become completed at once (those of one job).                            *)
(***************************************************************************)
CONSTANTS Tasks, Parents

VARIABLE completed

Init == completed = {}

Complete(S) ==
    /\ S \cap completed = {}
    /\ \A t \in S : Parents[t] \subseteq completed \cup S
    /\ completed' = completed \cup S

Next == \E S \in SUBSET Tasks : Complete(S)

Spec == Init /\ [][Next]_completed
===============================================================================
