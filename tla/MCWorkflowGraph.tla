---------------------------- MODULE MCWorkflowGraph ----------------------------
(* Three tasks, two of them in a cluster, and a file. *)
EXTENDS WorkflowGraph

CONSTANT c

MCClusterOf == [t \in Identifiers |-> IF t = 3 THEN NoCluster ELSE c]
===============================================================================
