------------------------ MODULE MCStandardJobExecutor ------------------------
(* A job of three tasks, 3 after 1 and 2, with or without the other workunits, on two
   hosts of 2 and 3 cores, or an allocation that is refused. *)
EXTENDS StandardJobExecutor

CONSTANTS pre, in, out, clean, post

MCParents == [t \in Tasks |-> IF t = 3 THEN {1, 2} ELSE {}]
MCJobShapes == {{}, {in, out, clean}, {pre, in, clean, post}}
MCHostCores == [h \in Hosts |-> h + 1]
MCHostRam == [h \in Hosts |-> 2]
MCRequests == {[h \in Hosts |-> AllCores], [h \in Hosts |-> 3]}
MCMinCores == [t \in Tasks |-> IF t = 2 THEN 2 ELSE 1]
MCMaxCores == [t \in Tasks |-> 2]
MCRam == [t \in Tasks |-> 1]
MCFlops == [t \in Tasks |-> 1]
MCTopLevel == [t \in Tasks |-> IF t = 3 THEN 1 ELSE 0]
MCScratchIn == [t \in Tasks |-> IF t = 1 THEN {} ELSE IF t = 2 THEN {"g"} ELSE {"f"}]
MCScratchOut == [t \in Tasks |-> IF t = 1 THEN {"f"} ELSE {}]
MCCopiedToScratch == {"g"}
===============================================================================
