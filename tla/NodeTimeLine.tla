----------------------------- MODULE NodeTimeLine -----------------------------
(***************************************************************************)
(* The node availability time line of the conservative backfilling         *)
(* scheduler: for each date, the set of jobs that have a reservation. The  *)
(* code keeps the intervals over which that set is constant; a walk over   *)
(* the intervals and one over their dates do the same.                     *)
(***************************************************************************)
EXTENDS Integers, FiniteSetsExt

CONSTANTS
    Jobs,
    NumNodes,       \* nodes of the cluster (max_num_nodes)
    Nodes,          \* Nodes[j]: the nodes job j asks for
    Horizon,        \* bound: the last date (UINT32_MAX)
    WordSize        \* number of values of an unsigned long

ASSUME TimeLineAssumption ==
    /\ IsFiniteSet(Jobs)
    /\ NumNodes \in Nat \ {0} /\ Nodes \in [Jobs -> Nat \ {0}]
    /\ Horizon \in Nat /\ WordSize \in Nat /\ WordSize > NumNodes

Dates == 0 .. Horizon - 1

TimeLine == [Dates -> SUBSET Jobs]

EmptyTimeLine == [t \in Dates |-> {}]

\* The time line from date t on; nothing is looked up before its origin.
SetTimeOrigin(line, t) == [d \in Dates |-> IF d < t THEN {} ELSE line[d]]

AddReservation(line, start, end, j) ==
    [d \in Dates |-> IF start <= d /\ d < end THEN line[d] \cup {j} ELSE line[d]]
RemoveReservation(line, start, end, j) ==
    [d \in Dates |-> IF start <= d /\ d < end THEN line[d] \ {j} ELSE line[d]]

NodesUtilized(line, t) == MapThenSumSet(LAMBDA j : Nodes[j], line[t])

\* An unsigned difference.
AvailableNodes(line, t) == (NumNodes - NodesUtilized(line, t)) % WordSize

\* The walk of findEarliestStartTime for a job of the given duration. It counts
\* the dates with enough nodes until it has met as many as the duration; the job
\* starts with the last run of such dates. (The count is not reset by a date that
\* has too few nodes.)
EarliestStartTime(line, origin, duration, nodes) ==
    LET enough == {t \in origin .. Horizon - 1 : AvailableNodes(line, t) >= nodes}
        counted == {t \in enough : Cardinality({u \in enough : u <= t}) >= duration}
        last == Min(counted)
    IN  IF counted = {} THEN Horizon ELSE Min({t \in enough : t .. last \subseteq enough})

\* getStartTimeEstimates: a start date, or none; the origin is that of the last message.
StartTimeEstimate(line, origin, duration, nodes) ==
    LET est == EarliestStartTime(line, origin, duration, nodes) IN
    IF est < Horizon THEN est ELSE -1

\* What a reservation is for: the job has its nodes until its end.
Fits(line, start, duration, nodes) ==
    \A t \in start .. start + duration - 1 : AvailableNodes(line, t) >= nodes
===============================================================================
