------------------------------ MODULE MCPilotJobs ------------------------------
(* Two hosts of two cores. A pilot job takes one core of both, another, submitted by
   way of HTCondor, takes both cores of one, and a standard job waits for one. *)
EXTENDS PilotJobs

CONSTANTS p1, q1, s1, i1

MCPilotOf == [k \in {i1} |-> p1]
MCNumNodes == [j \in {p1, q1, s1} |-> IF j = p1 THEN 2 ELSE 1]
MCCoresPerNode == [j \in {p1, q1, s1} |-> IF j = q1 THEN 2 ELSE 1]
-------------------------------------------------------------------------------
(* The operators of BatchEstimates, for three hosts of two cores *)

Estimates == INSTANCE BatchEstimates

Asked(cores) == [nodes : 1 .. 3, cores : cores, time : 1 .. 2]
OneRunning(cores) ==
    {<<[hosts |-> h, cores |-> n, left |-> l]>> : h \in {{1}, {2, 3}, {1, 3}}, n \in cores,
                                                   l \in 1 .. 3}

Exact(begun, waiting, job) ==
    LET free == Estimates!FreeAfter(1 .. 3, 2, begun, waiting)
        date == Estimates!SimulatedStart(1 .. 3, 2, begun, waiting, job)
    IN  Estimates!FCFSEstimate(free, 2, 10, job) = IF date > 0 THEN 10 + date ELSE 0

\* A prediction is the date at which the job would start, when jobs take whole nodes or at
\* most two are queued; but 0, not the current date, for a job that would start at once.
ASSUME EstimatesAreExact ==
    /\ \A begun \in OneRunning({2}) \cup {<<>>} :
         \A waiting \in (Asked({2}) \X Asked({2})) \cup (Asked({2}) \X Asked({2}) \X Asked({2})) :
           \A job \in Asked({2}) : Exact(begun, waiting, job)
    /\ \A begun \in OneRunning(1 .. 2) \cup {<<>>} :
         \A waiting \in {<<>>} \cup (Asked(1 .. 2) \X {[nodes |-> 2, cores |-> 1, time |-> 2]}) :
           \A job \in Asked(1 .. 2) : Exact(begun, waiting, job)

\* With three queued jobs that share nodes it may be too early: the scheduler takes the first
\* hosts that have the cores, the prediction those that have had them longest.
ASSUME SharedNodesMislead ==
    LET begun == <<[hosts |-> {1}, cores |-> 1, left |-> 3]>>
        job == [nodes |-> 2, cores |-> 1, time |-> 2]
        waiting == <<[nodes |-> 3, cores |-> 1, time |-> 1],
                     [nodes |-> 1, cores |-> 1, time |-> 2], job>>
    IN  /\ Estimates!FCFSEstimate(Estimates!FreeAfter(1 .. 3, 2, begun, waiting), 2, 10, job) = 11
        /\ Estimates!SimulatedStart(1 .. 3, 2, begun, waiting, job) = 2

\* A job is refused, or has nodes, cores and time, whatever small numbers it asks with.
ASSUME AcceptedJobsAreSound ==
    LET Given == {Estimates!Missing, Estimates!NoNumber} \cup {Estimates!Number(n) : n \in -2 .. 2} IN
    \A args \in [Estimates!Argument -> Given] :
      LET asked == Estimates!RequestedBy(args, 256) IN
      \/ Estimates!RefusedArguments(args, 256)
      \/ ~Estimates!BadBatchJob(1, asked.nodes, asked.cores) /\ asked.time > 0

\* The queue shows each job once; those that run come first.
ASSUME QueueIsComplete ==
    LET Known == {[name |-> n, begin |-> n % 3] : n \in 1 .. 5} IN
    \A now \in SUBSET Known :
      LET shown == Estimates!GetQueue(now, {}, SetToSeq(Known \ now)) IN
      /\ Len(shown) = 5 /\ {shown[i].job : i \in 1 .. 5} = 1 .. 5
      /\ \A i, k \in 1 .. 5 : i < k => shown[i].begin >= shown[k].begin
===============================================================================
