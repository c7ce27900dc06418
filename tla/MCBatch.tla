-------------------------------- MODULE MCBatch --------------------------------
(* Two nodes. To see backfilling: a job on one node, one on two that has to wait for
   it, one on one node that may go first, and one the cluster is too small for. *)
EXTENDS Batch

CONSTANTS a, b, c, d

BackfillNodes == [j \in Jobs |-> CASE j = b -> 2 [] j = d -> 3 [] OTHER -> 1]
BackfillRequestedTime == [j \in Jobs |-> CASE j = a -> 2 [] OTHER -> 1]

-------------------------------------------------------------------------------
(* The operators of CoreTimeLine, for two nodes of two cores *)

Core == INSTANCE CoreTimeLine WITH NumNodes <- 2, NumCores <- 2, Never <- 100

Asked(times) == [nodes : 1 .. 2, cores : 1 .. 2, time : times]

\* Reservations of one or two jobs that began at 0
Begun ==
    LET Alone == {Core!Reservation(1, 0, job, on) : job \in Asked(1 .. 3),
                                                   on \in SUBSET (1 .. 2) \ {{}}}
    IN  {{r} : r \in Alone}
        \cup {{r, [q EXCEPT !.job = 2]} : r, q \in {p \in Alone : p.cores = 1}}

HasCores(held, on, from, job) ==
    \A t \in from .. from + job.time - 1 : on \subseteq Core!FreeNodes(held, job.cores, t)

\* While reservations only end, the walk finds the earliest date, and nodes that are free
\* from then on for the time of the job.
ASSUME WalkIsExact ==
    \A held \in Begun : \A job \in Asked(1 .. 2) :
      LET found == Core!FindEarliestStartTime(held, 0, job) IN
      /\ Cardinality(found.on) = job.nodes /\ HasCores(held, found.on, found.start, job)
      /\ \A t \in 0 .. found.start - 1 : \A on \in SUBSET (1 .. 2) :
           ~(Cardinality(on) = job.nodes /\ HasCores(held, on, t, job))

\* When they do not it may find too short a gap: here a job of 2 s has the nodes for 1.
Gap == {[job |-> 1, start |-> 1, end |-> 2, cores |-> 2, on |-> {1, 2}],
        [job |-> 2, start |-> 3, end |-> 4, cores |-> 2, on |-> {1, 2}]}
ASSUME GapIsTooShort ==
    LET job == [nodes |-> 1, cores |-> 1, time |-> 2]
        found == Core!FindEarliestStartTime(Gap, 0, job)
    IN  found.start = 2 /\ ~HasCores(Gap, found.on, 2, job)

\* Jobs submitted together, each run for its time or less: the dates at which they start
RECURSIVE Run(_, _, _)
Run(s, jobs, starts) ==
    LET Ends(j) == s.running[j].begin + jobs[j].runs
        now == Min({Ends(j) : j \in DOMAIN s.running})
        first == Min({j \in DOMAIN s.running : Ends(j) = now})
        next == Core!ProcessQueuedJobs(Core!ProcessJobCompletion(s, now, jobs, first),
                                       now, jobs)
        begun == {[job |-> j, date |-> next.running[j].begin] : j \in DOMAIN next.running}
    IN  IF DOMAIN s.running = {} THEN starts ELSE Run(next, jobs, starts \cup begun)
StartsOf(jobs) ==
    LET Queued(s, j) ==
          Core!ProcessQueuedJobs(Core!ProcessJobSubmission(s, 0, jobs, j), 0, jobs)
        s == FoldLeft(Queued, Core!Idle(jobs), [j \in DOMAIN jobs |-> j])
    IN  Run(s, jobs, {[job |-> j, date |-> 0] : j \in DOMAIN s.running})

\* Although the hosts they get are not those of their reservations, all jobs start, once.
ASSUME AllJobsStart ==
    LET Jobs3 == {[nodes |-> q.nodes, cores |-> q.cores, time |-> q.time, runs |-> r] :
                    q \in Asked(1 .. 2), r \in 1 .. 2}
        Fair == {q \in Jobs3 : q.runs <= q.time}
    IN  \A jobs \in Fair \X Fair \X Fair :
          LET starts == StartsOf(jobs) IN
          /\ \A j \in 1 .. 3 : \E p \in starts : p.job = j
          /\ Cardinality(starts) = 3
-------------------------------------------------------------------------------
(* The operators of WorkloadTrace, for files of two jobs *)

Trace == INSTANCE WorkloadTrace

Lines == [comment : {FALSE}, broken : Trace!Broken, sub : {-1, 0, 4}, run : {-1, 70},
          alloc : {1}, nodes : {-1, 2}, time : {-1, 60, 130}, ram : {-1}, user : {1}]
Items == [broken : {"none", "other"}, sub : {-1, 0, 4}, nodes : {-1, 0, 2}, time : {-1, 60, 130},
          id : {1}]

\* Whatever is in a file, the jobs that are read are valid; but the date of one of a JSON file
\* may be negative, if it comes before that of the first.
ValidJob(job) == /\ 0 <= job.time /\ job.time <= job.requested
                 /\ job.nodes > 0 /\ job.ram >= 0
ASSUME TracesAreValid ==
    /\ \A p, q \in Lines : \A desired \in {-1, 0, 3} :
         LET trace == Trace!LoadSWF(<<p, q>>, TRUE, desired).jobs IN
         \A i \in DOMAIN trace : ValidJob(trace[i]) /\ trace[i].sub >= 0
    /\ \A p, q \in Items : \A desired \in {-1, 0, 3} :
         LET trace == Trace!LoadJSON(<<p, q>>, TRUE, desired, 256).jobs IN
         \A i \in DOMAIN trace :
           /\ ValidJob(trace[i])
           /\ trace[i].sub >= 0 \/ (q.sub < p.sub /\ i = Len(trace))

\* The first job is submitted at the date asked for, unless a line before it is invalid, whose
\* date then takes its place.
ASSUME FirstJobIsOnTime ==
    \A p, q \in Lines : \A desired \in {0, 3} :
      LET trace == Trace!LoadSWF(<<p, q>>, TRUE, desired).jobs IN
      Len(trace) = 2 => trace[1].sub = desired
ASSUME InvalidJobCounts ==
    LET valid == [comment |-> FALSE, broken |-> "none", sub |-> 4, run |-> 70, alloc |-> 1,
                  nodes |-> 2, time |-> 130, ram |-> -1, user |-> 1]
        invalid == [valid EXCEPT !.sub = 1, !.run = -1, !.time = -1]
    IN  Trace!LoadSWF(<<invalid, valid>>, TRUE, 0).jobs[1].sub = 3

\* What is submitted for a trace: each job in turn, not before its date, with more time than
\* its tasks take.
ASSUME ReplayedJobsHaveTime ==
    \A p, q \in Lines : \A useActual \in BOOLEAN :
      LET trace == Trace!LoadSWF(<<p, q>>, TRUE, -1).jobs
          sent == Trace!Replay(trace, useActual, 1)
      IN  /\ Len(sent) = Len(trace)
          /\ \A i \in DOMAIN sent : /\ sent[i].minutes * 60 > sent[i].time
                                    /\ sent[i].date >= trace[i].sub
                                    /\ i > 1 => sent[i - 1].date < sent[i].date
===============================================================================
