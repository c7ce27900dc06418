----------------------------- MODULE CoreTimeLine -----------------------------
(***************************************************************************)
(* The conservative backfilling scheduler that shares nodes between jobs:  *)
(* its time line knows which cores of which nodes each job is to have, but *)
(* a job that starts gets the first hosts that have the cores.             *)
(*                                                                         *)
(* A job asks for nodes, cores on each, and a time, and runs for some time *)
(* of that; dates are whole seconds.                                       *)
(***************************************************************************)
EXTENDS Integers, SequencesExt, FiniteSetsExt

CONSTANTS
    NumNodes, NumCores,     \* the nodes 1 .. NumNodes, the cores of each: positive
    Never                   \* bound: the last date (UINT32_MAX)

Indices == 1 .. NumNodes

\* The time line is a set of reservations, with the nodes in `on`.
Reservation(j, start, job, on) ==
    [job |-> j, start |-> start, end |-> start + job.time, cores |-> job.cores, on |-> on]
JobSet(line, t) == {r \in line : r.start <= t /\ t < r.end}

CoreUtilization(line, i, t) ==
    MapThenSumSet(LAMBDA r : r.cores, {r \in JobSet(line, t) : i \in r.on})
FreeNodes(line, cores, t) == {i \in Indices : CoreUtilization(line, i, t) + cores <= NumCores}

\* Nothing is looked up before the origin of the time line.
SetTimeOrigin(line, t) ==
    {[r EXCEPT !.start = IF @ < t THEN t ELSE @] : r \in {q \in line : q.end > t}}
RemoveFrom(line, j) == {r \in line : r.job # j}

\* The intervals over which the set of jobs is constant, from the origin on.
Slots(line, origin) ==
    LET dates == {t \in {origin, Never} \cup UNION {{r.start, r.end} : r \in line} :
                    t >= origin}
        bounds == SetToSortSeq(dates, <)
    IN  [i \in 1 .. Len(bounds) - 1 |-> [lower |-> bounds[i], upper |-> bounds[i + 1]]]

\* A slot with too few of the nodes that were free so far: the walk begins again with the
\* next slot, all nodes, and the time it has left.
AfterShortSlot(line, walk, slot, job) ==
    [walk EXCEPT !.start = Never, !.possible = Indices]

WalkOver(line, walk, slot, job) ==
    LET possible == walk.possible \cap FreeNodes(line, job.cores, slot.lower)
        start == IF walk.start = Never THEN slot.lower ELSE walk.start
        length == slot.upper - slot.lower
    IN  IF walk.found THEN walk
        ELSE IF Cardinality(possible) < job.nodes THEN AfterShortSlot(line, walk, slot, job)
        ELSE [found |-> length >= walk.remaining, start |-> start, possible |-> possible,
              remaining |-> walk.remaining - length]

\* findEarliestStartTime: a date, and the first of the nodes
FindEarliestStartTime(line, origin, job) ==
    LET walk == FoldLeft(LAMBDA w, slot : WalkOver(line, w, slot, job),
                         [found |-> FALSE, start |-> Never, possible |-> Indices,
                          remaining |-> job.time],
                         Slots(line, origin))
        first == SubSeq(SetToSortSeq(walk.possible, <), 1, job.nodes)
    IN  [start |-> walk.start, on |-> ToSet(first)]

\* The estimates are for all the cores of the nodes; the origin is that of the last message.
StartTimeEstimate(line, origin, job) ==
    LET est == FindEarliestStartTime(line, origin, [job EXCEPT !.cores = NumCores]).start IN
    IF est < Never THEN est ELSE -1

-------------------------------------------------------------------------------
(* The scheduler: its state is a record with the time line, the expected   *)
(* end of each job, the queue, the jobs running with their hosts and the   *)
(* dates at which they began, and the idle cores. jobs[j] is what job j    *)
(* asks for.                                                               *)

Idle(jobs) ==
    [line |-> {}, end |-> [j \in DOMAIN jobs |-> 0], queue |-> <<>>, running |-> <<>>,
     idle |-> [i \in Indices |-> NumCores], short |-> FALSE]

Planned(s, now, jobs, j) ==
    LET found == FindEarliestStartTime(s.line, now, jobs[j]) IN
    [s EXCEPT !.line = @ \cup {Reservation(j, found.start, jobs[j], found.on)},
              !.end[j] = found.start + jobs[j].time]

ProcessJobSubmission(s, now, jobs, j) ==
    LET queued == [s EXCEPT !.line = SetTimeOrigin(@, now), !.queue = Append(@, j)] IN
    Planned(queued, now, jobs, j)

\* Each queued job gives up its reservation and gets the earliest there is.
CompactSchedule(s, now, jobs) ==
    FoldLeft(LAMBDA t, j : Planned([t EXCEPT !.line = RemoveFrom(@, j)], now, jobs, j),
             [s EXCEPT !.line = SetTimeOrigin(@, now)], s.queue)

\* The first hosts that have the cores, not those of the reservation
ScheduleOnHosts(s, job) ==
    LET able == {i \in Indices : s.idle[i] >= job.cores}
        first == ToSet(SubSeq(SetToSortSeq(able, <), 1, job.nodes))
    IN  IF Cardinality(able) < job.nodes THEN {} ELSE first

\* The jobs of the first slot, in any order; the first that finds no hosts ends it.
StartJob(s, now, jobs, j) ==
    LET hosts == ScheduleOnHosts(s, jobs[j]) IN
    IF s.short \/ j \in DOMAIN s.running THEN s
    ELSE IF hosts = {} THEN [s EXCEPT !.short = TRUE]
    ELSE [s EXCEPT !.queue = SelectSeq(@, LAMBDA k : k # j),
                   !.running = (j :> [hosts |-> hosts, begin |-> now]) @@ @,
                   !.idle = [i \in Indices |-> @[i] - IF i \in hosts THEN jobs[j].cores ELSE 0]]

FirstSlot(s, now) == {r.job : r \in JobSet(s.line, now)}

ProcessQueuedJobs(s, now, jobs) ==
    LET moved == [s EXCEPT !.line = SetTimeOrigin(@, now)]
        next == IF FirstSlot(moved, now) = {} THEN CompactSchedule(moved, now, jobs)
                ELSE moved
    IN  IF s.queue = <<>> THEN s
        ELSE [FoldSet(LAMBDA j, t : StartJob(t, now, jobs, j), next, FirstSlot(next, now))
                EXCEPT !.short = FALSE]

\* A job that ends before its time leaves room: the schedule is compacted.
ProcessJobCompletion(s, now, jobs, j) ==
    LET hosts == s.running[j].hosts
        freed == [s EXCEPT
           !.line = RemoveFrom(SetTimeOrigin(@, now), j),
           !.running = [k \in DOMAIN @ \ {j} |-> @[k]],
           !.idle = [i \in Indices |-> @[i] + IF i \in hosts THEN jobs[j].cores ELSE 0]]
    IN  IF now < s.end[j] THEN CompactSchedule(freed, now, jobs) ELSE freed
===============================================================================
