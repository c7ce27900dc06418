---------------------------- MODULE BatchEstimates ----------------------------
(***************************************************************************)
(* What a batch service answers without changing its state: the            *)
(* first-come first-served scheduler's predictions of start dates, the     *)
(* queue, the resources; and what it asks of its hosts, of the arguments   *)
(* of a job, and of the trace of a background load.                        *)
(*                                                                         *)
(* A queued job is a record with its nodes, cores per node and time; a     *)
(* running one with its hosts, its cores on each and the time it has left. *)
(* Hosts are numbers, in the order of their names.                         *)
(***************************************************************************)
EXTENDS Integers, SequencesExt, FiniteSetsExt

Greatest(a, b) == IF a < b THEN b ELSE a

(* FCFSBatchScheduler::getStartTimeEstimates *)

\* free[h]: from when on the cores of host h are free, the earliest first. Now is 0.
AllFree(hosts, cores) == [h \in hosts |-> [i \in 1 .. cores |-> 0]]

\* The n earliest cores of some hosts are free from a date that depends on the host.
Taken(free, hosts, n, date) ==
    [h \in DOMAIN free |->
       IF h \notin hosts THEN free[h]
       ELSE SortSeq([i \in DOMAIN free[h] |-> IF i <= n THEN date[h] ELSE free[h][i]], <)]

WithRunning(free, job) ==
    LET left == Greatest(0, job.left) IN
    Taken(free, job.hosts, job.cores, [h \in job.hosts |-> free[h][job.cores] + left])

\* The hosts, by the date from which they have so many cores.
ByDate(free, cores) ==
    SetToSortSeq(DOMAIN free, LAMBDA g, h : \/ free[g][cores] < free[h][cores]
                                            \/ free[g][cores] = free[h][cores] /\ g < h)

StartOf(free, job) == free[ByDate(free, job.cores)[job.nodes]][job.cores]

WithQueued(free, job) ==
    LET start == StartOf(free, job)
        chosen == ToSet(SubSeq(ByDate(free, job.cores), 1, job.nodes))
        taken == Taken(free, chosen, job.cores, [h \in chosen |-> start + job.time])
    IN  [h \in DOMAIN free |-> [i \in DOMAIN free[h] |-> Greatest(taken[h][i], start)]]

\* running is in the order of the set of pointers, any order.
FreeAfter(hosts, cores, running, queue) ==
    FoldLeft(WithQueued, FoldLeft(WithRunning, AllFree(hosts, cores), running), queue)

FCFSEstimate(free, cores, now, config) ==
    IF config.nodes > Cardinality(DOMAIN free) \/ config.cores > cores THEN -1
    ELSE LET start == StartOf(free, config) IN IF start > 0 THEN now + start ELSE start

(* The rest of the service *)

Unavailable == "FunctionalityNotAvailable"
Predictions == "predictions"

\* BatchComputeService::getStartTimeEstimates: what the scheduler throws, the caller learns
\* as a functionality that is not available.
EstimatesAvailable(algorithm, hostSelection) ==
    IF algorithm = "fcfs" /\ hostSelection # "FIRSTFIT" THEN Unavailable ELSE Predictions

NotStarted == -1

\* getQueue: the jobs running, waiting for Batsched, or queued; the last started first, and
\* those that have not started in the reverse order of their names, not that of the queue.
QueueEntry(j, begin) == [job |-> j.name, begin |-> begin]
GetQueue(running, waiting, queue) ==
    LET entries == {QueueEntry(j, j.begin) : j \in running}
                   \cup {QueueEntry(j, NotStarted) : j \in waiting \cup ToSet(queue)}
    IN  SetToSortSeq(entries, LAMBDA p, q : IF p.begin = q.begin THEN p.job > q.job
                                            ELSE p.begin > q.begin)

\* An argument of a submission is missing, no number, or a number, which is read as unsigned.
Missing == [kind |-> "missing", value |-> 0]
NoNumber == [kind |-> "text", value |-> 0]
Number(n) == [kind |-> "number", value |-> n]
Argument == {"-N", "-c", "-t"}
ParseUnsigned(arg, word) == arg.value % word

\* submitWorkflowJob: the arguments of a job are refused, or what is asked for.
RefusedArguments(args, word) ==
    \/ \E k \in Argument : args[k].kind # "number"
    \/ \E k \in Argument : ParseUnsigned(args[k], word) = 0
RequestedBy(args, word) ==
    [nodes |-> ParseUnsigned(args["-N"], word), cores |-> ParseUnsigned(args["-c"], word),
     time |-> (ParseUnsigned(args["-t"], word) * 60) % word]

\* BatchJob(): what it refuses.
BadBatchJob(id, nodes, cores) == id <= 0 \/ nodes = 0 \/ cores = 0

\* The memory of a job is that of its largest task.
MemoryRequirement(memories) == FoldSet(Greatest, 0, memories)

\* The ending date is set once: a second time is refused.
EndingIsSet(date) == date > 0

\* The constructor refuses no hosts, and hosts that differ.
RefusedHosts(hosts, speed, memory, cores) ==
    \/ hosts = <<>>
    \/ \E h \in ToSet(hosts) : \/ speed[h] # speed[hosts[1]] \/ memory[h] # memory[hosts[1]]
                               \/ cores[h] # cores[hosts[1]]

\* A job of the trace gets at most all the nodes and all the memory.
TraceJobFor(job, nodes, memory) ==
    [job EXCEPT !.nodes = IF @ > nodes THEN nodes ELSE @,
                !.ram = IF @ > memory THEN memory ELSE @]

\* processGetResourceInformation. (The memory of a host is reported as in use when it has
\* fewer idle cores than bytes of memory.)
ResourceInformation(numCores, idle, memory) ==
    [num_hosts |-> Cardinality(DOMAIN numCores), num_cores |-> numCores,
     num_idle_cores |-> idle, ram_capacities |-> memory,
     ram_availabilities |-> [h \in DOMAIN idle |-> IF idle[h] < memory[h] THEN 0
                                                   ELSE memory[h]]]

\* processExecuteJobFromBatSched: Batsched names the nodes as ranges.
NodesOf(alloc) == UNION {r[1] .. r[2] : r \in ToSet(alloc)}
ExecuteForBatsched(waiting, running, available, job, alloc, cores) ==
    IF job \notin waiting
    THEN [waiting |-> waiting, running |-> running, available |-> available]
    ELSE [waiting |-> waiting \ {job}, running |-> running \cup {job},
          available |-> [h \in DOMAIN available |->
                           IF h \in NodesOf(alloc) THEN available[h] - cores
                           ELSE available[h]]]

-------------------------------------------------------------------------------
(* What the predictions are for: the dates at which the scheduler would    *)
(* start the jobs, if each ran for the time it asks for                    *)

\* A placement is a record with the host, the cores, and the date it ends.
IdleCores(cores, placed, h, t) ==
    cores - MapThenSumSet(LAMBDA p : p.cores, {p \in placed : p.host = h /\ p.end > t})
FirstHosts(hosts, cores, placed, job, t) ==
    {h \in hosts : IdleCores(cores, placed, h, t) >= job.cores}

\* scheduleOnHosts with FIRSTFIT, at the first date at which it finds the hosts
Started(hosts, cores, state, name, job) ==
    LET dates == {t \in {state.date} \cup {p.end : p \in state.placed} :
                    /\ t >= state.date
                    /\ Cardinality(FirstHosts(hosts, cores, state.placed, job, t)) >= job.nodes}
        start == Min(dates)
        able == SetToSortSeq(FirstHosts(hosts, cores, state.placed, job, start), <)
    IN  [date |-> start,
         placed |-> state.placed \cup {[job |-> name, host |-> able[i], cores |-> job.cores,
                                        end |-> start + job.time] : i \in 1 .. job.nodes}]

\* The date at which a job starts that is submitted behind the queue
SimulatedStart(hosts, cores, running, queue, config) ==
    LET placed == UNION {{[job |-> -r, host |-> h, cores |-> running[r].cores,
                           end |-> running[r].left] : h \in running[r].hosts}
                         : r \in DOMAIN running}
        jobs == Append(queue, config)
        Step(state, i) == Started(hosts, cores, state, i, jobs[i])
    IN  FoldLeft(Step, [date |-> 0, placed |-> placed], [i \in DOMAIN jobs |-> i]).date
===============================================================================
