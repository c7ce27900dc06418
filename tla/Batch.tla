--------------------------------- MODULE Batch ---------------------------------
(***************************************************************************)
(* The batch compute service with its conservative backfilling scheduler,  *)
(* for standard jobs. A job that is accepted gets a reservation in the     *)
(* time line; after each message the service starts the jobs whose         *)
(* reservation has come, if the nodes are there. A started job has an      *)
(* executor, and an alarm that kills it when its time is over.             *)
(*                                                                         *)
(* The clock counts ticks, a fraction of the seconds that the scheduler    *)
(* truncates dates to. Only whole nodes are allocated, hence nodes are     *)
(* counted and not named.                                                  *)
(***************************************************************************)
EXTENDS NodeTimeLine, SequencesExt

CONSTANTS
    RequestedTime,  \* RequestedTime[j], in seconds, the padding delay included
    MayFail,        \* the jobs whose executor may fail
    Terminable,     \* the jobs whose submitter may terminate them
    Resolution,     \* ticks in a second
    Latency,        \* bound: ticks the message of an alarm may take
    LastSubmission, \* bound: the date of the last submission, in ticks
    MaxClock        \* bound: the last date, in ticks

ASSUME BatchAssumption ==
    /\ RequestedTime \in [Jobs -> Nat \ {0}]
    /\ Resolution \in Nat \ {0} /\ Latency \in Nat
    /\ LastSubmission \in Nat /\ MaxClock \in Nat /\ MaxClock < Horizon * Resolution

VARIABLES
    clock,
    mailbox,
    queue,          \* batch_queue
    running,        \* running_jobs
    freeNodes,      \* the nodes of available_nodes_to_cores with all their cores
    allocated,      \* the jobs with resources_allocated
    executor,       \* executor[j]: the executor of j
    listed,         \* the jobs with an executor in running_standard_job_executors
    alarm,          \* alarm[j]: the date its alarm is set to, or NoAlarm
    line,           \* the scheduler's time line
    start,          \* start[j]: conservative_bf_start_date
    end,            \* end[j]: conservative_bf_expected_end_date
    status,         \* status[j]: what the submitter of j knows
    ghosts,         \* the jobs that were terminated before they ran
    aborted         \* the runtime_error nobody catches that ended the simulation

planVars == <<line, start, end>>
jobVars == <<queue, running, freeNodes, allocated, executor, listed, alarm>>
vars == <<clock, mailbox, jobVars, planVars, status, ghosts, aborted>>

NoAlarm == MaxClock + 1
Now == clock \div Resolution

Message == [type : {"Submit", "Terminate", "Done", "Failed", "TimeOut"}, job : Jobs]

Status == {"new", "submitting", "rejected", "waiting", "terminating",
           "done", "failed", "terminated"}
Ended == {"rejected", "done", "failed", "terminated"}

\* The types of the state: free nodes and dates, which the code keeps in unsigned
\* variables, stay in their ranges.
TypeOK ==
    /\ clock \in 0 .. MaxClock
    /\ mailbox \in Seq(Message)
    /\ queue \in Seq(Jobs) /\ running \subseteq Jobs
    /\ freeNodes \in 0 .. NumNodes
    /\ allocated \subseteq Jobs /\ listed \subseteq Jobs
    /\ executor \in [Jobs -> {"none", "running", "through", "killed"}]
    /\ alarm \in [Jobs -> Nat]
    /\ line \in TimeLine
    /\ start \in [Jobs -> 0 .. Horizon] /\ end \in [Jobs -> Nat]
    /\ status \in [Jobs -> Status]
    /\ ghosts \subseteq Jobs
    /\ aborted \in {"no", "executor not listed", "job not running"}

Init ==
    /\ clock = 0
    /\ mailbox = <<>>
    /\ queue = <<>> /\ running = {}
    /\ freeNodes = NumNodes
    /\ allocated = {} /\ listed = {}
    /\ executor = [j \in Jobs |-> "none"]
    /\ alarm = [j \in Jobs |-> NoAlarm]
    /\ line = EmptyTimeLine
    /\ start = [j \in Jobs |-> 0] /\ end = [j \in Jobs |-> 0]
    /\ status = [j \in Jobs |-> "new"]
    /\ ghosts = {}
    /\ aborted = "no"

-------------------------------------------------------------------------------
(* The scheduler. A plan is a time line with the dates of the jobs; its
   operations are given the current date. *)

Plan == [line |-> line, start |-> start, end |-> end]

FromNow(plan) == [plan EXCEPT !.line = SetTimeOrigin(@, Now)]

\* A reservation for j, at its earliest start time.
Reserve(plan, j) ==
    LET est == EarliestStartTime(plan.line, Now, RequestedTime[j], Nodes[j])
        till == est + RequestedTime[j]
    IN  [line |-> AddReservation(plan.line, est, till, j),
         start |-> [plan.start EXCEPT ![j] = est],
         end |-> [plan.end EXCEPT ![j] = till]]

CompactIdle(plan, jobs) ==                                              \* mutant
    FoldLeft(Reserve, [plan EXCEPT !.line = EmptyTimeLine], jobs)

\* compactSchedule: the queued jobs, in order, each get a new reservation.
Compact(plan, jobs) ==
    LET move(p, j) ==
          Reserve([p EXCEPT !.line = RemoveReservation(@, p.start[j], p.end[j] + 100, j)], j)
    IN  FoldLeft(move, FromNow(plan), jobs)

WithoutRemoval(plan, j, jobs) ==                                        \* mutant
    IF Now < plan.end[j] THEN Compact(FromNow(plan), jobs) ELSE FromNow(plan)

\* processJobCompletion, also for a job that failed or was terminated: the rest of
\* its reservation is dropped, and the schedule compacted when there was one.
Without(plan, j, jobs) ==
    LET rest == [FromNow(plan) EXCEPT !.line = RemoveReservation(@, Now, plan.end[j] + 100, j)]
    IN  IF Now < plan.end[j] THEN Compact(rest, jobs) ELSE rest

\* The jobs of a sequence that are started until one lacks nodes (scheduleOnHosts).
StartedInOrder(jobs, nodes) ==
    LET try(a, j) == IF a.short \/ a.nodes < Nodes[j] THEN [a EXCEPT !.short = TRUE]
                     ELSE [a EXCEPT !.nodes = @ - Nodes[j], !.jobs = @ \cup {j}]
    IN  FoldLeft(try, [short |-> FALSE, nodes |-> nodes, jobs |-> {}], jobs)

RemoveFirstFromQueue(jobs, S) == SubSeq(jobs, 1 + Cardinality(S), Len(jobs))   \* mutant
RemoveFromQueue(jobs, S) ==
    FoldLeft(LAMBDA kept, j : IF j \in S THEN kept ELSE Append(kept, j), <<>>, jobs)

\* processQueuedJobs, from the plan and the jobs that the handling of a message has
\* left: if there are queued jobs, those reserved for now are started. The order in
\* which they are taken is that of pointers.
PlanForNow(plan, jobs) ==
    LET now == FromNow(plan) IN
    IF jobs.queue = <<>> THEN plan
    ELSE IF now.line[Now] = {} THEN Compact(now, jobs.queue) ELSE now
ProcessQueuedJobs(plan, jobs) ==
    \E next \in {PlanForNow(plan, jobs)} :
    \E order \in SetToSeqs(IF jobs.queue = <<>> THEN {} ELSE next.line[Now] \ allocated) :
    \E started \in {StartedInOrder(order, jobs.freeNodes)} :
        LET In(old, new) == [j \in Jobs |-> IF j \in started.jobs THEN new[j] ELSE old[j]] IN
        /\ line' = next.line /\ start' = next.start /\ end' = next.end
        /\ freeNodes' = started.nodes
        /\ queue' = RemoveFromQueue(jobs.queue, started.jobs)
        /\ running' = jobs.running \cup started.jobs
        /\ allocated' = allocated \cup started.jobs
        /\ listed' = jobs.listed \cup started.jobs
        /\ executor' = In(jobs.executor, [j \in Jobs |-> "running"])
        /\ alarm' = In(jobs.alarm, [j \in Jobs |-> clock + RequestedTime[j] * Resolution])

-------------------------------------------------------------------------------
(* The submitters, the executors, the alarms and the clock. *)

Send(m) == mailbox' = Append(mailbox, m)

Submit(j) ==
    /\ aborted = "no" /\ clock <= LastSubmission
    /\ status[j] = "new"
    /\ status' = [status EXCEPT ![j] = "submitting"]
    /\ Send([type |-> "Submit", job |-> j])
    /\ UNCHANGED <<clock, jobVars, planVars, ghosts, aborted>>

RequestTermination(j) ==
    /\ aborted = "no"
    /\ j \in Terminable /\ status[j] = "waiting"
    /\ status' = [status EXCEPT ![j] = "terminating"]
    /\ Send([type |-> "Terminate", job |-> j])
    /\ UNCHANGED <<clock, jobVars, planVars, ghosts, aborted>>

\* The executor of j is through; unless it is killed before, its message arrives.
ExecutorSends(j, type) ==
    /\ aborted = "no"
    /\ executor[j] = "running"
    /\ type = "Failed" => j \in MayFail
    /\ executor' = [executor EXCEPT ![j] = "through"]
    /\ Send([type |-> type, job |-> j])
    /\ UNCHANGED <<clock, queue, running, freeNodes, allocated, listed, alarm, planVars,
                   status, ghosts, aborted>>

AlarmRings(j) ==
    /\ aborted = "no"
    /\ alarm[j] <= clock
    /\ alarm' = [alarm EXCEPT ![j] = NoAlarm]
    /\ Send([type |-> "TimeOut", job |-> j])
    /\ UNCHANGED <<clock, queue, running, freeNodes, allocated, executor, listed, planVars,
                   status, ghosts, aborted>>

\* The service handles its messages in no time, and alarms ring in time.
Tick ==
    /\ aborted = "no" /\ clock < MaxClock
    /\ mailbox = <<>>
    /\ \A j \in Jobs : clock < alarm[j] + Latency
    /\ clock' = clock + 1
    /\ UNCHANGED <<mailbox, jobVars, planVars, status, ghosts, aborted>>

-------------------------------------------------------------------------------
(* The daemon: each message is handled, then the queued jobs are processed. *)

Received(type) == aborted = "no" /\ mailbox # <<>> /\ Head(mailbox).type = type

\* The submitter of j is told that it ended.
Notify(j, s) == status' = [status EXCEPT ![j] = IF @ \in Ended THEN @ ELSE s]

Current == [queue |-> queue, running |-> running, freeNodes |-> freeNodes,
            executor |-> executor, listed |-> listed, alarm |-> alarm]

Killed(e) == IF e = "running" THEN "killed" ELSE e

\* The jobs once j no longer runs and its nodes are given back.
Stopped(j) ==
    [Current EXCEPT !.running = @ \ {j}, !.freeNodes = @ + Nodes[j],
                    !.executor[j] = Killed(@)]

\* The same, with the executor forgotten and the alarm killed.
Over(j) == [Stopped(j) EXCEPT !.listed = @ \ {j}, !.alarm[j] = NoAlarm]

ProcessJobSubmission ==
    /\ Received("Submit")
    /\ mailbox' = Tail(mailbox)
    /\ LET j == Head(mailbox).job IN
       IF Nodes[j] > NumNodes
       THEN /\ status' = [status EXCEPT ![j] = "rejected"]
            /\ ProcessQueuedJobs(Plan, Current)
       ELSE /\ status' = [status EXCEPT ![j] = "waiting"]
            /\ ProcessQueuedJobs(Reserve(FromNow(Plan), j),
                                 [Current EXCEPT !.queue = Append(@, j)])
    /\ UNCHANGED <<clock, ghosts, aborted>>

Abort(error) ==
    /\ aborted' = error
    /\ UNCHANGED <<clock, mailbox, jobVars, planVars, status, ghosts>>

IgnoreMessage ==
    /\ mailbox' = Tail(mailbox)
    /\ ProcessQueuedJobs(Plan, Current)
    /\ UNCHANGED <<clock, status, ghosts, aborted>>

\* The message comes from an executor that the alarm has killed meanwhile.
ProcessStandardJobCompletion ==
    /\ Received("Done")
    /\ LET j == Head(mailbox).job IN
       IF j \notin listed THEN IgnoreMessage
       ELSE IF j \notin running THEN Abort("job not running")
       ELSE /\ mailbox' = Tail(mailbox)
            /\ Notify(j, "done")
            /\ ProcessQueuedJobs(Without(Plan, j, queue), Over(j))
            /\ UNCHANGED <<clock, ghosts, aborted>>

\* The scheduler is told twice.
ProcessStandardJobFailure ==
    /\ Received("Failed")
    /\ LET j == Head(mailbox).job IN
       IF j \notin listed THEN Abort("executor not listed")
       ELSE IF j \notin running THEN Abort("job not running")
       ELSE /\ mailbox' = Tail(mailbox)
            /\ Notify(j, "failed")
            /\ ProcessQueuedJobs(Without(Without(Plan, j, queue), j, queue), Over(j))
            /\ UNCHANGED <<clock, ghosts, aborted>>

ProcessTimeoutOfAnyJob ==                                               \* mutant
    /\ Received("TimeOut")
    /\ LET j == Head(mailbox).job IN
       /\ mailbox' = Tail(mailbox)
       /\ Notify(j, "failed")
       /\ ProcessQueuedJobs(Without(Plan, j, queue), Over(j))
       /\ UNCHANGED <<clock, ghosts, aborted>>

ProcessAlarmJobTimeout ==
    /\ Received("TimeOut")
    /\ LET j == Head(mailbox).job IN
       IF j \notin running THEN IgnoreMessage
       ELSE /\ mailbox' = Tail(mailbox)
            /\ Notify(j, "failed")
            /\ ProcessQueuedJobs(Without(Plan, j, queue), Over(j))
            /\ UNCHANGED <<clock, ghosts, aborted>>

\* The executor of a job that runs is killed, but stays listed, and its alarm set. A
\* job that is queued leaves the queue after the scheduler has compacted the plan.
ProcessStandardJobTerminationRequest ==
    /\ Received("Terminate")
    /\ LET j == Head(mailbox).job IN
       IF j \notin running \cup ToSet(queue) THEN IgnoreMessage
       ELSE /\ mailbox' = Tail(mailbox)
            /\ Notify(j, "terminated")
            /\ ProcessQueuedJobs(Without(Plan, j, queue),
                                 IF j \in running THEN Stopped(j)
                                 ELSE [Current EXCEPT !.queue = RemoveFromQueue(@, {j})])
            /\ ghosts' = IF j \in running THEN ghosts ELSE ghosts \cup {j}
            /\ UNCHANGED <<clock, aborted>>

ServiceStep ==
    \/ ProcessJobSubmission
    \/ ProcessStandardJobCompletion \/ ProcessStandardJobFailure
    \/ ProcessAlarmJobTimeout
    \/ ProcessStandardJobTerminationRequest

Next ==
    \/ \E j \in Jobs : \/ Submit(j) \/ RequestTermination(j)
                       \/ ExecutorSends(j, "Done") \/ ExecutorSends(j, "Failed")
                       \/ AlarmRings(j)
    \/ Tick
    \/ ServiceStep

Spec == Init /\ [][Next]_vars

(* Fairness: the daemon reads its messages, alarms ring and time passes. An executor
   need not end by itself. (The daemon can take a step exactly when it has a message:
   this is WF_vars(ServiceStep).) *)
HasMessage == aborted = "no" /\ mailbox # <<>>
FairSpec ==
    /\ Spec
    /\ <>[]HasMessage => []<><<ServiceStep>>_vars
    /\ WF_vars(Tick)
    /\ \A j \in Jobs : WF_vars(AlarmRings(j))

-------------------------------------------------------------------------------
Held(j) == j \in running \cup ToSet(queue)

\* The nodes that are not free are those of the running jobs, whichever of the
\* completion, the failure, the time-out and the termination of a job come first.
NodesAccounted ==
    /\ TypeOK
    /\ freeNodes + SumFunctionOnSet(Nodes, running) = NumNodes

\* A job is in the queue, once, or runs, not both, while its submitter waits for its end; one
\* that was terminated does not run, unless it was queued then: there may be a reservation
\* for it from its termination on.
NoLostJob == \A j \in Jobs :
    /\ status[j] \in {"waiting", "terminating"} => Held(j)
    /\ Cardinality({i \in DOMAIN queue : queue[i] = j}) + (IF j \in running THEN 1 ELSE 0) <= 1
    /\ status[j] = "terminated" /\ j \notin ghosts => j \notin running

\* A queued job has a reservation to come, of the length it asked for.
QueuedJobsArePlanned ==
    aborted = "no" /\ mailbox = <<>> => \A j \in ToSet(queue) :
        /\ end[j] = start[j] + RequestedTime[j]
        /\ \A t \in Dates : j \in line[t] <=> start[j] <= t /\ t < end[j]
        /\ Now <= start[j]

\* Conservative backfilling: each queued job has its reservation; the start it was promised
\* is never postponed, whatever is submitted, ends or is terminated after, and the job starts
\* by then. From the termination of a queued job on there may be a reservation for a job that
\* is no longer queued, and jobs may start late.
PromisesKept ==
    [][/\ ghosts' = {} => QueuedJobsArePlanned'
       /\ \A j \in ToSet(queue) : /\ start'[j] <= start[j]
                                  /\ ghosts = {} /\ j \in running' => Now <= start[j]]_vars

\* Every job that is accepted ends, by itself or by its alarm, unless a queued job has been
\* terminated.
EveryJobEnds == \A j \in Jobs :
    status[j] = "waiting" ~> (status[j] \in Ended \/ aborted # "no" \/ ghosts # {})
===============================================================================
