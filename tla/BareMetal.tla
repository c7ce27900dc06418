------------------------------- MODULE BareMetal -------------------------------
(***************************************************************************)
(* The bare-metal compute service: a daemon that reads its mailbox one     *)
(* message at a time and, after each, dispatches the ready workunits of    *)
(* its jobs to hosts. A workunit is run by an executor, an actor on the    *)
(* host it was dispatched to, which sends one message when it is through;  *)
(* when the host is turned off, a detector sends a message in its place.   *)
(*                                                                         *)
(* Cores are shared (a host may run more threads than it has cores), RAM   *)
(* is not. What tasks compute, scratch space and file locations are left   *)
(* out; the states of tasks are those of JobManager.tla.                   *)
(***************************************************************************)
EXTENDS Integers, SequencesExt, FiniteSetsExt

CONSTANTS
    Hosts,          \* the hosts, numbered in the order of their names
    NumCores,       \* NumCores[h]
    RamCapacity,    \* RamCapacity[h]
    FlopRate,       \* FlopRate[h], of one core
    Jobs,
    Workunits,
    JobOf,          \* JobOf[w]: the job of workunit w
    ParentsOf,      \* ParentsOf[w]: the workunits it waits for
    WithoutTask,    \* the workunits that only copy files or wait (task == nullptr)
    MinCores,       \* MinCores[w], MaxCores[w], Ram[w]: what the task asks for
    MaxCores,
    Ram,
    RequiredHost,   \* RequiredHost[w], or AnyHost
    AnyHost,
    RequiredCores,  \* RequiredCores[w], or 0
    FailingWorkunits,   \* the workunits whose executor may fail
    Resubmittable,  \* the jobs submitted again and again (new jobs of that shape)
    Terminable,     \* the jobs that may be terminated
    Unreliable,     \* the hosts that may be turned off
    TerminateWhenAllDown,   \* TERMINATE_WHENEVER_ALL_RESOURCES_ARE_DOWN
    MaxTroubles,    \* bound: how many times a job is terminated, a host turned
                    \* off or the service stopped
    WordSize        \* number of values of an unsigned long

ASSUME BoundAssumption == MaxTroubles \in Nat
ASSUME HostsAssumption ==
    /\ Hosts \subseteq Nat /\ IsFiniteSet(Hosts)
    /\ \A h \in Hosts : NumCores[h] \in Nat \ {0} /\ RamCapacity[h] \in Nat
                        /\ FlopRate[h] \in Nat \ {0}
ASSUME WorkunitsAssumption ==
    /\ IsFiniteSet(Workunits) /\ JobOf \in [Workunits -> Jobs]
    /\ ParentsOf \in [Workunits -> SUBSET Workunits]
    /\ \A w \in Workunits : \A p \in ParentsOf[w] : JobOf[p] = JobOf[w]
    /\ \A w \in Workunits : /\ MinCores[w] \in Nat /\ MaxCores[w] \in Nat
                            /\ Ram[w] \in Nat /\ RequiredCores[w] \in Nat
    /\ \A w \in WithoutTask \cap Workunits : /\ Ram[w] = 0 /\ RequiredHost[w] = AnyHost
                              /\ RequiredCores[w] = 1

VARIABLES
    isOn,           \* the hosts that are on
    troubles,       \* how many times one of those happened
    up,             \* the service is up
    mailbox,        \* its mailbox
    ramAvailabilities,
    runningThreadCounts,
    readyWorkunits, \* ready_workunits, a queue
    numPendingParents,
    executor,       \* executor[w]: the executor of w in workunit_executors
    allWorkunits,   \* the jobs of all_workunits
    completed,      \* completed_workunits, of all jobs
    runningJobs,
    client,         \* client[j]: what the submitter of j waits for
    notified,       \* notified[j]: notifications sent since j was submitted
    aborted         \* the exception nobody catches that ended the simulation

resourceVars == <<ramAvailabilities, runningThreadCounts>>
jobVars == <<numPendingParents, allWorkunits, completed, runningJobs>>
vars == <<isOn, troubles, up, mailbox, resourceVars, readyWorkunits, executor,
          jobVars, client, notified, aborted>>

NoExecutor == [state |-> "none"]
Executor == [state : {"running", "crashed", "through"}, host : Hosts, cores : Nat]

\* A message about a workunit comes from its executor, or about it: known tells
\* whether that executor still is in workunit_executors.
Message == [type : {"Submit", "Terminate"}, job : Jobs]
           \cup [type : {"Done", "Failed", "Crashed"}, workunit : Workunits, known : BOOLEAN]
           \cup [type : {"HostOn", "HostOff", "Stop"}]

\* The types of the state: the free RAM of a host and its count of threads are never
\* decremented below zero (the second is unsigned in the code and would wrap).
TypeOK ==
    /\ isOn \subseteq Hosts
    /\ troubles \in 0 .. MaxTroubles
    /\ up \in BOOLEAN
    /\ mailbox \in Seq(Message)
    /\ ramAvailabilities \in [Hosts -> Nat]
    /\ runningThreadCounts \in [Hosts -> 0 .. WordSize - 1]
    /\ readyWorkunits \in Seq(Workunits)
    /\ numPendingParents \in [Workunits -> Nat]
    /\ executor \in [Workunits -> Executor \cup {NoExecutor}]
    /\ allWorkunits \subseteq Jobs
    /\ completed \subseteq Workunits
    /\ runningJobs \subseteq Jobs
    /\ client \in [Jobs -> {"new", "submitting", "waiting", "terminating", "through"}]
    /\ notified \in [Jobs -> Nat]
    /\ aborted \in {"no", "executor not found", "null task"}

Init ==
    /\ isOn = Hosts /\ troubles = 0
    /\ up = TRUE
    /\ mailbox = <<>>
    /\ ramAvailabilities = [h \in Hosts |-> RamCapacity[h]]
    /\ runningThreadCounts = [h \in Hosts |-> 0]
    /\ readyWorkunits = <<>>
    /\ numPendingParents = [w \in Workunits |-> 0]
    /\ executor = [w \in Workunits |-> NoExecutor]
    /\ allWorkunits = {} /\ completed = {} /\ runningJobs = {}
    /\ client = [j \in Jobs |-> "new"]
    /\ notified = [j \in Jobs |-> 0]
    /\ aborted = "no"

WorkunitsOf(j) == {w \in Workunits : JobOf[w] = j}
ChildrenOf(w) == {c \in Workunits : w \in ParentsOf[c]}
Executing == {w \in Workunits : executor[w] # NoExecutor}
ExecutingOn(h) == {w \in Executing : executor[w].host = h}
CoresOf == [w \in Executing |-> executor[w].cores]

-------------------------------------------------------------------------------
(* pickAllocation and dispatchReadyWorkunits. d is the state of a dispatch under
   way: the resources, the hosts no longer considered, the executors, the workunits
   considered so far that still wait. *)

\* The hosts workunit w may be given to, but for RAM.
Suitable(w) ==
    {h \in isOn : /\ RequiredHost[w] \in {AnyHost, h}
                  /\ NumCores[h] >= IF RequiredCores[w] = 0 THEN MinCores[w]
                                                            ELSE RequiredCores[w]}

EnoughRam(w, h, d) == Ram[w] = 0 \/ (h \notin d.avoid /\ d.ram[h] >= Ram[w])
PossibleHosts(w, d) == {h \in Suitable(w) : EnoughRam(w, h, d)}

\* The host that is short of RAM for w by the least, the first one in the order
\* of hosts: no workunit that needs RAM is to jump ahead of w there.
HostToAvoid(w, d) ==
    LET short == Suitable(w) \ (PossibleHosts(w, d) \cup d.avoid) IN
    {h \in short : \A k \in short : d.ram[k] < d.ram[h] \/ (d.ram[k] = d.ram[h] /\ h <= k)}

UsedCores(w, h) == IF RequiredCores[w] # 0 THEN RequiredCores[w]
                   ELSE IF MaxCores[w] < NumCores[h] THEN MaxCores[w] ELSE NumCores[h]

\* No host can run so many threads that their count wraps around.
ASSUME ThreadsAssumption == WordSize \in Nat /\ \A h \in Hosts :
    SumFunctionOnSet([w \in Workunits |-> UsedCores(w, h)], Workunits) < WordSize

\* Host h would be less loaded than k with w on it (a load is a ratio).
LessLoaded(w, h, k, d) ==
    (d.threads[h] + UsedCores(w, h)) * NumCores[k] * FlopRate[k]
        < (d.threads[k] + UsedCores(w, k)) * NumCores[h] * FlopRate[h]
PickedHost(w, d) ==
    CHOOSE h \in PossibleHosts(w, d) : \A k \in PossibleHosts(w, d) \ {h} :
        LessLoaded(w, h, k, d) \/ (~LessLoaded(w, k, h, d) /\ h < k)

Placed(d, w, h) ==
    [d EXCEPT !.ram[h] = @ - Ram[w],
              !.threads[h] = (@ + UsedCores(w, h)) % WordSize,
              !.executor[w] = [state |-> "running", host |-> h, cores |-> UsedCores(w, h)]]

DispatchOneNoReservation(d, w) ==                                       \* mutant
    IF PossibleHosts(w, d) = {} THEN [d EXCEPT !.waiting = Append(@, w)]
    ELSE Placed(d, w, PickedHost(w, d))

DispatchOne(d, w) ==
    IF PossibleHosts(w, d) = {}
    THEN [d EXCEPT !.avoid = @ \cup HostToAvoid(w, d), !.waiting = Append(@, w)]
    ELSE Placed(d, w, PickedHost(w, d))

\* dispatchReadyWorkunits, from the queue, the resources and the executors that
\* the handling of a message has left.
Dispatched(queue, ram, threads, executors) ==
    FoldLeft(DispatchOne,
             [ram |-> ram, threads |-> threads, avoid |-> {}, executor |-> executors,
              waiting |-> <<>>],
             queue)
Dispatch(queue, ram, threads, executors) ==
    LET d == Dispatched(queue, ram, threads, executors) IN
    /\ ramAvailabilities' = d.ram
    /\ runningThreadCounts' = d.threads
    /\ executor' = d.executor
    /\ readyWorkunits' = d.waiting

-------------------------------------------------------------------------------
(* The jobs and their submitters, the executors and the hosts. *)

Send(m) == mailbox' = Append(mailbox, m)

Trouble == troubles < MaxTroubles /\ troubles' = troubles + 1

Submit(j) ==
    /\ aborted = "no" /\ up
    /\ client[j] = "new" \/ (client[j] = "through" /\ j \in Resubmittable)
    /\ client' = [client EXCEPT ![j] = "submitting"]
    /\ notified' = [notified EXCEPT ![j] = 0]
    /\ Send([type |-> "Submit", job |-> j])
    /\ UNCHANGED <<isOn, troubles, up, resourceVars, readyWorkunits, executor, jobVars,
                   aborted>>

RequestTermination(j) ==
    /\ aborted = "no" /\ up
    /\ client[j] = "waiting" /\ j \in Terminable
    /\ Trouble
    /\ client' = [client EXCEPT ![j] = "terminating"]
    /\ Send([type |-> "Terminate", job |-> j])
    /\ UNCHANGED <<isOn, up, resourceVars, readyWorkunits, executor, jobVars,
                   notified, aborted>>

RequestStop ==
    /\ aborted = "no" /\ up
    /\ Trouble
    /\ Send([type |-> "Stop"])
    /\ UNCHANGED <<isOn, up, resourceVars, readyWorkunits, executor, jobVars,
                   client, notified, aborted>>

\* The executor of w is through, with success or not: its message has arrived.
ExecutorSends(w, type) ==
    /\ aborted = "no"
    /\ executor[w].state = "running"
    /\ type = "Failed" => w \in FailingWorkunits
    /\ executor' = [executor EXCEPT ![w].state = "through"]
    /\ Send([type |-> type, workunit |-> w, known |-> TRUE])
    /\ UNCHANGED <<isOn, troubles, up, resourceVars, readyWorkunits, jobVars, client,
                   notified, aborted>>

HostTurnsOff(h) ==
    /\ aborted = "no" /\ up
    /\ h \in isOn /\ h \in Unreliable
    /\ isOn' = isOn \ {h}
    /\ Trouble
    /\ executor' = [w \in Workunits |->
          IF w \in ExecutingOn(h) /\ executor[w].state = "running"
          THEN [executor[w] EXCEPT !.state = "crashed"] ELSE executor[w]]
    /\ Send([type |-> "HostOff"])
    /\ UNCHANGED <<up, resourceVars, readyWorkunits, jobVars, client, notified, aborted>>

HostTurnsOn(h) ==
    /\ aborted = "no" /\ up
    /\ h \in Hosts \ isOn
    /\ isOn' = isOn \cup {h}
    /\ Send([type |-> "HostOn"])
    /\ UNCHANGED <<troubles, up, resourceVars, readyWorkunits, executor, jobVars, client,
                   notified, aborted>>

\* The detector that watches the executor of w reports its crash.
DetectorSends(w) ==
    /\ aborted = "no"
    /\ executor[w].state = "crashed"
    /\ executor' = [executor EXCEPT ![w].state = "through"]
    /\ Send([type |-> "Crashed", workunit |-> w, known |-> TRUE])
    /\ UNCHANGED <<isOn, troubles, up, resourceVars, readyWorkunits, jobVars, client,
                   notified, aborted>>

-------------------------------------------------------------------------------
(* The daemon: what it does for each message, the dispatch that follows included. *)

Received(type) == aborted = "no" /\ up /\ mailbox # <<>> /\ Head(mailbox).type = type

\* The resources once the executors of the workunits in S are forgotten. Those of
\* workunits without a task are only given back when the workunit is done.
RamAfter(S) == [h \in Hosts |->
    ramAvailabilities[h] + SumFunctionOnSet(Ram, S \cap ExecutingOn(h))]
ThreadsKept(S) == runningThreadCounts                                   \* mutant
ThreadsAfter(S) == [h \in Hosts |->
    (runningThreadCounts[h] - SumFunctionOnSet(CoresOf, S \cap ExecutingOn(h))) % WordSize]
ExecutorsAfter(S) == [w \in Workunits |-> IF w \in S THEN NoExecutor ELSE executor[w]]

\* jobCanRun: the service has a host with the cores and the RAM each task needs.
JobCanRun(j) ==
    \A w \in WorkunitsOf(j) \ WithoutTask :
        IF RequiredHost[w] # AnyHost
        THEN /\ NumCores[RequiredHost[w]] >= IF RequiredCores[w] = 0 THEN MinCores[w]
                                                                     ELSE RequiredCores[w]
             /\ RamCapacity[RequiredHost[w]] >= Ram[w]
        ELSE \E h \in Hosts : /\ NumCores[h] >= IF RequiredCores[w] = 0 THEN MinCores[w]
                                                                        ELSE RequiredCores[w]
                              /\ RamCapacity[h] >= Ram[w]

InitiallyReady(j) == {w \in WorkunitsOf(j) : ParentsOf[w] = {}}

ProcessSubmitStandardJob ==
    /\ Received("Submit")
    /\ mailbox' = Tail(mailbox)
    /\ LET j == Head(mailbox).job IN
       IF JobCanRun(j)
       THEN /\ allWorkunits' = allWorkunits \cup {j}
            /\ runningJobs' = runningJobs \cup {j}
            /\ numPendingParents' = [w \in Workunits |->
                  IF JobOf[w] = j THEN Cardinality(ParentsOf[w]) ELSE numPendingParents[w]]
            /\ client' = [client EXCEPT ![j] = "waiting"]
            /\ \E first \in SetToSeqs(InitiallyReady(j)) :
                  Dispatch(readyWorkunits \o first, ramAvailabilities, runningThreadCounts, executor)
       ELSE /\ client' = [client EXCEPT ![j] = "through"]
            /\ Dispatch(readyWorkunits, ramAvailabilities, runningThreadCounts, executor)
            /\ UNCHANGED <<allWorkunits, runningJobs, numPendingParents>>
    /\ UNCHANGED <<isOn, troubles, up, completed, notified, aborted>>

\* The submitter gets a notification; it may be waiting for another answer.
NotifyAll(S) ==
    /\ notified' = [j \in Jobs |-> IF j \in S THEN notified[j] + 1 ELSE notified[j]]
    /\ client' = [j \in Jobs |-> IF j \in S /\ client[j] = "waiting" THEN "through" ELSE client[j]]

\* forgetWorkunitExecutor throws: the executor was forgotten when its job was
\* terminated or failed, after it had sent its message.
ProcessMessageOfForgottenExecutor ==
    /\ aborted = "no" /\ up /\ mailbox # <<>>
    /\ Head(mailbox).type \in {"Done", "Failed", "Crashed"} /\ ~Head(mailbox).known
    /\ aborted' = "executor not found"
    /\ UNCHANGED <<isOn, troubles, up, mailbox, resourceVars, readyWorkunits, executor,
                   jobVars, client, notified>>

\* The workunits that wait for w only.
Released(w) == {c \in ChildrenOf(w) : numPendingParents[c] = 1}

ProcessWorkunitExecutorCompletion ==
    /\ Received("Done") /\ Head(mailbox).known
    /\ mailbox' = Tail(mailbox)
    /\ LET w == Head(mailbox).workunit
           j == JobOf[w]
       IN
       /\ numPendingParents' = [c \in Workunits |->
             IF c \in ChildrenOf(w) THEN numPendingParents[c] - 1 ELSE numPendingParents[c]]
       /\ \E freed \in SetToSeqs(Released(w)) :
             Dispatch(readyWorkunits \o freed, RamAfter({w}), ThreadsAfter({w}), ExecutorsAfter({w}))
       /\ IF WorkunitsOf(j) \subseteq completed \cup {w}
          THEN /\ completed' = completed \ WorkunitsOf(j)
               /\ allWorkunits' = allWorkunits \ {j}
               /\ runningJobs' = runningJobs \ {j}
               /\ NotifyAll({j})
          ELSE /\ completed' = completed \cup {w}
               /\ UNCHANGED <<allWorkunits, runningJobs, client, notified>>
    /\ UNCHANGED <<isOn, troubles, up, aborted>>

\* terminateRunningStandardJob for the jobs in S: their executors are killed and
\* forgotten, the messages they have sent or a detector will send stay. The
\* mailbox is box before.
MailboxAfterKill(box, S) ==
    LET mark(m) == IF m.type \in {"Done", "Failed", "Crashed"} /\ JobOf[m.workunit] \in S
                   THEN [m EXCEPT !.known = FALSE] ELSE m
        late == {[type |-> "Crashed", workunit |-> w, known |-> FALSE] :
                    w \in {v \in Executing : JobOf[v] \in S /\ executor[v].state = "crashed"}}
    IN  [i \in DOMAIN box |-> mark(box[i])] \o SetToSeq(late)
KilledWorkunits(S) == {w \in Workunits : JobOf[w] \in S}
ReadyKept(S) == readyWorkunits                                          \* mutant
ReadyAfterKill(S) ==
    FoldLeft(LAMBDA kept, w : IF JobOf[w] \in S THEN kept ELSE Append(kept, w), <<>>, readyWorkunits)
DropJobs(S) ==
    /\ completed' = completed \ KilledWorkunits(S)
    /\ allWorkunits' = allWorkunits \ S
    /\ UNCHANGED numPendingParents

TerminateAndDispatch(S) ==
    /\ mailbox' = MailboxAfterKill(Tail(mailbox), S)
    /\ DropJobs(S)
    /\ Dispatch(ReadyAfterKill(S), RamAfter(KilledWorkunits(S)),
                ThreadsAfter(KilledWorkunits(S) \ WithoutTask), ExecutorsAfter(KilledWorkunits(S)))

ProcessWorkunitExecutorFailure ==
    /\ Received("Failed") /\ Head(mailbox).known
    /\ LET j == JobOf[Head(mailbox).workunit] IN
       /\ TerminateAndDispatch({j})
       /\ runningJobs' = runningJobs \ {j}
       /\ NotifyAll({j})
    /\ UNCHANGED <<isOn, troubles, up, aborted>>

\* The job stays in running_jobs.
ProcessStandardJobTerminationRequest ==
    /\ Received("Terminate")
    /\ LET j == Head(mailbox).job IN
       IF j \in allWorkunits
       THEN /\ TerminateAndDispatch({j})
            /\ client' = [client EXCEPT ![j] = "through"]
       ELSE /\ mailbox' = Tail(mailbox)
            /\ client' = [client EXCEPT ![j] = IF notified[j] > 0 THEN "through" ELSE "waiting"]
            /\ Dispatch(readyWorkunits, ramAvailabilities, runningThreadCounts, executor)
            /\ UNCHANGED <<numPendingParents, allWorkunits, completed>>
    /\ UNCHANGED <<isOn, troubles, up, runningJobs, notified, aborted>>

\* terminate: every job of running_jobs is failed; running_jobs is left as it is.
Terminate ==
    /\ up' = FALSE
    /\ NotifyAll(runningJobs)
    /\ DropJobs(runningJobs)
    /\ ramAvailabilities' = RamAfter(KilledWorkunits(runningJobs))
    /\ runningThreadCounts' = ThreadsAfter(KilledWorkunits(runningJobs) \ WithoutTask)
    /\ executor' = ExecutorsAfter(KilledWorkunits(runningJobs))
    /\ readyWorkunits' = ReadyAfterKill(runningJobs)
    /\ mailbox' = <<>>
    /\ UNCHANGED <<isOn, troubles, runningJobs, aborted>>

ProcessStop == Received("Stop") /\ Terminate

\* All hosts are down and, besides the executor of w, no executor is left.
AllDown(w) == isOn = {} /\ Executing \subseteq {w}

ProcessHostChangeWithoutDispatch ==                                     \* mutant
    /\ Received("HostOn")
       \/ (Received("HostOff") /\ ~(TerminateWhenAllDown /\ isOn = {} /\ Executing = {}))
    /\ mailbox' = Tail(mailbox)
    /\ UNCHANGED <<isOn, troubles, up, resourceVars, readyWorkunits, executor, jobVars,
                   client, notified, aborted>>

ProcessHostChange ==
    /\ Received("HostOn")
       \/ (Received("HostOff") /\ ~(TerminateWhenAllDown /\ isOn = {} /\ Executing = {}))
    /\ mailbox' = Tail(mailbox)
    /\ Dispatch(readyWorkunits, ramAvailabilities, runningThreadCounts, executor)
    /\ UNCHANGED <<isOn, troubles, up, jobVars, client, notified, aborted>>

ProcessLastHostOff ==
    /\ Received("HostOff") /\ TerminateWhenAllDown /\ isOn = {} /\ Executing = {}
    /\ Terminate

\* A crashed executor's workunit is to be run again; the task of a workunit
\* without one is dereferenced all the same.
ProcessWorkunitExecutorCrash ==
    /\ Received("Crashed") /\ Head(mailbox).known
    /\ LET w == Head(mailbox).workunit IN
       IF w \in WithoutTask
       THEN /\ aborted' = "null task"
            /\ UNCHANGED <<isOn, troubles, up, mailbox, resourceVars, readyWorkunits,
                           executor, jobVars, client, notified>>
       ELSE /\ ~(TerminateWhenAllDown /\ AllDown(w))
            /\ mailbox' = Tail(mailbox)
            /\ Dispatch(Append(readyWorkunits, w), RamAfter({w}), ThreadsAfter({w}),
                        ExecutorsAfter({w}))
            /\ UNCHANGED <<isOn, troubles, up, jobVars, client, notified, aborted>>

ProcessLastCrash ==
    /\ Received("Crashed") /\ Head(mailbox).known
    /\ Head(mailbox).workunit \notin WithoutTask
    /\ TerminateWhenAllDown /\ AllDown(Head(mailbox).workunit)
    /\ Terminate

-------------------------------------------------------------------------------
ServiceStep ==
    \/ ProcessSubmitStandardJob \/ ProcessStandardJobTerminationRequest
    \/ ProcessWorkunitExecutorCompletion \/ ProcessWorkunitExecutorFailure
    \/ ProcessWorkunitExecutorCrash \/ ProcessLastCrash
    \/ ProcessMessageOfForgottenExecutor
    \/ ProcessHostChange \/ ProcessLastHostOff \/ ProcessStop

ExecutorStep(w) == ExecutorSends(w, "Done") \/ ExecutorSends(w, "Failed")

Next ==
    \/ \E j \in Jobs : Submit(j) \/ RequestTermination(j)
    \/ RequestStop
    \/ \E w \in Workunits : ExecutorStep(w) \/ DetectorSends(w)
    \/ \E h \in Hosts : HostTurnsOff(h) \/ HostTurnsOn(h)
    \/ ServiceStep

Spec == Init /\ [][Next]_vars

(* Fairness: the daemon reads its messages, an executor is through one day and a
   detector reports a crash. Hosts that are off may stay off. *)
Fairness ==
    /\ WF_vars(ServiceStep)
    /\ \A w \in Workunits : WF_vars(ExecutorStep(w) \/ DetectorSends(w))

FairSpec == Spec /\ Fairness

-------------------------------------------------------------------------------
\* What is available on a host is its capacity less what its executors use, after
\* any interleaving of completions, failures, crashes and terminations.
ResourcesAccounted == TypeOK /\ (up => \A h \in Hosts :
    /\ ramAvailabilities[h] = RamCapacity[h] - SumFunctionOnSet(Ram, ExecutingOn(h))
    /\ runningThreadCounts[h] = SumFunctionOnSet(CoresOf, ExecutingOn(h)))

InReadyQueue(w) == {i \in DOMAIN readyWorkunits : readyWorkunits[i] = w}

\* Every workunit of a job the service holds is in exactly one place: waiting for
\* its parents, in the ready queue (once), with an executor, or completed; none of
\* a job it does not hold is anywhere.
WorkunitsInOnePlace == up => \A w \in Workunits :
    LET places == Cardinality(InReadyQueue(w))
                  + (IF w \in Executing THEN 1 ELSE 0) + (IF w \in completed THEN 1 ELSE 0)
    IN  IF JobOf[w] \in allWorkunits
        THEN places = IF numPendingParents[w] > 0 THEN 0 ELSE 1
        ELSE places = 0

\* No workunit is started before its parents are completed, whatever its siblings
\* do and even when a parent has to be run again after a crash.
ParentsCompletedFirst == \A w \in Workunits :
    w \in Executing => ParentsOf[w] \subseteq completed

\* No host is left idle: once the messages are handled, the first ready workunit
\* fits on none of the hosts that are on.
WorkConserving ==
    up /\ aborted = "no" /\ mailbox = <<>> /\ readyWorkunits # <<>> =>
        PossibleHosts(Head(readyWorkunits), [ram |-> ramAvailabilities, avoid |-> {}]) = {}

\* The submitter of a job is notified of its end at most once, even if the job is
\* terminated, or the service stops, while it ends.
AtMostOneNotification == \A j \in Jobs : notified[j] <= 1

\* What the service does with the workunits of a job, whatever ends it: it keeps each in one
\* place, starts it after its parents, and tells the submitter once.
JobsAreTracked == WorkunitsInOnePlace /\ ParentsCompletedFirst /\ AtMostOneNotification

\* If hosts are eventually on for ever, a job that is submitted once and accepted ends:
\* a workunit that needs much RAM is not overtaken for ever by the jobs submitted
\* again and again that need less.
EveryJobEnds ==
    <>[](isOn = Hosts) => \A j \in Jobs \ Resubmittable :
        (j \in allWorkunits) ~> (j \notin allWorkunits \/ aborted # "no")

\* A message of an executor is about an executor the service knows.
ExecutorIsFound == aborted # "executor not found"
===============================================================================
