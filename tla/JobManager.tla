------------------------------ MODULE JobManager ------------------------------
(***************************************************************************)
(* How a WMS gets the tasks of a workflow executed through standard jobs:  *)
(* the WMS creates, submits and terminates jobs through the JobManager's   *)
(* API (in its own thread), compute services run the tasks of the jobs     *)
(* they accept and send one notification per job, the JobManager daemon    *)
(* turns each notification into an event with the task state changes the   *)
(* WMS has to apply, and the WMS applies them when it reads the event.     *)
(*                                                                         *)
(* The compute service is the bare-metal one seen at the level of jobs and *)
(* tasks; hosts, cores and its own mailbox are those of BareMetal.tla.     *)
(* A step is what an actor does between two blocking calls.                *)
(***************************************************************************)
EXTENDS WorkflowTasks, Sequences

CONSTANTS
    Jobs,           \* the standard jobs the WMS may create
    JobTasks,       \* JobTasks[j]: the tasks of job j
    Services,       \* the compute services
    Runnable,       \* Runnable[s]: the jobs s has the resources to run
    WithScratch,    \* the services that have scratch space
    UsesScratch,    \* the jobs with a file location on scratch
    FailingTasks,   \* the tasks whose execution may fail
    Terminable,     \* the jobs the WMS may terminate
    Stoppable,      \* the services that may be stopped
    MaxFailures,    \* bound: failures of a task
    MaxCallbacks,   \* bound: depth of a job's callback mailbox stack
    NoService       \* "no parent compute service"

ASSUME JobsAssumption == IsFiniteSet(Jobs)
ASSUME JobTasksAssumption == JobTasks \in [Jobs -> SUBSET Tasks]
ASSUME RunnableAssumption == Runnable \in [Services -> SUBSET Jobs]
ASSUME NoServiceAssumption == NoService \notin Services
ASSUME BoundsAssumption == MaxFailures \in Nat /\ MaxCallbacks \in Nat

VARIABLES
    internal,       \* WorkflowTask::internal_state
    visible,        \* WorkflowTask::visible_state
    upcoming,       \* WorkflowTask::upcoming_visible_state
    failures,       \* WorkflowTask::failure_count
    jobState,       \* StandardJob::state
    callbacks,      \* depth of WorkflowJob::callback_mailbox_stack: every entry
                    \* is the JobManager's mailbox, below them is the WMS's
    parentService,  \* WorkflowJob::parent_compute_service
    newJobs, pendingJobs, completedJobs, failedJobs,    \* JobManager's sets
    managerMailbox, \* notifications from services, in order of sending
    wmsMailbox,     \* events from the JobManager
    wms,            \* the call of the API the WMS is blocked in
    up,             \* the services that are up
    allWorkunits,   \* allWorkunits[s]: the jobs whose workunits s holds
    runningJobs,    \* runningJobs[s]: BareMetalComputeService::running_jobs
    workunits,      \* workunits[j][t]: how far the workunit of t in j is
    pendingDeps,    \* pendingDeps[j][t]: the parents it still waits for
    aborted,        \* the runtime_error nobody catches that ended the simulation
    terminated      \* history: jobs that terminateJob() has terminated

taskVars == <<internal, visible, upcoming, failures>>
managerVars == <<newJobs, pendingJobs, completedJobs, failedJobs>>
serviceVars == <<allWorkunits, runningJobs, workunits, pendingDeps>>
vars == <<taskVars, jobState, callbacks, parentService, managerVars,
          managerMailbox, wmsMailbox, wms, up, serviceVars, aborted, terminated>>

JobStates == {"NOT_CREATED", "NOT_SUBMITTED", "PENDING", "COMPLETED",
              "FAILED", "TERMINATED"}
WorkunitStates == {"none", "waiting", "running", "reporting", "done"}
Aborts == {"no", "task state", "unexpected message"}
MessageTypes == {"ServiceJobDone", "ServiceJobFailed",
                 "ManagerJobDone", "ManagerJobFailed"}
Changes == [Tasks -> VisibleStates \cup {"NO_CHANGE"}]
Event == [type : MessageTypes, job : Jobs, changes : Changes,
          increments : SUBSET Tasks]
Idle == [op |-> "idle"]
Call == [op : {"submit", "terminate"}, phase : {"request", "granted", "refused"},
         job : Jobs, service : Services, saved : [Tasks -> VisibleStates]]

\* The types of the state: every message, task state and call is one of those the
\* handlers know.
TypeOK ==
    /\ internal \in [Tasks -> InternalStates]
    /\ visible \in [Tasks -> VisibleStates]
    /\ upcoming \in [Tasks -> VisibleStates]
    /\ failures \in [Tasks -> Nat]
    /\ jobState \in [Jobs -> JobStates]
    /\ callbacks \in [Jobs -> Nat]
    /\ parentService \in [Jobs -> Services \cup {NoService}]
    /\ newJobs \in SUBSET Jobs /\ pendingJobs \in SUBSET Jobs
    /\ completedJobs \in SUBSET Jobs /\ failedJobs \in SUBSET Jobs
    /\ managerMailbox \in Seq(Event)
    /\ wmsMailbox \in Seq(Event)
    /\ wms \in Call \cup {Idle}
    /\ up \in SUBSET Services
    /\ allWorkunits \in [Services -> SUBSET Jobs]
    /\ runningJobs \in [Services -> SUBSET Jobs]
    /\ workunits \in [Jobs -> [Tasks -> WorkunitStates]]
    /\ pendingDeps \in [Jobs -> [Tasks -> SUBSET Tasks]]
    /\ aborted \in Aborts
    /\ terminated \in SUBSET Jobs

Init ==
    /\ internal = InitialInternal
    /\ visible = InitialVisible
    /\ upcoming = [t \in Tasks |-> "UNKNOWN"]
    /\ failures = [t \in Tasks |-> 0]
    /\ jobState = [j \in Jobs |-> "NOT_CREATED"]
    /\ callbacks = [j \in Jobs |-> 0]
    /\ parentService = [j \in Jobs |-> NoService]
    /\ newJobs = {} /\ pendingJobs = {} /\ completedJobs = {} /\ failedJobs = {}
    /\ managerMailbox = <<>> /\ wmsMailbox = <<>>
    /\ wms = Idle
    /\ up = Services
    /\ allWorkunits = [s \in Services |-> {}]
    /\ runningJobs = [s \in Services |-> {}]
    /\ workunits = [j \in Jobs |-> [t \in Tasks |-> "none"]]
    /\ pendingDeps = [j \in Jobs |-> [t \in Tasks |-> {}]]
    /\ aborted = "no"
    /\ terminated = {}

NoChange == [t \in Tasks |-> "NO_CHANGE"]

\* A notification a service sends about a job: it carries no change yet.
Notification(type, j) ==
    [type |-> type, job |-> j, changes |-> NoChange, increments |-> {}]

\* What is thrown when a handler finds a task in a state it does not expect.
ThrowIf(unexpected) == IF unexpected THEN "task state" ELSE "no"

PoppedBelowEmpty(j) == [callbacks EXCEPT ![j] = @ - 1]                  \* mutant

\* popCallbackMailbox: below the last entry is the mailbox of the WMS.
Popped(j) == [callbacks EXCEPT ![j] = IF @ = 0 THEN 0 ELSE @ - 1]

-------------------------------------------------------------------------------
(* The JobManager's API, called by the WMS. *)

\* createStandardJob: a task that is not visibly ready needs its uncompleted
\* parents in the job.
CreateStandardJob(j) ==
    /\ aborted = "no"
    /\ wms = Idle
    /\ jobState[j] = "NOT_CREATED"
    /\ \A t \in JobTasks[j] : visible[t] # "READY" =>
          \A p \in Parents[t] : visible[p] = "COMPLETED" \/ p \in JobTasks[j]
    /\ jobState' = [jobState EXCEPT ![j] = "NOT_SUBMITTED"]
    /\ newJobs' = newJobs \cup {j}
    /\ UNCHANGED <<taskVars, callbacks, parentService, pendingJobs, completedJobs,
                   failedJobs, managerMailbox, wmsMailbox, wms, up, serviceVars,
                   aborted, terminated>>

\* submitJob pushes the callback mailbox before it checks anything.
PushCallback(j) ==
    /\ wms = Idle
    /\ jobState[j] # "NOT_CREATED"
    /\ callbacks[j] < MaxCallbacks
    /\ callbacks' = [callbacks EXCEPT ![j] = @ + 1]

SubmittableIfNotCompleted(j) ==                                         \* mutant
    \A t \in JobTasks[j] : visible[t] # "COMPLETED"
SubmittableIfNotPending(j) ==                                           \* mutant
    \A t \in JobTasks[j] : visible[t] # "PENDING"

Submittable(j) == \A t \in JobTasks[j] : visible[t] \notin {"COMPLETED", "PENDING"}

MakePending(j) ==
    /\ jobState' = [jobState EXCEPT ![j] = "PENDING"]
    /\ visible' = [t \in Tasks |-> IF t \in JobTasks[j] THEN "PENDING" ELSE visible[t]]
    /\ aborted' = ThrowIf(\E t \in JobTasks[j] : ~IsSane("PENDING", internal[t]))

\* submitJob throws: a task of the job is completed or already submitted.
SubmitUnfitJob(j) ==
    /\ aborted = "no"
    /\ ~Submittable(j)
    /\ PushCallback(j)
    /\ UNCHANGED <<taskVars, jobState, parentService, managerVars, managerMailbox,
                   wmsMailbox, wms, up, serviceVars, aborted, terminated>>

\* submitJob throws: the job needs scratch space and the service has none.
SubmitWithoutScratch(j, s) ==
    /\ aborted = "no"
    /\ Submittable(j)
    /\ j \in UsesScratch /\ s \notin WithScratch
    /\ PushCallback(j)
    /\ MakePending(j)
    /\ UNCHANGED <<internal, upcoming, failures, parentService, managerVars,
                   managerMailbox, wmsMailbox, wms, up, serviceVars, terminated>>

\* submitJob sends the request to the service and waits for its answer. To a
\* service that is down it does not send it (assertServiceIsUp throws).
SubmitJob(j, s) ==
    /\ aborted = "no"
    /\ Submittable(j)
    /\ j \in UsesScratch => s \in WithScratch
    /\ PushCallback(j)
    /\ MakePending(j)
    /\ newJobs' = newJobs \ {j}
    /\ pendingJobs' = pendingJobs \cup {j}
    /\ wms' = [op |-> "submit", phase |-> IF s \in up THEN "request" ELSE "refused",
               job |-> j, service |-> s, saved |-> visible]
    /\ UNCHANGED <<internal, upcoming, failures, parentService, completedJobs,
                   failedJobs, managerMailbox, wmsMailbox, up, serviceVars, terminated>>

\* submitJob returns: the service has accepted the job.
SubmitReturns ==
    /\ aborted = "no"
    /\ wms # Idle /\ wms.op = "submit" /\ wms.phase = "granted"
    /\ parentService' = [parentService EXCEPT ![wms.job] = wms.service]
    /\ wms' = Idle
    /\ UNCHANGED <<taskVars, jobState, callbacks, managerVars, managerMailbox,
                   wmsMailbox, up, serviceVars, aborted, terminated>>

SubmitThrowsWithoutUndo ==                                              \* mutant
    /\ aborted = "no"
    /\ wms # Idle /\ wms.op = "submit" /\ wms.phase = "refused"
    /\ wms' = Idle
    /\ UNCHANGED <<taskVars, jobState, callbacks, parentService, managerVars,
                   managerMailbox, wmsMailbox, up, serviceVars, aborted, terminated>>

\* submitJob undoes what it did and throws: the service has refused the job, or
\* could not be reached. The job does not go back to the new jobs.
SubmitThrows ==
    /\ aborted = "no"
    /\ wms # Idle /\ wms.op = "submit" /\ wms.phase = "refused"
    /\ LET j == wms.job IN
       /\ callbacks' = Popped(j)
       /\ jobState' = [jobState EXCEPT ![j] = "NOT_SUBMITTED"]
       /\ visible' = [t \in Tasks |->
                        IF t \in JobTasks[j] THEN wms.saved[t] ELSE visible[t]]
       /\ aborted' = ThrowIf(\E t \in JobTasks[j] : ~IsSane(wms.saved[t], internal[t]))
       /\ pendingJobs' = pendingJobs \ {j}
    /\ wms' = Idle
    /\ UNCHANGED <<internal, upcoming, failures, parentService, newJobs,
                   completedJobs, failedJobs, managerMailbox, wmsMailbox, up,
                   serviceVars, terminated>>

\* terminateJob: the request goes to the parent service, if it is up.
TerminateJob(j) ==
    /\ aborted = "no"
    /\ wms = Idle
    /\ j \in Terminable
    /\ parentService[j] \in up
    /\ wms' = [op |-> "terminate", phase |-> "request", job |-> j,
               service |-> parentService[j], saved |-> visible]
    /\ UNCHANGED <<taskVars, jobState, callbacks, parentService, managerVars,
                   managerMailbox, wmsMailbox, up, serviceVars, aborted, terminated>>

\* The visible state terminateJob first gives to a task, from its internal state.
TerminatedState(t) ==
    CASE internal[t] = "TASK_READY"     -> "READY"
      [] internal[t] = "TASK_COMPLETED" -> "COMPLETED"
      [] OTHER                          -> "NOT_READY"

\* terminateJob returns: the job's tasks get their states back, and those that
\* are not ready become ready if all their parents are visibly completed.
TerminateReturns ==
    /\ aborted = "no"
    /\ wms # Idle /\ wms.op = "terminate" /\ wms.phase = "granted"
    /\ LET j == wms.job
           first == [t \in Tasks |->
                       IF t \in JobTasks[j] THEN TerminatedState(t) ELSE visible[t]]
           released == {t \in JobTasks[j] : /\ first[t] = "NOT_READY"
                           /\ \A p \in Parents[t] : first[p] = "COMPLETED"}
       IN
       /\ jobState' = [jobState EXCEPT ![j] = "TERMINATED"]
       /\ visible' = [t \in Tasks |-> IF t \in released THEN "READY" ELSE first[t]]
       /\ aborted' = ThrowIf(\E t \in JobTasks[j] :
                        \/ ~IsSane(first[t], internal[t])
                        \/ t \in released /\ ~IsSane("READY", internal[t]))
       /\ terminated' = terminated \cup {j}
    /\ wms' = Idle
    /\ UNCHANGED <<internal, upcoming, failures, callbacks, parentService,
                   managerVars, managerMailbox, wmsMailbox, up, serviceVars>>

\* terminateJob throws: the job is not running, or the service did not answer.
TerminateThrows ==
    /\ aborted = "no"
    /\ wms # Idle /\ wms.op = "terminate" /\ wms.phase = "refused"
    /\ wms' = Idle
    /\ UNCHANGED <<taskVars, jobState, callbacks, parentService, managerVars,
                   managerMailbox, wmsMailbox, up, serviceVars, aborted, terminated>>

\* The WMS waits for its next event, and the task states the JobManager
\* computed are applied.
ReceiveEvent ==
    /\ aborted = "no"
    /\ wms = Idle
    /\ wmsMailbox # <<>>
    /\ LET e == Head(wmsMailbox)
           changed == {t \in Tasks : e.changes[t] # "NO_CHANGE"}
       IN
       /\ visible' = [t \in Tasks |-> IF t \in changed THEN e.changes[t] ELSE visible[t]]
       /\ failures' = [t \in Tasks |->
                          IF t \in e.increments THEN failures[t] + 1 ELSE failures[t]]
       /\ aborted' = ThrowIf(\E t \in changed : ~IsSane(e.changes[t], internal[t]))
    /\ wmsMailbox' = Tail(wmsMailbox)
    /\ UNCHANGED <<internal, upcoming, jobState, callbacks, parentService,
                   managerVars, managerMailbox, wms, up, serviceVars, terminated>>

-------------------------------------------------------------------------------
(* The compute services. *)

\* A task that is not ready waits for the workunits of its parents in the job.
Dependencies(j, t) ==
    IF t \in JobTasks[j] /\ internal[t] # "TASK_READY"
    THEN Parents[t] \cap JobTasks[j] ELSE {}

AcceptJob(s) ==
    /\ aborted = "no"
    /\ s \in up
    /\ wms # Idle /\ wms.op = "submit" /\ wms.phase = "request" /\ wms.service = s
    /\ LET j == wms.job IN
       /\ j \in Runnable[s]
       /\ allWorkunits' = [allWorkunits EXCEPT ![s] = @ \cup {j}]
       /\ runningJobs' = [runningJobs EXCEPT ![s] = @ \cup {j}]
       /\ workunits' = [workunits EXCEPT ![j] =
                          [t \in Tasks |-> IF t \in JobTasks[j] THEN "waiting" ELSE "none"]]
       /\ pendingDeps' = [pendingDeps EXCEPT ![j] = [t \in Tasks |-> Dependencies(j, t)]]
    /\ wms' = [wms EXCEPT !.phase = "granted"]
    /\ UNCHANGED <<taskVars, jobState, callbacks, parentService, managerVars,
                   managerMailbox, wmsMailbox, up, aborted, terminated>>

\* The service answers no: not enough resources, or, to a termination request,
\* that the job is not running.
RefuseRequest(s) ==
    /\ aborted = "no"
    /\ s \in up
    /\ wms # Idle /\ wms.phase = "request" /\ wms.service = s
    /\ IF wms.op = "submit" THEN wms.job \notin Runnable[s]
                            ELSE wms.job \notin allWorkunits[s]
    /\ wms' = [wms EXCEPT !.phase = "refused"]
    /\ UNCHANGED <<taskVars, jobState, callbacks, parentService, managerVars,
                   managerMailbox, wmsMailbox, up, serviceVars, aborted, terminated>>

\* The service went down before it answered: the wait for the answer times out.
RequestTimesOut ==
    /\ aborted = "no"
    /\ wms # Idle /\ wms.phase = "request" /\ wms.service \notin up
    /\ wms' = [wms EXCEPT !.phase = "refused"]
    /\ UNCHANGED <<taskVars, jobState, callbacks, parentService, managerVars,
                   managerMailbox, wmsMailbox, up, serviceVars, aborted, terminated>>

StartTask(s, j, t) ==
    /\ aborted = "no"
    /\ s \in up /\ j \in allWorkunits[s]
    /\ workunits[j][t] = "waiting" /\ pendingDeps[j][t] = {}
    /\ internal' = [internal EXCEPT ![t] = "TASK_RUNNING"]
    /\ workunits' = [workunits EXCEPT ![j][t] = "running"]
    /\ UNCHANGED <<visible, upcoming, failures, jobState, callbacks, parentService,
                   managerVars, managerMailbox, wmsMailbox, wms, up, allWorkunits,
                   runningJobs, pendingDeps, aborted, terminated>>

\* The executor completes the task; its message is then on its way.
CompleteTask(s, j, t) ==
    /\ aborted = "no"
    /\ s \in up /\ j \in allWorkunits[s]
    /\ workunits[j][t] = "running"
    /\ internal' = AfterCompletion(internal, t)
    /\ workunits' = [workunits EXCEPT ![j][t] = "reporting"]
    /\ UNCHANGED <<visible, upcoming, failures, jobState, callbacks, parentService,
                   managerVars, managerMailbox, wmsMailbox, wms, up, allWorkunits,
                   runningJobs, pendingDeps, aborted, terminated>>

ReleaseNone(j, t) == pendingDeps[j]                                     \* mutant

ReleaseChildren(j, t) == [c \in Tasks |-> pendingDeps[j][c] \ {t}]

\* The service processes the message of the executor of t. It throws if a
\* workunit it releases is for a task that is not ready. After the last workunit
\* the job is forgotten and its submitter notified.
ProcessTaskDone(s, j, t) ==
    /\ aborted = "no"
    /\ s \in up /\ j \in allWorkunits[s]
    /\ workunits[j][t] = "reporting"
    /\ LET done == [workunits[j] EXCEPT ![t] = "done"]
           released == {c \in Tasks : pendingDeps[j][c] = {t}}
           last == \A u \in JobTasks[j] : done[u] = "done"
       IN
       /\ workunits' = [workunits EXCEPT ![j] = done]
       /\ pendingDeps' = [pendingDeps EXCEPT ![j] = ReleaseChildren(j, t)]
       /\ aborted' = ThrowIf(\E c \in released : internal[c] # "TASK_READY")
       /\ IF last
          THEN /\ allWorkunits' = [allWorkunits EXCEPT ![s] = @ \ {j}]
               /\ runningJobs' = [runningJobs EXCEPT ![s] = @ \ {j}]
               /\ callbacks' = Popped(j)
               /\ managerMailbox' = Append(managerMailbox, Notification("ServiceJobDone", j))
          ELSE UNCHANGED <<allWorkunits, runningJobs, callbacks, managerMailbox>>
    /\ UNCHANGED <<taskVars, jobState, parentService, managerVars, wmsMailbox, wms,
                   up, terminated>>

\* The internal states once the executors of the jobs in killed have been killed:
\* an executor that has started its task and not yet delivered its message marks
\* the task as failed, and the service makes it ready again.
AfterKill(killed) ==
    [t \in Tasks |->
        IF \E j \in killed : workunits[j][t] \in {"running", "reporting"}
        THEN "TASK_READY" ELSE internal[t]]

\* terminateRunningStandardJob throws if a task of the job is then still running.
KillAborts(j) == \E t \in JobTasks[j] : AfterKill({j})[t] = "TASK_RUNNING"

\* Service s drops the workunits it holds of the jobs in gone.
Forget(s, gone) ==
    LET dropped == gone \cap allWorkunits[s] IN
    /\ allWorkunits' = [allWorkunits EXCEPT ![s] = @ \ gone]
    /\ workunits' = [j \in Jobs |->
                       IF j \in dropped THEN [t \in Tasks |-> "none"] ELSE workunits[j]]
    /\ pendingDeps' = [j \in Jobs |->
                       IF j \in dropped THEN [t \in Tasks |-> {}] ELSE pendingDeps[j]]

\* A workunit of the job fails: the service kills the others, and fails the job.
FailJob(s, j, t) ==
    /\ aborted = "no"
    /\ s \in up /\ j \in allWorkunits[s]
    /\ t \in FailingTasks /\ failures[t] < MaxFailures
    /\ workunits[j][t] = "running"
    /\ internal' = AfterKill({j})
    /\ Forget(s, {j})
    /\ runningJobs' = [runningJobs EXCEPT ![s] = @ \ {j}]
    /\ callbacks' = Popped(j)
    /\ managerMailbox' = Append(managerMailbox, Notification("ServiceJobFailed", j))
    /\ aborted' = ThrowIf(KillAborts(j))
    /\ UNCHANGED <<visible, upcoming, failures, jobState, parentService, managerVars,
                   wmsMailbox, wms, up, terminated>>

\* The service grants a termination request: running_jobs is left as it is.
GrantTermination(s) ==
    /\ aborted = "no"
    /\ s \in up
    /\ wms # Idle /\ wms.op = "terminate" /\ wms.phase = "request" /\ wms.service = s
    /\ wms.job \in allWorkunits[s]
    /\ internal' = AfterKill({wms.job})
    /\ Forget(s, {wms.job})
    /\ aborted' = ThrowIf(KillAborts(wms.job))
    /\ wms' = [wms EXCEPT !.phase = "granted"]
    /\ UNCHANGED <<visible, upcoming, failures, jobState, callbacks, parentService,
                   managerVars, managerMailbox, wmsMailbox, up, runningJobs, terminated>>

\* The ways to list the jobs of a set (a std::set of pointers has any order).
Listings(S) == {order \in [1 .. Cardinality(S) -> S] :
                   \A j \in S : \E i \in DOMAIN order : order[i] = j}

\* The service terminates: the jobs of running_jobs are killed and failed in turn.
StopService(s) ==
    LET stopped == runningJobs[s]
        held(jobs) == jobs \cap allWorkunits[s]
    IN
    /\ aborted = "no"
    /\ s \in up /\ s \in Stoppable
    /\ up' = up \ {s}
    /\ internal' = AfterKill(held(stopped))
    /\ Forget(s, stopped)
    /\ callbacks' = [j \in Jobs |-> IF j \in stopped THEN Popped(j)[j] ELSE callbacks[j]]
    /\ \E order \in Listings(stopped) :
          /\ managerMailbox' = managerMailbox \o
                [i \in DOMAIN order |-> Notification("ServiceJobFailed", order[i])]
          /\ aborted' = ThrowIf(\E i \in DOMAIN order : \E t \in JobTasks[order[i]] :
                AfterKill(held({order[k] : k \in 1 .. i}))[t] = "TASK_RUNNING")
    /\ UNCHANGED <<visible, upcoming, failures, jobState, parentService, managerVars,
                   wmsMailbox, wms, runningJobs, terminated>>

-------------------------------------------------------------------------------
(* The JobManager daemon. *)

SeenCompleted(p, j) == visible[p] = "COMPLETED" \/ p \in JobTasks[j]     \* mutant

\* Completed as far as the WMS has seen, or will see before this event.
VisiblyCompleted(p, j) ==
    visible[p] = "COMPLETED" \/ upcoming[p] = "COMPLETED" \/ p \in JobTasks[j]

\* The state changes of a completed job: its tasks become completed, and a child
\* that has become ready becomes visibly so if all its parents are.
CompletionChanges(j) ==
    [t \in Tasks |->
        IF t \in JobTasks[j] /\ upcoming[t] # "COMPLETED" THEN "COMPLETED"
        ELSE IF /\ Parents[t] \cap JobTasks[j] # {}
                /\ internal[t] = "TASK_READY" /\ visible[t] = "NOT_READY"
                /\ \A p \in Parents[t] : VisiblyCompleted(p, j)
             THEN "READY" ELSE "NO_CHANGE"]

\* The states of tasks and children under which the handler throws.
CompletionAborts(j) ==
    \/ \E t \in JobTasks[j] : internal[t] # "TASK_COMPLETED"
    \/ \E t \in JobTasks[j] : \E c \in Children(t) :
          \/ internal[c] \in {"TASK_RUNNING", "TASK_FAILED"}
          \/ internal[c] = "TASK_NOT_READY" /\ visible[c] # "NOT_READY"

\* Send an event about j to the mailbox popped from the job's stack.
Report(j, event) ==
    /\ callbacks' = Popped(j)
    /\ IF callbacks[j] = 0
       THEN /\ wmsMailbox' = Append(wmsMailbox, event)
            /\ managerMailbox' = Tail(managerMailbox)
       ELSE /\ managerMailbox' = Append(Tail(managerMailbox), event)
            /\ UNCHANGED wmsMailbox

ProcessStandardJobCompletion ==
    /\ aborted = "no"
    /\ managerMailbox # <<>> /\ Head(managerMailbox).type = "ServiceJobDone"
    /\ LET j == Head(managerMailbox).job
           changes == CompletionChanges(j)
       IN
       /\ jobState' = [jobState EXCEPT ![j] = "COMPLETED"]
       /\ aborted' = ThrowIf(CompletionAborts(j))
       /\ pendingJobs' = pendingJobs \ {j}
       /\ completedJobs' = completedJobs \cup {j}
       /\ upcoming' = [t \in Tasks |->
                         IF changes[t] = "NO_CHANGE" THEN upcoming[t] ELSE changes[t]]
       /\ Report(j, [type |-> "ManagerJobDone", job |-> j, changes |-> changes,
                     increments |-> {}])
    /\ UNCHANGED <<internal, visible, failures, parentService, newJobs, failedJobs,
                   wms, up, serviceVars, terminated>>

\* A failed task is ready again if its parents are completed.
StateAfterFailure(t) ==
    IF \A p \in Parents[t] : internal[p] = "TASK_COMPLETED" \/ upcoming[p] = "COMPLETED"
    THEN "READY" ELSE "NOT_READY"

\* The state changes of a failed job, children of its completed tasks included.
FailureChanges(j) ==
    [t \in Tasks |->
        IF t \in JobTasks[j] /\ internal[t] = "TASK_COMPLETED" THEN "COMPLETED"
        ELSE IF t \in JobTasks[j] /\ internal[t] = "TASK_READY" THEN "READY"
        ELSE IF t \in JobTasks[j] /\ internal[t] = "TASK_FAILED" THEN StateAfterFailure(t)
        ELSE IF /\ internal[t] = "TASK_READY"
                /\ \E p \in Parents[t] \cap JobTasks[j] : internal[p] = "TASK_COMPLETED"
             THEN "READY" ELSE "NO_CHANGE"]

ProcessStandardJobFailure ==
    /\ aborted = "no"
    /\ managerMailbox # <<>> /\ Head(managerMailbox).type = "ServiceJobFailed"
    /\ LET j == Head(managerMailbox).job
           changes == FailureChanges(j)
           increments == {t \in JobTasks[j] : internal[t] = "TASK_READY"}
       IN
       /\ jobState' = [jobState EXCEPT ![j] = "FAILED"]
       /\ visible' = [t \in Tasks |->
                        IF t \in JobTasks[j] /\ internal[t] = "TASK_FAILED"
                        THEN StateAfterFailure(t) ELSE visible[t]]
       /\ pendingJobs' = pendingJobs \ {j}
       /\ failedJobs' = failedJobs \cup {j}
       /\ Report(j, [type |-> "ManagerJobFailed", job |-> j, changes |-> changes,
                     increments |-> increments])
    /\ UNCHANGED <<internal, upcoming, failures, parentService, newJobs, completedJobs,
                   wms, up, serviceVars, aborted, terminated>>

\* The JobManager has sent an event to itself: "Unexpected message".
ProcessUnexpectedMessage ==
    /\ aborted = "no"
    /\ managerMailbox # <<>>
    /\ Head(managerMailbox).type \in {"ManagerJobDone", "ManagerJobFailed"}
    /\ aborted' = "unexpected message"
    /\ managerMailbox' = Tail(managerMailbox)
    /\ UNCHANGED <<taskVars, jobState, callbacks, parentService, managerVars,
                   wmsMailbox, wms, up, serviceVars, terminated>>

-------------------------------------------------------------------------------
WmsStep ==
    \/ \E j \in Jobs : CreateStandardJob(j) \/ SubmitUnfitJob(j) \/ TerminateJob(j)
    \/ \E j \in Jobs, s \in Services : SubmitWithoutScratch(j, s) \/ SubmitJob(j, s)
    \/ SubmitReturns \/ SubmitThrows \/ TerminateReturns \/ TerminateThrows
    \/ RequestTimesOut
    \/ ReceiveEvent

ServiceStep(s) ==
    \/ AcceptJob(s) \/ RefuseRequest(s) \/ GrantTermination(s)
    \/ \E j \in Jobs, t \in Tasks :
          \/ StartTask(s, j, t) \/ CompleteTask(s, j, t)
          \/ ProcessTaskDone(s, j, t) \/ FailJob(s, j, t)
    \/ StopService(s)

ManagerStep ==
    ProcessStandardJobCompletion \/ ProcessStandardJobFailure \/ ProcessUnexpectedMessage

Next == WmsStep \/ (\E s \in Services : ServiceStep(s)) \/ ManagerStep

Spec == Init /\ [][Next]_vars

-------------------------------------------------------------------------------
(* Fairness: SimGrid runs every actor that can run, so a service that holds a
   request, a workunit or a message handles it, a computation ends, and the
   JobManager daemon handles its messages. Nothing is assumed of the WMS, which
   may never wait for an event, but that a call it is blocked in returns. *)
Fairness ==
    /\ WF_vars(ManagerStep)
    /\ WF_vars(SubmitReturns \/ SubmitThrows \/ TerminateReturns \/ TerminateThrows)
    /\ WF_vars(RequestTimesOut)
    /\ \A s \in Services :
          /\ WF_vars(AcceptJob(s) \/ RefuseRequest(s) \/ GrantTermination(s))
          /\ \A j \in Jobs, t \in Tasks :
                /\ WF_vars(StartTask(s, j, t))
                /\ WF_vars(CompleteTask(s, j, t) \/ FailJob(s, j, t))
                /\ WF_vars(ProcessTaskDone(s, j, t))

FairSpec == Spec /\ Fairness

-------------------------------------------------------------------------------
Calling(op, j) == wms # Idle /\ wms.op = op /\ wms.job = j
Held(j) == \E s \in up : j \in allWorkunits[s]
About(mailbox, j) == \E i \in DOMAIN mailbox :
    /\ mailbox[i].job = j
    /\ mailbox[i].type \in {"ServiceJobDone", "ServiceJobFailed"}
InSomeHands(j) ==
    \/ Calling("submit", j) /\ wms.phase # "granted"
    \/ Held(j)
    \/ About(managerMailbox, j)
    \/ Calling("terminate", j) /\ wms.phase = "granted"
    \/ j \in terminated

\* A job the JobManager counts as pending is in some actor's hands: the WMS is
\* submitting it and no service has accepted it, a service that is up holds it,
\* or its notification is in the JobManager's mailbox; unless the WMS has got it
\* terminated (terminateJob leaves it in pending_standard_jobs).
NoLostJob == \A j \in pendingJobs : InSomeHands(j)

\* No task is in the hands of services through two jobs at once, so no task is
\* executed twice at the same time: the visible states, which submitJob checks
\* and three other handlers restore, are what prevents it.
OneLiveJobPerTask ==
    \A s, r \in Services : \A j \in allWorkunits[s], k \in allWorkunits[r] :
        <<s, j>> # <<r, k>> => JobTasks[j] \cap JobTasks[k] = {}

\* An executor runs a task only when all its parents have completed, whether the
\* parents are in the job (workunit dependencies) or not (visible states).
DependenciesRespected == \A t \in Tasks : internal[t] = "TASK_RUNNING" =>
    \A p \in Parents[t] : internal[p] = "TASK_COMPLETED"

\* Nothing is under way: no call, no message, no job in a service.
Quiet == /\ aborted = "no" /\ wms = Idle /\ managerMailbox = <<>> /\ wmsMailbox = <<>>
         /\ \A s \in Services : allWorkunits[s] = {}

\* When nothing is under way, no task is left behind: one that is not ready has
\* a parent still to complete, and none is pending, unless submitJob threw for
\* want of scratch space after it made the tasks pending.
NoStuckTask == Quiet => \A t \in Tasks :
    /\ visible[t] = "NOT_READY" => \E p \in Parents[t] : visible[p] # "COMPLETED"
    /\ visible[t] = "PENDING" => \E j \in UsesScratch : t \in JobTasks[j]

\* No handler meets a task in a state it declares impossible: setState's sanity
\* checks, the "should never happen" of processStandardJobCompletion, the weird
\* and running task states of the bare-metal service.
NoTaskStateThrow == aborted # "task state"

\* What services and the JobManager do to the tasks: never two jobs at once with a task,
\* never a task before its parents, and no state that a handler takes for impossible.
TasksAreSafe == OneLiveJobPerTask /\ DependenciesRespected /\ NoTaskStateThrow

\* The JobManager never gets a message it does not handle.
NoUnexpectedMessage == aborted # "unexpected message"

\* The abstract specification, of the tasks the WMS sees completed.
Progress == INSTANCE WorkflowProgress
                WITH completed <- {t \in Tasks : visible[t] = "COMPLETED"}

\* What the WMS sees completed only grows, in the order of the dependencies.
ImplementsProgress == Progress!Spec

\* Every pending job ends up reported to the WMS, unless it is terminated (or
\* the simulation aborts).
JobsAreReported == \A j \in Jobs :
    j \in pendingJobs ~> j \notin pendingJobs \/ j \in terminated \/ aborted # "no"
===============================================================================
