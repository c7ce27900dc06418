------------------------------- MODULE PilotJobs -------------------------------
(***************************************************************************)
(* Pilot jobs: a WMS submits pilot jobs through its JobManager to a batch  *)
(* service, directly or by way of HTCondor. The batch service, here with   *)
(* its first-come first-served scheduler, gives each the nodes it asks for *)
(* and starts a bare-metal service on them, to which the WMS submits       *)
(* standard jobs until the alarm of the pilot job stops that service. The  *)
(* batch service also runs standard jobs, and may be stopped.              *)
(*                                                                         *)
(* Dates are left out: an alarm rings once its job has started, any time   *)
(* after the messages that say so have arrived.                            *)
(***************************************************************************)
EXTENDS Integers, SequencesExt, FiniteSetsExt

CONSTANTS
    Pilots, Standards,  \* the jobs submitted to the batch service
    Inner,              \* the standard jobs submitted to pilot jobs:
    PilotOf,            \* PilotOf[i], the one i is submitted to
    ThroughHTCondor,    \* the pilot jobs submitted by way of HTCondor
    NumHosts, NumCores, \* the hosts of the batch service, 1 .. NumHosts
    NumNodes, CoresPerNode,     \* what each job asks for
    HostSelection,      \* HOST_SELECTION_ALGORITHM
    Terminable,         \* the jobs that the WMS may terminate
    Stoppable,          \* the pilot jobs whose service the WMS may stop
    BatchMayStop        \* whether the batch service may be stopped

Jobs == Pilots \cup Standards
Hosts == 1 .. NumHosts

ASSUME PilotAssumption ==
    /\ IsFiniteSet(Jobs \cup Inner) /\ Pilots \cap Standards = {}
    /\ PilotOf \in [Inner -> Pilots]
    /\ ThroughHTCondor \subseteq Pilots \ Terminable /\ Stoppable \subseteq Pilots
    /\ NumHosts \in Nat \ {0} /\ NumCores \in Nat \ {0}
    /\ NumNodes \in [Jobs -> Nat \ {0}] /\ CoresPerNode \in [Jobs -> Nat \ {0}]
    /\ HostSelection \in {"FIRSTFIT", "BESTFIT", "ROUNDROBIN"}
    /\ BatchMayStop \in BOOLEAN

VARIABLES
    \* the batch service
    batch,          \* its state
    mailbox,
    available,      \* available_nodes_to_cores
    lastHost,       \* round_robin_host_selector_idx
    queue,          \* batch_queue
    running,        \* running_jobs
    resources,      \* resources_allocated of each job, as a set of hosts
    executor,       \* the executor of each standard job
    listed,         \* the jobs of running_standard_job_executors
    alarms,         \* the jobs whose alarm has not rung
    stopping,       \* the service of a pilot job that the daemon waits for
    \* the services of the pilot jobs
    service,        \* service[p]: the state of getComputeService()
    inbox,          \* inbox[p]: its mailbox
    inner,          \* inner[i]: the standard job i
    \* the JobManager, HTCondor's central manager, and the WMS
    callbacks,      \* callbacks[p]: callback_mailbox_stack, the top first
    manager,        \* the mailbox of the JobManager
    central,        \* the mailbox of the central manager
    state,          \* state[p]: PilotJob::state
    pilots,         \* {pending,running,completed}_pilot_jobs
    status,         \* status[j]: what the submitter of j knows
    events,         \* events[p]: the events the WMS has got
    aborted         \* the exception nobody catches that ended the simulation

jobVars == <<available, lastHost, queue, running, resources, executor, listed, alarms>>
batchVars == <<batch, mailbox, jobVars, stopping>>
pilotVars == <<service, inbox, inner>>
managerVars == <<callbacks, manager, central, state, pilots>>
vars == <<batchVars, pilotVars, managerVars, status, events, aborted>>

Nobody == "nobody"
BatchMessage == [type : {"Submit", "Terminate", "Done", "Failed", "TimeOut"}, job : Jobs]
                \cup {[type |-> "Stop"]}
PilotMessage == [type : {"Started", "Expired"}, job : Pilots]
Ended == {"refused", "done", "failed", "terminated"}

TypeOK ==
    /\ batch \in {"up", "shutting down", "down"}
    /\ mailbox \in Seq(BatchMessage)
    /\ available \in [Hosts -> 0 .. NumCores] /\ lastHost \in Hosts
    /\ queue \in Seq(Jobs) /\ running \subseteq Jobs
    /\ resources \in [Jobs -> SUBSET Hosts]
    /\ executor \in [Standards -> {"none", "running", "through", "killed"}]
    /\ listed \subseteq Standards /\ alarms \subseteq Jobs
    /\ stopping \in {[pilot |-> Nobody]}
         \cup [pilot : Pilots, why : {"alarm", "termination", "stop"}]
    /\ service \in [Pilots -> {"none", "up", "shutting down", "down"}]
    /\ inbox \in [Pilots -> Seq([type : {"Submit"}, job : Inner]
                                \cup {[type |-> "Stop"]})]
    /\ inner \in [Inner -> {"new", "submitting", "held"} \cup Ended]
    /\ callbacks \in [Pilots -> Seq({"manager", "central"})]
    /\ manager \in Seq(PilotMessage)
    /\ central \in Seq(PilotMessage \cup [type : {"Submit"}, job : Pilots])
    /\ state \in [Pilots -> {"NOT_SUBMITTED", "PENDING", "RUNNING", "EXPIRED", "TERMINATED"}]
    /\ pilots \in [{"pending", "running", "completed"} -> SUBSET Pilots]
    /\ status \in [Jobs -> {"new", "submitting", "submitted", "terminating"} \cup Ended]
    /\ events \in [Pilots -> Seq({"Started", "Expired"})]
    /\ aborted \in BOOLEAN

Init ==
    /\ batch = "up" /\ mailbox = <<>>
    /\ available = [h \in Hosts |-> NumCores] /\ lastHost = 1
    /\ queue = <<>> /\ running = {} /\ resources = [j \in Jobs |-> {}]
    /\ executor = [s \in Standards |-> "none"] /\ listed = {} /\ alarms = {}
    /\ stopping = [pilot |-> Nobody]
    /\ service = [p \in Pilots |-> "none"] /\ inbox = [p \in Pilots |-> <<>>]
    /\ inner = [i \in Inner |-> "new"]
    /\ callbacks = [p \in Pilots |-> <<>>]
    /\ manager = <<>> /\ central = <<>>
    /\ state = [p \in Pilots |-> "NOT_SUBMITTED"]
    /\ pilots = [l \in {"pending", "running", "completed"} |-> {}]
    /\ status = [j \in Jobs |-> "new"]
    /\ events = [p \in Pilots |-> <<>>]
    /\ aborted = FALSE

-------------------------------------------------------------------------------
(* The hosts a job gets: scheduleOnHosts. *)

\* The hosts of a sequence, in order, up to n of them, with c cores left.
FirstHosts(order, free, n, c) ==
    LET fit == SelectSeq(order, LAMBDA h : free[h] >= c)
    IN  IF Len(fit) < n THEN <<>> ELSE SubSeq(fit, 1, n)

\* Hosts are taken from the one after the last that was given.
RoundRobinOrder(last) == [k \in Hosts |-> 1 + ((last - 1 + k) % NumHosts)]

\* The host with the fewest cores left, the first one on a tie, is taken again and
\* again until there are n different ones: the same one may be taken twice.
BestFitHosts(free, n, c) ==
    LET left(taken) == [h \in Hosts |-> free[h] - c * Cardinality(
                                          {k \in DOMAIN taken : taken[k] = h})]
        best(f) == CHOOSE h \in Hosts :
            /\ f[h] >= c
            /\ \A g \in Hosts : f[g] >= c => f[h] < f[g] \/ (f[h] = f[g] /\ h <= g)
        take(taken, k) ==
            IF Cardinality(ToSet(taken)) = n \/ \A h \in Hosts : left(taken)[h] < c
            THEN taken ELSE Append(taken, best(left(taken)))
        all == FoldLeft(take, <<>>, [k \in 1 .. NumHosts * NumCores |-> k])
    IN  IF Cardinality(ToSet(all)) < n THEN <<>> ELSE all

ScheduleOnHosts(free, last, n, c) ==
    CASE HostSelection = "FIRSTFIT" -> FirstHosts([h \in Hosts |-> h], free, n, c)
      [] HostSelection = "ROUNDROBIN" -> FirstHosts(RoundRobinOrder(last), free, n, c)
      [] HostSelection = "BESTFIT" -> BestFitHosts(free, n, c)

(* processQueuedJobs: from the head of the queue, jobs are started (startJob) until
   one does not get its hosts. `b` is the state of the batch service. *)
Batch == [available |-> available, lastHost |-> lastHost, queue |-> queue,
          running |-> running, resources |-> resources, executor |-> executor,
          listed |-> listed, alarms |-> alarms, service |-> service, started |-> <<>>,
          short |-> FALSE]

StartJob(b, j, hosts) ==
    [b EXCEPT
       !.available = [h \in Hosts |-> @[h] - CoresPerNode[j] * Cardinality(
                                        {k \in DOMAIN hosts : hosts[k] = h})],
       !.lastHost = IF HostSelection = "ROUNDROBIN" THEN Last(hosts) ELSE @,
       !.queue = Tail(@),
       !.running = @ \cup {j},
       !.resources[j] = ToSet(hosts),
       !.executor = [s \in Standards |-> IF s = j THEN "running" ELSE @[s]],
       !.service = [p \in Pilots |-> IF p = j THEN "up" ELSE @[p]],
       !.listed = @ \cup ({j} \cap Standards),
       !.alarms = @ \cup {j},
       !.started = IF j \in Pilots THEN Append(@, j) ELSE @]

ProcessQueuedJobs(b) ==
    LET try(a, j) ==
          LET hosts == ScheduleOnHosts(a.available, a.lastHost, NumNodes[j], CoresPerNode[j])
          IN  IF a.short \/ hosts = <<>> THEN [a EXCEPT !.short = TRUE]
              ELSE StartJob(a, j, hosts)
    IN  FoldLeft(try, b, b.queue)

\* The batch service is left with `b`, after an iteration of its main loop or in it.
BecomesBatch(b) ==
    /\ available' = b.available /\ lastHost' = b.lastHost /\ queue' = b.queue
    /\ running' = b.running /\ resources' = b.resources /\ executor' = b.executor
    /\ listed' = b.listed /\ alarms' = b.alarms /\ service' = b.service

\* A message about pilot job p is put in the mailbox on top of its stack, which stays
\* (Started, from startJob) or goes (popCallbackMailbox). When none is left it is that
\* of the WMS. Several Started messages leave in the order of the starts.
Top(stack) == IF stack = <<>> THEN "wms" ELSE Head(stack)
Pop(stack) == IF stack = <<>> THEN stack ELSE Tail(stack)
Message(type, p) == [type |-> type, job |-> p]

\* The messages of a sequence that go to a mailbox.
MessagesTo(mbox, messages) == SelectSeq(messages, LAMBDA m : Top(callbacks[m.job]) = mbox)
Notify(messages) ==
    /\ manager' = manager \o MessagesTo("manager", messages)
    /\ central' = central \o MessagesTo("central", messages)
    /\ events' = [p \in Pilots |-> events[p] \o
                    [k \in DOMAIN SelectSeq(MessagesTo("wms", messages), LAMBDA m : m.job = p)
                       |-> SelectSeq(MessagesTo("wms", messages), LAMBDA m : m.job = p)[k].type]]

Started(b) == [k \in DOMAIN b.started |-> Message("Started", b.started[k])]

\* The end of an iteration of the main loop, `first` having been sent before.
Iterate(b, first) ==
    \E next \in {ProcessQueuedJobs(b)} :
        /\ BecomesBatch(next)
        /\ Notify(first \o Started(next))
-------------------------------------------------------------------------------
(* The WMS, in whose thread the JobManager submits and terminates jobs. *)

Up == ~aborted

\* The batch service is down for those who call it as soon as it handles the request to
\* stop; a submission then throws at once, and is left out.
Closing == batch = "down" \/ (stopping.pilot # Nobody /\ stopping.why = "stop")
Send(m) == mailbox' = Append(mailbox, m)
Without(f, p) == [l \in DOMAIN f |-> f[l] \ {p}]

\* JobManager::submitJob, up to the answer.
SubmitPilot(p) ==
    /\ Up /\ status[p] = "new" /\ ~Closing
    /\ callbacks' = [callbacks EXCEPT ![p] = <<"manager">> \o @]
    /\ state' = [state EXCEPT ![p] = "PENDING"]
    /\ pilots' = [pilots EXCEPT !["pending"] = @ \cup {p}]
    /\ status' = [status EXCEPT ![p] = "submitting"]
    /\ IF p \in ThroughHTCondor
       THEN central' = Append(central, Message("Submit", p)) /\ UNCHANGED mailbox
       ELSE Send(Message("Submit", p)) /\ UNCHANGED central
    /\ UNCHANGED <<batch, jobVars, stopping, pilotVars, manager, events, aborted>>

SubmitStandard(s) ==
    /\ Up /\ status[s] = "new" /\ ~Closing
    /\ status' = [status EXCEPT ![s] = "submitting"]
    /\ Send(Message("Submit", s))
    /\ UNCHANGED <<batch, jobVars, stopping, pilotVars, managerVars, events, aborted>>

\* The exception, or the answer, that makes JobManager::submitJob give up.
Refused(j) ==
    /\ status' = [status EXCEPT ![j] = "refused"]
    /\ callbacks' = [p \in Pilots |-> IF p = j THEN Pop(callbacks[p]) ELSE callbacks[p]]
    /\ state' = [p \in Pilots |-> IF p = j THEN "NOT_SUBMITTED" ELSE state[p]]
    /\ pilots' = [pilots EXCEPT !["pending"] = @ \ {j}]

\* The batch service has stopped without an answer: the network times out, in the
\* WMS, or in the negotiator, which does not catch that.
SubmissionTimesOut(j) ==
    /\ Up /\ batch = "down"
    /\ IF j \in ThroughHTCondor
       THEN /\ Message("Submit", j) \in ToSet(mailbox)
            /\ aborted' = TRUE
            /\ UNCHANGED <<status, callbacks, state, pilots>>
       ELSE /\ status[j] = "submitting"
            /\ Refused(j)
            /\ UNCHANGED aborted
    /\ UNCHANGED <<batchVars, pilotVars, manager, central, events>>

TerminateJob(j) ==
    /\ Up /\ j \in Terminable /\ status[j] = "submitted" /\ ~Closing
    /\ status' = [status EXCEPT ![j] = "terminating"]
    /\ Send(Message("Terminate", j))
    /\ UNCHANGED <<batch, jobVars, stopping, pilotVars, managerVars, events, aborted>>

\* Once it knows that a pilot job has started, the WMS submits jobs to its service.
SubmitToPilot(i) ==
    LET p == PilotOf[i] IN
    /\ Up /\ inner[i] = "new" /\ events[p] # <<>>
    /\ IF service[p] = "down"
       THEN inner' = [inner EXCEPT ![i] = "refused"] /\ UNCHANGED inbox
       ELSE /\ inner' = [inner EXCEPT ![i] = "submitting"]
            /\ inbox' = [inbox EXCEPT ![p] = Append(@, Message("Submit", i))]
    /\ UNCHANGED <<batchVars, service, managerVars, status, events, aborted>>

SubmissionToPilotTimesOut(i) ==
    /\ Up /\ inner[i] = "submitting" /\ service[PilotOf[i]] = "down"
    /\ inner' = [inner EXCEPT ![i] = "refused"]
    /\ UNCHANGED <<batchVars, service, inbox, managerVars, status, events, aborted>>

\* Service::stop on the service of p: nothing happens when it has stopped, or when
\* someone else is stopping it.
StopRequested(p) ==
    /\ service' = [service EXCEPT ![p] = "shutting down"]
    /\ inbox' = [inbox EXCEPT ![p] = Append(@, [type |-> "Stop"])]

StopPilotService(p) ==
    /\ Up /\ p \in Stoppable /\ service[p] = "up" /\ events[p] # <<>>
    /\ StopRequested(p)
    /\ UNCHANGED <<batchVars, inner, managerVars, status, events, aborted>>

StopBatchService ==
    /\ Up /\ BatchMayStop /\ batch = "up"
    /\ batch' = "shutting down"
    /\ Send([type |-> "Stop"])
    /\ UNCHANGED <<jobVars, stopping, pilotVars, managerVars, status, events, aborted>>

-------------------------------------------------------------------------------
(* The alarms, the executors of standard jobs, and those inside pilot jobs. *)

AlarmRings(j) ==
    /\ Up /\ batch # "down" /\ j \in alarms
    /\ \A m \in ToSet(manager \o central) : m.job # j
    /\ alarms' = alarms \ {j}
    /\ Send(Message("TimeOut", j))
    /\ UNCHANGED <<batch, available, lastHost, queue, running, resources, executor, listed,
                   stopping, pilotVars, managerVars, status, events, aborted>>

ExecutorSends(s, type) ==
    /\ Up /\ executor[s] = "running"
    /\ executor' = [executor EXCEPT ![s] = "through"]
    /\ Send(Message(type, s))
    /\ UNCHANGED <<batch, available, lastHost, queue, running, resources, listed, alarms,
                   stopping, pilotVars, managerVars, status, events, aborted>>

InnerJobCompletes(i) ==
    /\ Up /\ inner[i] = "held"
    /\ inner' = [inner EXCEPT ![i] = "done"]
    /\ UNCHANGED <<batchVars, service, inbox, managerVars, status, events, aborted>>

\* The service of p, which fails the jobs it holds when it stops.
PilotServiceAccepts(p) ==
    /\ Up /\ service[p] # "down" /\ inbox[p] # <<>> /\ Head(inbox[p]).type = "Submit"
    /\ inner' = [inner EXCEPT ![Head(inbox[p]).job] = "held"]
    /\ inbox' = [inbox EXCEPT ![p] = Tail(@)]
    /\ UNCHANGED <<batchVars, service, managerVars, status, events, aborted>>

PilotServiceStopsOnly(p) ==                                             \* mutant
    /\ Up /\ service[p] # "down" /\ inbox[p] # <<>> /\ Head(inbox[p]).type = "Stop"
    /\ service' = [service EXCEPT ![p] = "down"]
    /\ inbox' = [inbox EXCEPT ![p] = Tail(@)]
    /\ UNCHANGED <<batchVars, inner, managerVars, status, events, aborted>>

PilotServiceStops(p) ==
    /\ Up /\ service[p] # "down" /\ inbox[p] # <<>> /\ Head(inbox[p]).type = "Stop"
    /\ service' = [service EXCEPT ![p] = "down"]
    /\ inbox' = [inbox EXCEPT ![p] = Tail(@)]
    /\ inner' = [i \in Inner |-> IF PilotOf[i] = p /\ inner[i] = "held" THEN "failed"
                                 ELSE inner[i]]
    /\ UNCHANGED <<batchVars, managerVars, status, events, aborted>>
-------------------------------------------------------------------------------
(* The daemon of the batch service: processNextMessage, then processQueuedJobs. *)

Received(type) ==
    /\ Up /\ batch # "down" /\ stopping.pilot = Nobody
    /\ mailbox # <<>> /\ Head(mailbox).type = type

Abort == aborted' = TRUE /\ UNCHANGED <<batchVars, pilotVars, managerVars, status, events>>

IgnoreMessage ==
    /\ mailbox' = Tail(mailbox)
    /\ Iterate(Batch, <<>>)
    /\ UNCHANGED <<batch, stopping, inbox, inner, callbacks, state, pilots, status, aborted>>

\* The submitter of a standard job is told how it ended, unless it knows already.
Told(j, s) == status' = [status EXCEPT ![j] = IF @ \in Ended THEN @ ELSE s]

\* The batch service once job j is out of running_jobs and its cores are given back.
Freed(b, j) ==
    [b EXCEPT !.running = @ \ {j},
              !.available = [h \in Hosts |->
                  IF h \in b.resources[j] THEN @[h] + CoresPerNode[j] ELSE @[h]]]

Fits(j) == NumNodes[j] <= NumHosts /\ CoresPerNode[j] <= NumCores

ProcessJobSubmission ==
    /\ Received("Submit")
    /\ LET j == Head(mailbox).job IN
       IF ~Fits(j) /\ j \in ThroughHTCondor THEN Abort
       ELSE /\ mailbox' = Tail(mailbox)
            /\ IF Fits(j)
               THEN /\ status' = [status EXCEPT ![j] = "submitted"]
                    /\ Iterate([Batch EXCEPT !.queue = Append(@, j)], <<>>)
                    /\ UNCHANGED <<callbacks, state, pilots>>
               ELSE /\ Refused(j)
                    /\ Iterate(Batch, <<>>)
            /\ UNCHANGED <<batch, stopping, inbox, inner, aborted>>

\* The executor, its alarm and its nodes are let go; the order of the checks matters.
ProcessStandardJobEnd(type) ==
    /\ Received(type)
    /\ LET j == Head(mailbox).job IN
       IF j \notin listed /\ type = "Done" THEN IgnoreMessage
       ELSE IF j \notin listed \/ j \notin running THEN Abort
       ELSE /\ mailbox' = Tail(mailbox)
            /\ Told(j, IF type = "Done" THEN "done" ELSE "failed")
            /\ Iterate(Freed([Batch EXCEPT !.listed = @ \ {j}, !.alarms = @ \ {j}], j), <<>>)
            /\ UNCHANGED <<batch, stopping, inbox, inner, callbacks, state, pilots, aborted>>

Kill(b, s) == [b EXCEPT !.executor[s] = IF @ = "running" THEN "killed" ELSE @]

MustWaitForNone(p) == FALSE                                             \* mutant

\* The daemon calls stop() on the service of pilot job p, and goes on at once if that
\* has nothing to do.
MustWait(p) == service[p] = "up"
WaitForService(p, why) ==
    /\ StopRequested(p)
    /\ stopping' = [pilot |-> p, why |-> why]
    /\ UNCHANGED <<batch, jobVars, inner, managerVars, status, events, aborted>>

\* processPilotJobCompletion, by which the nodes of p are free and the JobManager told.
PilotJobCompletion(p) ==
    /\ Iterate(Freed([Batch EXCEPT !.alarms = @ \ {p}], p), <<Message("Expired", p)>>)
    /\ callbacks' = [callbacks EXCEPT ![p] = Pop(@)]
    /\ stopping' = [pilot |-> Nobody]
    /\ UNCHANGED <<batch, inbox, inner, state, pilots, status, aborted>>

ProcessAlarmJobTimeout ==
    /\ Received("TimeOut")
    /\ LET j == Head(mailbox).job IN
       IF j \notin running THEN IgnoreMessage
       ELSE /\ mailbox' = Tail(mailbox)
            /\ \/ /\ j \in Standards
                  /\ Told(j, "failed")
                  /\ Iterate(Freed([Kill(Batch, j) EXCEPT !.listed = @ \ {j}], j), <<>>)
                  /\ UNCHANGED <<batch, stopping, inbox, inner, callbacks, state, pilots,
                                 aborted>>
               \/ j \in Pilots /\ MustWait(j) /\ WaitForService(j, "alarm")
               \/ j \in Pilots /\ ~MustWait(j) /\ PilotJobCompletion(j)

PilotJobTerminationNotified(p) ==                                       \* mutant
    /\ Iterate(Freed(Batch, p), <<Message("Expired", p)>>)
    /\ status' = [status EXCEPT ![p] = "terminated"]
    /\ state' = [state EXCEPT ![p] = "TERMINATED"]
    /\ stopping' = [pilot |-> Nobody]
    /\ UNCHANGED <<batch, inbox, inner, callbacks, pilots, aborted>>

\* The end of processPilotJobTerminationRequest for a job that runs. Its alarm is
\* still set. The JobManager hears of it in the thread of the WMS.
PilotJobTermination(p) ==
    /\ Iterate(Freed(Batch, p), <<>>)
    /\ status' = [status EXCEPT ![p] = "terminated"]
    /\ state' = [state EXCEPT ![p] = "TERMINATED"]
    /\ stopping' = [pilot |-> Nobody]
    /\ UNCHANGED <<batch, inbox, inner, callbacks, pilots, aborted>>

\* A job that is neither queued nor runs cannot be terminated: the WMS is told so.
ProcessTerminationRequest ==
    /\ Received("Terminate")
    /\ mailbox' = Tail(mailbox)
    /\ LET j == Head(mailbox).job IN
       \/ /\ j \in ToSet(queue) \/ (j \in running /\ j \in Standards)
          /\ Iterate(IF j \in running THEN Freed(Kill(Batch, j), j)
                     ELSE [Batch EXCEPT !.queue = Remove(@, j)], <<>>)
          /\ status' = [status EXCEPT ![j] = "terminated"]
          /\ state' = [p \in Pilots |-> IF p = j THEN "TERMINATED" ELSE state[p]]
          /\ UNCHANGED <<batch, stopping, inbox, inner, callbacks, pilots, aborted>>
       \/ j \in running /\ j \in Pilots /\ MustWait(j) /\ WaitForService(j, "termination")
       \/ j \in running /\ j \in Pilots /\ ~MustWait(j) /\ PilotJobTermination(j)
       \/ /\ j \notin running \cup ToSet(queue)
          /\ Iterate(Batch, <<>>)
          /\ Told(j, "submitted")
          /\ UNCHANGED <<batch, stopping, inbox, inner, callbacks, state, pilots, aborted>>

\* failCurrentStandardJobs, then terminateRunningPilotJobs, one service at a time.
StopNextPilotJob(b) ==
    LET todo == {p \in Pilots \cap b.running : MustWait(p)} IN
    IF todo = {}
    THEN /\ batch' = "down"
         /\ BecomesBatch([b EXCEPT !.running = @ \ Pilots])
         /\ stopping' = [pilot |-> Nobody]
         /\ UNCHANGED inbox
    ELSE \E p \in todo :
         /\ BecomesBatch([b EXCEPT !.service[p] = "shutting down"])
         /\ inbox' = [inbox EXCEPT ![p] = Append(@, [type |-> "Stop"])]
         /\ stopping' = [pilot |-> p, why |-> "stop"]
         /\ UNCHANGED batch

ProcessStop ==
    /\ Received("Stop")
    /\ mailbox' = Tail(mailbox)
    /\ LET failed == (running \cup ToSet(queue)) \cap Standards IN
       /\ status' = [j \in Jobs |-> IF j \in failed THEN "failed" ELSE status[j]]
       /\ StopNextPilotJob([Batch EXCEPT
              !.executor = [s \in Standards |-> IF s \in running /\ @[s] = "running"
                                                THEN "killed" ELSE @[s]],
              !.running = @ \ Standards,
              !.queue = SelectSeq(@, LAMBDA j : j \in Pilots)])
    /\ UNCHANGED <<inner, managerVars, events, aborted>>

\* The acknowledgement of the service the daemon waits for.
ServiceHasStopped ==
    LET p == stopping.pilot IN
    /\ Up /\ p # Nobody /\ service[p] = "down"
    /\ \/ stopping.why = "alarm" /\ PilotJobCompletion(p) /\ UNCHANGED mailbox
       \/ stopping.why = "termination" /\ PilotJobTermination(p) /\ UNCHANGED mailbox
       \/ /\ stopping.why = "stop" /\ StopNextPilotJob(Batch)
          /\ UNCHANGED <<mailbox, inner, managerVars, status, events, aborted>>
-------------------------------------------------------------------------------
(* The daemons of the JobManager and of HTCondor's central manager. *)

ManagerReceived(type) == Up /\ manager # <<>> /\ Head(manager).type = type

ProcessPilotJobStart ==
    /\ ManagerReceived("Started")
    /\ LET p == Head(manager).job IN
       /\ state' = [state EXCEPT ![p] = "RUNNING"]
       /\ pilots' = [pilots EXCEPT !["pending"] = @ \ {p}, !["running"] = @ \cup {p}]
       /\ events' = [events EXCEPT ![p] = Append(@, "Started")]
    /\ manager' = Tail(manager)
    /\ UNCHANGED <<batchVars, pilotVars, callbacks, central, status, aborted>>

ProcessPilotJobExpiration ==
    /\ ManagerReceived("Expired")
    /\ LET p == Head(manager).job IN
       /\ state' = [state EXCEPT ![p] = "EXPIRED"]
       /\ pilots' = [pilots EXCEPT !["running"] = @ \ {p}, !["completed"] = @ \cup {p}]
       /\ events' = [events EXCEPT ![p] = Append(@, "Expired")]
    /\ manager' = Tail(manager)
    /\ UNCHANGED <<batchVars, pilotVars, callbacks, central, status, aborted>>

\* A pilot job is accepted, and a negotiator submits it to the batch service.
DispatchPilotJob ==
    /\ Up /\ central # <<>> /\ Head(central).type = "Submit"
    /\ IF Closing THEN Abort
       ELSE LET p == Head(central).job IN
            /\ central' = Tail(central)
            /\ callbacks' = [callbacks EXCEPT ![p] = <<"central">> \o @]
            /\ status' = [status EXCEPT ![p] = "submitted"]
            /\ Send(Message("Submit", p))
            /\ UNCHANGED <<batch, jobVars, stopping, pilotVars, manager, state, pilots,
                           events, aborted>>

\* A notification is sent to the mailbox on top of the stack, which goes: the first
\* time, that of the central manager itself.
ForwardNotification ==
    /\ Up /\ central # <<>> /\ Head(central).type # "Submit"
    /\ LET m == Head(central)
           to == Top(callbacks[m.job])
       IN  /\ callbacks' = [callbacks EXCEPT ![m.job] = Pop(@)]
           /\ central' = IF to = "central" THEN Append(Tail(central), m) ELSE Tail(central)
           /\ manager' = IF to = "manager" THEN Append(manager, m) ELSE manager
           /\ events' = IF to = "wms" THEN [events EXCEPT ![m.job] = Append(@, m.type)]
                        ELSE events
    /\ UNCHANGED <<batchVars, pilotVars, state, pilots, status, aborted>>

BatchStep ==
    \/ ProcessJobSubmission
    \/ ProcessStandardJobEnd("Done") \/ ProcessStandardJobEnd("Failed")
    \/ ProcessAlarmJobTimeout \/ ProcessTerminationRequest
    \/ ProcessStop
    \/ ServiceHasStopped

PilotServiceStep(p) == PilotServiceAccepts(p) \/ PilotServiceStops(p)
ManagerStep == ProcessPilotJobStart \/ ProcessPilotJobExpiration
CentralStep == DispatchPilotJob \/ ForwardNotification

Next ==
    \/ \E p \in Pilots : SubmitPilot(p) \/ StopPilotService(p) \/ PilotServiceStep(p)
    \/ \E s \in Standards : \/ SubmitStandard(s)
                            \/ ExecutorSends(s, "Done") \/ ExecutorSends(s, "Failed")
    \/ \E j \in Jobs : SubmissionTimesOut(j) \/ TerminateJob(j) \/ AlarmRings(j)
    \/ \E i \in Inner : SubmitToPilot(i) \/ SubmissionToPilotTimesOut(i) \/ InnerJobCompletes(i)
    \/ StopBatchService
    \/ BatchStep \/ ManagerStep \/ CentralStep

Spec == Init /\ [][Next]_vars

(* Fairness: daemons read their mailboxes, alarms ring, and who waits for an answer
   that will not come gives up. Jobs need not end, nor the WMS do anything. *)
BatchHasWork == /\ Up /\ batch # "down"
                /\ IF stopping.pilot = Nobody THEN mailbox # <<>>
                   ELSE service[stopping.pilot] = "down"
FairSpec ==
    /\ Spec
    /\ <>[]BatchHasWork => []<><<BatchStep>>_vars
    /\ WF_vars(ManagerStep) /\ WF_vars(CentralStep)
    /\ \A p \in Pilots : WF_vars(PilotServiceStep(p))
    /\ \A j \in Jobs : WF_vars(AlarmRings(j))
    /\ \A i \in Inner : WF_vars(SubmissionToPilotTimesOut(i))

-------------------------------------------------------------------------------
\* What computes on the cores of host h.
Live(h) == {s \in Standards : executor[s] = "running" /\ h \in resources[s]}
           \cup {p \in Pilots : service[p] \in {"up", "shutting down"} /\ h \in resources[p]}
CoresOf(S) == MapThenSumSet(LAMBDA j : CoresPerNode[j], S)

\* The cores that are not available are those of the running jobs, and only these
\* compute there: no executor, and no service of a pilot job, outlives its allocation,
\* whichever of the alarm, the end, the termination and the stop of jobs come first.
\* The exception is a service that the WMS is stopping: the batch service, whose own
\* stop() then returns at once, does not wait for it.
NodesAccounted == \A h \in Hosts :
    /\ Closing \/ available[h] + CoresOf({j \in running : h \in resources[j]}) = NumCores
    /\ \A j \in Live(h) \ running : j \in Stoppable /\ service[j] = "shutting down"

\* The WMS is told that a pilot job has started, then that it has expired, each once,
\* and that it has expired only when its service stops or has stopped; unless it has
\* terminated it.
EventsInOrder == \A p \in Pilots :
    /\ events[p] \in {<<>>, <<"Started">>, <<"Started", "Expired">>}
    /\ Len(events[p]) = 2 => service[p] # "up" /\ status[p] # "terminated"

\* A standard job submitted to a pilot job ends: at the latest the alarm of the pilot
\* job, its termination or the stop of the batch service makes it fail.
InnerJobsEnd == \A i \in Inner :
    inner[i] = "submitting" ~> (inner[i] \in Ended \/ aborted)
===============================================================================
