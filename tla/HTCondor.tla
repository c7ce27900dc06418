------------------------------- MODULE HTCondor -------------------------------
(***************************************************************************)
(* The HTCondor compute service, for standard jobs of one task in the      *)
(* non-grid universe: a front end that accepts jobs, a central manager     *)
(* that keeps them pending, and the short-lived negotiators it starts to   *)
(* place pending jobs on bare-metal services, of one host each, that serve *)
(* only this pool. Every job holds the stack of the mailboxes that are     *)
(* told, last pushed first, when it ends.                                  *)
(*                                                                         *)
(* A negotiator works on a copy of the pending jobs and of the services,   *)
(* and reports to the central manager's mailbox like the services do.      *)
(***************************************************************************)
EXTENDS Integers, SequencesExt

CONSTANTS
    Jobs, Services,
    Nowhere,            \* the place of a job that no service has
    InitialServices,    \* the services the pool is created with
    Cores,              \* Cores[s]: the cores of the host of s
    MinCores, MaxCores, \* the cores the task of j can use
    Priority,           \* Priority[j]
    MayFail,            \* the jobs that may fail while they run
    MayStop             \* the pool may be stopped

ASSUME HTCondorAssumption ==
    /\ IsFiniteSet(Jobs)
    /\ InitialServices \subseteq Services /\ Nowhere \notin Services
    /\ Cores \in [Services -> Nat]
    /\ MinCores \in [Jobs -> Nat \ {0}] /\ MaxCores \in [Jobs -> Nat \ {0}]
    /\ \A j \in Jobs : MinCores[j] <= MaxCores[j]
    /\ Priority \in [Jobs -> Nat]
    /\ MayFail \subseteq Jobs /\ MayStop \in BOOLEAN

VARIABLES
    services,               \* compute_services of the central manager
    mailbox,                \* the central manager's
    pending,                \* pending_jobs
    dispatching,            \* dispatching_jobs
    unavailable,            \* resources_unavailable
    negotiator,             \* the negotiator that works
    place,                  \* place[j]: the service where j runs
    used,                   \* used[j]: the cores it runs on
    callbacks,              \* callbacks[j]: its stack of callback mailboxes, top last
    status,                 \* status[j]: what its submitter knows
    condition               \* of the central manager

serviceVars == <<services, pending, dispatching, unavailable, condition>>
jobVars == <<place, used, callbacks, status>>
vars == <<serviceVars, mailbox, negotiator, jobVars>>

\* "jobs" is the job of a Submit, Done or Failed, and the scheduled_jobs of a Negotiated.
Message == [type : {"Submit", "WakeUp", "Done", "Failed", "Negotiated", "Stop"},
            jobs : SUBSET Jobs]
Send(type, jobs) == mailbox' = Append(mailbox, [type |-> type, jobs |-> jobs])

\* A negotiator: the pending jobs it has still to consider, the services it knows,
\* the jobs it has scheduled.
NoNegotiator == [working |-> FALSE, todo |-> {}, services |-> {}, scheduled |-> {}]

\* The cores of s that no job uses.
Idle(s) == Cores[s] - SumFunctionOnSet(used, {j \in Jobs : place[j] = s})

\* The shape of the state; no service runs more threads than it has cores.
TypeOK ==
    /\ services \subseteq Services
    /\ mailbox \in Seq(Message)
    /\ pending \in Seq(Jobs)
    /\ dispatching \in BOOLEAN /\ unavailable \in BOOLEAN
    /\ negotiator \in [working : BOOLEAN, todo : SUBSET Jobs,
                       services : SUBSET Services, scheduled : SUBSET Jobs]
    /\ place \in [Jobs -> Services \cup {Nowhere}]
    /\ used \in [Jobs -> Nat] /\ \A s \in Services : Idle(s) \in Nat
    /\ callbacks \in [Jobs -> Seq({"submitter", "central manager"})]
    /\ status \in [Jobs -> {"new", "submitting", "waiting", "rejected", "done"}]
    /\ condition \in {"up", "down", "unexpected message"}

Init ==
    /\ services = InitialServices
    /\ mailbox = <<>> /\ pending = <<>>
    /\ dispatching = FALSE /\ unavailable = FALSE
    /\ negotiator = NoNegotiator
    /\ place = [j \in Jobs |-> Nowhere] /\ used = [j \in Jobs |-> 0]
    /\ callbacks = [j \in Jobs |-> <<>>]
    /\ status = [j \in Jobs |-> "new"]
    /\ condition = "up"

-------------------------------------------------------------------------------
(* The front end. It handles a submission at a time, and reads the services of the
   central manager, an actor of its own, to answer. *)

JobCanRunSomewhere(j) == \E s \in services : MinCores[j] <= Cores[s]

FrontEndUp == condition = "up" /\ \A i \in DOMAIN mailbox : mailbox[i].type # "Stop"

Submit(j) ==
    /\ FrontEndUp
    /\ status[j] = "new" /\ \A k \in Jobs : status[k] # "submitting"
    /\ IF JobCanRunSomewhere(j)
       THEN /\ status' = [status EXCEPT ![j] = "submitting"]
            /\ callbacks' = [callbacks EXCEPT ![j] = <<"submitter">>]
            /\ Send("Submit", {j})
       ELSE /\ status' = [status EXCEPT ![j] = "rejected"]
            /\ UNCHANGED <<callbacks, mailbox>>
    /\ UNCHANGED <<serviceVars, negotiator, place, used>>

\* addComputeService, called by the actor that has created the service.
AddComputeService(s) ==
    /\ condition = "up"
    /\ s \notin services
    /\ services' = services \cup {s}
    /\ Send("WakeUp", {})
    /\ UNCHANGED <<pending, dispatching, unavailable, condition, negotiator, jobVars>>

\* The front end is stopped, between two submissions.
Stop ==
    /\ MayStop /\ FrontEndUp
    /\ \A j \in Jobs : status[j] # "submitting"
    /\ Send("Stop", {})
    /\ UNCHANGED <<serviceVars, negotiator, jobVars>>

-------------------------------------------------------------------------------
(* The central manager: a message, and then a negotiator if there is reason for one. *)

Receive(type) ==
    /\ condition = "up"
    /\ mailbox # <<>> /\ Head(mailbox).type = type
    /\ mailbox' = Tail(mailbox)

StartAnyNegotiator(idle) ==                                             \* mutant
    IF pending' # <<>> /\ ~unavailable'
    THEN /\ dispatching' = TRUE
         /\ negotiator' = [working |-> TRUE, todo |-> ToSet(pending'),
                           services |-> services, scheduled |-> {}]
    ELSE dispatching' = ~idle /\ UNCHANGED negotiator

\* What main does after each message; "idle": no negotiator works, as far as the
\* central manager knows.
StartNegotiator(idle) ==
    IF idle /\ ~unavailable' /\ pending' # <<>>
    THEN /\ dispatching' = TRUE
         /\ negotiator' = [working |-> TRUE, todo |-> ToSet(pending'),
                           services |-> services, scheduled |-> {}]
    ELSE dispatching' = ~idle /\ UNCHANGED negotiator

ProcessWakeUp ==
    /\ Receive("WakeUp")
    /\ UNCHANGED <<pending, unavailable>>
    /\ StartNegotiator(~dispatching)
    /\ UNCHANGED <<services, condition, jobVars>>

ProcessSubmitStandardJob ==
    /\ Receive("Submit")
    /\ \E j \in Head(mailbox).jobs :
         /\ pending' = Append(pending, j)
         /\ status' = [status EXCEPT ![j] = "waiting"]
    /\ unavailable' = FALSE
    /\ StartNegotiator(~dispatching)
    /\ UNCHANGED <<services, condition, place, used, callbacks>>

\* The next mailbox of the job's stack is told.
ProcessStandardJobCompletion ==
    /\ Receive("Done")
    /\ \E j \in Head(mailbox).jobs :
         /\ callbacks' = [callbacks EXCEPT ![j] = Front(@)]
         /\ status' = IF Last(callbacks[j]) = "submitter"
                      THEN [status EXCEPT ![j] = "done"] ELSE status
    /\ unavailable' = FALSE
    /\ UNCHANGED pending
    /\ StartNegotiator(~dispatching)
    /\ UNCHANGED <<services, condition, place, used>>

ErasedFirst(jobs) == IF pending = <<>> THEN pending ELSE Tail(pending)  \* mutant

\* The pending jobs without those that are scheduled.
Erased(jobs) ==
    FoldLeft(LAMBDA kept, j : IF j \in jobs THEN kept ELSE Append(kept, j), <<>>, pending)

ForgetsToDispatch ==                                                    \* mutant
    /\ Receive("Negotiated")
    /\ LET scheduled == Head(mailbox).jobs IN
         /\ pending' = Erased(scheduled)
         /\ unavailable' = (IF scheduled = {} THEN TRUE ELSE unavailable)
         /\ StartNegotiator(scheduled # {})
    /\ UNCHANGED <<services, condition, jobVars>>

ProcessNegotiatorCompletion ==
    /\ Receive("Negotiated")
    /\ LET scheduled == Head(mailbox).jobs IN
         /\ pending' = Erased(scheduled)
         /\ unavailable' = (IF scheduled = {} THEN TRUE ELSE unavailable)
    /\ StartNegotiator(TRUE)
    /\ UNCHANGED <<services, condition, jobVars>>

\* There is no handler for a failed job: main ends with an exception.
ProcessFailure ==
    /\ Receive("Failed")
    /\ condition' = "unexpected message"
    /\ UNCHANGED <<services, pending, dispatching, unavailable, negotiator, jobVars>>

\* terminate: the pending jobs are dropped, and nobody is told.
ProcessStop ==
    /\ Receive("Stop")
    /\ condition' = "down"
    /\ services' = {} /\ pending' = <<>>
    /\ UNCHANGED <<dispatching, unavailable, negotiator, jobVars>>

CentralManagerStep ==
    \/ ProcessWakeUp
    \/ ProcessSubmitStandardJob
    \/ ProcessStandardJobCompletion
    \/ ProcessNegotiatorCompletion
    \/ ProcessFailure
    \/ ProcessStop

-------------------------------------------------------------------------------
(* A negotiator considers its jobs by decreasing priority (std::sort leaves those of
   equal priority in any order). The service it picks answers at once that it has
   enough idle resources, and is then given the job: nobody else submits to it. *)

SimulationGoesOn == condition # "unexpected message"

ComesNext(j) ==
    /\ j \in negotiator.todo
    /\ \A k \in negotiator.todo : Priority[k] <= Priority[j]

HasRoomFor(s, j) == MinCores[j] <= Idle(s)

Schedule(j, s) ==
    /\ negotiator' = [negotiator EXCEPT !.todo = @ \ {j}, !.scheduled = @ \cup {j}]
    /\ callbacks' = [callbacks EXCEPT ![j] = Append(@, "central manager")]
    /\ place' = [place EXCEPT ![j] = s]
    /\ used' = [used EXCEPT ![j] = Min({Idle(s), MaxCores[j]})]

Place(j) ==
    /\ SimulationGoesOn /\ negotiator.working
    /\ ComesNext(j)
    /\ \E s \in negotiator.services : HasRoomFor(s, j) /\ Schedule(j, s)
    /\ UNCHANGED <<serviceVars, mailbox, status>>

PassOver(j) ==
    /\ SimulationGoesOn /\ negotiator.working
    /\ ComesNext(j)
    /\ \A s \in negotiator.services : ~HasRoomFor(s, j)
    /\ negotiator' = [negotiator EXCEPT !.todo = @ \ {j}]
    /\ UNCHANGED <<serviceVars, mailbox, jobVars>>

ReportBack ==
    /\ SimulationGoesOn /\ negotiator.working
    /\ negotiator.todo = {}
    /\ Send("Negotiated", negotiator.scheduled)
    /\ negotiator' = NoNegotiator
    /\ UNCHANGED <<serviceVars, jobVars>>

NegotiatorStep == ReportBack \/ \E j \in Jobs : Place(j) \/ PassOver(j)

-------------------------------------------------------------------------------
(* A bare-metal service: the job ends, its cores are idle again, and the mailbox on
   top of the job's stack is told. *)

FreesCores(j) ==
    /\ place' = [place EXCEPT ![j] = Nowhere]
    /\ used' = [used EXCEPT ![j] = 0]

TellsDone(j) ==
    /\ SimulationGoesOn
    /\ place[j] # Nowhere
    /\ FreesCores(j)
    /\ callbacks' = [callbacks EXCEPT ![j] = Front(@)]
    /\ Send("Done", {j})
    /\ UNCHANGED <<serviceVars, negotiator, status>>

TellsFailed(j) ==
    /\ SimulationGoesOn
    /\ j \in MayFail /\ place[j] # Nowhere
    /\ FreesCores(j)
    /\ callbacks' = [callbacks EXCEPT ![j] = Front(@)]
    /\ Send("Failed", {j})
    /\ UNCHANGED <<serviceVars, negotiator, status>>

EndOfJob(j) == TellsDone(j) \/ TellsFailed(j)

Next ==
    \/ \E j \in Jobs : Submit(j)
    \/ \E s \in Services : AddComputeService(s)
    \/ Stop
    \/ CentralManagerStep
    \/ NegotiatorStep
    \/ \E j \in Jobs : EndOfJob(j)

Spec == Init /\ [][Next]_vars

\* Daemons handle their messages, a job that runs comes to an end.
FairSpec ==
    /\ Spec
    /\ WF_vars(CentralManagerStep) /\ WF_vars(NegotiatorStep)
    /\ \A j \in Jobs : WF_vars(EndOfJob(j))

-------------------------------------------------------------------------------
Messages(type) == {i \in DOMAIN mailbox : mailbox[i].type = type}
Reported(j) == \E i \in Messages("Done") \cup Messages("Failed") : j \in mailbox[i].jobs
Dispatched(j) == place[j] # Nowhere \/ Reported(j)
InNegotiation == negotiator.scheduled \cup UNION {mailbox[i].jobs : i \in Messages("Negotiated")}

\* A pending job is not given out a second time, although it stays in pending_jobs until
\* the negotiator reports (and may have ended by then): a negotiator has only jobs
\* that no service has had.
DispatchedOnce ==
    /\ negotiator.todo \cap {j \in Jobs : Dispatched(j) \/ status[j] = "done"} = {}
    /\ condition = "up" =>
         \A j \in ToSet(pending) : Dispatched(j) \/ status[j] = "done" => j \in InNegotiation

\* An accepted job whose submitter waits for it is pending, runs, or has a report on
\* its way; who gets the next report is always on top of its stack: the central
\* manager exactly while a service has the job. And it is not given out twice.
NoLostJob ==
    /\ TypeOK /\ DispatchedOnce
    /\ condition = "up" =>
         \A j \in Jobs :
           /\ status[j] = "waiting" => j \in ToSet(pending) \/ Dispatched(j)
           /\ place[j] # Nowhere => callbacks[j] = <<"submitter", "central manager">>
           /\ status[j] = "waiting" /\ place[j] = Nowhere => callbacks[j] = <<"submitter">>

\* The central manager's two flags tell the truth: it believes a negotiator is at work
\* exactly while there is one or its report is on its way, and there is never more than
\* one; when there is none, pending jobs only wait because resources are unavailable.
NegotiationIsOn ==
    condition = "up" =>
      /\ dispatching <=> negotiator.working \/ Messages("Negotiated") # {}
      /\ Cardinality(Messages("Negotiated")) + (IF negotiator.working THEN 1 ELSE 0) <= 1
      /\ ~dispatching /\ pending # <<>> => unavailable

\* An accepted job ends, unless the central manager comes to think that resources are
\* unavailable, is stopped, or the simulation with it.
EndsUnlessUnavailable ==
    \A j \in Jobs :
      status[j] = "waiting" ~> status[j] = "done" \/ unavailable \/ condition # "up"
===============================================================================
