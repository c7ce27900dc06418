----------------------------- MODULE ServiceLife -----------------------------
(***************************************************************************)
(* The life of a service: Service.cpp (start, stop, suspend, resume) on    *)
(* top of S4U_Daemon.cpp (the actor, its life saver, its mailbox).         *)
(*                                                                         *)
(* A service is a record:                                                  *)
(*   state       UP, DOWN or SUSPENDED, what isUp and assertServiceIsUp    *)
(*               read                                                      *)
(*   actor       "none", "runs" or "suspended"                             *)
(*   lifeSaver   whether the daemon holds the reference that keeps it alive*)
(*   autoRestart whether SimGrid starts the actor again with its host      *)
(*   returned    has_returned_from_main                                    *)
(*   starts      num_starts, and mailbox, the number in the mailbox's name *)
(*   stops       stop messages that are in that mailbox                    *)
(*   hostOn      whether its host is on                                    *)
(*   tolerant    whether its class overrides cleanup()                     *)
(*   failed      (history) whether its last start threw                    *)
(* An operator gives the outcomes of an operation, records of the service  *)
(* after it ("to") and of what its caller gets ("result").  Operations do  *)
(* not overlap.                                                            *)
(***************************************************************************)
EXTENDS Naturals, FiniteSets

Outcome(d, result) == [to |-> d, result |-> result]

(* A service after its constructor, which says UP for compute and storage    *)
(* services and nothing for the others.                                      *)
NewService(state, tolerant) ==
  [state |-> state, actor |-> "none", lifeSaver |-> FALSE, autoRestart |-> FALSE,
   returned |-> FALSE, starts |-> 0, mailbox |-> 0, stops |-> 0, hostOn |-> TRUE,
   tolerant |-> tolerant, failed |-> FALSE]

-----------------------------------------------------------------------------
(* The daemon. *)

CreateLifeSaver(d) ==
  IF d.lifeSaver THEN Outcome(d, "runtime_error")
                 ELSE Outcome([d EXCEPT !.lifeSaver = TRUE], "ok")

(* What on_exit does when the actor ends: the default cleanup throws if it   *)
(* ended with its host, before the life saver is released.                   *)
OnExit(d) ==
  LET down == [d EXCEPT !.state = "DOWN", !.actor = "none"]
  IN IF ~d.returned /\ ~d.hostOn /\ ~d.tolerant THEN Outcome(down, "aborts")
     ELSE Outcome([down EXCEPT !.lifeSaver = d.autoRestart], "ok")

RunMainMethod(d) ==
  [d EXCEPT !.actor = "runs", !.state = "UP", !.starts = @ + 1, !.failed = FALSE]

MainReturns(d) == OnExit([d EXCEPT !.returned = TRUE])

(* An actor may return before its creator installs on_exit, and then none is *)
(* installed.                                                                *)
StartDaemon(d, autoRestart) ==
  IF ~d.hostOn THEN {Outcome(d, "HostError")}
  ELSE LET ready == [d EXCEPT !.autoRestart = autoRestart, !.returned = FALSE,
                              !.mailbox = d.starts, !.stops = 0]
           up == RunMainMethod(ready)
       IN {Outcome(up, "ok"),
           Outcome([up EXCEPT !.state = "DOWN", !.actor = "none", !.returned = TRUE],
                   "ok")}

KillActor(d) ==
  IF d.actor = "none" \/ d.returned THEN Outcome(d, "ok")
  ELSE LET dead == OnExit(d) IN Outcome([dead.to EXCEPT !.returned = TRUE], dead.result)

SuspendActor(d) == IF d.actor = "runs" THEN [d EXCEPT !.actor = "suspended"] ELSE d
ResumeActor(d) == IF d.actor = "suspended" THEN [d EXCEPT !.actor = "runs"] ELSE d

(* A host that goes off takes the actor with it and, as it comes back,       *)
(* SimGrid runs again the main of an actor that is set to auto-restart.      *)
HostOff(d) ==
  LET off == [d EXCEPT !.hostOn = FALSE]
  IN IF d.actor = "none" THEN Outcome(off, "ok") ELSE OnExit(off)

HostOn(d) ==
  LET on == [d EXCEPT !.hostOn = TRUE]
  IN IF d.autoRestart /\ ~d.returned THEN RunMainMethod(on) ELSE on

-----------------------------------------------------------------------------
(* The service. *)

(* start(): the service is UP, and has its life saver, before anything that  *)
(* can fail.                                                                 *)
Start(d, autoRestart) ==
  LET saved == CreateLifeSaver([d EXCEPT !.state = "UP"])
      outcomes == IF saved.result # "ok" THEN {saved} ELSE StartDaemon(saved.to, autoRestart)
  IN {Outcome([o.to EXCEPT !.failed = o.result # "ok"], o.result) : o \in outcomes}

(* main() of a service that takes a stop message from its mailbox: it sets   *)
(* its state, acknowledges, and returns.                                     *)
HandleStop(d) == MainReturns([d EXCEPT !.stops = @ - 1])

(* stop(): the message is sent to the mailbox, without waiting if it has a   *)
(* receiver, and its acknowledgement awaited for network_timeout.            *)
Stop(d) ==
  LET sent == [d EXCEPT !.stops = @ + 1]
  IN IF d.state = "DOWN" THEN {Outcome(d, "ok")}
     ELSE CASE d.actor = "runs" -> {HandleStop(sent)}
            [] d.actor = "suspended" -> {Outcome(sent, "NetworkError")}
            [] d.actor = "none" /\ d.starts = 0 -> {Outcome(sent, "blocked")}
            [] OTHER -> {Outcome(sent, r) : r \in {"blocked", "NetworkError"}}

Suspend(d) ==
  IF d.state \in {"DOWN", "SUSPENDED"} THEN d
  ELSE SuspendActor([d EXCEPT !.state = "SUSPENDED"])

Resume(d) ==
  IF d.state # "SUSPENDED" THEN Outcome(d, "NotAllowed")
  ELSE Outcome([ResumeActor(d) EXCEPT !.state = "UP"], "ok")

AssertServiceIsUp(d) ==
  CASE d.state = "DOWN" -> "ServiceIsDown"
    [] d.state = "SUSPENDED" -> "ServiceIsSuspended"
    [] OTHER -> "ok"

(* What may happen to a service next.  Only a service that is down, or was   *)
(* never started, is started; a service that blocks its caller or aborts the *)
(* simulation goes no further.                                               *)
Steps(d) ==
  (IF d.state = "DOWN" \/ (d.starts = 0 /\ ~d.failed)
     THEN UNION {Start(d, autoRestart) : autoRestart \in BOOLEAN} ELSE {})
  \cup Stop(d)
  \cup {KillActor(d), Outcome(Suspend(d), "ok"), Resume(d),
        IF d.hostOn THEN HostOff(d) ELSE Outcome(HostOn(d), "ok")}
  \cup (IF d.actor = "runs" /\ d.stops > 0 THEN {HandleStop(d)} ELSE {})
  \cup (IF d.actor = "runs" THEN {MainReturns(d)} ELSE {})

Continues(o) == o.result \notin {"blocked", "aborts"}

-----------------------------------------------------------------------------
(* Its properties (setProperties, getPropertyValueAs..., setMessagePayload). *)

(* What is given replaces the default, and may name any property.            *)
Properties(defaults, given) ==
  [p \in DOMAIN defaults \cup DOMAIN given |->
     IF p \in DOMAIN given THEN given[p] ELSE defaults[p]]

PropertyValue(properties, p) ==
  IF p \in DOMAIN properties THEN properties[p] ELSE "invalid_argument"

(* A payload below 0 is refused; the ones set before it stay.                *)
PayloadsAreValid(payloads) == \A p \in DOMAIN payloads : payloads[p] >= 0
=============================================================================
