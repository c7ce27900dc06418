------------------------------ MODULE MCCloudVMs ------------------------------
(* Two hosts, of two cores and of one; a VM that fits only on the first, one that fits
   on both, and one too large. *)
EXTENDS CloudVMs

CONSTANTS wide, slim, giant, h1, h2

MCCores == [v \in VMs |-> CASE v = wide -> 2 [] v = giant -> 3 [] OTHER -> 1]
MCCapacity == [h \in Hosts |-> IF h = h1 THEN 2 ELSE 1]

-------------------------------------------------------------------------------
(* The operators of ServiceLife, on all services that sequences of operations lead to *)

Life == INSTANCE ServiceLife

\* What the services that n operations lead to may do next, as pairs of a service and an
\* outcome; a service gets at most 3 starts and 2 stop messages.
NextSteps(n) ==
    LET Own(reached) == UNION {{<<d, o>> : o \in Life!Steps(d)} : d \in reached}
        Bounded(d) == d.starts <= 3 /\ d.stops <= 2
        after[k \in 0 .. n] ==
          IF k = 0 THEN {Life!NewService(s, t) : s \in {"UP", "DOWN"}, t \in BOOLEAN}
          ELSE after[k - 1] \cup
               {m[2].to : m \in {m \in Own(after[k - 1]) :
                                   Life!Continues(m[2]) /\ Bounded(m[2].to)}}
    IN Own(after[n])

ServiceSteps == NextSteps(7)

\* A service that has an actor is kept alive, and its state is the actor's: a request is
\* refused as long as the actor is suspended or gone, unless its last start failed.
ASSUME StatesTellActors ==
    \A m \in ServiceSteps :
      LET d == m[1]
      IN /\ d.actor # "none" => d.lifeSaver
         /\ d.actor = "runs" => d.state = "UP"
         /\ d.actor = "suspended" => d.state = "SUSPENDED"
         /\ (d.actor = "none" /\ d.starts > 0 /\ ~d.failed) => d.state = "DOWN"

\* A start that fails for its host leaves a service that is up without an actor, that no
\* later start can bring back and that stop() waits for; so does, as it is started again,
\* a service set to auto-restart that was stopped.
ASSUME FailedStartsAreFinal ==
    /\ \A m \in ServiceSteps :
         m[2].to.failed =>
           /\ m[2].to.lifeSaver
           /\ \A o \in Life!Start(m[2].to, FALSE) : o.result = "runtime_error"
           /\ m[2].to.state = "UP" =>
                \A o \in Life!Stop(m[2].to) : o.result # "ok"
    /\ \E m \in ServiceSteps :
         m[1].state = "DOWN" /\ m[2].result = "HostError" /\ m[2].to.state = "UP"
    /\ \A m \in ServiceSteps :
         (m[1].autoRestart /\ m[1].returned) =>
           \A o \in Life!Start(m[1], TRUE) : o.result = "runtime_error"

\* A service that ended and did not fail to start is started again if its host is on,
\* unless it is set to auto-restart or returned before its creator could watch it, and
\* then has a mailbox of its own.
ASSUME EndedServicesRestart ==
    \A m \in ServiceSteps :
      LET d == m[1]
      IN (d.state = "DOWN" /\ ~d.lifeSaver /\ d.hostOn) =>
           \A o \in Life!Start(d, FALSE) :
             o.result = "ok" /\ (d.starts > 0 => o.to.mailbox > d.mailbox)

\* stop() of a suspended service fails after the timeout and leaves its message in the
\* mailbox: the service stops after it is resumed.
ASSUME SuspendedServicesStopLater ==
    \A m \in ServiceSteps :
      (m[1].actor = "suspended" /\ m[1].stops = 0) =>
        \A o \in Life!Stop(m[1]) :
          /\ o.result = "NetworkError" /\ o.to.state = "SUSPENDED"
          /\ LET resumed == Life!Resume(o.to)
             IN /\ resumed.result = "ok" /\ resumed.to.stops = 1
                /\ Life!HandleStop(resumed.to) \in Life!Steps(resumed.to)
                /\ Life!HandleStop(resumed.to).to.state = "DOWN"
===============================================================================
