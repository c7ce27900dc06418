------------------------------- MODULE CloudVMs -------------------------------
(***************************************************************************)
(* A cloud, or a virtualized cluster, service: its clients create, start,  *)
(* suspend, resume, migrate, shut down and destroy virtual machines; each  *)
(* started VM has a bare-metal service of its own, which ends when it is   *)
(* stopped or when the physical host of the VM is turned off, and then a   *)
(* detector tells the cloud. The daemon handles one message at a time.     *)
(*                                                                         *)
(* Clients call from any number of actors, and give up after the network   *)
(* timeout without their request being withdrawn: requests wait in the     *)
(* daemon's mailbox in any combination. The cores of a host stand for its  *)
(* RAM as well, which is accounted for in the same way.                    *)
(***************************************************************************)
EXTENDS Integers, Sequences, FiniteSetsExt

CONSTANTS
    VMs,            \* the names of VMs (none is used twice)
    Cores,          \* Cores[v]: the cores of VM v
    Hosts,          \* the execution hosts
    Capacity,       \* Capacity[h]: the cores of host h
    Unreliable,     \* the hosts that may be turned off
    CanMigrate,     \* whether this is a virtualized cluster
    MaxRequests,    \* bound: requests of the clients
    MaxPending,     \* bound: requests that wait at the same time
    Nowhere         \* the empty physical host name

ASSUME CoresAssumption == Cores \in [VMs -> Nat] /\ Capacity \in [Hosts -> Nat]
ASSUME NowhereAssumption == Nowhere \notin Hosts
ASSUME VMsAssumption == IsFiniteSet(VMs) /\ MaxRequests \in Nat

VARIABLES
    state,          \* S4U_VirtualMachine::state of the VMs of vm_list
    pm,             \* S4U_VirtualMachine::pm_name
    service,        \* the bare-metal service of a VM, in vm_list
    used,           \* used_cores_per_execution_host
    on,             \* the hosts that are turned on
    vmMail,         \* the daemon's mailbox
    requests,       \* requests made so far
    condition,      \* of the cloud service, or of the simulation
    migrated        \* history: the hosts VMs have been migrated from and to

vmVars == <<state, pm, service, used, on, vmMail, requests, condition, migrated>>

Destinations == IF CanMigrate THEN Hosts ELSE {}
Request == [op : {"Create", "Shutdown", "Suspend", "Resume", "Destroy"}, vm : VMs]
           \cup [op : {"Start"}, vm : VMs, host : Hosts \cup {Nowhere}]
           \cup [op : {"Migrate"}, vm : VMs, host : Hosts]
           \cup [op : {"Stop"}]
EndOf(v) == [op |-> "Ended", vm |-> v]

\* "absent" and "destroyed" VMs are not in vm_list, a VM that has never been started
\* has no service. A service that "ended" is not running anymore.
VMStates == {"absent", "DOWN", "RUNNING", "SUSPENDED", "destroyed"}
Listed(v) == state[v] \notin {"absent", "destroyed"}

\* The types of the state: the count of the used cores of a host, unsigned in the code,
\* is never decremented below zero unless VMs were migrated there.
VMTypeOK ==
    /\ state \in [VMs -> VMStates]
    /\ pm \in [VMs -> Hosts \cup {Nowhere}]
    /\ service \in [VMs -> {"none", "up", "suspended", "ended"}]
    /\ used \in [Hosts -> Int] /\ \A h \in Hosts \ migrated : used[h] \in 0 .. Capacity[h]
    /\ on \subseteq Hosts /\ migrated \subseteq Hosts
    /\ vmMail \in Seq(Request \cup {EndOf(v) : v \in VMs})
    /\ requests \in 0 .. MaxRequests
    /\ condition \in {"up", "down", "aborted"}

VMInit ==
    /\ state = [v \in VMs |-> "absent"]
    /\ pm = [v \in VMs |-> Nowhere]
    /\ service = [v \in VMs |-> "none"]
    /\ used = [h \in Hosts |-> 0]
    /\ on = Hosts
    /\ vmMail = <<>>
    /\ requests = 0
    /\ condition = "up"
    /\ migrated = {}

-------------------------------------------------------------------------------
(* The clients. Whether the VM is in vm_list is looked up in the client's own thread,
   before the request is sent. *)

Ask(r) ==
    /\ condition = "up"
    /\ requests < MaxRequests
    /\ Cardinality({i \in DOMAIN vmMail : vmMail[i].op # "Ended"}) < MaxPending
    /\ vmMail' = Append(vmMail, r)
    /\ requests' = requests + 1
    /\ UNCHANGED <<state, pm, service, used, on, condition, migrated>>

\* Names are numbered when the request is handled: a request is for a name of its own.
AskToCreate(v) ==
    /\ state[v] = "absent"
    /\ \A i \in DOMAIN vmMail : vmMail[i] # [op |-> "Create", vm |-> v]
    /\ Ask([op |-> "Create", vm |-> v])

AskAbout(v) ==
    /\ Listed(v)
    /\ \/ \E op \in {"Shutdown", "Suspend", "Resume", "Destroy"} : Ask([op |-> op, vm |-> v])
       \/ \E h \in Destinations \cup {Nowhere} : Ask([op |-> "Start", vm |-> v, host |-> h])
       \/ \E h \in Destinations : Ask([op |-> "Migrate", vm |-> v, host |-> h])

\* stop() is called once: it returns at once while the service is stopping.
AskToStop ==
    /\ \A i \in DOMAIN vmMail : vmMail[i].op # "Stop"
    /\ Ask([op |-> "Stop"])

-------------------------------------------------------------------------------
(* The bare-metal services of the VMs. The detector of a service sends its message when
   the service ends, so it is handled after the requests that wait by then. *)

EndsInto(box, v) == /\ service' = [service EXCEPT ![v] = "ended"]
                    /\ vmMail' = Append(box, EndOf(v))

\* A client stops the service, or the service notices that its only resource is off.
ServiceEnds(v) ==
    /\ condition = "up"
    /\ service[v] = "up"
    /\ EndsInto(vmMail, v)
    /\ UNCHANGED <<state, pm, used, on, requests, condition, migrated>>

\* What becomes of a suspended VM when its host is turned off is not modelled.
HostTurnsOff(h) ==
    /\ condition = "up"
    /\ h \in Unreliable \cap on
    /\ \A v \in VMs : pm[v] = h => state[v] # "SUSPENDED"
    /\ on' = on \ {h}
    /\ UNCHANGED <<state, pm, service, used, vmMail, requests, condition, migrated>>

\* A host stays off for long enough for the services of its VMs to notice.
HostTurnsOn(h) ==
    /\ condition = "up"
    /\ h \in Hosts \ on
    /\ \A v \in VMs : pm[v] = h => service[v] = "ended"
    /\ on' = on \cup {h}
    /\ UNCHANGED <<state, pm, service, used, vmMail, requests, condition, migrated>>

-------------------------------------------------------------------------------
(* The handlers of the daemon. *)

Receive(op) ==
    /\ condition = "up"
    /\ vmMail # <<>> /\ Head(vmMail).op = op
    /\ UNCHANGED <<on, requests>>

\* The request is refused: nothing changes.
Refuse == /\ vmMail' = Tail(vmMail)
          /\ UNCHANGED <<state, pm, service, used, condition, migrated>>

\* An exception nobody catches, or a dereferenced null pointer, ends the simulation.
ServiceAborts == /\ condition' = "aborted"
                 /\ vmMail' = Tail(vmMail)
                 /\ UNCHANGED <<state, pm, service, used, migrated>>

\* A request about a VM that was destroyed after its client looked it up finds nothing
\* in vm_list, or a null pointer that it has put there itself.
ProcessRequestForDestroyedVM ==
    /\ \E op \in {"Start", "Shutdown", "Suspend", "Resume", "Destroy", "Migrate"} : Receive(op)
    /\ ~Listed(Head(vmMail).vm)
    /\ ServiceAborts

ReceiveFor(v, op) == Receive(op) /\ Head(vmMail).vm = v /\ Listed(v)

ProcessCreateVM(v) ==
    /\ Receive("Create") /\ Head(vmMail).vm = v
    /\ IF \E h \in Hosts : Cores[v] <= Capacity[h]
       THEN /\ state' = [state EXCEPT ![v] = "DOWN"]
            /\ vmMail' = Tail(vmMail)
            /\ UNCHANGED <<pm, service, used, condition, migrated>>
       ELSE Refuse

\* The hosts findHost may pick; which one depends on the allocation algorithm.
FindHost(v, desired) ==
    {h \in on : Cores[v] <= Capacity[h] - used[h] /\ desired \in {h, Nowhere}}

ServiceStartedOnce(v) == [service EXCEPT ![v] = IF @ = "none" THEN "up" ELSE @]  \* mutant
ServiceStarted(v) == [service EXCEPT ![v] = "up"]

\* A service that was started before is started again. If it is still running, which it
\* should not, start() throws ("Lifesaver already created!").
ProcessStartVM(v) ==
    /\ ReceiveFor(v, "Start")
    /\ LET hosts == FindHost(v, Head(vmMail).host) IN
       \/ (state[v] # "DOWN" \/ hosts = {}) /\ Refuse
       \/ state[v] = "DOWN" /\ hosts # {} /\ service[v] = "up" /\ ServiceAborts
       \/ /\ state[v] = "DOWN" /\ service[v] # "up"
          /\ \E h \in hosts :
               /\ state' = [state EXCEPT ![v] = "RUNNING"]
               /\ pm' = [pm EXCEPT ![v] = h]
               /\ used' = [used EXCEPT ![h] = @ + Cores[v]]
          /\ service' = ServiceStarted(v)
          /\ vmMail' = Tail(vmMail)
          /\ UNCHANGED <<condition, migrated>>

\* The counters after v has left its host. Those of the host "" nothing reads.
CoresReleased(v) ==
    [h \in Hosts |-> IF h = pm[v] THEN used[h] - Cores[v] ELSE used[h]]

\* S4U_VirtualMachine::shutdown, which forgets the host, and the update of the counters.
GoesDown(v) == /\ state' = [state EXCEPT ![v] = "DOWN"]
               /\ pm' = [pm EXCEPT ![v] = Nowhere]
               /\ used' = CoresReleased(v)

\* stop() returns at once if the service has already ended.
ProcessShutdownVM(v) ==
    /\ ReceiveFor(v, "Shutdown")
    /\ IF state[v] # "RUNNING" THEN Refuse
       ELSE /\ GoesDown(v)
            /\ IF service[v] = "up" THEN EndsInto(Tail(vmMail), v)
               ELSE vmMail' = Tail(vmMail) /\ UNCHANGED service
            /\ UNCHANGED <<condition, migrated>>

\* The VM of a host that was turned off is gone in SimGrid: suspending it throws.
ProcessSuspendVM(v) ==
    /\ ReceiveFor(v, "Suspend")
    /\ \/ state[v] # "RUNNING" /\ Refuse
       \/ state[v] = "RUNNING" /\ pm[v] \notin on /\ ServiceAborts
       \/ /\ state[v] = "RUNNING" /\ pm[v] \in on
          /\ state' = [state EXCEPT ![v] = "SUSPENDED"]
          /\ service' = [service EXCEPT ![v] = IF @ = "up" THEN "suspended" ELSE @]
          /\ vmMail' = Tail(vmMail)
          /\ UNCHANGED <<pm, used, condition, migrated>>

\* Service::resume throws unless the service is suspended.
ProcessResumeVM(v) ==
    /\ ReceiveFor(v, "Resume")
    /\ \/ state[v] # "SUSPENDED" /\ Refuse
       \/ state[v] = "SUSPENDED" /\ service[v] # "suspended" /\ ServiceAborts
       \/ /\ state[v] = "SUSPENDED" /\ service[v] = "suspended"
          /\ state' = [state EXCEPT ![v] = "RUNNING"]
          /\ service' = [service EXCEPT ![v] = "up"]
          /\ vmMail' = Tail(vmMail)
          /\ UNCHANGED <<pm, used, condition, migrated>>

ProcessDestroyVM(v) ==
    /\ ReceiveFor(v, "Destroy")
    /\ IF state[v] # "DOWN" THEN Refuse
       ELSE /\ state' = [state EXCEPT ![v] = "destroyed"]
            /\ vmMail' = Tail(vmMail)
            /\ UNCHANGED <<pm, service, used, condition, migrated>>

\* The counters of the two hosts are left as they are, and the state of the VM is not
\* looked at: a VM that does not run, or not anymore, cannot be migrated by SimGrid.
ProcessMigrateVM(v) ==
    /\ ReceiveFor(v, "Migrate")
    /\ LET h == Head(vmMail).host IN
       \/ Cores[v] > Capacity[h] - used[h] /\ Refuse
       \/ /\ Cores[v] <= Capacity[h] - used[h]
          /\ state[v] # "RUNNING" \/ ~({h, pm[v]} \subseteq on)
          /\ ServiceAborts
       \/ /\ Cores[v] <= Capacity[h] - used[h]
          /\ state[v] = "RUNNING" /\ {h, pm[v]} \subseteq on
          /\ pm' = [pm EXCEPT ![v] = h]
          /\ migrated' = migrated \cup {h, pm[v]}
          /\ vmMail' = Tail(vmMail)
          /\ UNCHANGED <<state, service, used, condition>>

\* The service of a VM has ended; which VM is looked up in vm_list. It goes down, and
\* its cores are released, even if it is down already: it then has no host.
TerminationKeepsCores(v) ==                                                   \* mutant
    /\ ReceiveFor(v, "Ended")
    /\ state' = [state EXCEPT ![v] = "DOWN"]
    /\ pm' = [pm EXCEPT ![v] = Nowhere]
    /\ vmMail' = Tail(vmMail)
    /\ UNCHANGED <<service, used, condition, migrated>>
TerminationOfRunningOnly(v) ==                                                \* mutant
    /\ ReceiveFor(v, "Ended")
    /\ IF state[v] = "RUNNING" THEN GoesDown(v) ELSE UNCHANGED <<state, pm, used>>
    /\ vmMail' = Tail(vmMail)
    /\ UNCHANGED <<service, condition, migrated>>
ProcessServiceTermination(v) ==
    /\ ReceiveFor(v, "Ended")
    /\ GoesDown(v)
    /\ vmMail' = Tail(vmMail)
    /\ UNCHANGED <<service, condition, migrated>>

\* "received a termination notification for an unknown bare_metal"
ProcessUnknownTermination ==
    /\ Receive("Ended")
    /\ ~Listed(Head(vmMail).vm)
    /\ ServiceAborts

\* stopAllVMs: a suspended VM is resumed first, with its service, which throws if that
\* has ended. The detectors' messages find nobody.
Stop ==
    /\ Receive("Stop")
    /\ LET live == {v \in VMs : state[v] \in {"RUNNING", "SUSPENDED"}} IN
       IF \E v \in live : state[v] = "SUSPENDED" /\ service[v] # "suspended" THEN ServiceAborts
       ELSE /\ state' = [v \in VMs |-> IF v \in live THEN "DOWN" ELSE state[v]]
            /\ pm' = [v \in VMs |-> Nowhere]
            /\ service' = [v \in VMs |-> IF v \in live THEN "ended" ELSE service[v]]
            /\ used' = [h \in Hosts |->
                          used[h] - SumFunctionOnSet(Cores, {v \in live : pm[v] = h})]
            /\ condition' = "down"
            /\ vmMail' = <<>>
            /\ UNCHANGED migrated

CloudStep ==
    \/ \E v \in VMs :
         \/ ProcessCreateVM(v) \/ ProcessStartVM(v) \/ ProcessShutdownVM(v)
         \/ ProcessSuspendVM(v) \/ ProcessResumeVM(v) \/ ProcessDestroyVM(v)
         \/ ProcessMigrateVM(v) \/ ProcessServiceTermination(v)
    \/ ProcessRequestForDestroyedVM \/ ProcessUnknownTermination \/ Stop

VMNext ==
    \/ CloudStep
    \/ \E v \in VMs : AskToCreate(v) \/ AskAbout(v) \/ ServiceEnds(v)
    \/ AskToStop
    \/ \E h \in Hosts : HostTurnsOff(h) \/ HostTurnsOn(h)

VMSpec == VMInit /\ [][VMNext]_vmVars

\* The daemon handles its messages, and a service notices that its host is off.
VMFairSpec ==
    /\ VMSpec
    /\ WF_vmVars(CloudStep)
    /\ \A v \in VMs : WF_vmVars(pm[v] \notin on /\ ServiceEnds(v))

-------------------------------------------------------------------------------
Live == {v \in VMs : state[v] \in {"RUNNING", "SUSPENDED"}}
EndIsKnown(v) == \E i \in DOMAIN vmMail : vmMail[i] = EndOf(v)

\* As long as no VM is migrated from or to a host, what the cloud counts as used there is
\* what its running and suspended VMs use, whatever combination of shut downs, ends of
\* services and failures of hosts has been handled; so VMs fit on their hosts.
CoresAccounted ==
    /\ VMTypeOK
    /\ \A h \in Hosts \ migrated :
         /\ used[h] = SumFunctionOnSet(Cores, {v \in Live : pm[v] = h})
         /\ used[h] <= Capacity[h]

\* A running VM has a running service, and a suspended one a suspended service, unless
\* the news that it has ended is on its way to the cloud.
LiveVMIsServed == \A v \in Live :
    \/ service[v] = IF state[v] = "RUNNING" THEN "up" ELSE "suspended"
    \/ service[v] = "ended" /\ EndIsKnown(v)

\* A VM whose service has ended, or whose host has been turned off, does not hold the
\* host's resources for ever, whatever requests come before the news.
LostVMsAreReclaimed == \A v \in VMs :
    v \in Live /\ (service[v] = "ended" \/ pm[v] \notin on)
        ~> v \notin Live \/ condition # "up"
===============================================================================
