--------------------------- MODULE ComputeResources ---------------------------
(***************************************************************************)
(* The resources a bare-metal service is given, and what compute services  *)
(* answer when they are asked for theirs.                                  *)
(*                                                                         *)
(* cores and ram are functions of a host. What is refused is Invalid.      *)
(***************************************************************************)
EXTENDS Integers, Sequences, FiniteSetsExt

CONSTANT Word   \* bound: unsigned numbers are taken modulo Word

AllCores == -1
AllRam == -1
Forever == -1       \* DBL_MAX

Unsigned(n) == n % Word

Invalid == [error |-> "invalid_argument"]
NotSupported == [error |-> "JobTypeNotSupported"]
Fatal == [error |-> "runtime_error"]

(* What is asked of the service *)

\* A specification is split at its colons; a token has its text and the number it begins
\* with, or -1. A token that begins with a digit is no host.
ParseResourceSpec(tokens) ==
    CASE Len(tokens) = 1 /\ tokens[1].number < 0 -> [host |-> tokens[1].text, cores |-> 0]
      [] Len(tokens) = 1 /\ tokens[1].number >= 0 -> [host |-> "", cores |-> tokens[1].number]
      [] Len(tokens) = 2 /\ tokens[2].number >= 0 ->
            [host |-> tokens[1].text, cores |-> tokens[2].number]
      [] OTHER -> Invalid

\* Of a task with its minimum and maximum of cores, on the hosts of the service.
AcceptedSpec(hosts, task, tokens) ==
    LET spec == ParseResourceSpec(tokens) IN
    /\ spec # Invalid
    /\ spec.host \in hosts \cup {""}
    /\ spec.cores > 0 => spec.cores \in task.min .. task.max

Requested(asked, there) == IF asked = -1 THEN there ELSE asked

\* asked[h]: the cores and the memory asked for; hosts: those there are, with theirs.
\* The memory of the service is all that of its hosts, whatever was asked for.
InitiateInstance(asked, hosts, ttl) ==
    IF \/ ttl < Forever \/ DOMAIN asked = {}
       \/ \E h \in DOMAIN asked :
            \/ h \notin DOMAIN hosts
            \/ Requested(asked[h].cores, hosts[h].cores) \notin 1 .. hosts[h].cores
            \/ asked[h].ram < AllRam \/ asked[h].ram > hosts[h].ram
    THEN Invalid
    ELSE [cores |-> [h \in DOMAIN asked |-> Requested(asked[h].cores, hosts[h].cores)],
          ram |-> [h \in DOMAIN asked |-> hosts[h].ram],
          threads |-> [h \in DOMAIN asked |-> 0],
          total |-> MapThenSumSet(LAMBDA h : Requested(asked[h].cores, hosts[h].cores),
                                  DOMAIN asked),
          ttl |-> ttl]

\* Before a restart: the hosts are there already, and their cores are counted again.
Cleanup(service) ==
    [service EXCEPT !.total = @ + MapThenSumSet(LAMBDA h : service.cores[h],
                                                DOMAIN service.cores)]

ValidBareMetal(overhead, pilot) == overhead >= 0 /\ ~pilot
ValidCloud(overhead, pilot, standard, allocation) ==
    /\ ~pilot /\ ~standard /\ overhead >= 0
    /\ allocation \in {"first-fit", "best-fit-ram-first", "best-fit-cores-first"}

\* A pilot job at a bare-metal service, a job at a cloud service.
RefuseJob(supported) == IF supported THEN Fatal ELSE NotSupported

(* What the service answers *)

IdleCores(service, h) == Unsigned(service.cores[h] - service.threads[h])

\* One host has the memory, and one, maybe another, the cores.
IsThereAtLeastOneHost(service, cores, ram) ==
    /\ \E h \in DOMAIN service.ram : service.ram[h] >= ram
    /\ \E h \in DOMAIN service.threads : IdleCores(service, h) >= cores

\* service: with the memory that is left on each host; hosts: the hosts there are.
BareMetalInformation(service, hosts, clock) ==
    [num_hosts |-> Cardinality(DOMAIN service.cores),
     num_cores |-> service.cores,
     num_idle_cores |-> [h \in DOMAIN service.threads |-> IdleCores(service, h)],
     ram_capacities |-> [h \in DOMAIN service.cores |-> hosts[h].ram],
     ram_availabilities |-> service.ram,
     ttl |-> IF service.ttl = Forever THEN Forever ELSE service.ttl - clock]

\* The virtual machines that are not down take the cores and memory of the host they are on.
PlacedOn(vms, h) == {vm \in vms : vm.state # "DOWN" /\ vm.host = h}

\* The hosts counted are the virtual machines.
CloudInformation(vms, hosts) ==
    [num_hosts |-> Cardinality(vms),
     num_cores |-> [h \in DOMAIN hosts |-> hosts[h].cores],
     num_idle_cores |-> [h \in DOMAIN hosts |->
        Unsigned(hosts[h].cores - MapThenSumSet(LAMBDA vm : vm.cores, PlacedOn(vms, h)))],
     ram_capacities |-> [h \in DOMAIN hosts |-> hosts[h].ram],
     ram_availabilities |-> [h \in DOMAIN hosts |->
        hosts[h].ram - MapThenSumSet(LAMBDA vm : vm.ram, PlacedOn(vms, h))],
     ttl |-> Forever]

(* What the caller makes of it: the services all answer with the same entries *)

GetHosts(info) == DOMAIN info.num_cores
GetTotalNumCores(info) == MapThenSumSet(LAMBDA h : info.num_cores[h], GetHosts(info))
GetTotalNumIdleCores(info) ==
    MapThenSumSet(LAMBDA h : info.num_idle_cores[h], DOMAIN info.num_idle_cores)

\* submitJob and terminateJob: by the type of the job, of a service that is up.
Dispatch(up, type) ==
    IF ~up THEN "ServiceIsDown"
    ELSE IF type = "standard" THEN "StandardJob" ELSE "PilotJob"

\* The capacity and the free space of a service's scratch space, its only disk, or none.
ScratchSpace(disk) ==
    IF disk = <<>> THEN [total |-> 0, free |-> 0]
    ELSE [total |-> disk[1].total, free |-> disk[1].free]
===============================================================================
