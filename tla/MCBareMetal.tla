------------------------------ MODULE MCBareMetal ------------------------------
(* A job that copies files and then runs a task that needs 2 units of RAM, and two
   small jobs, of 1 unit, submitted again and again; a host with 2 units, or (uneven)
   one with 1 and one with 2. *)
EXTENDS BareMetal

CONSTANTS big, small1, small2,  \* jobs
          pre, b, s1, s2        \* workunits

MCNumCores == [h \in Hosts |-> 2]
MCRamCapacity == [h \in Hosts |-> 2]
UnevenRamCapacity == [h \in Hosts |-> h]
MCFlopRate == [h \in Hosts |-> 1]
MCJobOf == [w \in Workunits |-> CASE w = s1 -> small1 [] w = s2 -> small2 [] OTHER -> big]
MCParentsOf == [w \in Workunits |-> {pre} \cap Workunits \cap {v \in Workunits : w = b}]
MCRam == [w \in Workunits |-> CASE w = b -> 2 [] w \in {s1, s2} -> 1 [] OTHER -> 0]
MCMinCores == [w \in Workunits |-> 1]
MCMaxCores == [w \in Workunits |-> IF w = s1 THEN 2 ELSE 1]
MCRequiredHost == [w \in Workunits |-> AnyHost]
MCRequiredCores == [w \in Workunits |-> IF w \in WithoutTask THEN 1 ELSE 0]

(* The resources of a service of two hosts *)

Res == INSTANCE ComputeResources WITH Word <- 16

Has(c, r) == [cores |-> c, ram |-> r]
There == [h \in {"a", "b"} |-> IF h = "a" THEN Has(1, 2) ELSE Has(2, 1)]
Asked == [{"a", "b"} -> [cores : -1 .. 3, ram : -2 .. 3]]
Instances == {Res!InitiateInstance(asked, There, Res!Forever) : asked \in Asked} \ {Res!Invalid}

\* A service is made from hosts that have what is asked of them, and from no others; it has
\* the cores asked for (BareMetalComputeService::initiateInstance).
ASSUME InstancesHaveCores ==
    /\ \A asked \in Asked :
          LET s == Res!InitiateInstance(asked, There, Res!Forever) IN
          /\ s # Res!Invalid <=> \A h \in DOMAIN asked :
                /\ asked[h].cores \in {Res!AllCores} \cup 1 .. There[h].cores
                /\ asked[h].ram \in {Res!AllRam} \cup 0 .. There[h].ram
          /\ s # Res!Invalid => \A h \in DOMAIN asked :
                s.cores[h] = IF asked[h].cores = -1 THEN There[h].cores ELSE asked[h].cores
    /\ \A s \in Instances : s.total = s.cores["a"] + s.cores["b"]

\* It has all the memory of its hosts, even if it is to have none (line 484); after a
\* restart it counts its cores twice, and what ran before still holds its memory.
ASSUME MemoryIsNotLimited ==
    \A s \in Instances :
        /\ \A h \in DOMAIN There : s.ram[h] = There[h].ram
        /\ Res!Cleanup(s).total = 2 * s.total
        /\ Res!Cleanup([s EXCEPT !.ram["a"] = 0]).ram["a"] = 0

Busy == {[s EXCEPT !.threads = t, !.ram = r] :
            s \in Instances, t \in [{"a", "b"} -> 0 .. 3], r \in [{"a", "b"} -> 0 .. 2]}
WithinCores(s) == \A h \in DOMAIN s.cores : s.threads[h] <= s.cores[h]
OneHostHas(s, c, r) ==
    \E h \in DOMAIN s.cores : s.cores[h] - s.threads[h] >= c /\ s.ram[h] >= r

\* If no host runs more threads than it has cores, the idle cores are exact, and a host that
\* has the cores and the memory is found; but two hosts with one each are found as well, and
\* a host that runs too many threads has nearly 16 idle cores.
ASSUME IdleResources ==
    /\ \A s \in Busy : WithinCores(s) =>
          LET info == Res!BareMetalInformation(s, There, 0) IN
          /\ Res!GetTotalNumIdleCores(info) =
                Res!GetTotalNumCores(info) - s.threads["a"] - s.threads["b"]
          /\ \A c \in 1 .. 2, r \in 0 .. 2 :
                OneHostHas(s, c, r) => Res!IsThereAtLeastOneHost(s, c, r)
    /\ \E s \in Busy :
          WithinCores(s) /\ Res!IsThereAtLeastOneHost(s, 2, 2) /\ ~OneHostHas(s, 2, 2)
    /\ \A s \in Busy, h \in {"a", "b"} :
          s.threads[h] > s.cores[h] => Res!IdleCores(s, h) > 12

Token(t, n) == [text |-> t, number |-> n]
Spec1 == {<<Token(t, n)>> : t \in {"a", "b", "c"}, n \in -1 .. 3}
Spec2 == {p \o q : p \in Spec1, q \in Spec1}

\* A specification that is accepted is of a host of the service, or any, and of cores the
\* task can use, or any; a host whose name begins with a digit cannot be asked for alone.
ASSUME SpecsAreSound ==
    /\ \A tokens \in Spec1 \cup Spec2 :
          LET task == [min |-> 1, max |-> 2]
              spec == Res!ParseResourceSpec(tokens)
          IN  Res!AcceptedSpec({"a", "b"}, task, tokens) =>
                spec.host \in {"a", "b", ""} /\ spec.cores \in 0 .. 2
    /\ Res!ParseResourceSpec(<<Token("3d", 3)>>).host = ""

Machines == [name : {1, 2}, state : {"DOWN", "RUNNING", "SUSPENDED"}, host : {"a", "b"},
             cores : 1 .. 2, ram : {1}]

\* A cloud service whose machines fit on their hosts knows what the hosts have left; the
\* number of its hosts is that of its machines (CloudComputeService).
ASSUME CloudsKnowWhatIsLeft ==
    \A vms \in {{u, v} : u \in Machines, v \in Machines} :
        LET info == Res!CloudInformation(vms, There)
            on(h) == {vm \in vms : vm.host = h /\ vm.state # "DOWN"}
            taken(h) == MapThenSumSet(LAMBDA vm : vm.cores, on(h))
        IN  /\ info.num_hosts = Cardinality(vms)
            /\ \A h \in {"a", "b"} :
                  /\ taken(h) <= There[h].cores =>
                        info.num_idle_cores[h] = There[h].cores - taken(h)
                  /\ info.ram_availabilities[h] + Cardinality(on(h)) = There[h].ram
===============================================================================
