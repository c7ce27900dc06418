--------------------------- MODULE SimulationLaunch ---------------------------
(***************************************************************************)
(* What a simulator does before the simulation runs: Simulation.cpp        *)
(* (arguments, platform, services, staged files, launch), the workflow     *)
(* given to a WMS (WMS.cpp), and what starts while it runs.                *)
(*                                                                         *)
(* A simulation is a record; an operation gives a new one, with "error"    *)
(* naming what was thrown. A service is a record with its kind, a name,    *)
(* whether it has a scratch space, and whether it is UP; the services of a *)
(* simulation are a set, as are those started, with their auto-restart.    *)
(* The state of the disks of a host is of FileLocations.                   *)
(***************************************************************************)
EXTENDS Naturals, Sequences, FiniteSets

Kinds == {"compute", "storage", "proximity", "registry", "energy", "bandwidth", "memory"}

(* The flags WRENCH keeps for itself; it passes on the other arguments in    *)
(* their order, without --help, and then the ones that ask something.        *)
Features == [energy |-> "--wrench-energy-simulation",
             shutdown |-> "--wrench-host-shutdown-simulation",
             pagecache |-> "--wrench-pagecache-simulation"]
Quiet == {"--wrench-no-color", "--wrench-no-colors", "--wrench-full-log", "--wrench-full-logs",
          "--wrench-log-full", "--wrench-logs-full", "--help-wrench", "--wrench-help"}
Init(args) ==
  LET given == {args[i] : i \in DOMAIN args}
      kept(a) == a \notin Quiet \cup {Features[f] : f \in DOMAIN Features}
                          \cup {"--help", "--help-simgrid", "--wrench-version"}
      asked(flag, as) == IF flag \in given THEN <<as>> ELSE <<>>
  IN [features |-> {f \in DOMAIN Features : Features[f] \in given},
      engine |-> SelectSeq(args, kept) \o asked("--wrench-version", "--version")
                                       \o asked("--help-simgrid", "--help"),
      exits |-> given \cap {"--help-wrench", "--wrench-help"} # {},
      simulator |-> asked("--help", "--help")]

(* A simulation after init().                                                *)
New(features) ==
  [features |-> features, platform |-> "none", checked |-> FALSE, running |-> FALSE,
   wmses |-> {}, services |-> {}, staged |-> {}, entries |-> {}, started |-> {},
   error |-> "none"]

Fails(sim, error) == [sim EXCEPT !.error = error]

-----------------------------------------------------------------------------
(* The platform: its hosts, and for a host its disks, of which the mount     *)
(* point may not be given ("none").                                          *)

PlatformSanityCheck(hosts, bandwidths, features) ==
  IF \E l \in bandwidths : l = 0 THEN "invalid_argument"
  ELSE IF \E h \in hosts : ~h.sane \/ \E d \in h.disks : d.read # d.write
    THEN "invalid_argument"
  ELSE IF "pagecache" \notin features THEN "none"
  ELSE IF \E h \in hosts : \E d \in h.disks : d.mount = "none"
                            /\ \A e \in h.disks : e.mount # "/memory"
    THEN "null mount point"
  ELSE IF \E h \in hosts : \A d \in h.disks : d.mount # "/memory" THEN "invalid_argument"
  ELSE "none"

(* A platform that is refused stays SimGrid's platform.                      *)
InstantiatePlatform(sim, hosts, bandwidths) ==
  IF sim.checked THEN Fails(sim, "runtime_error")
  ELSE LET error == PlatformSanityCheck(hosts, bandwidths, sim.features)
       IN [sim EXCEPT !.platform = "loaded", !.checked = error = "none", !.error = error]

-----------------------------------------------------------------------------
(* Services, workflows and files. *)

(* The constructors of compute and storage services set their state UP.      *)
NewService(kind, name, scratch) ==
  [kind |-> kind, name |-> name, scratch |-> scratch, up |-> kind \in {"compute", "storage"}]

AddService(sim, service) == [sim EXCEPT !.services = @ \cup {service}]

NoWorkflow == [files |-> {}, inputs |-> {}, outputs |-> {}]
AddWMS(sim, name) == [sim EXCEPT !.wmses = @ \cup {[name |-> name, workflow |-> NoWorkflow,
                                                    given |-> FALSE]}]
AddWorkflow(sim, wms, workflow) ==
  IF wms.given THEN Fails(sim, "invalid_argument")
  ELSE [sim EXCEPT !.wmses = (@ \ {wms}) \cup
                             {[wms EXCEPT !.workflow = workflow, !.given = TRUE]}]

Of(sim, kind) == {s \in sim.services : s.kind = kind}

(* The registries there are get an entry for the file.                       *)
StageFile(sim, file, outputs, storage) ==
  IF sim.running \/ Of(sim, "registry") = {} \/ file \in outputs
    THEN Fails(sim, "runtime_error")
  ELSE [sim EXCEPT !.staged = @ \cup {<<file, storage>>},
                   !.entries = @ \cup {<<r, file>> : r \in Of(sim, "registry")}]

-----------------------------------------------------------------------------
(* launch(), and what is started while the simulation runs. *)

CheckSimulationSetup(sim) ==
  /\ sim.platform = "loaded"
  /\ sim.wmses # {}
  /\ \A w \in sim.wmses :
       /\ w.given
       /\ w.workflow.files # {} => \E s \in Of(sim, "storage") : s.up
       /\ w.workflow.inputs # {} => Of(sim, "registry") # {}
       /\ \A f \in w.workflow.inputs, r \in Of(sim, "registry") : <<r, f>> \in sim.entries

Scratch(s) == [kind |-> "scratch", name |-> s.name, scratch |-> FALSE, up |-> TRUE]

StartAllProcesses(sim) ==
  {<<w, FALSE>> : w \in sim.wmses}
  \cup {<<s, s.kind = "storage">> : s \in {s \in sim.services :
          s.kind \in {"compute", "storage", "proximity", "registry", "energy"}}}
  \cup {<<Scratch(s), FALSE>> : s \in {s \in Of(sim, "compute") : s.scratch}}

Launch(sim) ==
  IF ~CheckSimulationSetup(sim) THEN Fails(sim, "runtime_error")
  ELSE [sim EXCEPT !.started = StartAllProcesses(sim), !.running = TRUE]

StartNewService(sim, s) ==
  IF ~sim.running THEN Fails(sim, "runtime_error")
  ELSE [sim EXCEPT !.services = @ \cup {s},
                   !.started = @ \cup {<<s, FALSE>>} \cup
                               (IF s.scratch THEN {<<Scratch(s), FALSE>>} ELSE {})]

(* A WMS whose workflow starts later waits for an alarm, the first message   *)
(* in its mailbox; what it does with an event.                               *)
CheckDeferredStart(date, start, message) ==
  IF date >= start \/ message = "AlarmWMSDeferredStart" THEN "starts" ELSE "runtime_error"

Handlers ==
  [StandardJobCompleted |-> "processEventStandardJobCompletion",
   StandardJobFailed |-> "processEventStandardJobFailure",
   PilotJobStarted |-> "processEventPilotJobStart",
   PilotJobExpired |-> "processEventPilotJobExpiration",
   FileCopyCompleted |-> "processEventFileCopyCompletion",
   FileCopyFailed |-> "processEventFileCopyFailure",
   Timer |-> "processEventTimer"]
=============================================================================
