# TLA+ specifications of WRENCH

WRENCH simulates workflow management systems (WMSs): a WMS submits the tasks of a
workflow to simulated compute services, and moves files between simulated storage
services. Every service is an *actor*, or several, run by the SimGrid kernel; actors
talk through mailboxes, and are killed, suspended and restarted. This directory
models how the services of WRENCH coordinate. It says nothing of SimGrid's simulated
durations except where a service takes a decision from a date.

Paths start at the directory that holds `tla/` and the repository, `src/`; `S/` stands
for `src/src/wrench/`.

1. [The system](#1-the-system): the components
2. [The modules](#2-the-modules): what models what, and how
3. [The runs](#3-the-runs): what is checked, within which bounds
4. [Fairness](#4-fairness)
5. [The proofs](#5-the-proofs)
6. [What the work found in the code](#6-what-the-work-found-in-the-code)
7. [Not modelled](#7-not-modelled) and [plan](#8-plan) of what remains

## 1. The system

A WRENCH actor runs alone between two blocking calls: SimGrid schedules actors one at
a time, and a call that sends, receives, sleeps or computes may let any other actor
run. Hence a *step* of every module is what an actor does between two blocking calls,
and the interleavings are those of the steps. A mailbox with a permanent receiver keeps
messages in the order they were sent. A daemon reads its mailbox one message at a time,
and services have state that other actors read without a message (a WMS reads the
task graph, a client reads the cloud's `vm_list` in its own thread).

| component | state it keeps | operations | interacts with | what is hard | what makes it correct |
|---|---|---|---|---|---|
| **Workflow, tasks** (`S/workflow/`) | the task graph, with vertex numbers and levels; per task an *internal* state (where the services have brought it), a *visible* one (what the WMS has been told), an upcoming one, a failure count | tasks, files and edges added and removed; ready, pending, completed; completion makes children ready | written by the executors, the JobManager and the WMS | three actors write the states, at different times | a task runs after its parents; none is forgotten; the WMS's view is a late copy of the truth |
| **JobManager** (`S/managers/JobManager.cpp`), jobs, events | sets of new, pending, completed, failed jobs; per job a stack of callback mailboxes | create, submit, terminate (in the WMS's thread); completions and failures (in the daemon) | calls services, receives their notifications, sends events to the WMS | calls and notifications cross; a submission that throws is undone | no job is lost, no task is in two live jobs, each job is reported |
| **WMS** (`S/wms/`) | its mailbox | reads events, applies the task changes they carry | JobManager | reads late and in any order | |
| **Bare-metal compute service** (`S/services/compute/bare_metal/`, with the workunits and executors of `S/helper_services/work_unit_executor/`) | workunits (waiting, ready, dispatched, completed), threads and RAM per host, running jobs | submit, terminate, executor done, failed, crashed, host on or off, stop, dispatch | client's callback mailbox, executors, detectors | executors die with hosts; messages of executors that are forgotten | resources add up, workunits are in one place, no starvation, one notification per job |
| **Standard job executor** (`S/helper_services/standard_job_executor/`) | cores and RAM per host, workunits of one job | the same, for the batch service | batch service | the crash of a workunit's executor | resources add up |
| **Batch compute service** (`S/services/compute/batch/`) | queue, running jobs, free nodes and cores, executors, alarms | submit, start, complete, fail, time out, terminate, stop; standard and pilot jobs | scheduler, executors, alarms, client | a job's end crosses its alarm or its termination | nodes add up, jobs end, promises of the scheduler hold |
| **Batch schedulers** (`.../batch_schedulers/homegrown/`) | FCFS: nothing; conservative backfilling: a time line with slots of nodes (or cores), dates of each job | submission, start, completion, termination, failure, estimates | called by the batch service | truncated dates, unsigned counts, moving reservations | no overcommitment, a reservation never gets later |
| **HTCondor** (`S/services/compute/htcondor/`) | pending jobs, services of the pool, two flags that say whether to negotiate | submit, negotiate, complete, pilot jobs, add a service, stop | three actors, and the pool's bare-metal and batch services | the negotiator works on copies | jobs are dispatched once, and whenever possible |
| **Cloud, virtualized cluster** (`S/services/compute/cloud/`, `.../virtualized_cluster/`, `S/simgrid_S4U_util/S4U_VirtualMachine.cpp`) | VMs with a state, a host and a bare-metal service; used cores and RAM per host | create, start, suspend, resume, shut down, destroy, migrate, stop | clients, the VMs' services, detectors | a VM's service ends while requests about it wait; hosts fail | counters add up, live VMs are served, lost ones reclaimed |
| **Storage services** (`S/services/storage/`) | logical file system (files, reservations, occupied space), pending and running transfers | write, read, copy, delete, lookup, free space | clients, each other | connections are limited, space is reserved before it is used | space adds up, transfers end |
| **Data movement manager** (`S/managers/DataMovementManager.cpp`) | pending copies and writes | asynchronous copies, writes, deletions | storage services, file registry, WMS | a copy that fails; two of the same | the registry does not promise what is not there |
| **File registry** (`S/services/file_registry/`) | locations of each file | add, remove, look up, by proximity | data movement manager, network proximity | answers are old when used | |
| **Network proximity** (`S/services/network_proximity/`) | measurements, coordinates, peers of each daemon | measure, query | its daemons, on hosts that fail | requests to peers that are down | every pair is measured in the end |
| **Memory manager** (`S/services/memory/`) | lists of blocks, dirty, cached and free memory | read and write through the cache, flush, evict | storage services | a flush waits for the disk while blocks are evicted | memory adds up |
| **Service life cycle** (`S/services/Service.cpp`, `S/simgrid_S4U_util/S4U_Daemon.cpp`, detectors, alarms) | state of a service, of its actor | start, stop, suspend, resume, kill, restart | everything | an actor killed at any blocking call | |
| **Pilot jobs** (`S/workflow/job/PilotJob.cpp`, and handlers in JobManager, batch service, HTCondor) | per pilot job a stack of callback mailboxes, a bare-metal service on its nodes, an alarm | submit, start, expire, terminate, stop | JobManager, batch service, HTCondor, standard jobs inside the pilot job | its end crosses its alarm, its termination and the stop of its service | no service outlives its nodes, the WMS is told of each start and expiration once |
| **Workunit executors** (`S/helper_services/work_unit_executor/`) and execution history (`WorkflowTask`) | phase, the files already read or written, what on_exit will do | read, compute, write, copy, killed, host off | storage services, timestamps | killed at any blocking call | state, history and timestamps tell one outcome |
| **Simulation** (`S/simulation/`), output, timestamps, meters | what was added and started, pending starts of operations, samples | add, launch, stage a file, start later; stamp; measure | everything | ends paired with the wrong starts | a launch that succeeds has started everything |
| Parsers, tools, logging, utilities | | | | | see [Not modelled](#7-not-modelled) |

The hazards of this code, each at the line where it bites and with the properties that
watch it, are listed in `PROJECT.json`.

## 2. The modules

State machines, each checked by a run of its own, and the proofs about them:

```
WorkflowTasks ──> JobManager ──(refines)──> WorkflowProgress
      │               └── WMSProofs
      └─────────> StandardJobExecutor ── StandardJobExecutorProofs
                  WorkflowGraph ── WMSProofs
                  BareMetal ── BareMetalProofs
NodeTimeLine  ──> Batch ── AllocationProofs
                  PilotJobs
                  HTCondor ── HTCondorProofs
                  SimpleStorage ── SimpleStorageProofs
                  DataMovement ── WMSProofs
                  CloudVMs ── AllocationProofs
                  PageCache
Timestamps    ──> TaskExecution ── TaskExecutionProofs
```

The proofs about BareMetal, Batch, StandardJobExecutor, HTCondor, SimpleStorage, CloudVMs,
TaskExecution and WorkflowGraph INSTANCE `FoldProofs` for the loops of the code. The proofs
about what a WMS drives, its workflow and its two managers, are in one module, in which
`WorkflowGraph` and `DataMovement` have names of their own (`GraphSpec`, `DataSpec`); so are
those about the two services that allocate machines, batch and cloud (`VMSpec`).

Algorithms and tables, written as operators without variables, and evaluated over all
small inputs by the assumptions of an MC module:

```
MCBareMetal      ComputeResources                MCHTCondor        Messages
MCBatch          CoreTimeLine, WorkloadTrace     MCDataMovement    NetworkProximity
MCPilotJobs      BatchEstimates                  MCCloudVMs        ServiceLife
MCSimpleStorage  FileLocations, SimulationLaunch MCTaskExecution   HostUtilization
```

An `MC…` module gives the constants of a component for model checking; its `.cfg`
files are the runs. Comments marked `mutant` in a module show definitions that are not
part of the model: each is a plausible bug in the code which violates one of the
properties when it replaces the definition below it.

Variables and actions keep the names of the fields and functions they stand for. An
exception that no code catches ends the simulation: such steps set `aborted` (`thrown` in
`DataMovement`, `ended` in `WorkflowGraph`, `condition` elsewhere), after which nothing happens, and are not hidden. `PROJECT.json` gives, for
every definition that models code, the lines it stands for.

### Workflow and jobs

**WorkflowTasks** — the task graph, the states of `WorkflowTask`, the sanity checks of
`setState`, what completing a task does to its children. No variables: the states are
variables of `JobManager`.

**WorkflowGraph** — a workflow that a WMS builds and changes while its tasks run. The
graph is Boost's, whose vertex numbers shift when a vertex is removed, beside maps that
`DagOfTasks` and `Workflow` keep in step with it; tasks, files and dependencies are added
and removed, each change updates top levels and readiness as the code does, and the
queries (ready tasks, clusters, levels, completion date) are operators. A file keeps the tasks
that read it under their identifiers, and keeps those of removed tasks: `inputOf` has the
former, `dangling` the latter, because an identifier may be used again and the new task is not
the one the file points to. (A file that is given an output while it has such a pointer ends the
simulation here: the code follows the pointer.)

**WorkflowProgress** — what is promised to a WMS: the set of the tasks it sees completed
only grows, and always contains the parents of its members.

**JobManager** — the WMS's thread calls `submitJob` (`SubmitCalled`… then the answer,
a refusal, or the time-out of the request) and `terminateJob`; the service accepts or
refuses, starts the tasks of its jobs when their workunits are released, completes or
fails them, and stops; the daemon handles one notification at a time
(`processStandardJobCompletion`, `processStandardJobFailure`), builds the task changes
and sends the event to the mailbox on top of the job's stack; the WMS reads an event and
applies its changes whenever it wants. The service here is the bare-metal one, one job
or task at a time: everything about hosts is in `BareMetal`. `callbacks[j]` is only a
depth because every mailbox on the stack, apart from the WMS's at the bottom, is the
JobManager's.

**PilotJobs** — a pilot job from its submission to its end, through four actors: the
JobManager, HTCondor's central manager for those that go through a pool, the batch service
(here with its first-come first-served scheduler, `FIRSTFIT`, `BESTFIT` or `ROUNDROBIN`)
and the bare-metal service it starts on the nodes, to which standard jobs are submitted.
The stack of callback mailboxes is kept mailbox by mailbox: a notification of a start is sent
to its top without a pop, that of an expiration with one. A pilot job ends by its alarm, by its
termination while it waits or runs, because the WMS stops its service itself, or with the
batch service. Dates are left out: an alarm may ring any time after the start was reported.

### Compute services

**BareMetal** — one daemon, its mailbox, its executors and the detectors of hosts that
are turned off. `ServiceStep` reads one message, then dispatches as
`dispatchReadyWorkunits` does: the ready workunits in order, each to the host
`pickAllocation` prefers, with hosts kept free for a workunit that waits for RAM. Thread
counts are unsigned words of `WordSize` values. A message carries `known`, whether its
executor still is in `workunit_executors`, because executors of the same workunit are not
told apart otherwise. What an executor does between its start and its message is in
`TaskExecution`.

**StandardJobExecutor** — the executor of one job on a batch allocation. `createWorkunits`
cuts the job into workunits (overheads, copies, tasks, cleanup) and makes their graph;
`dispatchReadyWorkunits` picks tasks by `TaskSelection` and hosts by best fit; completions,
failures and crashes are handled one message at a time; the executor runs on one of its
hosts and dies with it. The answer comes before the end: the files it left in scratch space are
then deleted one after the other, each by a request (`AskDeletion`), the service's step
(`ScratchDeletes`) and its answer, which may be too late; a kill or the failure of the host may
come between any two of these (`daemon` is "ending"), and leaves the rest of the files. Core
counts are unsigned words: the crash of a workunit executor takes its cores a second time,
and the model does as the code (`damaged` remembers on which hosts).

**TaskExecution** — what each workunit executor does: read the inputs, compute, write the
outputs, with `on_exit` when it is killed or its host goes off, between any two blocking
calls; the copies beside it; the execution history of each task; and every stamp it puts in
the book of **Timestamps**, where an end looks for the pending start of its key. Tasks that
read the same file at the same place share a key. **HostUtilization** is what
`SimulationOutput` makes of it: the instances of executions, and the backtracking search for
a layout in which no two share a core. The dates of the energy and bandwidth meters are there too.

**NodeTimeLine** — the `NodeAvailabilityTimeLine` of the conservative backfilling
scheduler, as the set of jobs with a reservation at each date. The walk of
`findEarliestStartTime`, with its unsigned subtraction, is kept as it is.

**Batch** — the batch service and this scheduler. The clock runs in ticks, of which
`Resolution` make a second, for the scheduler truncates dates. A job that is accepted gets
a reservation; after each message `processQueuedJobs` starts those whose slot has come if
there are free nodes; a started job has an executor and an alarm. Nodes are counted:
the scheduler gives whole nodes, and which ones matters to nobody. Terminating a queued
job gives it a reservation again; `ghosts` are the jobs this happened to.

**CoreTimeLine** — the backfilling scheduler that shares nodes: its time line of cores,
its walk, its compaction, as operators on a state. **BatchEstimates** — what a batch service
answers without a change: the predictions of start dates (with the plain simulation of the
first-come first-served scheduler to compare them with), the queue, the checks of a
job's arguments. **WorkloadTrace** — the two readers of traces, a fold over lines, and the
replay.

**HTCondor** — the front end (which reads the services of the central manager, an actor
of its own), the central manager and a negotiator; jobs of a single task, on bare-metal
services of one host that take jobs from this pool only (so that the idle cores it asks
for are those its jobs leave). Each job has its stack of callback mailboxes.

**CloudVMs** — the cloud and virtualized cluster services. Requests come from any number
of clients, of which at most `MaxPending` have one in the mailbox, and a client that gives
up after the network timeout leaves its request there. Each started VM has a bare-metal
service, of which only the end matters; the detector's message is appended to the
cloud's mailbox when it ends. Abstractions: RAM is accounted like cores, so one counter
stands for both; which of the hosts with room `findHost` picks depends on the allocation
algorithm and is left open; stopping a VM's service is one step and is always
answered; names of VMs are not used again; a host is not turned off while a VM boots or is
suspended there, and stays off until the services of its VMs have noticed. What SimGrid
does with a VM whose host is off (it throws) is taken from how the code uses it.

**ComputeResources** — the resources a bare-metal service takes, the specifications of a
task's host and cores (`"host:cores"`) that are accepted, and what each kind of service
answers about cores, memory and hosts.

### Files

**SimpleStorage** — several storage services and their clients. A client is a caller
blocked in `StorageService::writeFile`, `readFile` or `deleteFile`, or a copy started by
`initiateFileCopy`. The transfer of a copy is a thread of the destination, which reads
from the source like a client does: this is where services wait for each other. Callers, and
the transfers of copies, give up on an answer after the network timeout (`GiveUp`,
`FetchTimesOut`), but the request stays in the service's mailbox: when it is accepted, its
transfer has nobody at the other end and keeps its connection. The stages `gone` and `late`
say so. The acknowledgment at the end of a write is waited for with the same timeout, but giving
up on it changes nothing for the service, whose transfer is through.

**FileLocations** — paths and their sanitized form, the mount point of a path, and the
`LogicalFileSystem` behind it: files, directories, reservations, free space.

**DataMovement** — a WMS in its own thread, the daemon of the data movement manager, and
the file registry. The WMS's calls block in turn (a synchronous copy, then the registration,
for instance), and give up when an answer is late, which leaves a request in the registry's
mailbox. A storage service is the set of its files and the deletions it has not handled. A copy is
under way, then its source sends the file, which may be deleted there from then on, and ends
with success or without. A deletion is three steps: the WMS asks (`StartDeletion`), the storage
service deletes and answers (`DeleteFile`), the WMS tells the registry (`Unregister`). At any of
them the WMS may give up (`DeletionTimesOut`): a request that was not handled is kept in `late`
and handled later (`DeleteFileLate`), and the registry is never told. `blamed` keeps the places of
such deletions and the destinations that the manager registered for failed copies, until the
registry is told of a deletion there.

**NetworkProximity** — the table of measures, Vivaldi's coordinates, the choice of peers, the
rounds of a daemon. The registry's question to this service is a step of `DataMovement`.

**PageCache** — the memory manager, its two lists of blocks, split, merged, balanced, flushed
and evicted as in `MemoryManager`, its daemon, and the chunks tasks read and write with
`readWithMemoryCache`, `writebackWithMemoryCache` and their variants. A step ends where the
actor waits for a disk or for memory, so that a block may have changed when the disk is
through with it. `owed` counts what was written and has not reached the disk.

### Everything

**ServiceLife** — start, stop, suspend, resume, kill, the failure of a host and the restart of
an actor with it, as outcomes of operations on a service; its MC module computes all services
that seven operations lead to. **SimulationLaunch** — arguments, platform checks, services,
staged files and `launch()`, likewise. **Messages** — the messages as tables: what each
kind carries, what its constructor refuses, who is sent it and who understands it.

## 3. The runs

`tlc -config X.cfg MCX` in this directory. The states are those of the instance given.

| run | module, config | states | what it shows |
|---|---|---|---|
| `job_manager` | MCJobManager, JobManager.cfg | 60,219 | jobs are not lost or duplicated, tasks run in order, none is left behind, the WMS's view is a correct, late one |
| `bare_metal` | MCBareMetal, BareMetal.cfg | 108,805 | resources, workunits and notifications are accounted for; the host is not idle without reason; no starvation |
| `batch` | MCBatch, Batch.cfg | 188,510 | nodes and jobs are accounted for; reservations are coherent and never postponed; every job ends |
| `htcondor` | MCHTCondor, HTCondor.cfg | 115,290 | no job is lost or given out twice; the flags tell the truth; jobs end unless resources are believed unavailable |
| `simple_storage` | MCSimpleStorage, SimpleStorage.cfg | 452,498 | space, reservations and connections are accounted for; requests are answered unless given up or a service is jammed |
| `cloud_vms` | MCCloudVMs, CloudVMs.cfg | 145,103 | cores are accounted for; live VMs have live services; lost VMs are reclaimed |
| `standard_job_executor` | MCStandardJobExecutor, StandardJobExecutor.cfg | 49,694 | workunits run in order within the allocation; a job that is answered runs no more and is not undone; every executor ends |
| `workflow_graph` | MCWorkflowGraph, WorkflowGraph.cfg | 2,521,393 | indexes, levels, readiness and completion date stay those of the graph |
| `pilot_jobs` | MCPilotJobs, PilotJobs.cfg | 544,744 | no service outlives its nodes; events come once and in order; the jobs inside end |
| `page_cache` | MCPageCache, PageCache.cfg | 146,629 | the counters agree with the blocks, no dirty data is lost, all of it is written |
| `data_movement` | MCDataMovement, DataMovement.cfg | 596,548 | the pending copies are those under way, the registry is truthful but for failed copies and deletions that timed out, copies are reported |
| `task_execution` | MCTaskExecution, TaskExecution.cfg | 240,772 | ends are paired with starts of their own; history, timestamps and states tell one outcome |

All say `CHECK_DEADLOCK FALSE`: in all of these systems everything comes to rest when the
WMS, or the clients, have nothing more to ask for (requests are bounded), when a service
has stopped, and when an uncaught exception has ended the simulation. That nothing rests
too early is what the liveness properties and `NoStuckTask`, `WorkConserving`,
`NegotiationIsOn`, `ConnectionsUsed` say.

**job_manager.** A workflow `a -> c <- b`, `c -> d`, with jobs `{a}`, `{b}`, `{c,d}` and a
second way to run `d` alone, on two services of which one has scratch space and the other
may stop; `d` may fail once, the job of `a` may be terminated. The join makes two jobs
concern one child; the two-task job has a dependency inside; the job that wants scratch
space makes `submitJob` throw; the service that stops fails jobs and refuses others while
calls to it are under way.
*NoLostJob*; *TasksAreSafe* (never two live jobs with one task, never a task before its
parents, no state a handler declares impossible); *NoStuckTask*; *JobsAreReported*; and the
refinement of `WorkflowProgress` (*ImplementsProgress*).
Bounds: `MaxFailures` = 1 (a task fails, is retried, and succeeds or not),
`MaxCallbacks` = 2 (a submission that failed and a second one).

**bare_metal.** A host of two cores and two units of RAM; a job in two stages, of which
the second takes all the RAM; two small jobs of one unit submitted again and again, one of
which can fail and the other be terminated. At most two troubles (a termination, a host
turned off, a stop) happen: two are needed for a message of an executor that is gone, or
for the crash of an executor whose workunit was run again. *ResourcesAccounted*;
*JobsAreTracked* (a workunit is in one place, starts after its parents, and the submitter is
told once); *WorkConserving*; *EveryJobEnds*. The same properties held on two hosts with two
troubles (285,000 states). The assumptions evaluated with it: a service has the cores it was
given (*InstancesHaveCores*) but all the memory of its hosts (*MemoryIsNotLimited*); idle
cores are exact on hosts that are not oversubscribed (*IdleResources*); the specifications
that are accepted can be met (*SpecsAreSound*); a cloud knows what its hosts have left
(*CloudsKnowWhatIsLeft*).

**batch.** Two nodes and four jobs submitted in any order at any of the half seconds of
the first second and a half: one of one node and two seconds, one of two nodes that has
to wait and may be terminated, one of one node that can be backfilled (and can fail), one
too large for the cluster. `Resolution` = 2 is what it takes for dates to be truncated; the
horizon leaves room for all jobs one after the other, and the clock stops long after.
`Latency` = 0: alarms arrive when they ring (with late alarms, delays add up over many jobs,
and a slot can pass before its job starts). *NodesAccounted*; *NoLostJob* (a job is queued
or runs, not both, and has a coherent reservation while it is queued); *PromisesKept*;
*EveryJobEnds*; the last three make no promise about reservations once a queued job has been
terminated. Assumptions: the walk of the time line of cores is exact while reservations only
end (*WalkIsExact*) and too short a gap is found when they do not (*GapIsTooShort*); all jobs
start (*AllJobsStart*); the traces read are valid, up to a negative date (*TracesAreValid*);
the first job is on time (*FirstJobIsOnTime*), but for an invalid line before it
(*InvalidJobCounts*); the jobs replayed have the time they need (*ReplayedJobsHaveTime*).

**htcondor.** A pool with a service of two cores which one of a single core may join at
any time; jobs that need two cores, one or two, one (first by its priority), and three,
which no service has. A job may fail, which ends the simulation, and the pool may stop.
*NoLostJob* (with: dispatched once), *NegotiationIsOn*, *EndsUnlessUnavailable*. Two services and
three jobs that fit are enough for a negotiation to overlap with a submission, a
completion and another service. Assumptions on the tables of messages: no request without a
mailbox for its answer (*RequestsAreAnswerable*), answers that explain failures
(*FailuresAreExplained*), consistent answers of storage services (*StorageAnswersAreSound*), and
who understands what (*MessagesAreUnderstood*, with the four kinds nobody handles).

**simple_storage.** Two services with one connection each, disks of three and two units,
files of one and two units, of which one is there at the start; two clients with two
requests each, any of the four kinds, with copies in both directions, whose transfers may be
cut, and who may give up on an answer.
*SpaceAccounted*: space is reserved for transfers only; what is counted as occupied covers what
is stored and what is coming, except the second of two transfers of one file, since both have one
reservation (section 6: when the first fails, the space of the second is counted as free); and
it is exact and within the capacity until a file is asked for that the service has or is getting.
*ConnectionsUsed*. *EveryRequestEnds*: a request is answered and leaves no transfer, unless its
caller gave up or a service it needs is jammed; `Jammed` says which transfers can take all
connections for ever: those nobody is at the other end of, and copies that wait for each
other. Both happen in the instance. Assumptions: sanitizing
(*SanitizingIsStable*), locations and mount points (*LocationsAreExact*, *MountsAreConfused*),
the space of a file system over all sequences of six operations (*OccupiedIsExact*,
*EmptiedDirectoriesKeepSpace*), a mount point named twice (*SecondNameIsDead*); and of the launch,
over all simulations nine calls make: *LaunchesAreSound*, *RegistriesComeFirst*,
*RefusedPlatformsStay*.

**cloud_vms.** Two hosts, of two cores and of one, of which the first may fail at any time;
three VMs, one that fits only on the first, one that fits on both, one too large; six
requests, of which two at a time may wait. Six requests are a VM created, started,
stopped and started again with one or two requests of another client in between, which is
what the errors below take. *CoresAccounted*, *LiveVMIsServed*, *LostVMsAreReclaimed*.
Assumptions over the life of a service: the state tells whether there is an actor
(*StatesTellActors*), what cannot be started again and what can (*FailedStartsAreFinal*,
*EndedServicesRestart*), and a stop that comes late (*SuspendedServicesStopLater*).

**standard_job_executor.** Three tasks, the third after the other two; the job has no other
workunit, or copies and a cleanup, or a pre-overhead, a copy, a cleanup and a post-overhead;
hosts of two and three cores, either of which may be turned off, twice in all; the first
task and the post copy may fail; the executor may be killed; one of the allocations asks for
more cores than a host has and is refused. Two failures of hosts are what it takes for a
workunit that was run again to crash again, and for cores to be taken twice from one host.
*RunningIsInOrder* (stages and parents first, cores and RAM within the allocation and accounted
for); *EndedJobIsQuiet* (from the answer on nothing runs and nothing is undone, through whatever
crosses the deletions in scratch, and a return after "done" leaves no file there); *JobEnds*, but
for a scratch service that does not answer, which ends the simulation.

**workflow_graph.** All workflows of up to three tasks and a file, built in any order, with
up to two parallel edges, one removal of a task or a dependency, and tasks that execute in between;
the clock goes to 3. Three tasks are enough for a path that makes an edge redundant, for
levels that change at a distance, for a removal in the middle of the vertex numbers, and for an
identifier that is used again.
*GraphIsSound* (indexes and levels), *ReadyWhenParentsCompleted*, *CompletionDateIsLast*.

**pilot_jobs.** Two hosts of two cores; a pilot job of one core on both, one of two cores on one
that goes through HTCondor, a standard job of one core, and a standard job inside the first
pilot job. The first pilot job may be terminated, and its service may be stopped by the WMS; the
batch service may be stopped. *NodesAccounted*, *EventsInOrder*, *InnerJobsEnd*. Hosts are
selected by `FIRSTFIT`: `BESTFIT` and `ROUNDROBIN` are operators of the module that this instance
does not choose, so the run says nothing of them. Assumptions: start
predictions are exact for whole nodes (*EstimatesAreExact*) and not when jobs share them
(*SharedNodesMislead*); accepted jobs are sound (*AcceptedJobsAreSound*); the queue shows each
job once (*QueueIsComplete*).

**page_cache.** A memory of eight units, files of 2, 2, 1 and 1, two tasks with a few chunks
each, dirty data limited to two fifths. Eight units are less than the files and
the memory of the tasks themselves need, so blocks are flushed and evicted while the other task or the daemon waits for
the disk. *CachedAccounted*, *DirtyDataIsKept*, *EverythingIsWritten*.

**data_movement.** One file on the first of three storage services, three calls of the WMS.
Three services are needed for two copies to different places, of which one is deleted while
the other is under way; three calls for a copy, a deletion and a registration that cross, or a
copy, a deletion that is given up, and one that finds nothing or is behind it. *RegistryIsTruthful*
excepts the places in `blamed`, and one whose deletion is answered and not told yet.
`Down` = {}: with a service that is down the first property is false (section 6).
*PendingIsUnderWay*, *RegistryIsTruthful*, *CopiesAreReported*. Assumptions about the proximity
service: *EveryOtherPeriod*, *DistancesHaveADirection*, *MovesAreTurned*, *PoolsAreShared*,
*FirstCoordinates*.

**task_execution.** Two tasks that read one file at one place, one of which reads another that
is being copied, one of which writes two; a third without files; one execution or copy is
started again, and there is one kill, termination or host failure. *StampsArePaired*, *OneOutcome*.
Assumptions: merged samples keep what changes (*MergingKeepsRuns*), a layout is found when
there is one (*LayoutsAreFound*), a meter measures at its multiples and at no other date
(*MetersKeepTheirPeriods*).

## 4. Fairness

SimGrid runs every actor that can run, and simulated time passes. What the specifications
assume is only that: a daemon with a message handles it, a computation, transfer or
executor that has started is through one day (not in `Batch` and `PilotJobs`, where the
alarm is what ends a job), a detector reports a crash, an alarm rings, a caller that waits
for an answer that will not come gives up, time passes. All of it is weak fairness: no step
is assumed of an actor that must win a race. Nothing is assumed of the WMS and of clients,
who may stop reading events or making requests (once a call was made, its caller is waiting,
and does what follows: `WMSReturns` of `DataMovement`; deletions that storage services were
asked for are handled, `Deletes` there and `ScratchDeletes` in `StandardJobExecutor`, whether
in time or not), nor of timeouts, which may come or not, nor of failures: hosts that are off
may stay off, with two exceptions. `EveryJobEnds` of `BareMetal` says that hosts are on in
the end, as its premise. In `StandardJobExecutor` hosts are turned on again, because the
code waits for it: an executor whose hosts are all off has nothing else to do.

Where a step is enabled exactly when a predicate holds, weak fairness is written with that
predicate, for example `<>[]HasMessage => []<><<ServiceStep>>_vars` in `Batch`,
`BatchHasWork` in `PilotJobs`, `CanGoOn(t)` and `DaemonMay` in `PageCache`: it is the same,
and TLC need not compute whether a large action is enabled. In `PageCache`, dirty blocks
expire one day.

`TaskExecution` and `WorkflowGraph` have no liveness property and assume nothing.

## 5. The proofs

`tlapm XProofs.tla`. All are about every value of the constants that satisfies the
assumptions of the module, and use no fairness.

| Module | Theorem | States |
|---|---|---|
| WMSProofs | `WorkflowGraphIsSound` | `[]GraphIsSound` |
| | `WorkflowReadiness` | `[]ReadyWhenParentsCompleted` |
| | `WorkflowCompletionDate` | `[]CompletionDateIsLast` |
| | `TypeCorrect` | `[]TypeOK` of `JobManager` |
| | `JobsAreNotLost` | `[]NoLostJob` of `JobManager` |
| | `CopiesArePending` | `Down = {}` implies `[]PendingIsUnderWay` |
| | `RegistryTellsTheTruth` | `[]RegistryIsTruthful` |
| BareMetalProofs | `TypeCorrect` | `[]TypeOK` |
| | `ResourcesStayAccounted` | `TasksAreKilled` implies `[]ResourcesAccounted` |
| | `JobsStayTracked` | `[]JobsAreTracked` |
| | `WorkIsConserved` | `[]WorkConserving` |
| HTCondorProofs | `FlagsTellTheTruth` | `[]NegotiationIsOn` |
| | `NoJobIsLost` | `[]NoLostJob` |
| AllocationProofs | `LiveVMsAreServed` | `[]LiveVMIsServed` |
| | `CoresAreAccounted` | `[]CoresAccounted` |
| | `NodesStayAccounted` | `[]NodesAccounted`, the types of `Batch` included |
| | `AcceptedJobsAreHeld` | `[]NoLostJob` of `Batch` |
| StandardJobExecutorProofs | `ExecutorRunsInOrder` | `[]RunningIsInOrder` |
| | `EndedExecutorIsQuiet` | `[]EndedJobIsQuiet` |
| | `NothingUnexpectedHappens` | only the deletion of a missing file ends the simulation |
| | `ExecutorTypes` | `[]TypeOK` |
| SimpleStorageProofs | `SpaceIsAccounted` | `[]SpaceAccounted` |
| | `ConnectionsAreUsed` | `[]ConnectionsUsed` |
| | `TransfersStayTracked` | where requests, transfers and messages are (`ServiceFine`) |
| TaskExecutionProofs | `OutcomesAreOne` | `[]OneOutcome` |
| | `StampsStayPaired` | `[]StampsArePaired` |

So every safety invariant that is checked of these components is proved, but for two of
`JobManager`.

**FoldProofs.** The code's loops are sums over sets and folds over sequences, which are
defined by recursion. The provers cannot apply an induction theorem, so each fact is proved
from a minimal counterexample: of the subsets of the fold's domain that violate it one is
minimal (`MinimalSubset`, from the well-foundedness of strict inclusion on finite sets), and
taking an element from it leads to a smaller one. First the fold exists and is unique; then
a sum with one element more is what it should be (`SumAdds`), is not negative (`SumType`),
is the same for functions that agree (`SumAgrees`) and splits over disjoint sets (`SumSplits`);
and what each step of a loop keeps, the loop keeps (`FoldRuns`, `FoldKeeps`). The step is
the constant `op`, so a module INSTANCEs `FoldProofs` with the body of its loop.

**WMSProofs**, the workflow. For any identifiers, files and clusters, any redundant
dependencies, and any bounds. The inductive invariant `GraphInv` has one part for each thing the
workflow keeps beside its arcs: `Indexed` (each task is found by its number, and edges join
vertices in use; `VertexRemoved` is about the renumbering), `Acyclic`, `LevelledBut` with no
exception, `ParentsFirst` and `NoneForgotten` for states, `DatesPast`, `FilesKnown` and
`FilesFollow` (while nothing was removed, who reads a file is behind who outputs it, though
perhaps not as a child: the dependency may have been found redundant).
Acyclicity is what the rest depends on, and is stated without paths: each set of vertices
has one that no arc enters from the set. It says that the recursion of `updateTopLevel` has a
result (`LevelExists`, by a minimal set of vertices without levels) and one only
(`LevelIsUnique`), so that the function of the model is what its equations say
(`UpdateIsLevel`). Then an update makes right the levels behind a task and leaves the others,
which were (`LevelsAreRight`), and the loop over the children of a removed task leaves none
wrong (`LevelsFolded`). It is kept because `addControlDependency` adds no arc along which there is
a path back (`AcyclicWithArc`); the search for that path is `Behind`, the least set with its source
that no arc leaves (`ReachedIsBehind`). The deepest task, and the one that completed last,
have no child: hence `GetNumLevels` counts all levels, and the completion date is the last.
Assumed: identifiers are natural numbers, finitely many.

**WMSProofs**, the job manager.
`TypeCorrect` holds by induction without strengthening. What is not immediate is that what
leaves one mailbox is what can enter another, and that `popCallbackMailbox` leaves an empty
stack empty (`PoppedType`, `ReportType`, `NotifyAllType`). It needs finitely many jobs: a
service that stops notifies all of those it runs, in some order.
`JobsAreNotLost`. `NoLostJob` is not inductive: a service that stops kills all its executors,
but notifies the submitters of the jobs of `running_jobs` only, so a job of `all_workunits`
that was not in `running_jobs` would be lost. The inductive invariant `IInv` adds
`HeldJobsRun`, that there is no such job. The argument has one lemma per actor;
`AboutMailbox` and `AboutConcat` say that a notification stays in a mailbox until it is the
first and is handled.

**BareMetalProofs.** The inductive invariant `Inv` has a part for the state's types, one for the
resources (`Resources`: on each host the capacity is what is free and what the executors
there use), one for the queue (`QueueFine`: ready workunits are distinct, and while no `HostOn`
waits the first of them fits nowhere), and one for each workunit and job
(`WorkunitFine`, `JobFine`: a workunit is waiting for its parents, ready, executing or done,
never two of these; an executor is through exactly when its message is in the mailbox, and
there is one at most; the submitter makes one call at a time).
Most of the work is the dispatch: the loop of `dispatchReadyWorkunits` keeps the resources
because each turn does (`DispatchOneKeeps`, then `FoldKeeps`), and a turn does because the host
that `pickAllocation` prefers exists and is possible (`HostsAreOrdered`: comparing loads by
flop rate, then number, is an order; `BestHost`). That `WorkConserving` holds after the loop
rests on resources only getting fewer in it (`LessRam`).
`ResourcesStayAccounted` has the hypothesis `TasksAreKilled`: no workunit without a task is in a job
that may fail or be terminated. It is needed: when executors are killed the code gives back the
threads of those with a task only (BareMetalComputeService.cpp:913).
That free RAM is never negative needs no such hypothesis, and is in `TypeCorrect`. Beside the
types of the numbers, `ThreadsAssumption` is that all workunits on a host at once would not
overflow the word that counts their threads; so with the hypothesis, the count never wraps.

**HTCondorProofs.**
`FlagsTellTheTruth`. The property counts messages; the inductive invariant `NegotiationInv`
says the same with the positions of reports in the mailbox: two positions are one. A report
goes when the central manager reads it (`FlagsAfterReport`), comes when the negotiator that
worked ends (`FlagsWhenReporting`), and the loop starts a negotiator only when
`dispatching_jobs` is false, when there is no report (`FlagsAfterMessage`); other steps only
append other messages (`FlagsFramed`).
`NoJobIsLost`. `NoLostJob` is about the stack of callbacks of a job and where the job is; it is
kept because of what may still arrive. `JobFine` says what that is: there is one message at
most about the submission of a job and one about its end, and only while the job is at that
stage. `NegotiationFine` says that a negotiator works on jobs that are not over, and that a job
that is over and still pending is one the central manager has yet to be told of; `ErasedIs` is
about the loop that then erases it. `Room`: the jobs on a service never use more cores than it
has, a sum over them.

**AllocationProofs**, the cloud.
`LiveVMsAreServed`, by induction with the types of the state (`Types`). The lemmas say what
may happen to the news of an end: it is known from the step the service ends in
(`BecomesKnown`) until it is handled (`StaysKnown`), and its handler takes the VM down, so no
other VM is concerned (`HandledFrame`). The number and order of the waiting requests play no
part in it, hence the bounds `MaxRequests` and `MaxPending` do not either.
`CoresAreAccounted`. The inductive invariant `AInv` adds to the property that a machine that is
not live is on no host, so that taking it down once more releases nothing; and it takes that a
creation that waits in the mailbox is of a machine not there yet (`NewNames`). `Effects`
reduces every step to one of four changes of who lives where: one machine comes, one goes, one
moves (its hosts are then out of the property), or all of a host go.

**SimpleStorageProofs.** The invariant `Inv` follows each request. `ServiceFine` says what may wait
in a service's mailbox and line and what may have a connection, by the stage of the client it
belongs to, also of one that gave up; a copy has two
transfers, its own and that by which its source sends the file, and the source's may outlive the
request. With that transfers can be told apart: no two messages are
about the same one (`Subjects`), so the end of one frees one connection, which goes to the first
in line. `DiskFine` is about space: what is expected on a disk is what some client's request
brings there, and the occupied space is the sum of what is stored and expected, exactly until
the service is asked for a file it has or is getting (`rewritten`), at least the sum of what is
stored and reserved after that. Only for such a file may what is expected lack its reservation.
`SizeFacts` are the sums. Assumed: files are finitely many, there are a file and a service, the
sizes are positive, and the files staged at the beginning fit.

**WMSProofs**, the data movement manager and the registry.
`CopiesArePending`. The manager forgets a copy by the destination of its answer, so what has
to be carried is that no two pending copies have a destination in common and that no copy is
answered twice (`AnswersAreUnique`); then reading an answer removes the copy it is about and
no other (`ForgetsOne`). The hypothesis `Down = {}` is necessary: with a storage service that is
down the property is false (section 6).
`RegistryTellsTheTruth`, whichever services are down and however late deletions are handled,
answered and told. A location in the registry may be without its file while the WMS has the answer
to a deletion and has not told the registry (`Untold`), while a removal waits in the registry's
mailbox, and where a deletion was given up or a failed copy registered (`blamed`); but behind an addition that
a caller gave up on, or in front of one, a removal does not suffice. `Honest` says it for what
waits: wherever the registry is in its mailbox, a location it lists or will have been told to
add is stored, or a removal comes after it. `HonestAppend`, `HonestRemove` and `HonestTail`
are how this changes when a request arrives or is handled. The other half is `SuccessIsStored`:
the destination of a copy whose success is in the manager's mailbox is stored until the manager
has registered it, because a file that is being copied cannot be deleted, nor was it by a deletion
given up before: its destination handles that first (`InTurn`).

**AllocationProofs**, the batch service. For any cluster, jobs and dates. `BInv` says where each job is (`PlaceFine`: in
the queue exactly if its submitter waits and it does not run), that its submission is in the
mailbox once (`SubmitFine`), and that what is not free is what the running jobs use
(`JobsFine`). That is not inductive, for the daemon starts any job it finds reserved for now,
whether or not the job is queued (CONSERVATIVEBFBatchScheduler.cpp:77): the invariant has to say
that the time line names accepted jobs only, and jobs that ran are never started again because
they have resources. So what is needed of the scheduler is little: that its operations, the
loop of `compactSchedule` included, add the jobs they are given and no other (`ReserveKeeps`,
`CompactKeeps`, `WithoutKeeps`, by `FoldKeeps`), and that the walk ends in the time line
(`WalkEnds`). `StartedHaveNodes` is the loop that gives nodes away: no job is started without
its own. All handlers end in `processQueuedJobs`, so `MessageIsHandled` has the common part of
their proofs: what the handler leaves (`JobsFine`, `PlaceFine`), and what is started from it.

**StandardJobExecutorProofs.** For any job, hosts, allocation and order of the ready workunits,
and however often hosts are turned off. Neither property is inductive; both follow from one
invariant, `ExecutorInv`, which says of an executor that lives (`WhileUp`):
- each workunit is in one set, waits exactly if it has a parent that is not completed, and
  `numPendingParents` counts those (`Sorted`); it runs exactly if it has a workunit executor
  (`Housed`);
- no two messages in the mailbox are about the same workunit executor, and each is about one
  that has said so and is not forgotten yet (`Posted`);
- states of tasks go with what was done, also of a task that is completed and whose host fails
  before the message about it is read (`Advanced`);
- a file in scratch is on one of the lists that are used to delete it (`Listed`), and from the
  answer on is still to be deleted;
- what is not available is held (`Accounted`).

`Posted` is why the handlers find a workunit where they look for it, hence
`NothingUnexpectedHappens`; that file copies run alone, which
`processWorkunitExecutorFailure` relies on (`FileCopiesRunAlone`), follows from the order of
the stages (`RunningFollows`). The order is proved of the graph that `createWorkunits` makes
for any subset of the stages: whichever are missing, the workunits of an earlier stage are
completed before one of a later stage is ready (`StagesPrecede`). `LoopAgainKeeps` is the
dispatch loop, by `FoldKeeps`; it needs that a best fit and a first workunit exist
(`OneIsLast`: of a finite set, one element is last in a strict order). The handler of
completions has most to show: that it releases just the children with no other parent
pending (`ReleasedWaited`), whose tasks are ready. Assumed: tasks and hosts are finitely many
and the stages differ, a task needs a core, the cores of a host fit in a word.

**TaskExecutionProofs.** For any tasks, files, copies and kills.
`OutcomesAreOne`. `OneOutcome` is not inductive: it does not say what the executor at work will
still note. `UnderWay` adds it: what the executor does tells the dates, the ends noted so far
and the state of its task. Executions that are over (`Over`) stay as they are, because dates
and stamps are added to the last one only (`OnTop`), and a new execution begins when the one
before is over (`NextExecution`). `WorkStep` reduces a step of an executor at work to its effect
on the last execution; `NotedEnd` and `QuietEnd` are the two ways its executor may go, and
`MustNote` has to tell them apart.
`StampsStayPaired`. An end looks for a pending start of its key, and tasks that read one file at
one place share a key, so which start it finds is anybody's. What is true is a matter of
counting: for each key, there are at least as many pending starts as operations under way
(`Covers`); so none ends without a start (`book.lost` stays false, which `OutcomesAreOne` also needs).
`BookFine` says that ends have a start each, `TasksPending` that starts of tasks are exactly those
under way, and `Earlier` that what is noted was done before what its executor does now, hence
nothing is noted twice. `TaskKeeps`, `KeptNoting` and `CopierKeeps` reduce the steps to an addition
to the book. `RetriesAreBounded` gives the type of `attempts`, whose bound is on a sum.
Assumed: tasks and copiers are finitely many and different, and a task has each of its files once as
input and once as output (they are keys of a map, WorkflowTask.h:280).

Only model-checked:

- every liveness property and the refinement of `WorkflowProgress`: liveness and
  `ENABLED` are out of the prover's reach, and so are the assumptions on operators that
  recurse. The safety part of the refinement, `TasksAreSafe` and `NoStuckTask` are not true
  of every workflow: with two jobs that share a child, the first error of section 6 violates
  them where that child can be submitted too early. They hold in the instance checked;
- `PromisesKept` of `Batch`, which is not true of every set of jobs: `findEarliestStartTime`
  may return a slot with too few nodes (section 6), and then a job is not started when its
  reservation comes. It holds in the instance checked;
- the invariants of `PilotJobs` and `PageCache`. Nothing in them is out of reach now that sums
  and loops are not (section 8).

## 6. What the work found in the code

`PROJECT.json` quotes the lines of each. Every run passes: what follows are errors the models
contain, as steps that end the simulation (`aborted`) or as exceptions the properties state, and
what the assumptions of MC modules demonstrate. The most consequential ones:

*Jobs and workflow*
- `processStandardJobFailure` shows a child of a completed task as ready while another
  parent's job is not reported yet; the WMS can run it, and the completion handler then meets
  the state that "should never happen" (JobManager.cpp:759, 853).
- Removing a task leaves its children waiting for it for ever, and leaves the files it read
  with a pointer to it (Workflow.cpp:117, 133); a dependency that was redundant when it was
  added is lost when the path that made it so is cut (171); the completion date looks at the
  last level only (702).
- An executor killed after its task has completed marks it failed (WorkunitExecutor.cpp:106);
  the end of a read may be paired with the start of another task's
  (SimulationTimestampTypes.cpp:406).

*Compute services*
- For a workunit that waits for RAM the host with the most free RAM is kept, even one that can
  never hold it; smaller jobs then starve it on the right one (BareMetalComputeService.cpp:597).
- A standard job executor deletes the files in scratch after its answer and without its lock: a
  kill leaves the rest of them, of a job that is done, and a scratch service that does not
  answer in time ends the simulation (StandardJobExecutor.cpp:342, 951).
- Messages of executors the bare-metal and batch services have forgotten end the
  simulation; the crash of a standard job's workunit takes its cores a second time
  (StandardJobExecutor.cpp:860).
- Terminating a queued job compacts the schedule with the job still in the queue: it is given
  a new reservation, and started (BatchComputeService.cpp:1672; `ghosts`).
- `findEarliestStartTime` does not reset the remaining duration at a slot with too few
  nodes, and reserves more nodes than there are (NodeAvailabilityTimeLine.cpp:124;
  `GapIsTooShort` for its counterpart with cores).
- A negotiation without result overwrites the news, handled meanwhile, that resources were
  freed: pending jobs wait forever beside an idle service
  (HTCondorCentralManagerService.cpp:417, the exception of `EndsUnlessUnavailable`). A
  failed job reported to the central manager ends the simulation; a pilot job's
  notifications go one mailbox too far (358).
- The end of a VM's service handled after the VM was restarted or destroyed
  (CloudComputeService.cpp:1344, 1353); migrations change no counters.
- A service set to restart that was stopped, or whose host was off, cannot be started again
  (Service.cpp:251; `FailedStartsAreFinal`).

*Files*
- Copies in both directions between two services wait for each other's connections
  (SimpleStorageService.cpp:520), and a request whose caller gave up keeps its connection
  (StorageService.cpp:247, 339; FileTransferThread.cpp:493): `EveryRequestEnds` excepts these two.
- Two transfers of one file share a reservation: when the first fails, the space of the second is
  given away (LogicalFileSystem.cpp:245).
- The answer of a failed copy registers its destination (DataMovementManager.cpp:205), and a
  deletion that times out never reaches the registry (StorageService.cpp:500; both in `blamed`); a copy that could not be started stays pending for good (96; with a service in
  `Down`, `PendingIsUnderWay` fails).
- A rewrite on a full disk ends the service; the space of a rewritten file is counted twice;
  emptying a directory frees nothing (LogicalFileSystem.cpp:135, 168).
- `flushExpiredData` leaves `dirty` too large when a block was split during its write
  (MemoryManager.cpp:309); a file larger than the memory left makes
  `writebackWithMemoryCache` loop for ever (Simulation.cpp:925).
- Of locations at the same distance only one is found (FileRegistryService.cpp:327); daemons
  measure every second period, and Vivaldi's moves are turned by 45 degrees
  (`EveryOtherPeriod`, `MovesAreTurned`).

Properties are stated with the limits that follow: `CoresAccounted` for hosts no VM was
migrated from or to, `SpaceAccounted` exactly only for services not asked to rewrite a
file, `EveryRequestEnds` of `SimpleStorage` except for jammed services, `RegistryIsTruthful`
except for failed copies and deletions that timed out, `EndedJobIsQuiet` for scratch files except
where the executor dies while it deletes them, `NoLostJob` of `JobManager` except for terminated jobs, `NoStuckTask` except for
jobs that wanted a scratch space, the reservations of `Batch` while no queued job was
terminated, `ReadyWhenParentsCompleted` except for the children of removed tasks,
`ResourcesAccounted` of `StandardJobExecutor` except on hosts where a crash was handled,
`NodesAccounted` of `PilotJobs` except while the WMS stops a service.

## 7. Not modelled

- **SimGrid** and its wrappers (`S/simgrid_S4U_util/`, but for daemons and virtual machines):
  the kernel is a library; its semantics is what the steps rest on. A message to a daemon's
  mailbox is delivered without the sender waiting for the daemon, since the mailbox has a permanent
  receiver (S4U_Daemon.cpp:198).
- **Batsched**: the schedule is decided by a process outside the repository.
- **Parsers and tools**, logging, parsing of sizes and speeds with their units: no state, or
  files and formats. Of `SimulationOutput`, the JSON documents, the platform graph and the
  timestamps of disk operations.
- Within modelled components: the timeout of the last acknowledgment of a write or copy
  (StorageService.cpp:285, 371), after which nothing is left to happen; sizes of messages; speeds and durations (except where the
  batch service and the dispatch compare dates and flop rates); scratch space, except for
  the standard job executor; priorities between mount points, copies within a storage
  service and its stop; RAM of VMs as a quantity of its own; the polling of detectors; the
  proximity service's stop and the restart of its daemons; the daemons' own kill. Jobs of
  HTCondor's grid universe go to a named batch service without any check, and their
  terminations are not implemented by the code.
- The page cache and the connections of a storage service are in two models
  (`PageCache`, `SimpleStorage`), and transfers do not go through both.

## 8. Plan

Models: an abstract compute service (accepted, running, ended once) that `BareMetal`, `Batch`
and `PilotJobs` refine, to take the place of the service inside `JobManager`; transfers of
`SimpleStorage` through `PageCache`; the proximity service as a module with its daemons on hosts
that fail.

Proofs, in this order: `NodesAccounted` of `PilotJobs` and
`CachedAccounted` of `PageCache`, which are sums for `FoldProofs`; for `NodeTimeLine`, the condition under which
the slot of `EarliestStartTime` fits, and `PromisesKept` under it.
