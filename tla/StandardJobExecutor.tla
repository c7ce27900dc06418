------------------------- MODULE StandardJobExecutor -------------------------
(***************************************************************************)
(* The executor of one standard job on the hosts of an allocation: it cuts *)
(* the job into workunits, places those that are ready on hosts and starts *)
(* a workunit executor for each, an actor of its own. A workunit executor  *)
(* sends one message when it is through; when it dies with its host, a     *)
(* detector sends a message in its place. The executor runs on the first   *)
(* host, and dies with it.                                                 *)
(*                                                                         *)
(* What workunits cost is left out; the files a workunit uses in scratch   *)
(* space are kept, since the executor has them deleted at the end: after   *)
(* its answer, one after the other, by requests to the scratch service.    *)
(***************************************************************************)
EXTENDS WorkflowTasks, Integers, SequencesExt, FiniteSetsExt

CONSTANTS
    PreOverhead, PreFileCopies, PostFileCopies, Cleanup, PostOverhead,
                    \* the workunits that run no task
    JobShapes,      \* the sets of those that a job may have
    Hosts,          \* the hosts, in the order of their names
    HostCores, HostRam,     \* of each host
    AllCores,       \* the "all its cores" of a request
    Requests,       \* the allocations the executor may be created with
    MinCores, MaxCores, Ram, TopLevel, Flops,   \* of each task
    MaximumCores,   \* CORE_ALLOCATION_ALGORITHM is "maximum", not "minimum"
    TaskSelection,  \* TASK_SELECTION_ALGORITHM
    ScratchSpace,   \* there is a scratch space
    PartOfPilotJob, \* part_of_pilot_job: its files are not deleted at the end
    ScratchIn, ScratchOut,  \* the files a task reads from and writes to scratch
    CopiedToScratch,        \* those that the pre file copies bring there
    Failing,        \* the workunits whose work may fail
    Unreliable,     \* the hosts that may be turned off
    MaxHostFailures,    \* bound: how many times a host is turned off
    WordSize        \* number of values of an unsigned long

NoTask == {PreOverhead, PreFileCopies, PostFileCopies, Cleanup, PostOverhead}
FirstHost == CHOOSE h \in Hosts : \A g \in Hosts : h <= g

ASSUME JobAssumption ==
    /\ Tasks \subseteq Nat /\ IsFiniteSet(Tasks) /\ JobShapes \subseteq SUBSET NoTask
    /\ NoTask \cap Tasks = {}
    /\ IsInjective(<<PreOverhead, PreFileCopies, PostFileCopies, Cleanup, PostOverhead>>)
    /\ \A t \in Tasks : /\ MinCores[t] \in Nat \ {0} /\ MaxCores[t] \in Nat
                        /\ MaxCores[t] >= MinCores[t] /\ Ram[t] \in Nat
                        /\ Flops[t] \in Int /\ TopLevel[t] \in Int
ASSUME HostsAssumption ==
    /\ Hosts \subseteq Nat /\ IsFiniteSet(Hosts) /\ Hosts # {} /\ WordSize \in Nat
    /\ \A h \in Hosts : HostCores[h] \in 1 .. WordSize - 1 /\ HostRam[h] \in Nat
    /\ Requests \subseteq [Hosts -> Nat \cup {AllCores}]
ASSUME SelectionAssumption ==
    TaskSelection \in {"maximum_flops", "maximum_minimum_cores", "minimum_top_level"}

VARIABLES
    daemon,         \* the life of the executor
    parts,          \* the workunits of the job that run no task
    dependencies,   \* the dependencies between its workunits, <<parent, child>>
    capacity,       \* compute_resources: the cores the executor was given on each host
    coreAvailabilities,     \* unsigned
    ramAvailabilities,
    numPendingParents,
    nonReady, ready, running, completed,    \* the sets of workunits
    executor,       \* executor[w]: the workunit executor of w
    taskState,      \* the internal state of the tasks of the job
    numCompletedTasks,
    mailbox,
    answer,         \* what was sent to the service that started it
    filesStored,    \* files_stored_in_scratch
    endedFiles,     \* those of the finished and failed workunit executors
    scratch,        \* the files in scratch space
    toDelete,       \* those that cleanUpScratch has not been through
    deletion,       \* the last request to delete one: its file and how far it is
    isOn, hostFailures,
    damaged,        \* the hosts where the crash of a workunit executor was handled
    aborted         \* the exception nobody catches that ended the simulation

resourceVars == <<coreAvailabilities, ramAvailabilities>>
workunitVars == <<numPendingParents, nonReady, ready, running, completed>>
deletionVars == <<toDelete, deletion>>
scratchVars == <<filesStored, endedFiles, scratch, deletionVars>>
hostVars == <<isOn, hostFailures>>
jobVars == <<parts, dependencies, capacity>>
vars == <<daemon, jobVars, resourceVars, workunitVars, executor, taskState,
          numCompletedTasks, mailbox, answer, scratchVars, hostVars, damaged, aborted>>

Workunits == Tasks \cup NoTask
Files == CopiedToScratch \cup UNION {ScratchIn[t] \cup ScratchOut[t] : t \in Tasks}
Reads(w) == IF w \in Tasks THEN ScratchIn[w] ELSE {}
Writes(w) == IF w \in Tasks THEN ScratchOut[w]
             ELSE IF w = PreFileCopies THEN CopiedToScratch ELSE {}
NoDeletion == [file |-> "none", phase |-> "none"]
NoExecutor == [phase |-> "none", host |-> 0, cores |-> 0, files |-> {}]

\* The types of the state; sets of workunits partition those of the job.
TypeOK ==
    /\ daemon \in {"new", "rejected", "up", "ending", "done", "failed", "killed", "crashed"}
    /\ coreAvailabilities \in [Hosts -> 0 .. WordSize - 1]
    /\ ramAvailabilities \in [Hosts -> Int]
    /\ \A w \in Workunits : executor[w].phase \in
           {"none", "started", "running", "worked", "failed", "sent", "crashed", "reported"}
    /\ taskState \in [Tasks -> InternalStates]
    /\ Cardinality(ready) + Cardinality(nonReady) + Cardinality(running)
        + Cardinality(completed) = Cardinality(ready \cup nonReady \cup running \cup completed)
    /\ scratch \subseteq Files /\ filesStored \subseteq Files /\ toDelete \subseteq Files
    /\ deletion \in [file : Files, phase : {"asked", "deleted"}] \cup {NoDeletion}
    /\ answer \in {"none", "done", "failed"}

Init ==
    /\ daemon = "new"
    /\ parts \in JobShapes
    /\ dependencies = {} /\ capacity \in Requests
    /\ coreAvailabilities = [h \in Hosts |-> 0]
    /\ ramAvailabilities = [h \in Hosts |-> 0]
    /\ numPendingParents = [w \in Workunits |-> 0]
    /\ nonReady = {} /\ ready = {} /\ running = {} /\ completed = {}
    /\ executor = [w \in Workunits |-> NoExecutor]
    /\ taskState = InitialInternal
    /\ numCompletedTasks = 0
    /\ mailbox = <<>> /\ answer = "none"
    /\ filesStored = {} /\ endedFiles = {}
    /\ scratch = {} /\ toDelete = {} /\ deletion = NoDeletion
    /\ isOn = Hosts /\ hostFailures = 0
    /\ damaged = {} /\ aborted = "no"

-------------------------------------------------------------------------------
(* Workunit::createWorkunits: the dependencies between the workunits of a job
   with these parts, <<parent, child>>. *)

TaskDependencies ==
    {d \in Tasks \X Tasks : taskState[d[2]] # "TASK_READY" /\ d[1] \in Parents[d[2]]}

\* The first stage that the job has.
Else(stage, next) == IF stage # {} THEN stage ELSE next

AfterTasksUnlessCleanup == {PostFileCopies} \cap parts  \* mutant
AfterTasks == Else({PostFileCopies} \cap parts, {Cleanup} \cap parts)
AfterPreFileCopies == Else(Tasks, AfterTasks)

StageDependencies ==
    ({PreFileCopies} \cap parts) \X AfterPreFileCopies
    \cup Tasks \X AfterTasks
    \cup ({PostFileCopies} \cap parts) \X ({Cleanup} \cap parts)

OverheadDependencies ==
    LET inside == Tasks \cup (parts \ {PreOverhead, PostOverhead})
    IN  ({PreOverhead} \cap parts) \X inside
        \cup (inside \cup ({PreOverhead} \cap parts)) \X ({PostOverhead} \cap parts)

Dependencies == TaskDependencies \cup StageDependencies \cup OverheadDependencies
JobWorkunits == Tasks \cup parts

-------------------------------------------------------------------------------
(* The constructor: what it accepts, and the resources it starts from. *)

Resolved(h) == IF capacity[h] = AllCores THEN HostCores[h] ELSE capacity[h]

ValidResources ==
    \A h \in Hosts : Resolved(h) > 0 /\ Resolved(h) <= HostCores[h]

\* One host has the cores of the task that needs most, one the RAM (not the same).
JobFits ==
    /\ \E h \in Hosts : \A t \in Tasks : Resolved(h) >= MinCores[t]
    /\ \E h \in Hosts : \A t \in Tasks : HostRam[h] >= Ram[t]

-------------------------------------------------------------------------------
(* dispatchReadyWorkunits. d is the state of a dispatch under way. *)

MinNumCores(w) == IF w \in Tasks THEN MinCores[w] ELSE 1
DesiredNumCores(w) ==
    IF w \notin Tasks THEN 1
    ELSE IF MaximumCores THEN MaxCores[w] ELSE MinCores[w]
RequiredRam(w) == IF w \in Tasks THEN Ram[w] ELSE 0

\* The key a workunit is sorted by, largest first.
SelectionKey(t) ==
    CASE TaskSelection = "maximum_flops" -> Flops[t]
      [] TaskSelection = "maximum_minimum_cores" -> MinCores[t]
      [] TaskSelection = "minimum_top_level" -> -TopLevel[t]

\* Workunits without a task come first, ties are broken by the identifier. (Two
\* without a task are sorted by their addresses; they are never ready together.)
ComesFirst(v, w) ==
    IF v \notin Tasks \/ w \notin Tasks THEN v \notin Tasks /\ w \in Tasks
    ELSE \/ SelectionKey(v) > SelectionKey(w)
         \/ SelectionKey(v) = SelectionKey(w) /\ v > w

SortedReadyWorkunits(S) ==
    CHOOSE q \in Injection(1 .. Cardinality(S), S) :
        \A i, j \in DOMAIN q : i < j => ~ComesFirst(q[j], q[i])

Suitable(w, d) ==
    {h \in isOn : d.cores[h] >= MinNumCores(w) /\ d.ram[h] >= RequiredRam(w)}

NumCoresOn(h, w, d) == Min({d.cores[h], DesiredNumCores(w)})
SlackOn(h, w, d) == d.cores[h] - NumCoresOn(h, w, d)

\* best_fit: the most cores, then the least slack, then the first host.
BestFit(w, d) ==
    LET better(h, g) ==
            \/ NumCoresOn(h, w, d) > NumCoresOn(g, w, d)
            \/ /\ NumCoresOn(h, w, d) = NumCoresOn(g, w, d)
               /\ \/ SlackOn(h, w, d) < SlackOn(g, w, d)
                  \/ SlackOn(h, w, d) = SlackOn(g, w, d) /\ h < g
    IN  CHOOSE h \in Suitable(w, d) : \A g \in Suitable(w, d) \ {h} : better(h, g)

DispatchOne(w, d) ==
    IF Suitable(w, d) = {} THEN d
    ELSE LET h == BestFit(w, d) n == NumCoresOn(h, w, d) IN
         [d EXCEPT !.cores[h] = @ - n,
                   !.ram[h] = @ - RequiredRam(w),
                   !.started[w] = [phase |-> "started", host |-> h, cores |-> n,
                                   files |-> {}],
                   !.placed = @ \cup {w}]

\* A dispatch of the workunits of S, from these resources and executors.
Dispatch(S, cores, ram, executors) ==
    FoldLeft(LAMBDA d, w : DispatchOne(w, d),
             [cores |-> cores, ram |-> ram, started |-> executors, placed |-> {}],
             SortedReadyWorkunits(S))

-------------------------------------------------------------------------------
(* The main loop. After a message, the executor is through if no workunit is left,
   and else dispatches. *)

\* mutant: cleanUpScratch before StoreListOfFilesInScratch
ReturnInWrongOrder(outcome, ended) ==
    /\ answer' = outcome
    /\ daemon' = "ending"
    /\ filesStored' = filesStored \cup ended /\ endedFiles' = ended
    /\ toDelete' = IF ScratchSpace /\ ~PartOfPilotJob THEN filesStored ELSE {}

\* The end of the main loop, after the answer: StoreListOfFilesInScratch, and then the
\* files to delete, one after the other (see below). The files of ended are those of the
\* finished and failed workunit executors.
Return(outcome, ended) ==
    /\ answer' = outcome
    /\ daemon' = "ending"
    /\ filesStored' = filesStored \cup ended /\ endedFiles' = ended
    /\ toDelete' = IF ScratchSpace /\ ~PartOfPilotJob THEN filesStored' ELSE {}

LoopAgain(rdy, nonRdy, rng, cores, ram, executors) ==
    LET d == Dispatch(rdy, cores, ram, executors) IN
    /\ ready' = rdy \ d.placed
    /\ nonReady' = nonRdy
    /\ running' = rng \cup d.placed
    /\ coreAvailabilities' = d.cores
    /\ ramAvailabilities' = d.ram
    /\ executor' = d.started

\* The service creates the executor, or is told that it cannot, and starts it.
Start ==
    /\ daemon = "new"
    /\ IF ~ValidResources \/ ~JobFits
       THEN /\ daemon' = "rejected"
            /\ UNCHANGED <<resourceVars, workunitVars, executor, dependencies, capacity>>
       ELSE /\ daemon' = "up"
            /\ capacity' = [h \in Hosts |-> Resolved(h)]
            /\ dependencies' = Dependencies
            /\ numPendingParents' = [w \in Workunits |->
                                        Cardinality({d \in dependencies' : d[2] = w})]
            /\ completed' = {}
            /\ LET first == {w \in JobWorkunits : numPendingParents'[w] = 0} IN
               LoopAgain(first, JobWorkunits \ first, {},
                         capacity', [h \in Hosts |-> HostRam[h]], executor)
    /\ UNCHANGED <<parts, taskState, numCompletedTasks, mailbox, answer, scratchVars,
                   hostVars, damaged, aborted>>

Abort(why) ==
    /\ aborted' = why
    /\ UNCHANGED <<daemon, jobVars, resourceVars, workunitVars, executor, taskState,
                   numCompletedTasks, answer, scratchVars, hostVars, damaged>>

Receive(type) ==
    /\ daemon = "up" /\ aborted = "no"
    /\ mailbox # <<>> /\ Head(mailbox).type = type
    /\ mailbox' = Tail(mailbox)

CoresFreed(w) == [coreAvailabilities EXCEPT ![executor[w].host] = (@ + executor[w].cores) % WordSize]
RamFreed(w) == [ramAvailabilities EXCEPT ![executor[w].host] = @ + RequiredRam(w)]
Forgotten(w) == [executor EXCEPT ![w] = NoExecutor]

ChildrenOf(w) == {c \in JobWorkunits : <<w, c>> \in dependencies}
ReleasedEarly(w) == ChildrenOf(w) \cap nonReady  \* mutant

\* The children of w that wait for w only.
Released(w) ==
    {c \in ChildrenOf(w) : numPendingParents[c] = 1}

ProcessWorkunitExecutorCompletion ==
    /\ Receive("Done")
    /\ LET w == Head(mailbox).workunit
           last == running = {w} /\ ready = {} /\ nonReady = {}
           released == IF last THEN {} ELSE Released(w)
           counted == IF w \in Tasks THEN 1 ELSE 0
       IN
       IF w \notin running THEN Abort("completed workunit not running")
       ELSE IF \E c \in released \cap Tasks : taskState[c] # "TASK_READY"
       THEN Abort("weird task state")
       ELSE IF ~ (released \subseteq nonReady) THEN Abort("child not in non-ready set")
       ELSE
       /\ numCompletedTasks' = numCompletedTasks + counted
       /\ numPendingParents' = [c \in Workunits |->
              IF ~last /\ c \in ChildrenOf(w) THEN numPendingParents[c] - 1
                                              ELSE numPendingParents[c]]
       /\ IF last
          THEN /\ Return("done", endedFiles \cup executor[w].files)
               /\ running' = {} /\ completed' = completed \cup {w}
               /\ UNCHANGED <<ready, nonReady>>
               /\ coreAvailabilities' = CoresFreed(w) /\ ramAvailabilities' = RamFreed(w)
               /\ executor' = Forgotten(w)
          ELSE /\ LoopAgain(ready \cup released, nonReady \ released, running \ {w},
                            CoresFreed(w), RamFreed(w), Forgotten(w))
               /\ completed' = completed \cup {w}
               /\ endedFiles' = endedFiles \cup executor[w].files
               /\ UNCHANGED <<daemon, answer, filesStored, toDelete>>
       /\ UNCHANGED <<jobVars, taskState, scratch, deletion, hostVars, damaged, aborted>>

\* What happens to the tasks of the workunit executors of S when these are killed or
\* die: one that had started its task, and not said yet that it failed, says so now,
\* even when the task was completed and only the message was not sent.
TasksAfterDeath(S) ==
    [t \in Tasks |-> IF t \in S /\ executor[t].phase \in {"running", "worked"}
                     THEN "TASK_FAILED" ELSE taskState[t]]
\* The cleanup of the executor: the tasks of its workunit executors that run still.
TasksAfterCleanup(S) ==
    [t \in Tasks |-> IF taskState[t] = "TASK_RUNNING" /\ t \in S
                     THEN "TASK_FAILED" ELSE taskState[t]]

Alive == {w \in Workunits : executor[w].phase \in {"started", "running", "worked", "failed"}}
Killed(S) == [w \in Workunits |-> IF w \in S \cap Alive THEN NoExecutor ELSE executor[w]]

\* A failure ends the job: the other workunit executors are killed.
ProcessWorkunitExecutorFailure ==
    /\ Receive("Failed")
    /\ LET w == Head(mailbox).workunit IN
       IF w \notin running THEN Abort("failed workunit not running")
       ELSE IF (running \ {w}) \cap {PreFileCopies, PostFileCopies} # {}
       THEN Abort("file copies cannot be canceled")
       ELSE
       /\ coreAvailabilities' = CoresFreed(w) /\ ramAvailabilities' = RamFreed(w)
       /\ executor' = [Killed(running \ {w}) EXCEPT ![w] = NoExecutor]
       /\ taskState' = TasksAfterDeath(running \ {w})
       /\ running' = running \ {w}
       /\ Return("failed", endedFiles \cup executor[w].files)
       /\ UNCHANGED <<jobVars, numPendingParents, ready, nonReady, completed,
                      numCompletedTasks, scratch, deletion, hostVars, damaged, aborted>>

\* The cores of the crashed executor are subtracted, where a completion adds them.
ProcessWorkunitExecutorCrash ==
    /\ Receive("Crashed")
    /\ LET w == Head(mailbox).workunit
           h == executor[w].host
           cores == [coreAvailabilities EXCEPT ![h] = (@ - executor[w].cores) % WordSize]
       IN
       IF executor[w] = NoExecutor THEN Abort("crash of an executor that does not run")
       ELSE
       /\ filesStored' = filesStored \cup executor[w].files
       /\ taskState' = [t \in Tasks |-> IF t = w THEN "TASK_READY" ELSE taskState[t]]
       /\ LoopAgain(ready \cup {w}, nonReady, running \ {w}, cores, RamFreed(w), Forgotten(w))
       /\ damaged' = damaged \cup {h}
       /\ UNCHANGED <<daemon, jobVars, numPendingParents, completed, numCompletedTasks,
                      answer, endedFiles, scratch, deletionVars, hostVars, aborted>>

ProcessHostOn ==
    /\ Receive("HostOn")
    /\ LoopAgain(ready, nonReady, running, coreAvailabilities, ramAvailabilities, executor)
    /\ UNCHANGED <<daemon, jobVars, numPendingParents, completed, taskState,
                   numCompletedTasks, answer, scratchVars, hostVars, damaged, aborted>>

\* StandardJobExecutor::kill, called by the service when the job is terminated or its
\* allocation has expired; it may come after the answer, and stop the deletions there.
Kill ==
    /\ daemon \in {"up", "ending"} /\ aborted = "no"
    /\ daemon' = "killed"
    /\ executor' = Killed(Workunits)
    /\ taskState' = TasksAfterDeath(Workunits)
    /\ nonReady' = {} /\ ready' = {} /\ running' = {} /\ completed' = {}
    /\ endedFiles' = {} /\ mailbox' = <<>>
    /\ UNCHANGED <<jobVars, resourceVars, numPendingParents, numCompletedTasks, answer,
                   filesStored, scratch, deletionVars, hostVars, damaged, aborted>>

-------------------------------------------------------------------------------
(* cleanUpScratch: each file in turn, in the order of a set of pointers, by a deleteFile
   that blocks; the lock that keeps the executor from being killed is not held. *)

OutsideCleanUp ==
    UNCHANGED <<jobVars, resourceVars, numPendingParents, executor, taskState,
                numCompletedTasks, mailbox, answer, filesStored, hostVars, damaged>>
LoopUnchanged == UNCHANGED <<nonReady, ready, running, completed, endedFiles>>

AskDeletion(f) ==
    /\ daemon = "ending" /\ aborted = "no"
    /\ f \in toDelete /\ deletion.phase = "none"
    /\ deletion' = [file |-> f, phase |-> "asked"]
    /\ OutsideCleanUp /\ LoopUnchanged /\ UNCHANGED <<daemon, scratch, toDelete, aborted>>

\* The scratch service deletes the file, or finds none and does not mind, and answers. It
\* does so too when the executor is no more.
ScratchDeletes ==
    /\ deletion.phase = "asked" /\ aborted = "no"
    /\ scratch' = scratch \ {deletion.file}
    /\ deletion' = [deletion EXCEPT !.phase = "deleted"]
    /\ OutsideCleanUp /\ LoopUnchanged /\ UNCHANGED <<daemon, toDelete, aborted>>

DeletionAnswered ==
    /\ daemon = "ending" /\ aborted = "no"
    /\ deletion.phase = "deleted"
    /\ toDelete' = toDelete \ {deletion.file}
    /\ deletion' = NoDeletion
    /\ OutsideCleanUp /\ LoopUnchanged /\ UNCHANGED <<daemon, scratch, aborted>>

\* The answer does not come within network_timeout: main() rethrows the exception.
DeletionTimesOut ==
    /\ daemon = "ending" /\ aborted = "no"
    /\ deletion.phase \in {"asked", "deleted"}
    /\ aborted' = "scratch does not answer"
    /\ OutsideCleanUp /\ LoopUnchanged /\ UNCHANGED <<daemon, scratch, deletionVars>>

\* The return from main(), and cleanup.
End ==
    /\ daemon = "ending" /\ aborted = "no"
    /\ toDelete = {}
    /\ daemon' = answer
    /\ nonReady' = {} /\ ready' = {} /\ running' = {} /\ completed' = {}
    /\ endedFiles' = {}
    /\ OutsideCleanUp /\ UNCHANGED <<scratch, deletionVars, aborted>>

-------------------------------------------------------------------------------
(* The workunit executors. *)

ExecutorUnchanged ==
    UNCHANGED <<daemon, jobVars, resourceVars, workunitVars, numCompletedTasks, answer,
                filesStored, endedFiles, deletionVars, hostVars, damaged, aborted>>

\* performWork up to the reading of the input files. A workunit without a task begins
\* what it does: it sleeps, copies or deletes files.
Begin(w) ==
    /\ executor[w].phase = "started" /\ aborted = "no"
    /\ executor' = [executor EXCEPT ![w].phase = "running", ![w].files = Reads(w)]
    /\ taskState' = [t \in Tasks |-> IF t = w THEN "TASK_RUNNING" ELSE taskState[t]]
    /\ ExecutorUnchanged /\ UNCHANGED <<mailbox, scratch>>

\* The locations of files are refused before the task has started: it stays ready.
FailToBegin(w) ==
    /\ executor[w].phase = "started" /\ w \in Failing /\ aborted = "no"
    /\ executor' = [executor EXCEPT ![w].phase = "failed"]
    /\ ExecutorUnchanged /\ UNCHANGED <<taskState, mailbox, scratch>>

\* The end of performWork: the output files are written, the task is completed, and
\* so are the children that waited for it only made ready.
Work(w) ==
    /\ executor[w].phase = "running" /\ aborted = "no"
    /\ Reads(w) \subseteq scratch
    /\ executor' = [executor EXCEPT ![w].phase = "worked", ![w].files = @ \cup Writes(w)]
    /\ scratch' = scratch \cup Writes(w)
    /\ taskState' = IF w \in Tasks THEN AfterCompletion(taskState, w) ELSE taskState
    /\ ExecutorUnchanged /\ UNCHANGED mailbox

\* A read or a write fails. The files to be written are recorded before any is.
FailToWork(w) ==
    /\ executor[w].phase = "running" /\ aborted = "no"
    /\ \/ w \in Failing
       \/ ~ (Reads(w) \subseteq scratch)
    /\ \E toWrite \in {{}, IF w \in Tasks /\ w \in Failing THEN Writes(w) ELSE {}} :
          executor' = [executor EXCEPT ![w].phase = "failed", ![w].files = @ \cup toWrite]
    /\ taskState' = [t \in Tasks |-> IF t = w THEN "TASK_FAILED" ELSE taskState[t]]
    /\ ExecutorUnchanged /\ UNCHANGED <<mailbox, scratch>>

\* A message to an executor that has ended goes nowhere.
Sent(type, w) ==
    mailbox' = IF daemon = "up" THEN Append(mailbox, [type |-> type, workunit |-> w])
                                ELSE mailbox

SendMessage(w) ==
    /\ executor[w].phase \in {"worked", "failed"} /\ aborted = "no"
    /\ executor' = [executor EXCEPT ![w].phase = "sent"]
    /\ Sent(IF executor[w].phase = "worked" THEN "Done" ELSE "Failed", w)
    /\ ExecutorUnchanged /\ UNCHANGED <<taskState, scratch>>

\* The detector of the crash of a workunit executor runs on the host of the executor.
DetectCrash(w) ==
    /\ executor[w].phase = "crashed" /\ daemon = "up" /\ aborted = "no"
    /\ executor' = [executor EXCEPT ![w].phase = "reported"]
    /\ Sent("Crashed", w)
    /\ ExecutorUnchanged /\ UNCHANGED <<taskState, scratch>>

\* A host is turned off: what runs on it dies. When the executor dies with the first
\* host, the workunit executors on other hosts go on.
TurnOff(h) ==
    /\ h \in Unreliable \cap isOn /\ hostFailures < MaxHostFailures
    /\ daemon # "new" /\ aborted = "no"
    /\ isOn' = isOn \ {h} /\ hostFailures' = hostFailures + 1
    /\ LET dead == {w \in Alive : executor[w].host = h}
           dies == daemon \in {"up", "ending"} /\ h = FirstHost
       IN
       /\ executor' = [w \in Workunits |->
              IF w \in dead THEN [executor[w] EXCEPT !.phase = "crashed"] ELSE executor[w]]
       /\ taskState' = [t \in Tasks |->
              IF dies THEN IF t \in dead THEN TasksAfterDeath(dead)[t]
                                         ELSE TasksAfterCleanup(running)[t]
              ELSE TasksAfterDeath(dead)[t]]
       /\ IF dies
          THEN /\ daemon' = "crashed" /\ mailbox' = <<>>
               /\ nonReady' = {} /\ ready' = {} /\ running' = {} /\ completed' = {}
               /\ endedFiles' = {}
          ELSE UNCHANGED <<daemon, mailbox, nonReady, ready, running, completed, endedFiles>>
    /\ UNCHANGED <<jobVars, resourceVars, numPendingParents, numCompletedTasks, answer,
                   filesStored, scratch, deletionVars, damaged, aborted>>

TurnOn(h) ==
    /\ h \in Hosts \ isOn /\ aborted = "no"
    /\ isOn' = isOn \cup {h}
    /\ mailbox' = IF daemon = "up" THEN Append(mailbox, [type |-> "HostOn"]) ELSE mailbox
    /\ UNCHANGED <<daemon, jobVars, resourceVars, workunitVars, executor, taskState,
                   numCompletedTasks, answer, scratchVars, hostFailures, damaged, aborted>>

-------------------------------------------------------------------------------
DaemonStep ==
    \/ Start
    \/ ProcessWorkunitExecutorCompletion
    \/ ProcessWorkunitExecutorFailure
    \/ ProcessWorkunitExecutorCrash
    \/ ProcessHostOn
    \/ \E f \in Files : AskDeletion(f)
    \/ DeletionAnswered
    \/ End

ExecutorStep(w) ==
    \/ Begin(w)
    \/ FailToBegin(w)
    \/ Work(w)
    \/ FailToWork(w)
    \/ SendMessage(w)
    \/ DetectCrash(w)

Next ==
    \/ DaemonStep
    \/ \E w \in Workunits : ExecutorStep(w)
    \/ Kill
    \/ ScratchDeletes
    \/ DeletionTimesOut
    \/ \E h \in Hosts : TurnOff(h) \/ TurnOn(h)

Spec == Init /\ [][Next]_vars

\* Actors that can act do: the simulation has no preemption. Hosts come back.
FairSpec ==
    /\ Spec
    /\ WF_vars(DaemonStep) /\ WF_vars(ScratchDeletes)
    /\ \A w \in Workunits : WF_vars(ExecutorStep(w))
    /\ \A h \in Hosts : WF_vars(TurnOn(h))

-------------------------------------------------------------------------------
(* Properties. *)

StageOf(w) ==
    CASE w = PreOverhead -> 0 [] w = PreFileCopies -> 1 [] w \in Tasks -> 2
      [] w = PostFileCopies -> 3 [] w = Cleanup -> 4 [] w = PostOverhead -> 5

\* While the executor lives, a workunit executor runs only when all workunits of the
\* earlier stages of the job, whatever parts it has, and the parents of its task are
\* completed: createWorkunits' graph (Workunit.cpp:123), the counting of pending
\* parents, and the rerun of workunits whose executor crashed keep that order.
StagesInOrder ==
    daemon = "up" => \A w \in running :
        /\ \A v \in JobWorkunits : StageOf(v) < StageOf(w) => v \in completed
        /\ w \in Tasks => \A p \in Parents[w] : taskState[p] = "TASK_COMPLETED"

RunningOn(h) == {w \in running : executor[w].host = h}
HeldCores(h) ==
    SumFunctionOnSet([w \in Workunits |-> executor[w].cores], RunningOn(h))
HeldRam(h) == SumFunctionOnSet([w \in Workunits |-> RequiredRam(w)], RunningOn(h))

\* Cores and RAM are either available or held by the workunit executors of running
\* workunits, never more than the executor was given; for cores, on the hosts where it
\* has not handled a crash: there processWorkunitExecutorCrash takes them twice.
ResourcesAccounted ==
    daemon = "up" => \A h \in Hosts :
        /\ h \notin damaged => coreAvailabilities[h] + HeldCores(h) = capacity[h]
        /\ ramAvailabilities[h] >= 0
        /\ ramAvailabilities[h] + HeldRam(h) = HostRam[h]

\* What holds of the workunits that run: their stage has come and they hold what is not
\* available.
RunningIsInOrder == StagesInOrder /\ ResourcesAccounted

\* From its answer on, and once it was killed, an executor has no workunit executor alive and
\* no task of its job runs. It says "done" only when each task is completed and was counted
\* once, however many times it ran, and none of them is undone by what crosses the rest of
\* its life. When it returns after "done", scratch has none of its files: the list that
\* completions, failures and crashes have added to was complete. (Between the answer and the
\* return there may be files, and they stay when it is killed there or its host is turned
\* off; that is not excluded.)
EndedJobIsQuiet ==
    /\ answer # "none" \/ daemon = "killed" =>
           Alive = {} /\ \A t \in Tasks : taskState[t] # "TASK_RUNNING"
    /\ answer = "done" => /\ \A t \in Tasks : taskState[t] = "TASK_COMPLETED"
                          /\ numCompletedTasks = Cardinality(Tasks)
    /\ daemon = "done" /\ ScratchSpace /\ ~PartOfPilotJob => scratch = {}

\* Every executor ends, in any order of completions, failures, crashes and reruns, and
\* none of the exceptions that say "this should not happen" ends it before; only a deletion
\* that is not answered in time may (see the findings). The hosts have the cores for it
\* even after processWorkunitExecutorCrash has taken some of them twice.
JobEnds ==
    <>(daemon \notin {"new", "up", "ending"} \/ aborted = "scratch does not answer")
===============================================================================
