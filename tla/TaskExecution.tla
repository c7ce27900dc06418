---------------------------- MODULE TaskExecution ----------------------------
(***************************************************************************)
(* The work of the workunit executors: each runs a task, which reads its   *)
(* input files, computes and writes its output files, and notes the dates  *)
(* in the execution history of the task and timestamps in the output of    *)
(* the simulation. An executor may be killed, or die with its host, at any *)
(* time: its on_exit function then notes how the task ended. Other         *)
(* executors copy files; the storage service notes how the copies end.     *)
(*                                                                         *)
(* Where the executors run and what the task's children become is left to  *)
(* StandardJobExecutor and BareMetal; the locations of files given by the  *)
(* job are shared by its tasks, as FileLocation objects are.               *)
(***************************************************************************)
EXTENDS Timestamps

CONSTANTS
    Tasks, Files, Locations,
    Inputs, Outputs,    \* of each task: the files, once each, in the order of their names
    FileLocations,      \* of each file: the locations the job gives
    Staged,             \* the pairs <<file, location>> stored at first
    Copiers,            \* executors whose workunit is a copy
    CopyOf,             \* of each copier: <<file, source, destination>>
    MaxRetries,         \* bound: executors and copies started again
    MaxKills            \* bound: executors that are killed or lose their host

ASSUME ExecutionAssumption ==
    /\ IsFiniteSet(Tasks) /\ IsFiniteSet(Copiers) /\ Tasks \cap Copiers = {}
    /\ Inputs \in [Tasks -> Seq(Files)] /\ Outputs \in [Tasks -> Seq(Files)]
    /\ \A t \in Tasks : IsInjective(Inputs[t]) /\ IsInjective(Outputs[t])
    /\ FileLocations \in [Files -> Seq(Locations) \ {<<>>}]
    /\ Staged \subseteq Files \X Locations
    /\ \A c \in Copiers : CopyOf[c] \in Files \X Locations \X Locations
    /\ MaxRetries \in Nat /\ MaxKills \in Nat

VARIABLES
    internal,   \* the internal state of each task
    history,    \* its execution history: of each execution, the dates that are set
    executor,   \* of each task: its executor
    attempts,   \* of each task and copier: executors started, copies started
    copier,     \* of each copier: is its copy under way?
    stored,     \* the pairs <<file, location>> the storage services have
    book,       \* the timestamps
    kills

vars == <<internal, history, executor, attempts, copier, stored, book, kills>>

Dates ==
    <<"readStart", "readEnd", "computeStart", "computeEnd", "writeStart", "writeEnd", "end">>
Phases == {"off", "starting", "reading", "spawning", "computing", "writing", "sending"}

\* An executor: what it does, the files left to read or write, the location it chose of each
\* file, and its flags: task_start_timestamp_has_been_inserted, the failure noted,
\* task_completion_timestamp_should_be_generated.
Off ==
    [at |-> "off", left |-> <<>>, location |-> <<>>, started |-> FALSE, failed |-> FALSE,
     completed |-> FALSE]

TypeOK ==
    /\ internal \in [Tasks -> {"TASK_READY", "TASK_RUNNING", "TASK_COMPLETED", "TASK_FAILED"}]
    /\ \A t \in Tasks : \A i \in DOMAIN history[t] :
         history[t][i] \subseteq ToSet(Dates) \cup {"failed", "terminated"}
    /\ \A t \in Tasks : executor[t].at \in Phases
    /\ attempts \in [Tasks \cup Copiers -> 0 .. MaxRetries + 1]
    /\ copier \in [Copiers -> BOOLEAN]
    /\ stored \subseteq Files \X Locations
    /\ \A s \in book.stamps : IsStamp(s)

Init ==
    /\ internal = [t \in Tasks |-> "TASK_READY"]
    /\ history = [t \in Tasks |-> <<>>]
    /\ executor = [t \in Tasks |-> Off]
    /\ attempts = [x \in Tasks \cup Copiers |-> 0]
    /\ copier = [c \in Copiers |-> FALSE]
    /\ stored = Staged
    /\ book = EmptyBook
    /\ kills = 0

-------------------------------------------------------------------------------
(* Timestamps and dates *)

Runs == ~book.lost
Retries ==
    SumFunctionOnSet([x \in DOMAIN attempts |-> attempts[x] - 1], {x \in DOMAIN attempts : attempts[x] > 0})
MayTry(x) == attempts[x] = 0 \/ Retries < MaxRetries
Stamp(of, type, x, n, key) == [of |-> of, type |-> type, by |-> x, attempt |-> n, key |-> key]

Execution(t) == Len(history[t])
TaskStamp(type, t) == Stamp("task", type, t, Execution(t), <<t>>)
Place(t) == LET f == Head(executor[t].left) IN <<f, executor[t].location[f]>>
ReadStamp(type, t) == Stamp("read", type, t, Execution(t), Place(t))
WriteStamp(type, t) == Stamp("write", type, t, Execution(t), Place(t))

\* The dates of the execution on top of the history.
SetDates(t, dates) == [history EXCEPT ![t][Execution(t)] = @ \cup dates]

\* The executor goes on to read or write the first of these files, which it notes.
OnTo(t, phase, of, files, b) ==
    /\ executor' = [executor EXCEPT ![t].at = phase, ![t].left = files]
    /\ book' = LET f == Head(files)
               IN Started(b, Stamp(of, "start", t, Execution(t),
                                   <<f, executor[t].location[f]>>))

-------------------------------------------------------------------------------
(* An executor *)

\* An executor is started for a task, again when an earlier one has failed.
Start(t) ==
    /\ Runs /\ executor[t].at = "off"
    /\ internal[t] # "TASK_COMPLETED" /\ MayTry(t)
    /\ attempts' = [attempts EXCEPT ![t] = @ + 1]
    /\ internal' = [internal EXCEPT ![t] = "TASK_READY"]
    /\ executor' = [executor EXCEPT ![t] = [Off EXCEPT !.at = "starting"]]
    /\ UNCHANGED <<history, copier, stored, book, kills>>

\* areFileLocationsOK(): of several locations, the first that has the file.
Found(f) == {i \in DOMAIN FileLocations[f] : <<f, FileLocations[f][i]>> \in stored}
Usable(f) == Len(FileLocations[f]) = 1 \/ Found(f) # {}
Chosen(f) == FileLocations[f][IF Len(FileLocations[f]) = 1 THEN 1 ELSE Min(Found(f))]
FilesOf(t) == ToSet(Inputs[t]) \cup ToSet(Outputs[t])

\* The task starts: all files have a location.
Begin(t) ==
    LET started == [executor[t] EXCEPT !.started = TRUE,
                                       !.location = [f \in FilesOf(t) |-> Chosen(f)]]
        stamp == Stamp("task", "start", t, Execution(t) + 1, <<t>>)
        read == Inputs[t]
    IN /\ Runs /\ executor[t].at = "starting"
       /\ \A f \in FilesOf(t) : Usable(f)
       /\ internal' = [internal EXCEPT ![t] = "TASK_RUNNING"]
       /\ IF read = <<>>
          THEN /\ history' = [history EXCEPT ![t] =
                                Append(@, {"readStart", "readEnd", "computeStart"})]
               /\ executor' = [executor EXCEPT ![t] = [started EXCEPT !.at = "spawning"]]
               /\ book' = Started(book, stamp)
          ELSE /\ history' = [history EXCEPT ![t] = Append(@, {"readStart"})]
               /\ executor' = [executor EXCEPT ![t] = [started EXCEPT !.at = "reading",
                                                                      !.left = read]]
               /\ book' = Started(Started(book, stamp),
                                  Stamp("read", "start", t, Execution(t) + 1,
                                        <<read[1], started.location[read[1]]>>))
       /\ UNCHANGED <<attempts, copier, stored, kills>>

\* A file that is nowhere: the executor has failed, before its task has started.
CannotBegin(t) ==
    /\ Runs /\ executor[t].at = "starting"
    /\ \E f \in FilesOf(t) : ~Usable(f)
    /\ executor' = [executor EXCEPT ![t].at = "sending"]
    /\ UNCHANGED <<internal, history, attempts, copier, stored, book, kills>>

\* A file is read or written in vain, which ends the task.
Fails(t, stamp) ==
    /\ internal' = [internal EXCEPT ![t] = "TASK_FAILED"]
    /\ history' = SetDates(t, {"failed"})
    /\ executor' = [executor EXCEPT ![t].at = "sending", ![t].failed = TRUE]
    /\ \E b \in Ended(book, stamp) :
         book' \in Ended(b, TaskStamp("failure", t))
    /\ UNCHANGED <<attempts, copier, stored, kills>>

\* The file is read, then the next, or the threads are created.
Reads(t) ==
    LET f == Head(executor[t].left)
        rest == Tail(executor[t].left)
    IN /\ Runs /\ executor[t].at = "reading"
       /\ <<f, executor[t].location[f]>> \in stored
       /\ \E b \in Ended(book, ReadStamp("completion", t)) :
            IF rest # <<>>
            THEN OnTo(t, "reading", "read", rest, b) /\ history' = history
            ELSE /\ history' = SetDates(t, {"readEnd", "computeStart"})
                 /\ executor' = [executor EXCEPT ![t].at = "spawning", ![t].left = <<>>]
                 /\ book' = b
       /\ UNCHANGED <<internal, attempts, copier, stored, kills>>

CannotRead(t) == Runs /\ executor[t].at = "reading" /\ Fails(t, ReadStamp("failure", t))

\* Its threads are created, one after the other, while it holds the lock; then it computes.
Spawned(t) ==
    /\ Runs /\ executor[t].at = "spawning"
    /\ executor' = [executor EXCEPT ![t].at = "computing"]
    /\ UNCHANGED <<internal, history, attempts, copier, stored, book, kills>>

\* The task has completed; the completion is noted when the executor ends.
Completes(t, dates) ==
    /\ internal' = [internal EXCEPT ![t] = "TASK_COMPLETED"]
    /\ history' = SetDates(t, dates \cup {"writeEnd", "end"})
    /\ executor' = [executor EXCEPT ![t].at = "sending", ![t].completed = TRUE,
                                    ![t].left = <<>>]

\* The threads are done.
Computes(t) ==
    /\ Runs /\ executor[t].at = "computing"
    /\ IF Outputs[t] = <<>>
       THEN Completes(t, {"computeEnd", "writeStart"}) /\ book' = book
       ELSE /\ history' = SetDates(t, {"computeEnd", "writeStart"})
            /\ OnTo(t, "writing", "write", Outputs[t], book)
            /\ internal' = internal
    /\ UNCHANGED <<attempts, copier, stored, kills>>

\* A file is written, then the next.
Writes(t) ==
    LET f == Head(executor[t].left)
        rest == Tail(executor[t].left)
    IN /\ Runs /\ executor[t].at = "writing"
       /\ stored' = stored \cup {<<f, executor[t].location[f]>>}
       /\ \E b \in Ended(book, WriteStamp("completion", t)) :
            IF rest # <<>>
            THEN OnTo(t, "writing", "write", rest, b) /\ UNCHANGED <<internal, history>>
            ELSE Completes(t, {}) /\ book' = b
       /\ UNCHANGED <<attempts, copier, kills>>

CannotWrite(t) == Runs /\ executor[t].at = "writing" /\ Fails(t, WriteStamp("failure", t))

\* The message is sent and the executor returns.
Returns(t) ==
    /\ Runs /\ executor[t].at = "sending"
    /\ executor' = [executor EXCEPT ![t] = Off]
    /\ IF executor[t].completed
       THEN book' \in Ended(book, TaskStamp("completion", t))
       ELSE book' = book
    /\ UNCHANGED <<internal, history, attempts, copier, stored, kills>>

\* mutant
MustNoteAnyEnd(t) == executor[t].started

\* cleanup() notes the end of a task that has started and whose failure has not been noted.
MustNote(t) == executor[t].started /\ ~executor[t].failed

\* The executor does not return from main(): it is killed, by force when its job is
\* terminated, or its host is turned off. kill() waits for the lock, a crash does not.
IsKilled(t, terminated, crash) ==
    /\ Runs /\ executor[t].at # "off" /\ kills < MaxKills
    /\ executor[t].at = "spawning" => crash
    /\ crash => ~terminated
    /\ kills' = kills + 1
    /\ executor' = [executor EXCEPT ![t] = Off]
    /\ IF MustNote(t)
       THEN /\ internal' = [internal EXCEPT ![t] = "TASK_FAILED"]
            /\ history' = SetDates(t, {IF terminated THEN "terminated" ELSE "failed"})
            /\ book' \in Ended(book, TaskStamp(IF terminated THEN "termination"
                                                             ELSE "failure", t))
       ELSE UNCHANGED <<internal, history, book>>
    /\ UNCHANGED <<attempts, copier, stored>>

-------------------------------------------------------------------------------
(* A copy: the caller notes its start, the destination its end *)

CopyStamp(type, c) == Stamp("copy", type, c, attempts[c], CopyOf[c])

CopyStarts(c) ==
    /\ Runs /\ ~copier[c] /\ MayTry(c)
    /\ attempts' = [attempts EXCEPT ![c] = @ + 1]
    /\ copier' = [copier EXCEPT ![c] = TRUE]
    /\ book' = Started(book, Stamp("copy", "start", c, attempts[c] + 1, CopyOf[c]))
    /\ UNCHANGED <<internal, history, executor, stored, kills>>

\* There is no room for the file.
CopyIsRefused(c) ==
    /\ Runs /\ copier[c]
    /\ copier' = [copier EXCEPT ![c] = FALSE]
    /\ book' \in Ended(book, CopyStamp("failure", c))
    /\ UNCHANGED <<internal, history, executor, attempts, stored, kills>>

CopyEnds(c) ==
    LET copy == CopyOf[c]
    IN /\ Runs /\ copier[c] /\ <<copy[1], copy[2]>> \in stored
       /\ copier' = [copier EXCEPT ![c] = FALSE]
       /\ stored' = stored \cup {<<copy[1], copy[3]>>}
       /\ book' \in Ended(book, CopyStamp("completion", c))
       /\ UNCHANGED <<internal, history, executor, attempts, kills>>

\* A transfer that fails is not noted.
CopyFails(c) ==
    /\ Runs /\ copier[c]
    /\ copier' = [copier EXCEPT ![c] = FALSE]
    /\ UNCHANGED <<internal, history, executor, attempts, stored, book, kills>>

-------------------------------------------------------------------------------

ExecutorStep(t) ==
    \/ Begin(t) \/ CannotBegin(t) \/ Reads(t) \/ CannotRead(t) \/ Spawned(t)
    \/ Computes(t) \/ Writes(t) \/ CannotWrite(t) \/ Returns(t)
CopyStep(c) == CopyStarts(c) \/ CopyIsRefused(c) \/ CopyEnds(c) \/ CopyFails(c)

Next ==
    \/ \E t \in Tasks :
         Start(t) \/ ExecutorStep(t) \/ \E f, c \in BOOLEAN : IsKilled(t, f, c)
    \/ \E c \in Copiers : CopyStep(c)

Spec == Init /\ [][Next]_vars

-------------------------------------------------------------------------------
(* Properties *)

Own(s, e) == s.by = e.by /\ s.attempt = e.attempt
Live(t, i) == i = Execution(t) /\ executor[t].started

\* The end of something is noted once, and its endpoint is a start of the same thing that no
\* other end has; of an execution of a task, its own. What an executor or a copier has under
\* way has a start to be paired with.
StampsArePaired ==
    LET UnderWay(of) ==
          IF of = "copy" THEN {CopyStamp("start", c) : c \in {d \in Copiers : copier[d]}}
          ELSE IF of = "read"
          THEN {ReadStamp("start", t) : t \in {u \in Tasks : executor[u].at = "reading"}}
          ELSE {WriteStamp("start", t) : t \in {u \in Tasks : executor[u].at = "writing"}}
    IN /\ TypeOK
       /\ ~book.lost
       /\ \A e \in book.stamps : e.type # "start" =>
            \E s \in book.stamps :
              /\ {p \in book.pairs : p[1] = s \/ p[2] = e} = {<<s, e>>}
              /\ s.type = "start" /\ s.of = e.of /\ s.key = e.key
              /\ e.of = "task" => Own(s, e)
       /\ \A of \in Kinds \ {"task"} : \A u \in UnderWay(of) :
            Cardinality({p \in book.pending[of] : p.key = u.key})
              >= Cardinality({v \in UnderWay(of) : v.key = u.key})

\* Every execution of a task that is over has one outcome, in its history and in one
\* timestamp, and its dates are those of the steps it went through; the task has completed
\* if its last execution has. The exception is an execution that has completed and whose
\* executor is killed before it returns.
OneOutcome ==
    \A t \in Tasks : \A i \in DOMAIN history[t] :
      LET dates == history[t][i]
          outcome == dates \cap {"failed", "terminated"}
          ends == {s.type : s \in {e \in book.stamps :
                     e.of = "task" /\ e.by = t /\ e.attempt = i /\ e.type # "start"}}
      IN /\ \E n \in 1 .. Len(Dates) : dates \ outcome = {Dates[k] : k \in 1 .. n}
         /\ IF Live(t, i)
            THEN /\ outcome = {"failed"} <=> executor[t].failed
                 /\ ends = IF executor[t].failed THEN {"failure"} ELSE {}
            ELSE CASE outcome = {} -> "end" \in dates /\ ends = {"completion"}
                   [] outcome = {"failed"} -> ends = {"failure"}
                   [] outcome = {"terminated"} -> ends = {"termination"}
                   [] OTHER -> FALSE
         /\ i = Execution(t) =>
              (internal[t] = "TASK_COMPLETED" <=> "end" \in dates /\ outcome = {})
===============================================================================
