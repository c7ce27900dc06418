----------------------------- MODULE WorkloadTrace -----------------------------
(***************************************************************************)
(* The background load of a batch service: a trace of jobs is read from a  *)
(* file in the SWF or the JSON format, and a WMS submits each job at its   *)
(* date. Reading is a fold over the lines whose state is a record with the *)
(* jobs read, the submission date of the first job, if it is known (it is  *)
(* not while it is negative), and whether the trace has been refused.      *)
(*                                                                         *)
(* A field is an integer; times are in seconds. `broken` says which field  *)
(* of a line cannot be read: none, the submission date, or another one; or *)
(* that there are too few fields.                                          *)
(***************************************************************************)
EXTENDS Integers, SequencesExt

Broken == {"none", "submission", "other", "fields"}
SomeUser == "user"

Unread == [jobs |-> <<>>, first |-> -1, refused |-> FALSE]

FirstSubmission(state, sub) == IF state.first < 0 THEN sub ELSE state.first
Shifted(sub, first, desired) == IF desired >= 0 THEN sub + desired - first ELSE sub

\* An invalid job is passed over, or the trace is refused.
Invalid(state, ignore) == [state EXCEPT !.refused = ~ignore]

\* The times and the nodes of a job in a line of an SWF file, once completed
TimeAskedFor(line) == IF line.time < 0 THEN line.run ELSE line.time
ActualTime(line) == IF line.time >= 0 /\ line.run < 0 THEN line.time ELSE line.run
RequestedNodes(line) == IF line.nodes <= 0 THEN line.alloc ELSE line.nodes

\* A request that is too short is made as long as the job.
SWFJob(line, sub) ==
    LET time == ActualTime(line)
        requested == TimeAskedFor(line)
    IN  [name |-> line.user, sub |-> sub, time |-> time,
         requested |-> IF requested < time THEN time ELSE requested,
         ram |-> IF line.ram < 0 THEN 0 ELSE line.ram,
         nodes |-> RequestedNodes(line), user |-> line.user]

\* The submission date of the first job is known as soon as it is read, even if the rest of
\* its line is invalid.
ReadSWF(state, line, ignore, desired) ==
    LET first == FirstSubmission(state, line.sub)
        sub == Shifted(line.sub, first, desired)
        known == [state EXCEPT !.first = first]
    IN  IF state.refused \/ line.comment THEN state
        ELSE IF line.broken \in {"fields", "submission"} THEN Invalid(state, ignore)
        ELSE IF \/ line.broken = "other" \/ sub < 0
                \/ TimeAskedFor(line) < 0 \/ ActualTime(line) < 0
                \/ RequestedNodes(line) <= 0
        THEN Invalid(known, ignore)
        ELSE [known EXCEPT !.jobs = Append(@, SWFJob(line, sub))]

\* A job of a JSON file. Its nodes are an unsigned number, and its submission date is
\* shifted after it is checked.
ReadJSON(state, item, ignore, desired, word) ==
    LET first == FirstSubmission(state, item.sub)
        known == [state EXCEPT !.first = first]
        nodes == item.nodes % word
    IN  IF state.refused THEN state
        ELSE IF item.broken \in {"fields", "submission"} THEN Invalid(state, ignore)
        ELSE IF item.broken = "other" \/ nodes = 0 \/ item.sub < 0 \/ item.time < 0
        THEN Invalid(known, ignore)
        ELSE [known EXCEPT !.jobs =
                Append(@, [name |-> item.id, sub |-> Shifted(item.sub, first, desired),
                           time |-> item.time, requested |-> item.time, ram |-> 0,
                           nodes |-> nodes, user |-> SomeUser])]

LoadSWF(lines, ignore, desired) ==
    FoldLeft(LAMBDA s, l : ReadSWF(s, l, ignore, desired), Unread, lines)
LoadJSON(items, ignore, desired, word) ==
    FoldLeft(LAMBDA s, l : ReadJSON(s, l, ignore, desired, word), Unread, items)

\* The name of the file says which format it has; another is refused.
LoadFromTraceFile(extension, content, ignore, desired, word) ==
    CASE extension = "swf" -> LoadSWF(content, ignore, desired)
      [] extension = "json" -> LoadJSON(content, ignore, desired, word)
      [] OTHER -> [Unread EXCEPT !.refused = TRUE]

-------------------------------------------------------------------------------
(* WorkloadTraceFileReplayer::main: what it submits, and when. Jobs are    *)
(* submitted in the order of the file, each at its date or at once if that *)
(* has passed; a submission takes `delay`.                                 *)

Fudge == 1

\* A task per node, that needs all its cores for a second less than the job's time.
TaskTime(job) == IF job.time > Fudge THEN job.time - Fudge ELSE 0

\* The time asked for, in whole minutes: the service reads "2.500000" as 2.
MinutesAskedFor(job, useActual) ==
    1 + (IF useActual THEN job.time ELSE job.requested) \div 60

Replayed(state, job, useActual, delay) ==
    LET date == IF job.sub > state.now THEN job.sub ELSE state.now IN
    [now |-> date + delay,
     submitted |-> Append(state.submitted,
                          [date |-> date, tasks |-> job.nodes, nodes |-> job.nodes,
                           time |-> TaskTime(job), minutes |-> MinutesAskedFor(job, useActual),
                           ram |-> job.ram, user |-> job.name])]

Replay(jobs, useActual, delay) ==
    FoldLeft(LAMBDA s, j : Replayed(s, j, useActual, delay),
             [now |-> 0, submitted |-> <<>>], jobs).submitted

===============================================================================
