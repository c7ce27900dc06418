------------------------- MODULE TaskExecutionProofs -------------------------
(* Proofs about TaskExecution.tla, for every set of tasks, whatever files they read and
   write, and any number of executors, kills and copies. *)
EXTENDS TaskExecution, SequenceTheorems, FiniteSetTheorems, TLAPS

-------------------------------------------------------------------------------
(* The book *)

IsBook(b) == DOMAIN b = {"stamps", "pairs", "pending", "lost"} /\ b.lost \in BOOLEAN

\* Noting a start adds it.
LEMMA StartIsAdded ==
    ASSUME NEW b, IsBook(b), NEW s
    PROVE  /\ IsBook(Started(b, s)) /\ Started(b, s).lost = b.lost
           /\ Started(b, s).stamps = b.stamps \cup {s}
  BY DEF Started, IsBook

\* Noting an end adds it, or there was no start to pair it with.
LEMMA EndIsAdded ==
    ASSUME NEW b, IsBook(b), NEW e, NEW after \in Ended(b, e)
    PROVE  /\ IsBook(after) /\ (~after.lost => ~b.lost)
           /\ ~after.lost => after.stamps = b.stamps \cup {e}
<1>1. CASE WithKey(b, e) = {}
  <2>1. after = [b EXCEPT !.lost = TRUE]
    BY <1>1 DEF Ended
  <2> QED
    BY <2>1 DEF IsBook
<1>2. CASE WithKey(b, e) # {}
  <2>1. PICK s : after = [b EXCEPT !.stamps = @ \cup {e}, !.pairs = @ \cup {<<s, e>>},
                                   !.pending[e.of] = @ \ {s}]
    BY <1>2 DEF Ended
  <2> QED
    BY <2>1 DEF IsBook
<1> QED
  BY <1>1, <1>2

-------------------------------------------------------------------------------
(* The executions of one task *)

Outcomes == {"failed", "terminated"}
D1 == {"readStart"}
D3 == D1 \cup {"readEnd", "computeStart"}
D5 == D3 \cup {"computeEnd", "writeStart"}
D7 == D5 \cup {"writeEnd", "end"}
Noted == SUBSET (D7 \cup Outcomes)

\* The ends among the stamps S of execution i of task t.
IsEnd(e, t) == e.of = "task" /\ e.by = t /\ e.type # "start"
EndsIn(S, t, i) ==
    {s.type : s \in {e \in S : e.of = "task" /\ e.by = t /\ e.attempt = i /\ e.type # "start"}}

\* An execution that is over, with these dates and ends.
Over(dates, ends) ==
    /\ dates \ Outcomes \in {D1, D3, D5, D7}
    /\ \/ dates = D7 /\ ends = {"completion"}
       \/ dates \cap Outcomes = {"failed"} /\ ends = {"failure"}
       \/ dates \cap Outcomes = {"terminated"} /\ ends = {"termination"}

\* One that is not: what the executor does tells its dates.
UnderWay(ex, dates, state, ends) ==
    \/ /\ ~ex.failed /\ ~ex.completed /\ ends = {} /\ state = "TASK_RUNNING"
       /\ \/ ex.at = "reading" /\ dates = D1
          \/ ex.at \in {"spawning", "computing"} /\ dates = D3
          \/ ex.at = "writing" /\ dates = D5
    \/ /\ ex.at = "sending" /\ ex.failed /\ ~ex.completed /\ ends = {"failure"}
       /\ dates \in {D1 \cup {"failed"}, D5 \cup {"failed"}} /\ state = "TASK_FAILED"
    \/ /\ ex.at = "sending" /\ ex.completed /\ ~ex.failed /\ ends = {}
       /\ dates = D7 /\ state = "TASK_COMPLETED"

\* An executor whose task has not started.
NotBegun(ex) ==
    ~ex.started /\ ~ex.failed /\ ~ex.completed /\ ex.at \in {"off", "starting", "sending"}

Latest(ex, dates, state, ends) ==
    IF ex.started
    THEN UnderWay(ex, dates, state, ends)
    ELSE /\ NotBegun(ex) /\ Over(dates, ends)
         /\ state = "TASK_COMPLETED" <=> dates = D7

\* What there is to know of task t, with its executor, its history, its state and the stamps.
Sound(t, ex, h, state, S) ==
    /\ \A e \in S : IsEnd(e, t) => e.attempt \in 1 .. Len(h)
    /\ \A i \in 1 .. Len(h) - 1 : Over(h[i], EndsIn(S, t, i))
    /\ IF Len(h) = 0 THEN NotBegun(ex) ELSE Latest(ex, h[Len(h)], state, EndsIn(S, t, Len(h)))

\* Stamps that are no ends of executions that are over leave those as they were.
LEMMA OnTop ==
    ASSUME NEW t, NEW h \in Seq(Noted), Len(h) > 0,
           NEW ex, NEW state, NEW S, Sound(t, ex, h, state, S),
           NEW X, \A e \in X : IsEnd(e, t) => e.attempt = Len(h),
           NEW g \in Seq(Noted), Len(g) = Len(h), \A i \in 1 .. Len(h) - 1 : g[i] = h[i],
           NEW ex2, NEW state2,
           Latest(ex2, g[Len(h)], state2, EndsIn(S \cup X, t, Len(h)))
    PROVE  Sound(t, ex2, g, state2, S \cup X)
<1>1. \A e \in S \cup X : IsEnd(e, t) => e.attempt \in 1 .. Len(h)
  BY DEF Sound
<1>2. \A i \in 1 .. Len(h) - 1 : EndsIn(S \cup X, t, i) = EndsIn(S, t, i)
  BY DEF EndsIn, IsEnd
<1>3. \A i \in 1 .. Len(h) - 1 : Over(g[i], EndsIn(S \cup X, t, i))
  BY <1>2 DEF Sound
<1>4. Len(h) # 0 /\ Len(g) # 0
  OBVIOUS
<1>5. Latest(ex2, g[Len(g)], state2, EndsIn(S \cup X, t, Len(g)))
  OBVIOUS
<1>6. /\ \A e \in S \cup X : IsEnd(e, t) => e.attempt \in 1 .. Len(g)
      /\ \A i \in 1 .. Len(g) - 1 : Over(g[i], EndsIn(S \cup X, t, i))
  BY <1>1, <1>3
<1> QED
  BY <1>4, <1>5, <1>6 DEF Sound

\* The ends of the last execution, when none or one is added.
LEMMA EndsOnTop ==
    ASSUME NEW t, NEW n, NEW S, NEW X
    PROVE  /\ (\A e \in X : ~IsEnd(e, t)) => EndsIn(S \cup X, t, n) = EndsIn(S, t, n)
           /\ \A e \in X : (/\ IsEnd(e, t) /\ e.attempt = n /\ EndsIn(S, t, n) = {}
                             /\ \A d \in X : d = e \/ ~IsEnd(d, t))
                          => EndsIn(S \cup X, t, n) = {e.type}
  BY DEF EndsIn, IsEnd

\* An execution is added when those before it are over.
LEMMA NextExecution ==
    ASSUME NEW t, NEW h \in Seq(Noted), NEW ex, ~ex.started, NEW state, NEW S,
           Sound(t, ex, h, state, S),
           NEW X, \A e \in X : ~IsEnd(e, t),
           NEW dates \in Noted, NEW ex2, ex2.started, NEW state2,
           UnderWay(ex2, dates, state2, {})
    PROVE  Sound(t, ex2, Append(h, dates), state2, S \cup X)
<1> DEFINE g == Append(h, dates)
           n == Len(h) + 1
<1>1. /\ g \in Seq(Noted) /\ Len(g) = n /\ n \in Nat /\ n > 0 /\ Len(h) \in Nat
      /\ \A i \in 1 .. Len(h) : g[i] = h[i]
      /\ g[n] = dates
  OBVIOUS
<1>2. \A e \in S \cup X : IsEnd(e, t) => e.attempt \in 1 .. Len(h)
  BY DEF Sound
<1>3. \A i \in 1 .. Len(h) : Over(h[i], EndsIn(S, t, i))
  BY <1>1 DEF Sound, Latest
<1>4. \A i \in 1 .. Len(h) : EndsIn(S \cup X, t, i) = EndsIn(S, t, i)
  BY DEF EndsIn, IsEnd
<1>5. EndsIn(S \cup X, t, n) = {}
  <2>1. \A e \in S \cup X : ~(e.of = "task" /\ e.by = t /\ e.attempt = n /\ e.type # "start")
    BY <1>1, <1>2 DEF IsEnd
  <2> QED
    BY <2>1 DEF EndsIn
<1>6. /\ \A e \in S \cup X : IsEnd(e, t) => e.attempt \in 1 .. Len(g)
      /\ \A i \in 1 .. Len(g) - 1 : Over(g[i], EndsIn(S \cup X, t, i))
  <2>1. 1 .. Len(g) - 1 = 1 .. Len(h) /\ 1 .. Len(h) \subseteq 1 .. Len(g)
    BY <1>1
  <2>2. \A i \in 1 .. Len(h) : Over(g[i], EndsIn(S \cup X, t, i))
    <3> TAKE i \in 1 .. Len(h)
    <3>1. g[i] = h[i] /\ EndsIn(S \cup X, t, i) = EndsIn(S, t, i)
      BY <1>1, <1>4
    <3> QED
      BY <1>3, <3>1
  <2> HIDE DEF g
  <2> QED
    BY <1>2, <2>1, <2>2
<1>7. Latest(ex2, g[n], state2, EndsIn(S \cup X, t, n))
  BY <1>1, <1>5 DEF Latest
<1>8. Latest(ex2, g[Len(g)], state2, EndsIn(S \cup X, t, Len(g))) /\ Len(g) # 0
  BY <1>1, <1>7
<1> HIDE DEF g
<1>9. Sound(t, ex2, g, state2, S \cup X)
  BY <1>6, <1>8 DEF Sound
<1> QED
  BY <1>9 DEF g

-------------------------------------------------------------------------------
(* All tasks *)

IsExecutor(ex) ==
    /\ DOMAIN ex = {"at", "left", "location", "started", "failed", "completed"}
    /\ ex.at \in Phases
    /\ ex.started \in BOOLEAN /\ ex.failed \in BOOLEAN /\ ex.completed \in BOOLEAN

Shape ==
    /\ DOMAIN executor = Tasks /\ \A t \in Tasks : IsExecutor(executor[t])
    /\ history \in [Tasks -> Seq(Noted)]
    /\ DOMAIN internal = Tasks
    /\ IsBook(book)

TasksAreSound ==
    \A t \in Tasks : Sound(t, executor[t], history[t], internal[t], book.stamps)

ExecutionInv == Shape /\ (~book.lost => TasksAreSound)

\* Stamps that are no ends of task t change nothing for it.
LEMMA Elsewhere ==
    ASSUME NEW t, NEW ex, NEW h, NEW state, NEW S, Sound(t, ex, h, state, S),
           NEW X, \A e \in X : ~IsEnd(e, t)
    PROVE  Sound(t, ex, h, state, S \cup X)
<1>1. \A i : EndsIn(S \cup X, t, i) = EndsIn(S, t, i)
  BY DEF EndsIn, IsEnd
<1>2. \A e \in S \cup X : IsEnd(e, t) => e \in S
  OBVIOUS
<1> QED
  BY <1>1, <1>2 DEF Sound

\* What a step of the executor of one task has to show.
LEMMA OneTask ==
    ASSUME ExecutionInv, ~book.lost, NEW t \in Tasks, NEW X,
           \A e \in X : \A u \in Tasks : IsEnd(e, u) => u = t,
           DOMAIN executor' = Tasks, IsExecutor(executor'[t]), DOMAIN internal' = Tasks,
           history' \in [Tasks -> Seq(Noted)],
           \A u \in Tasks : u # t => /\ executor'[u] = executor[u] /\ history'[u] = history[u]
                                   /\ internal'[u] = internal[u],
           IsBook(book'),
           ~book'.lost => /\ book'.stamps = book.stamps \cup X
                          /\ Sound(t, executor'[t], history'[t], internal'[t], book.stamps \cup X)
    PROVE  ExecutionInv'
<1>1. Shape'
  BY DEF ExecutionInv, Shape
<1>2. ASSUME ~book'.lost, NEW u \in Tasks, u # t
      PROVE  Sound(u, executor'[u], history'[u], internal'[u], book.stamps \cup X)
  <2>1. Sound(u, executor[u], history[u], internal[u], book.stamps) /\ \A e \in X : ~IsEnd(e, u)
    BY <1>2 DEF ExecutionInv, TasksAreSound
  <2>2. Sound(u, executor[u], history[u], internal[u], book.stamps \cup X)
    BY <2>1, Elsewhere
  <2> QED
    BY <1>2, <2>2
<1> QED
  BY <1>1, <1>2 DEF ExecutionInv, TasksAreSound

\* One that notes nothing.
LEMMA OneTaskQuietly ==
    ASSUME ExecutionInv, ~book.lost, NEW t \in Tasks,
           DOMAIN executor' = Tasks, IsExecutor(executor'[t]), DOMAIN internal' = Tasks,
           history' \in [Tasks -> Seq(Noted)],
           \A u \in Tasks : u # t => /\ executor'[u] = executor[u] /\ history'[u] = history[u]
                                   /\ internal'[u] = internal[u],
           book' = book,
           Sound(t, executor'[t], history'[t], internal'[t], book.stamps)
    PROVE  ExecutionInv'
<1> DEFINE X == {}
<1>1. book.stamps = book.stamps \cup X /\ \A e \in X : \A u \in Tasks : IsEnd(e, u) => u = t
  OBVIOUS
<1>2. IsBook(book')
  BY DEF ExecutionInv, Shape
<1> HIDE DEF X
<1>3. /\ book'.stamps = book.stamps \cup X
      /\ Sound(t, executor'[t], history'[t], internal'[t], book.stamps \cup X)
  BY <1>1
<1> QED
  BY <1>1, <1>2, <1>3, OneTask

\* Dates are added to the last execution of one task.
LEMMA DatesAreSet ==
    ASSUME Shape, NEW t \in Tasks, NEW dates \in Noted, history' = SetDates(t, dates)
    PROVE  /\ history' \in [Tasks -> Seq(Noted)]
           /\ \A u \in Tasks : u # t => history'[u] = history[u]
           /\ Len(history'[t]) = Len(history[t])
           /\ \A i \in 1 .. Len(history[t]) - 1 : history'[t][i] = history[t][i]
           /\ Len(history[t]) > 0 =>
                history'[t][Len(history[t])] = history[t][Len(history[t])] \cup dates
<1> DEFINE h == history[t]
           n == Len(h)
           g == [h EXCEPT ![n] = @ \cup dates]
<1>1. h \in Seq(Noted) /\ n \in Nat
  BY DEF Shape
<1>2. history' = [history EXCEPT ![t] = g]
  BY DEF SetDates, Execution
<1>3. /\ g \in Seq(Noted) /\ Len(g) = n
      /\ \A i \in 1 .. n - 1 : g[i] = h[i]
      /\ n > 0 => g[n] = h[n] \cup dates
  <2>1. CASE n > 0
    <3>1. n \in 1 .. n /\ h[n] \cup dates \in Noted
      BY <1>1, <2>1 DEF Noted
    <3>2. g \in Seq(Noted) /\ Len(g) = n
      BY <1>1, <3>1, ExceptSeq
    <3> QED
      BY <1>1, <2>1, <3>1, <3>2
  <2>2. CASE n = 0
    <3>1. h = <<>>
      BY <1>1, <2>2
    <3>2. g = h
      BY <3>1
    <3> HIDE DEF g
    <3> QED
      BY <1>1, <2>2, <3>2
  <2> QED
    BY <1>1, <2>1, <2>2
<1>4. history'[t] = g /\ \A u \in Tasks : u # t => history'[u] = history[u]
  BY <1>2 DEF Shape
<1>5. history' \in [Tasks -> Seq(Noted)]
  BY <1>2, <1>3 DEF Shape
<1> HIDE DEF g
<1> QED
  BY <1>3, <1>4, <1>5

\* The executor at work tells the state of its task.
LEMMA AtWork ==
    ASSUME ExecutionInv, ~book.lost, NEW t \in Tasks,
           executor[t].at \in {"reading", "spawning", "computing", "writing"} \/ executor[t].started
    PROVE  /\ Len(history[t]) > 0 /\ executor[t].started
           /\ Sound(t, executor[t], history[t], internal[t], book.stamps)
           /\ UnderWay(executor[t], history[t][Len(history[t])], internal[t],
                       EndsIn(book.stamps, t, Len(history[t])))
<1>1. Sound(t, executor[t], history[t], internal[t], book.stamps)
  BY DEF ExecutionInv, TasksAreSound
<1>2. ~NotBegun(executor[t])
  BY DEF NotBegun
<1>3. Len(history[t]) # 0 /\ Len(history[t]) \in Nat
  BY <1>1, <1>2 DEF Sound, ExecutionInv, Shape
<1>4. Latest(executor[t], history[t][Len(history[t])], internal[t],
             EndsIn(book.stamps, t, Len(history[t])))
  BY <1>1, <1>3 DEF Sound
<1> QED
  BY <1>1, <1>2, <1>3, <1>4 DEF Latest

\* And one that is not at work.
LEMMA NotAtWork ==
    ASSUME ExecutionInv, ~book.lost, NEW t \in Tasks, executor[t].at \in {"off", "starting"}
    PROVE  /\ Sound(t, executor[t], history[t], internal[t], book.stamps)
           /\ NotBegun(executor[t])
<1>1. Sound(t, executor[t], history[t], internal[t], book.stamps)
  BY DEF ExecutionInv, TasksAreSound
<1> QED
  BY <1>1 DEF Sound, Latest, UnderWay, NotBegun

-------------------------------------------------------------------------------
(* The steps *)

\* An executor that has no task started may change, if the task is not ready by mistake.
LEMMA BeforeTheStart ==
    ASSUME ExecutionInv, ~book.lost, NEW t \in Tasks, Start(t) \/ CannotBegin(t)
    PROVE  ExecutionInv'
<1>1. /\ Sound(t, executor[t], history[t], internal[t], book.stamps)
      /\ NotBegun(executor[t])
  BY NotAtWork DEF Start, CannotBegin
<1>2. /\ DOMAIN executor' = Tasks /\ IsExecutor(executor'[t]) /\ NotBegun(executor'[t])
      /\ \A u \in Tasks : u # t => executor'[u] = executor[u] /\ internal'[u] = internal[u]
      /\ DOMAIN internal' = Tasks
      /\ internal'[t] = internal[t] \/ (internal[t] # "TASK_COMPLETED" /\ internal'[t] = "TASK_READY")
  <2>1. CASE Start(t)
    BY <2>1 DEF Start, Off, IsExecutor, Phases, NotBegun, ExecutionInv, Shape
  <2>2. CASE CannotBegin(t)
    BY <1>1, <2>2 DEF CannotBegin, IsExecutor, Phases, NotBegun, ExecutionInv, Shape
  <2> QED
    BY <2>1, <2>2
<1>3. history' = history /\ book' = book
  BY DEF Start, CannotBegin
<1>4. Sound(t, executor'[t], history[t], internal'[t], book.stamps)
  BY <1>1, <1>2 DEF Sound, Latest, NotBegun
<1>5. history' \in [Tasks -> Seq(Noted)]
  BY <1>3 DEF ExecutionInv, Shape
<1> QED
  BY <1>2, <1>3, <1>4, <1>5, OneTaskQuietly

\* The threads of the task are created.
LEMMA WhenSpawned ==
    ASSUME ExecutionInv, ~book.lost, NEW t \in Tasks, Spawned(t)
    PROVE  ExecutionInv'
<1> DEFINE h == history[t]
<1>1. /\ Len(h) > 0 /\ executor[t].started /\ Sound(t, executor[t], h, internal[t], book.stamps)
      /\ UnderWay(executor[t], h[Len(h)], internal[t], EndsIn(book.stamps, t, Len(h)))
  BY AtWork DEF Spawned
<1>2. /\ DOMAIN executor' = Tasks /\ IsExecutor(executor'[t]) /\ executor'[t].started
      /\ executor[t].at = "spawning" /\ executor'[t].at = "computing"
      /\ executor'[t].failed = executor[t].failed /\ executor'[t].completed = executor[t].completed
      /\ \A u \in Tasks : u # t => executor'[u] = executor[u]
  <2>1. /\ executor[t].at = "spawning" /\ executor' = [executor EXCEPT ![t].at = "computing"]
        /\ IsExecutor(executor[t]) /\ DOMAIN executor = Tasks
    BY DEF Spawned, ExecutionInv, Shape
  <2>2. /\ executor'[t] = [executor[t] EXCEPT !.at = "computing"] /\ DOMAIN executor' = Tasks
        /\ \A u \in Tasks : u # t => executor'[u] = executor[u]
    BY <2>1
  <2> QED
    BY <1>1, <2>1, <2>2 DEF IsExecutor, Phases
<1>3. UNCHANGED <<internal, history, book>>
  BY DEF Spawned
<1>4. UnderWay(executor'[t], h[Len(h)], internal[t], EndsIn(book.stamps, t, Len(h)))
  BY <1>1, <1>2 DEF UnderWay
<1>5. Sound(t, executor'[t], h, internal[t], book.stamps)
  BY <1>1, <1>2, <1>4 DEF Sound, Latest
<1>6. history' \in [Tasks -> Seq(Noted)] /\ DOMAIN internal' = Tasks
  BY <1>3 DEF ExecutionInv, Shape
<1> QED
  BY <1>2, <1>3, <1>5, <1>6, OneTaskQuietly

\* The task starts: its last execution is over, and the next is under way.
LEMMA WhenBegun ==
    ASSUME ExecutionInv, ~book.lost, NEW t \in Tasks, Begin(t)
    PROVE  ExecutionInv'
<1> DEFINE h == history[t]
           none == Inputs[t] = <<>>
           n == Execution(t) + 1
           chosen == [f \in FilesOf(t) |-> Chosen(f)]
           stamp == Stamp("task", "start", t, n, <<t>>)
           read == Stamp("read", "start", t, n, <<Inputs[t][1], chosen[Inputs[t][1]]>>)
           X == IF none THEN {stamp} ELSE {stamp, read}
           dates == IF none THEN D3 ELSE D1
<1>1. /\ Sound(t, executor[t], h, internal[t], book.stamps) /\ NotBegun(executor[t])
      /\ h \in Seq(Noted) /\ ~executor[t].started
  BY NotAtWork DEF Begin, NotBegun, ExecutionInv, Shape
<1>2. /\ DOMAIN executor' = Tasks /\ IsExecutor(executor'[t]) /\ executor'[t].started
      /\ executor'[t].at = (IF none THEN "spawning" ELSE "reading")
      /\ ~executor'[t].failed /\ ~executor'[t].completed
      /\ \A u \in Tasks : u # t => executor'[u] = executor[u]
  <2>1. IsExecutor(executor[t]) /\ DOMAIN executor = Tasks
    BY DEF ExecutionInv, Shape
  <2>2. CASE none
    <3>1. executor' = [executor EXCEPT ![t] = [executor[t] EXCEPT !.started = TRUE,
                                   !.location = chosen, !.at = "spawning"]]
      BY <2>2 DEF Begin
    <3> QED
      BY <1>1, <2>1, <2>2, <3>1 DEF IsExecutor, Phases, NotBegun
  <2>3. CASE ~none
    <3>1. executor' = [executor EXCEPT ![t] = [executor[t] EXCEPT !.started = TRUE,
                                   !.location = chosen, !.at = "reading", !.left = Inputs[t]]]
      BY <2>3 DEF Begin
    <3> QED
      BY <1>1, <2>1, <2>3, <3>1 DEF IsExecutor, Phases, NotBegun
  <2> QED
    BY <2>2, <2>3
<1>3. /\ DOMAIN internal' = Tasks /\ internal'[t] = "TASK_RUNNING"
      /\ \A u \in Tasks : u # t => internal'[u] = internal[u]
  BY DEF Begin, ExecutionInv, Shape
<1>4. dates \in Noted /\ history' = [history EXCEPT ![t] = Append(h, dates)]
  BY DEF Begin, Noted, D1, D3, D5, D7
<1>5. /\ history' \in [Tasks -> Seq(Noted)] /\ history'[t] = Append(h, dates)
      /\ \A u \in Tasks : u # t => history'[u] = history[u]
  BY <1>1, <1>4 DEF ExecutionInv, Shape
<1>6. IsBook(book') /\ book'.stamps = book.stamps \cup X
  <2>1. IsBook(book)
    BY DEF ExecutionInv, Shape
  <2>2. /\ IsBook(Started(book, stamp)) /\ Started(book, stamp).stamps = book.stamps \cup {stamp}
    BY <2>1, StartIsAdded
  <2>3. /\ IsBook(Started(Started(book, stamp), read))
        /\ Started(Started(book, stamp), read).stamps = book.stamps \cup {stamp} \cup {read}
    BY <2>2, StartIsAdded
  <2>4. CASE none
    <3>1. book' = Started(book, stamp)
      BY <2>4 DEF Begin
    <3> QED
      BY <2>2, <2>4, <3>1
  <2>5. CASE ~none
    <3>1. book' = Started(Started(book, stamp), read)
      BY <2>5, <1>1 DEF Begin
    <3> QED
      BY <2>3, <2>5, <3>1
  <2> QED
    BY <2>4, <2>5
<1>7. \A e \in X : \A u \in Tasks : ~IsEnd(e, u)
  BY DEF IsEnd, Stamp
<1>8. UnderWay(executor'[t], dates, internal'[t], {})
  BY <1>2, <1>3 DEF UnderWay
<1> HIDE DEF X, dates
<1>9. Sound(t, executor'[t], Append(h, dates), internal'[t], book.stamps \cup X)
  BY <1>1, <1>2, <1>4, <1>7, <1>8, NextExecution
<1> QED
  BY <1>2, <1>3, <1>5, <1>6, <1>7, <1>9, OneTask

\* What a step of an executor at work has to show: what it is for the execution on top.
LEMMA WorkStep ==
    ASSUME ExecutionInv, ~book.lost, NEW t \in Tasks,
           executor[t].at \in {"reading", "spawning", "computing", "writing"} \/ executor[t].started,
           NEW X, \A e \in X : \A u \in Tasks : IsEnd(e, u) => u = t /\ e.attempt = Execution(t),
           DOMAIN executor' = Tasks, IsExecutor(executor'[t]), DOMAIN internal' = Tasks,
           \A u \in Tasks : u # t => executor'[u] = executor[u] /\ internal'[u] = internal[u],
           NEW dates \in Noted,
           history' = SetDates(t, dates) \/ (history' = history /\ dates = {}),
           IsBook(book'),
           ~book'.lost =>
             /\ book'.stamps = book.stamps \cup X
             /\ Latest(executor'[t], history[t][Execution(t)] \cup dates, internal'[t],
                       EndsIn(book.stamps \cup X, t, Execution(t)))
    PROVE  ExecutionInv'
<1> DEFINE h == history[t]
           g == history'[t]
<1>1. Len(h) > 0 /\ Sound(t, executor[t], h, internal[t], book.stamps)
  BY AtWork
<1>2. h \in Seq(Noted) /\ Shape
  BY DEF ExecutionInv, Shape
<1>3. /\ history' \in [Tasks -> Seq(Noted)]
      /\ \A u \in Tasks : u # t => history'[u] = history[u]
      /\ Len(g) = Len(h) /\ \A i \in 1 .. Len(h) - 1 : g[i] = h[i]
      /\ g[Len(h)] = h[Len(h)] \cup dates
  <2>1. CASE history' = SetDates(t, dates)
    BY <1>1, <1>2, <2>1, DatesAreSet
  <2>2. CASE history' = history /\ dates = {}
    BY <1>2, <2>2 DEF Shape
  <2> QED
    BY <2>1, <2>2
<1>4. g \in Seq(Noted)
  BY <1>3
<1>5. ASSUME ~book'.lost PROVE Sound(t, executor'[t], g, internal'[t], book.stamps \cup X)
  <2>1. Latest(executor'[t], g[Len(h)], internal'[t], EndsIn(book.stamps \cup X, t, Len(h)))
    BY <1>3, <1>5 DEF Execution
  <2>2. \A e \in X : IsEnd(e, t) => e.attempt = Len(h)
    BY DEF Execution
  <2> HIDE DEF g, h
  <2> QED
    BY <1>1, <1>2, <1>3, <1>4, <2>1, <2>2, OnTop
<1>6. \A e \in X : \A u \in Tasks : IsEnd(e, u) => u = t
  OBVIOUS
<1>7. \A u \in Tasks : u # t => /\ executor'[u] = executor[u] /\ history'[u] = history[u]
                             /\ internal'[u] = internal[u]
  BY <1>3
<1>8. ~book'.lost => /\ book'.stamps = book.stamps \cup X
                     /\ Sound(t, executor'[t], g, internal'[t], book.stamps \cup X)
  BY <1>5
<1> QED
  BY <1>3, <1>6, <1>7, <1>8, OneTask

\* A file that could not be read or written.
LEMMA WhenFailing ==
    ASSUME ExecutionInv, ~book.lost, NEW t \in Tasks, CannotRead(t) \/ CannotWrite(t)
    PROVE  ExecutionInv'
<1> DEFINE n == Execution(t)
           d == history[t][n]
           e == TaskStamp("failure", t)
<1>1. /\ executor[t].started
      /\ UnderWay(executor[t], d, internal[t], EndsIn(book.stamps, t, n))
      /\ executor[t].at \in {"reading", "writing"}
  BY AtWork DEF CannotRead, CannotWrite, Execution
<1>2. PICK s : Fails(t, s) /\ s.of # "task"
  BY DEF CannotRead, CannotWrite, ReadStamp, WriteStamp, Stamp
<1>3. /\ DOMAIN executor' = Tasks /\ IsExecutor(executor'[t]) /\ executor'[t].started
      /\ executor'[t].at = "sending" /\ executor'[t].failed
      /\ executor'[t].completed = executor[t].completed
      /\ \A u \in Tasks : u # t => executor'[u] = executor[u]
  <2>1. /\ executor' = [executor EXCEPT ![t].at = "sending", ![t].failed = TRUE]
        /\ IsExecutor(executor[t]) /\ DOMAIN executor = Tasks
    BY <1>2 DEF Fails, ExecutionInv, Shape
  <2> QED
    BY <1>1, <2>1 DEF IsExecutor, Phases
<1>4. /\ DOMAIN internal' = Tasks /\ internal'[t] = "TASK_FAILED"
      /\ \A u \in Tasks : u # t => internal'[u] = internal[u]
  BY <1>2 DEF Fails, ExecutionInv, Shape
<1>5. history' = SetDates(t, {"failed"}) /\ {"failed"} \in Noted
  BY <1>2 DEF Fails, Noted, Outcomes
<1>6. IsBook(book') /\ (~book'.lost => book'.stamps = book.stamps \cup {s, e})
  <2>1. IsBook(book)
    BY DEF ExecutionInv, Shape
  <2>2. PICK b \in Ended(book, s) : book' \in Ended(b, e)
    BY <1>2 DEF Fails
  <2>3. IsBook(b) /\ (~b.lost => b.stamps = book.stamps \cup {s})
    BY <2>1, <2>2, EndIsAdded
  <2>4. /\ IsBook(book') /\ (~book'.lost => ~b.lost)
        /\ ~book'.lost => book'.stamps = b.stamps \cup {e}
    BY <2>2, <2>3, EndIsAdded
  <2> QED
    BY <2>3, <2>4
<1> DEFINE X == {s, e}
<1>7. /\ \A x \in X : \A u \in Tasks : IsEnd(x, u) => u = t /\ x.attempt = n
      /\ e \in X /\ \A x \in X : x = e \/ ~IsEnd(x, t)
      /\ IsEnd(e, t) /\ e.attempt = n /\ e.type = "failure"
  BY <1>2 DEF IsEnd, TaskStamp, Stamp
<1>8. /\ EndsIn(book.stamps, t, n) = {} /\ d \in {D1, D5} /\ ~executor[t].completed
  BY <1>1 DEF UnderWay
<1>9. IsBook(book') /\ (~book'.lost => book'.stamps = book.stamps \cup X)
  BY <1>6
<1> HIDE DEF e, X, n
<1>10. EndsIn(book.stamps \cup X, t, n) = {"failure"}
  BY <1>7, <1>8, EndsOnTop
<1>11. Latest(executor'[t], d \cup {"failed"}, internal'[t], EndsIn(book.stamps \cup X, t, n))
  BY <1>3, <1>4, <1>8, <1>10 DEF Latest, UnderWay
<1>12. \A u \in Tasks : u # t => executor'[u] = executor[u] /\ internal'[u] = internal[u]
  BY <1>3, <1>4
<1> USE DEF n
<1>13. \A x \in X : \A u \in Tasks : IsEnd(x, u) => u = t /\ x.attempt = Execution(t)
  BY <1>7
<1>14. ~book'.lost =>
         /\ book'.stamps = book.stamps \cup X
         /\ Latest(executor'[t], history[t][Execution(t)] \cup {"failed"}, internal'[t],
                   EndsIn(book.stamps \cup X, t, Execution(t)))
  BY <1>9, <1>11
<1> QED
  BY <1>1, <1>3, <1>4, <1>5, <1>9, <1>12, <1>13, <1>14, WorkStep

\* What is known when the executor has gone on to a file.
IsOnTo(t, phase, b) ==
    \E s : /\ DOMAIN executor' = Tasks /\ IsExecutor(executor'[t])
           /\ executor'[t].at = phase /\ executor'[t].started = executor[t].started
           /\ executor'[t].failed = executor[t].failed
           /\ executor'[t].completed = executor[t].completed
           /\ \A u \in Tasks : u # t => executor'[u] = executor[u]
           /\ IsBook(book') /\ book'.lost = b.lost /\ book'.stamps = b.stamps \cup {s}
           /\ s.of # "task"

\* The executor goes on to the first of some files: a start is noted.
LEMMA OnToAFile ==
    ASSUME ExecutionInv, NEW t \in Tasks, NEW phase \in Phases, NEW of, of # "task", NEW files,
           NEW b, IsBook(b), OnTo(t, phase, of, files, b)
    PROVE  IsOnTo(t, phase, b)
<1> DEFINE s == Stamp(of, "start", t, Execution(t),
                      <<Head(files), executor[t].location[Head(files)]>>)
<1>1. /\ executor' = [executor EXCEPT ![t].at = phase, ![t].left = files]
      /\ IsExecutor(executor[t]) /\ DOMAIN executor = Tasks
  BY DEF OnTo, ExecutionInv, Shape
<1>2. /\ DOMAIN executor' = Tasks /\ IsExecutor(executor'[t])
      /\ executor'[t].at = phase /\ executor'[t].started = executor[t].started
      /\ executor'[t].failed = executor[t].failed
      /\ executor'[t].completed = executor[t].completed
      /\ \A u \in Tasks : u # t => executor'[u] = executor[u]
  BY <1>1 DEF IsExecutor
<1>3. s.of # "task"
  BY DEF Stamp
<1>4. book' = Started(b, s)
  BY DEF OnTo
<1> HIDE DEF s
<1>5. IsBook(book') /\ book'.lost = b.lost /\ book'.stamps = b.stamps \cup {s}
  BY <1>4, StartIsAdded
<1> QED
  BY <1>2, <1>3, <1>5 DEF IsOnTo

\* The task has completed, which is not noted before the executor returns.
LEMMA WhenCompleted ==
    ASSUME ExecutionInv, NEW t \in Tasks, NEW dates, Completes(t, dates)
    PROVE  /\ DOMAIN executor' = Tasks /\ IsExecutor(executor'[t])
           /\ executor'[t].at = "sending" /\ executor'[t].started = executor[t].started
           /\ executor'[t].failed = executor[t].failed /\ executor'[t].completed
           /\ \A u \in Tasks : u # t => executor'[u] = executor[u]
           /\ DOMAIN internal' = Tasks /\ internal'[t] = "TASK_COMPLETED"
           /\ \A u \in Tasks : u # t => internal'[u] = internal[u]
<1>1. /\ executor' = [executor EXCEPT ![t].at = "sending", ![t].completed = TRUE, ![t].left = <<>>]
      /\ IsExecutor(executor[t]) /\ DOMAIN executor = Tasks
      /\ internal' = [internal EXCEPT ![t] = "TASK_COMPLETED"] /\ DOMAIN internal = Tasks
  BY DEF Completes, ExecutionInv, Shape
<1> QED
  BY <1>1 DEF IsExecutor, Phases

\* A step after which the task is still under way, and which notes no end of it.
LEMMA StillUnderWay ==
    ASSUME ExecutionInv, ~book.lost, NEW t \in Tasks, executor[t].started, ~executor[t].failed,
           ~executor[t].completed,
           NEW X, \A e \in X : e.of # "task",
           DOMAIN executor' = Tasks, IsExecutor(executor'[t]), DOMAIN internal' = Tasks,
           executor'[t].started,
           \A u \in Tasks : u # t => executor'[u] = executor[u] /\ internal'[u] = internal[u],
           NEW dates \in Noted,
           history' = SetDates(t, dates) \/ (history' = history /\ dates = {}),
           IsBook(book'), ~book'.lost => book'.stamps = book.stamps \cup X,
           UnderWay(executor'[t], history[t][Execution(t)] \cup dates, internal'[t], {})
    PROVE  ExecutionInv'
<1> DEFINE n == Execution(t)
<1>1. EndsIn(book.stamps, t, n) = {}
  BY AtWork DEF UnderWay, Execution
<1>2. \A e \in X : \A u \in Tasks : ~IsEnd(e, u)
  BY DEF IsEnd
<1> HIDE DEF n
<1>3. EndsIn(book.stamps \cup X, t, n) = {}
  BY <1>1, <1>2, EndsOnTop
<1> USE DEF n
<1>4. ~book'.lost =>
         /\ book'.stamps = book.stamps \cup X
         /\ Latest(executor'[t], history[t][Execution(t)] \cup dates, internal'[t],
                   EndsIn(book.stamps \cup X, t, Execution(t)))
  BY <1>3 DEF Latest
<1>5. \A e \in X : \A u \in Tasks : IsEnd(e, u) => u = t /\ e.attempt = Execution(t)
  BY <1>2
<1> QED
  BY <1>4, <1>5, WorkStep

\* A file is read.
LEMMA WhenRead ==
    ASSUME ExecutionInv, ~book.lost, NEW t \in Tasks, Reads(t)
    PROVE  ExecutionInv'
<1> DEFINE d == history[t][Execution(t)]
           rest == Tail(executor[t].left)
<1>1. /\ executor[t].started /\ ~executor[t].failed /\ ~executor[t].completed /\ d = D1
      /\ internal[t] = "TASK_RUNNING"
  <2>1. executor[t].at = "reading"
    BY DEF Reads
  <2>2. /\ executor[t].started
        /\ UnderWay(executor[t], d, internal[t], EndsIn(book.stamps, t, Execution(t)))
    BY <2>1, AtWork DEF Execution
  <2> QED
    BY <2>1, <2>2 DEF UnderWay
<1>2. PICK e : /\ e.of # "task"
               /\ \E b \in Ended(book, e) :
                    IF rest # <<>>
                    THEN OnTo(t, "reading", "read", rest, b) /\ history' = history
                    ELSE /\ history' = SetDates(t, {"readEnd", "computeStart"})
                         /\ executor' = [executor EXCEPT ![t].at = "spawning", ![t].left = <<>>]
                         /\ book' = b
  BY DEF Reads, ReadStamp, Stamp
<1>3. PICK b \in Ended(book, e) :
        IF rest # <<>>
        THEN OnTo(t, "reading", "read", rest, b) /\ history' = history
        ELSE /\ history' = SetDates(t, {"readEnd", "computeStart"})
             /\ executor' = [executor EXCEPT ![t].at = "spawning", ![t].left = <<>>]
             /\ book' = b
  BY <1>2
<1>4. IsBook(b) /\ (~b.lost => b.stamps = book.stamps \cup {e})
  BY EndIsAdded DEF ExecutionInv, Shape
<1>5. internal' = internal /\ DOMAIN internal' = Tasks
  BY DEF Reads, ExecutionInv, Shape
<1>6. CASE rest # <<>>
  <2>1. OnTo(t, "reading", "read", rest, b) /\ history' = history
    BY <1>3, <1>6
  <2> HIDE DEF rest
  <2>2. PICK s : /\ DOMAIN executor' = Tasks /\ IsExecutor(executor'[t])
                 /\ executor'[t].at = "reading" /\ executor'[t].started = executor[t].started
                 /\ executor'[t].failed = executor[t].failed
                 /\ executor'[t].completed = executor[t].completed
                 /\ \A u \in Tasks : u # t => executor'[u] = executor[u]
                 /\ IsBook(book') /\ book'.lost = b.lost /\ book'.stamps = b.stamps \cup {s}
                 /\ s.of # "task"
    <3>1. "reading" \in Phases /\ "read" # "task"
      BY DEF Phases
    <3>2. IsOnTo(t, "reading", b)
      BY <1>4, <2>1, <3>1, OnToAFile
    <3> QED
      BY <3>2 DEF IsOnTo
  <2> DEFINE X == {e, s}
  <2>3. /\ \A x \in X : x.of # "task"
        /\ ~book'.lost => book'.stamps = book.stamps \cup X
    BY <1>2, <1>4, <2>2
  <2> HIDE DEF X
  <2>4. /\ UnderWay(executor'[t], d \cup {}, internal'[t], {}) /\ {} \in Noted
    BY <1>1, <1>5, <2>2 DEF UnderWay, Noted
  <2> QED
    BY <1>1, <1>5, <2>1, <2>2, <2>3, <2>4, StillUnderWay
<1>7. CASE rest = <<>>
  <2>1. /\ history' = SetDates(t, {"readEnd", "computeStart"})
        /\ executor' = [executor EXCEPT ![t].at = "spawning", ![t].left = <<>>]
        /\ book' = b
    BY <1>3, <1>7
  <2>2. /\ DOMAIN executor' = Tasks /\ IsExecutor(executor'[t])
        /\ executor'[t].at = "spawning" /\ executor'[t].started = executor[t].started
        /\ executor'[t].failed = executor[t].failed
        /\ executor'[t].completed = executor[t].completed
        /\ \A u \in Tasks : u # t => executor'[u] = executor[u]
    <3>1. IsExecutor(executor[t]) /\ DOMAIN executor = Tasks
      BY DEF ExecutionInv, Shape
    <3> QED
      BY <2>1, <3>1 DEF IsExecutor, Phases
  <2> DEFINE X == {e}
             dates == {"readEnd", "computeStart"}
  <2>3. /\ \A x \in X : x.of # "task"
        /\ IsBook(book') /\ (~book'.lost => book'.stamps = book.stamps \cup X)
    BY <1>2, <1>4, <2>1
  <2>4. d \cup dates = D3 /\ dates \in Noted
    BY <1>1 DEF D1, D3, D5, D7, Noted
  <2>5. history' = SetDates(t, dates)
    BY <2>1
  <2> HIDE DEF X, dates
  <2>6. UnderWay(executor'[t], d \cup dates, internal'[t], {})
    BY <1>1, <1>5, <2>2, <2>4 DEF UnderWay
  <2> QED
    BY <1>1, <1>5, <2>2, <2>3, <2>4, <2>5, <2>6, StillUnderWay
<1> QED
  BY <1>6, <1>7

\* The threads of the task are done.
LEMMA WhenComputed ==
    ASSUME ExecutionInv, ~book.lost, NEW t \in Tasks, Computes(t)
    PROVE  ExecutionInv'
<1> DEFINE d == history[t][Execution(t)]
<1>1. /\ executor[t].started /\ ~executor[t].failed /\ ~executor[t].completed /\ d = D3
      /\ internal[t] = "TASK_RUNNING"
  <2>1. executor[t].at = "computing"
    BY DEF Computes
  <2>2. /\ executor[t].started
        /\ UnderWay(executor[t], d, internal[t], EndsIn(book.stamps, t, Execution(t)))
    BY <2>1, AtWork DEF Execution
  <2> QED
    BY <2>1, <2>2 DEF UnderWay
<1>2. IsBook(book)
  BY DEF ExecutionInv, Shape
<1>3. CASE Outputs[t] = <<>>
  <2>1. Completes(t, {"computeEnd", "writeStart"}) /\ book' = book
    BY <1>3 DEF Computes
  <2>2. /\ DOMAIN executor' = Tasks /\ IsExecutor(executor'[t])
        /\ executor'[t].at = "sending" /\ executor'[t].started = executor[t].started
        /\ executor'[t].failed = executor[t].failed /\ executor'[t].completed
        /\ \A u \in Tasks : u # t => executor'[u] = executor[u]
        /\ DOMAIN internal' = Tasks /\ internal'[t] = "TASK_COMPLETED"
        /\ \A u \in Tasks : u # t => internal'[u] = internal[u]
    BY <2>1, WhenCompleted
  <2> DEFINE X == {}
             dates == {"computeEnd", "writeStart"} \cup {"writeEnd", "end"}
  <2>3. /\ history' = SetDates(t, dates) /\ dates \in Noted /\ d \cup dates = D7
    BY <1>1, <1>2, <2>1 DEF Completes, Noted, D1, D3, D5, D7
  <2>4. /\ \A x \in X : x.of # "task"
        /\ book'.stamps = book.stamps \cup X /\ IsBook(book')
    BY <1>2, <2>1
  <2> HIDE DEF X, dates
  <2>5. UnderWay(executor'[t], d \cup dates, internal'[t], {})
    BY <1>1, <2>2, <2>3 DEF UnderWay
  <2> QED
    BY <1>1, <2>2, <2>3, <2>4, <2>5, StillUnderWay
<1>4. CASE Outputs[t] # <<>>
  <2>1. /\ history' = SetDates(t, {"computeEnd", "writeStart"})
        /\ OnTo(t, "writing", "write", Outputs[t], book)
        /\ internal' = internal
    BY <1>4 DEF Computes
  <2>2. PICK s : /\ DOMAIN executor' = Tasks /\ IsExecutor(executor'[t])
                 /\ executor'[t].at = "writing" /\ executor'[t].started = executor[t].started
                 /\ executor'[t].failed = executor[t].failed
                 /\ executor'[t].completed = executor[t].completed
                 /\ \A u \in Tasks : u # t => executor'[u] = executor[u]
                 /\ IsBook(book') /\ book'.lost = book.lost /\ book'.stamps = book.stamps \cup {s}
                 /\ s.of # "task"
    <3>1. "writing" \in Phases /\ "write" # "task"
      BY DEF Phases
    <3>2. IsOnTo(t, "writing", book)
      BY <1>2, <2>1, <3>1, OnToAFile
    <3> QED
      BY <3>2 DEF IsOnTo
  <2> DEFINE X == {s}
             dates == {"computeEnd", "writeStart"}
  <2>3. /\ history' = SetDates(t, dates) /\ dates \in Noted /\ d \cup dates = D5
    BY <1>1, <2>1 DEF Noted, D1, D3, D5, D7
  <2>4. (\A x \in X : x.of # "task") /\ book'.stamps = book.stamps \cup X
    BY <2>2
  <2> HIDE DEF X, dates
  <2>5. internal' = internal /\ DOMAIN internal' = Tasks
    BY <2>1 DEF ExecutionInv, Shape
  <2>6. UnderWay(executor'[t], d \cup dates, internal'[t], {})
    BY <1>1, <2>2, <2>3, <2>5 DEF UnderWay
  <2> QED
    BY <1>1, <2>2, <2>3, <2>4, <2>5, <2>6, StillUnderWay
<1> QED
  BY <1>3, <1>4

\* A file is written.
LEMMA WhenWritten ==
    ASSUME ExecutionInv, ~book.lost, NEW t \in Tasks, Writes(t)
    PROVE  ExecutionInv'
<1> DEFINE d == history[t][Execution(t)]
           rest == Tail(executor[t].left)
<1>1. /\ executor[t].started /\ ~executor[t].failed /\ ~executor[t].completed /\ d = D5
      /\ internal[t] = "TASK_RUNNING"
  <2>1. executor[t].at = "writing"
    BY DEF Writes
  <2>2. /\ executor[t].started
        /\ UnderWay(executor[t], d, internal[t], EndsIn(book.stamps, t, Execution(t)))
    BY <2>1, AtWork DEF Execution
  <2> QED
    BY <2>1, <2>2 DEF UnderWay
<1>2. PICK e : /\ e.of # "task"
               /\ \E b \in Ended(book, e) :
                    IF rest # <<>>
                    THEN OnTo(t, "writing", "write", rest, b) /\ UNCHANGED <<internal, history>>
                    ELSE Completes(t, {}) /\ book' = b
  BY DEF Writes, WriteStamp, Stamp
<1>3. PICK b \in Ended(book, e) :
        IF rest # <<>>
        THEN OnTo(t, "writing", "write", rest, b) /\ UNCHANGED <<internal, history>>
        ELSE Completes(t, {}) /\ book' = b
  BY <1>2
<1>4. IsBook(b) /\ (~b.lost => b.stamps = book.stamps \cup {e})
  BY EndIsAdded DEF ExecutionInv, Shape
<1>5. CASE rest # <<>>
  <2>1. /\ OnTo(t, "writing", "write", rest, b) /\ history' = history /\ internal' = internal
        /\ DOMAIN internal' = Tasks
    BY <1>3, <1>5 DEF ExecutionInv, Shape
  <2> HIDE DEF rest
  <2>2. PICK s : /\ DOMAIN executor' = Tasks /\ IsExecutor(executor'[t])
                 /\ executor'[t].at = "writing" /\ executor'[t].started = executor[t].started
                 /\ executor'[t].failed = executor[t].failed
                 /\ executor'[t].completed = executor[t].completed
                 /\ \A u \in Tasks : u # t => executor'[u] = executor[u]
                 /\ IsBook(book') /\ book'.lost = b.lost /\ book'.stamps = b.stamps \cup {s}
                 /\ s.of # "task"
    <3>1. "writing" \in Phases /\ "write" # "task"
      BY DEF Phases
    <3>2. IsOnTo(t, "writing", b)
      BY <1>4, <2>1, <3>1, OnToAFile
    <3> QED
      BY <3>2 DEF IsOnTo
  <2> DEFINE X == {e, s}
  <2>3. /\ \A x \in X : x.of # "task"
        /\ ~book'.lost => book'.stamps = book.stamps \cup X
    BY <1>2, <1>4, <2>2
  <2> HIDE DEF X
  <2>4. /\ UnderWay(executor'[t], d \cup {}, internal'[t], {}) /\ {} \in Noted
    BY <1>1, <2>1, <2>2 DEF UnderWay, Noted
  <2> QED
    BY <1>1, <2>1, <2>2, <2>3, <2>4, StillUnderWay
<1>6. CASE rest = <<>>
  <2>1. Completes(t, {}) /\ book' = b
    BY <1>3, <1>6
  <2>2. /\ DOMAIN executor' = Tasks /\ IsExecutor(executor'[t])
        /\ executor'[t].at = "sending" /\ executor'[t].started = executor[t].started
        /\ executor'[t].failed = executor[t].failed /\ executor'[t].completed
        /\ \A u \in Tasks : u # t => executor'[u] = executor[u]
        /\ DOMAIN internal' = Tasks /\ internal'[t] = "TASK_COMPLETED"
        /\ \A u \in Tasks : u # t => internal'[u] = internal[u]
    BY <2>1, WhenCompleted
  <2> DEFINE X == {e}
             dates == {} \cup {"writeEnd", "end"}
  <2>3. history' = SetDates(t, dates) /\ dates \in Noted /\ d \cup dates = D7
    BY <1>1, <2>1 DEF Completes, Noted, D1, D3, D5, D7
  <2>4. /\ \A x \in X : x.of # "task"
        /\ IsBook(book') /\ (~book'.lost => book'.stamps = book.stamps \cup X)
    BY <1>2, <1>4, <2>1
  <2> HIDE DEF X, dates
  <2>5. UnderWay(executor'[t], d \cup dates, internal'[t], {})
    BY <1>1, <2>2, <2>3 DEF UnderWay
  <2> QED
    BY <1>1, <2>2, <2>3, <2>4, <2>5, StillUnderWay
<1> QED
  BY <1>5, <1>6

\* An executor whose task has not started.
LEMMA NotBegunYet ==
    ASSUME ExecutionInv, ~book.lost, NEW t \in Tasks, ~executor[t].started
    PROVE  NotBegun(executor[t])
<1>1. Sound(t, executor[t], history[t], internal[t], book.stamps)
  BY DEF ExecutionInv, TasksAreSound
<1> QED
  BY <1>1 DEF Sound, Latest

\* An executor that is gone.
LEMMA Gone ==
    ASSUME ExecutionInv, NEW t \in Tasks, executor' = [executor EXCEPT ![t] = Off]
    PROVE  /\ DOMAIN executor' = Tasks /\ IsExecutor(executor'[t]) /\ executor'[t] = Off
           /\ NotBegun(executor'[t]) /\ ~executor'[t].started
           /\ \A u \in Tasks : u # t => executor'[u] = executor[u]
  BY DEF Off, IsExecutor, Phases, NotBegun, ExecutionInv, Shape

\* The executor goes, of its own or killed, with nothing to note about its task.
LEMMA QuietEnd ==
    ASSUME ExecutionInv, ~book.lost, NEW t \in Tasks, executor[t].at # "off",
           executor[t].started => executor[t].failed,
           executor' = [executor EXCEPT ![t] = Off], UNCHANGED <<internal, history, book>>
    PROVE  ExecutionInv'
<1>1. /\ DOMAIN executor' = Tasks /\ IsExecutor(executor'[t]) /\ NotBegun(executor'[t])
      /\ ~executor'[t].started
      /\ \A u \in Tasks : u # t => executor'[u] = executor[u] /\ internal'[u] = internal[u]
  BY Gone
<1>2. Sound(t, executor[t], history[t], internal[t], book.stamps)
  BY DEF ExecutionInv, TasksAreSound
<1>3. DOMAIN internal' = Tasks /\ history' \in [Tasks -> Seq(Noted)] /\ Len(history[t]) \in Nat
  BY DEF ExecutionInv, Shape
<1>4. Sound(t, executor'[t], history[t], internal[t], book.stamps)
  <2>1. CASE ~executor[t].started
    BY <1>1, <1>2, <2>1 DEF Sound, Latest
  <2>2. CASE executor[t].started
    <3> DEFINE d == history[t][Len(history[t])]
               ends == EndsIn(book.stamps, t, Len(history[t]))
    <3>1. Len(history[t]) > 0 /\ UnderWay(executor[t], d, internal[t], ends)
      BY <2>2, AtWork
    <3>2. Over(d, ends) /\ internal[t] # "TASK_COMPLETED" /\ d # D7
      <4>1. /\ d \in {D1 \cup {"failed"}, D5 \cup {"failed"}} /\ ends = {"failure"}
            /\ internal[t] = "TASK_FAILED"
        BY <2>2, <3>1 DEF UnderWay
      <4> HIDE DEF d, ends
      <4>2. d \ Outcomes \in {D1, D5} /\ d \cap Outcomes = {"failed"} /\ "failed" \notin D7
        BY <4>1 DEF Outcomes, D1, D3, D5, D7
      <4>3. d # D7
        BY <4>1, <4>2
      <4> QED
        BY <4>1, <4>2, <4>3 DEF Over
    <3>3. Latest(executor'[t], d, internal[t], ends)
      BY <1>1, <3>2 DEF Latest
    <3>4. Len(history[t]) # 0
      BY <1>3, <3>1
    <3> QED
      BY <1>2, <3>3, <3>4 DEF Sound
  <2> QED
    BY <2>1, <2>2
<1>5. Sound(t, executor'[t], history'[t], internal'[t], book.stamps)
  BY <1>4
<1> QED
  BY <1>1, <1>3, <1>5, OneTaskQuietly

\* The executor goes, and the end of its task is noted.
LEMMA NotedEnd ==
    ASSUME ExecutionInv, ~book.lost, NEW t \in Tasks, executor[t].started, ~executor[t].failed,
           executor' = [executor EXCEPT ![t] = Off],
           DOMAIN internal' = Tasks, \A u \in Tasks : u # t => internal'[u] = internal[u],
           NEW type \in {"completion", "failure", "termination"},
           book' \in Ended(book, TaskStamp(type, t)),
           NEW dates \in Noted,
           history' = SetDates(t, dates) \/ (history' = history /\ dates = {}),
           Over(history[t][Execution(t)] \cup dates, {type}),
           internal'[t] = "TASK_COMPLETED" <=> history[t][Execution(t)] \cup dates = D7
    PROVE  ExecutionInv'
<1> DEFINE n == Execution(t)
           e == TaskStamp(type, t)
           X == {e}
<1>1. EndsIn(book.stamps, t, n) = {}
  BY AtWork DEF UnderWay, Execution
<1>2. /\ \A x \in X : \A u \in Tasks : IsEnd(x, u) => u = t /\ x.attempt = n
      /\ e \in X /\ \A x \in X : x = e \/ ~IsEnd(x, t)
      /\ IsEnd(e, t) /\ e.attempt = n /\ e.type = type
  BY DEF IsEnd, TaskStamp, Stamp
<1>3. IsBook(book') /\ (~book'.lost => book'.stamps = book.stamps \cup X)
  BY EndIsAdded DEF ExecutionInv, Shape
<1>4. /\ DOMAIN executor' = Tasks /\ IsExecutor(executor'[t]) /\ NotBegun(executor'[t])
      /\ ~executor'[t].started
      /\ \A u \in Tasks : u # t => executor'[u] = executor[u]
  BY Gone
<1> HIDE DEF e, X, n
<1>5. EndsIn(book.stamps \cup X, t, n) = {type}
  BY <1>1, <1>2, EndsOnTop
<1> USE DEF n
<1>6. ~book'.lost =>
         /\ book'.stamps = book.stamps \cup X
         /\ Latest(executor'[t], history[t][Execution(t)] \cup dates, internal'[t],
                   EndsIn(book.stamps \cup X, t, Execution(t)))
  BY <1>3, <1>4, <1>5 DEF Latest
<1>7. \A x \in X : \A u \in Tasks : IsEnd(x, u) => u = t /\ x.attempt = Execution(t)
  BY <1>2
<1>8. \A u \in Tasks : u # t => executor'[u] = executor[u] /\ internal'[u] = internal[u]
  BY <1>4
<1> QED
  BY <1>3, <1>4, <1>6, <1>7, <1>8, WorkStep

\* The executor returns.
LEMMA WhenReturned ==
    ASSUME ExecutionInv, ~book.lost, NEW t \in Tasks, Returns(t)
    PROVE  ExecutionInv'
<1>1. /\ executor[t].at = "sending" /\ executor' = [executor EXCEPT ![t] = Off]
      /\ internal' = internal /\ history' = history /\ DOMAIN internal' = Tasks
  BY DEF Returns, ExecutionInv, Shape
<1>2. CASE executor[t].started
  <2> DEFINE d == history[t][Execution(t)]
  <2>1. UnderWay(executor[t], d, internal[t], EndsIn(book.stamps, t, Execution(t)))
    BY <1>2, AtWork DEF Execution
  <2>2. CASE executor[t].completed
    <3>1. ~executor[t].failed /\ d = D7 /\ internal[t] = "TASK_COMPLETED"
      BY <2>1, <2>2 DEF UnderWay
    <3>2. book' \in Ended(book, TaskStamp("completion", t))
      BY <2>2 DEF Returns
    <3> DEFINE dates == {}
    <3>3. /\ d \cup dates = D7 /\ dates \in Noted
          /\ (history' = SetDates(t, dates) \/ (history' = history /\ dates = {}))
      BY <1>1, <3>1 DEF Noted
    <3>4. Over(d \cup dates, {"completion"})
      BY <3>3 DEF Over, Outcomes, D1, D3, D5, D7
    <3>5. /\ internal'[t] = "TASK_COMPLETED" <=> d \cup dates = D7
          /\ \A u \in Tasks : u # t => internal'[u] = internal[u]
      BY <1>1, <3>1, <3>3
    <3> HIDE DEF dates
    <3> QED
      BY <1>1, <1>2, <3>1, <3>2, <3>3, <3>4, <3>5, NotedEnd
  <2>3. CASE ~executor[t].completed
    <3>1. executor[t].failed
      BY <1>1, <2>1, <2>3 DEF UnderWay
    <3>2. book' = book
      BY <2>3 DEF Returns
    <3> QED
      BY <1>1, <3>1, <3>2, QuietEnd
  <2> QED
    BY <2>2, <2>3
<1>3. CASE ~executor[t].started
  <2>1. ~executor[t].completed
    BY <1>3, NotBegunYet DEF NotBegun
  <2>2. book' = book
    BY <2>1 DEF Returns
  <2> QED
    BY <1>1, <1>3, <2>2, QuietEnd
<1> QED
  BY <1>2, <1>3

\* The executor is killed, or its host is turned off.
LEMMA WhenKilled ==
    ASSUME ExecutionInv, ~book.lost, NEW t \in Tasks, NEW terminated \in BOOLEAN,
           NEW crash \in BOOLEAN, IsKilled(t, terminated, crash)
    PROVE  ExecutionInv'
<1>1. executor[t].at # "off" /\ executor' = [executor EXCEPT ![t] = Off]
  BY DEF IsKilled
<1>2. executor[t].started \in BOOLEAN /\ executor[t].failed \in BOOLEAN
  BY DEF ExecutionInv, Shape, IsExecutor
<1>3. CASE ~MustNote(t)
  <2>1. executor[t].started => executor[t].failed
    BY <1>2, <1>3 DEF MustNote
  <2>2. UNCHANGED <<internal, history, book>>
    BY <1>3 DEF IsKilled
  <2> QED
    BY <1>1, <2>1, <2>2, QuietEnd
<1>4. CASE MustNote(t)
  <2> DEFINE d == history[t][Execution(t)]
             dates == {IF terminated THEN "terminated" ELSE "failed"}
             type == IF terminated THEN "termination" ELSE "failure"
  <2>1. executor[t].started /\ ~executor[t].failed
    BY <1>4 DEF MustNote
  <2>2. /\ internal' = [internal EXCEPT ![t] = "TASK_FAILED"] /\ DOMAIN internal = Tasks
        /\ history' = SetDates(t, dates) /\ book' \in Ended(book, TaskStamp(type, t))
    BY <1>4 DEF IsKilled, ExecutionInv, Shape
  <2>3. UnderWay(executor[t], d, internal[t], EndsIn(book.stamps, t, Execution(t)))
    BY <2>1, AtWork DEF Execution
  <2>4. d \in {D1, D3, D5, D7}
    BY <2>1, <2>3 DEF UnderWay
  <2>5. dates \in Noted /\ type \in {"completion", "failure", "termination"}
    BY DEF Noted, Outcomes
  <2>6. Over(d \cup dates, {type}) /\ d \cup dates # D7
    <3>1. (d \cup dates) \ Outcomes = d /\ (d \cup dates) \cap Outcomes = dates
      BY <2>4 DEF Outcomes, D1, D3, D5, D7
    <3>2. D7 \cap Outcomes = {} /\ dates # {}
      BY DEF Outcomes, D1, D3, D5, D7
    <3>3. \/ dates = {"terminated"} /\ type = "termination"
          \/ dates = {"failed"} /\ type = "failure"
      OBVIOUS
    <3> HIDE DEF dates, type
    <3> QED
      BY <2>4, <3>1, <3>2, <3>3 DEF Over
  <2> HIDE DEF dates, type
  <2>7. /\ DOMAIN internal' = Tasks /\ \A u \in Tasks : u # t => internal'[u] = internal[u]
        /\ internal'[t] = "TASK_COMPLETED" <=> d \cup dates = D7
    BY <2>2, <2>6
  <2> QED
    BY <1>1, <2>1, <2>2, <2>5, <2>6, <2>7, NotedEnd
<1> QED
  BY <1>3, <1>4

\* The copies are no task's business.
LEMMA WhenCopying ==
    ASSUME ExecutionInv, ~book.lost, NEW c \in Copiers, CopyStep(c)
    PROVE  ExecutionInv'
<1>1. executor' = executor /\ internal' = internal /\ history' = history
  BY DEF CopyStep, CopyStarts, CopyIsRefused, CopyEnds, CopyFails
<1>2. IsBook(book)
  BY DEF ExecutionInv, Shape
<1>3. PICK X : /\ \A e \in X : e.of # "task"
               /\ IsBook(book') /\ (~book'.lost => book'.stamps = book.stamps \cup X)
  <2>1. CASE CopyStarts(c)
    <3> DEFINE s == Stamp("copy", "start", c, attempts[c] + 1, CopyOf[c])
    <3>1. s.of # "task" /\ book' = Started(book, s)
      BY <2>1 DEF CopyStarts, Stamp
    <3> HIDE DEF s
    <3>2. IsBook(book') /\ book'.stamps = book.stamps \cup {s}
      BY <1>2, <3>1, StartIsAdded
    <3> QED
      BY <3>1, <3>2
  <2>2. ASSUME NEW type, book' \in Ended(book, CopyStamp(type, c))
        PROVE  \E X : /\ \A e \in X : e.of # "task"
                      /\ IsBook(book') /\ (~book'.lost => book'.stamps = book.stamps \cup X)
    <3> DEFINE s == CopyStamp(type, c)
    <3>1. s.of # "task" /\ book' \in Ended(book, s)
      BY <2>2 DEF CopyStamp, Stamp
    <3> HIDE DEF s
    <3>2. IsBook(book') /\ (~book'.lost => book'.stamps = book.stamps \cup {s})
      BY <1>2, <3>1, EndIsAdded
    <3> QED
      BY <3>1, <3>2
  <2>3. CASE CopyIsRefused(c) \/ CopyEnds(c)
    BY <2>2, <2>3 DEF CopyIsRefused, CopyEnds
  <2>4. CASE CopyFails(c)
    <3> DEFINE X == {}
    <3>1. /\ \A e \in X : e.of # "task"
          /\ IsBook(book') /\ (~book'.lost => book'.stamps = book.stamps \cup X)
      BY <1>2, <2>4 DEF CopyFails
    <3> HIDE DEF X
    <3> QED
      BY <3>1
  <2> QED
    BY <2>1, <2>3, <2>4 DEF CopyStep
<1>4. Shape'
  BY <1>1, <1>3 DEF ExecutionInv, Shape
<1>5. ASSUME ~book'.lost, NEW t \in Tasks
      PROVE  Sound(t, executor'[t], history'[t], internal'[t], book'.stamps)
  <2>1. Sound(t, executor[t], history[t], internal[t], book.stamps)
    BY DEF ExecutionInv, TasksAreSound
  <2>2. \A e \in X : ~IsEnd(e, t)
    BY <1>3 DEF IsEnd
  <2>3. Sound(t, executor[t], history[t], internal[t], book.stamps \cup X)
    BY <2>1, <2>2, Elsewhere
  <2> QED
    BY <1>1, <1>3, <1>5, <2>3
<1> QED
  BY <1>4, <1>5 DEF ExecutionInv, TasksAreSound

\* At first nothing is noted.
LEMMA SoundAtFirst == Init => ExecutionInv
<1> SUFFICES ASSUME Init PROVE ExecutionInv
  OBVIOUS
<1>1. IsBook(book) /\ book.stamps = {}
  BY DEF Init, EmptyBook, IsBook
<1>2. IsExecutor(Off) /\ NotBegun(Off)
  BY DEF Off, IsExecutor, NotBegun, Phases
<1>3. Shape
  BY <1>1, <1>2 DEF Init, Shape
<1>4. ASSUME NEW t \in Tasks
      PROVE  Sound(t, executor[t], history[t], internal[t], book.stamps)
  <2>1. history[t] = <<>> /\ Len(history[t]) = 0 /\ executor[t] = Off
    BY DEF Init
  <2>2. \A i \in 1 .. Len(history[t]) - 1 : FALSE
    BY <2>1
  <2> QED
    BY <1>1, <1>2, <2>1, <2>2 DEF Sound
<1> QED
  BY <1>3, <1>4 DEF ExecutionInv, TasksAreSound

\* Every step keeps the invariant.
LEMMA SoundAfterwards == ExecutionInv /\ [Next]_vars => ExecutionInv'
<1> SUFFICES ASSUME ExecutionInv, [Next]_vars PROVE ExecutionInv'
  OBVIOUS
<1>1. CASE UNCHANGED vars
  BY <1>1 DEF vars, ExecutionInv, Shape, TasksAreSound
<1>2. ASSUME NEW t \in Tasks, Start(t) \/ ExecutorStep(t)
      PROVE  ExecutionInv'
  <2>1. ~book.lost
    BY <1>2 DEF Start, ExecutorStep, Runs, Begin, CannotBegin, Reads, CannotRead, Spawned,
                Computes, Writes, CannotWrite, Returns
  <2> QED
    BY <1>2, <2>1, BeforeTheStart, WhenBegun, WhenRead, WhenFailing, WhenSpawned, WhenComputed,
       WhenWritten, WhenReturned DEF ExecutorStep
<1>3. ASSUME NEW t \in Tasks, NEW f \in BOOLEAN, NEW c \in BOOLEAN, IsKilled(t, f, c)
      PROVE  ExecutionInv'
  BY <1>3, WhenKilled DEF IsKilled, Runs
<1>4. ASSUME NEW c \in Copiers, CopyStep(c)
      PROVE  ExecutionInv'
  BY <1>4, WhenCopying DEF CopyStep, CopyStarts, CopyIsRefused, CopyEnds, CopyFails, Runs
<1> QED
  BY <1>1, <1>2, <1>3, <1>4 DEF Next

-------------------------------------------------------------------------------
(* One outcome *)

\* The dates of the steps that an execution goes through are the first ones.
LEMMA FirstDates ==
    ASSUME NEW D \in {D1, D3, D5, D7}
    PROVE  \E n \in 1 .. Len(Dates) : D = {Dates[k] : k \in 1 .. n}
<1>1. Len(Dates) = 7
  BY DEF Dates
<1>2. /\ 1 .. 1 = {1} /\ 1 .. 3 = {1, 2, 3} /\ 1 .. 5 = {1, 2, 3, 4, 5}
      /\ 1 .. 7 = {1, 2, 3, 4, 5, 6, 7}
  OBVIOUS
<1>3. /\ Dates[1] = "readStart" /\ Dates[2] = "readEnd" /\ Dates[3] = "computeStart"
      /\ Dates[4] = "computeEnd" /\ Dates[5] = "writeStart" /\ Dates[6] = "writeEnd"
      /\ Dates[7] = "end"
  BY DEF Dates
<1>4. /\ {Dates[k] : k \in {1}} = D1
      /\ {Dates[k] : k \in {1, 2, 3}} = D3
      /\ {Dates[k] : k \in {1, 2, 3, 4, 5}} = D5
      /\ {Dates[k] : k \in {1, 2, 3, 4, 5, 6, 7}} = D7
  BY <1>3 DEF D1, D3, D5, D7
<1>5. /\ {Dates[k] : k \in 1 .. 1} = D1 /\ {Dates[k] : k \in 1 .. 3} = D3
      /\ {Dates[k] : k \in 1 .. 5} = D5 /\ {Dates[k] : k \in 1 .. 7} = D7
  BY <1>2, <1>4
<1>6. 1 \in 1 .. Len(Dates) /\ 3 \in 1 .. Len(Dates) /\ 5 \in 1 .. Len(Dates) /\ 7 \in 1 .. Len(Dates)
  BY <1>1
<1> QED
  BY <1>5, <1>6

\* What OneOutcome says of an execution with these dates and ends.
OutcomeOf(dates, ends) ==
    LET outcome == dates \cap {"failed", "terminated"}
    IN CASE outcome = {} -> "end" \in dates /\ ends = {"completion"}
         [] outcome = {"failed"} -> ends = {"failure"}
         [] outcome = {"terminated"} -> ends = {"termination"}
         [] OTHER -> FALSE

\* An execution that is over has one.
LEMMA OverHasOne ==
    ASSUME NEW dates, NEW ends, Over(dates, ends)
    PROVE  /\ OutcomeOf(dates, ends)
           /\ dates \ (dates \cap {"failed", "terminated"}) \in {D1, D3, D5, D7}
           /\ dates = D7 <=> "end" \in dates /\ dates \cap {"failed", "terminated"} = {}
<1>1. /\ dates \ (dates \cap {"failed", "terminated"}) = dates \ Outcomes
      /\ dates \cap {"failed", "terminated"} = dates \cap Outcomes
  BY DEF Outcomes
<1>2. dates \ Outcomes \in {D1, D3, D5, D7}
  BY DEF Over
<1>3. dates = D7 => "end" \in dates /\ dates \cap Outcomes = {}
  BY DEF Outcomes, D1, D3, D5, D7
<1>4. ASSUME "end" \in dates, dates \cap Outcomes = {} PROVE dates = D7
  <2>1. dates = dates \ Outcomes
    BY <1>4
  <2>2. "end" \notin D1 /\ "end" \notin D3 /\ "end" \notin D5
    BY DEF D1, D3, D5
  <2> QED
    BY <1>2, <1>4, <2>1, <2>2
<1>5. OutcomeOf(dates, ends)
  <2>1. CASE dates = D7 /\ ends = {"completion"}
    BY <1>1, <1>3, <2>1 DEF OutcomeOf
  <2>2. CASE dates \cap Outcomes = {"failed"} /\ ends = {"failure"}
    BY <1>1, <2>2 DEF OutcomeOf
  <2>3. CASE dates \cap Outcomes = {"terminated"} /\ ends = {"termination"}
    BY <1>1, <2>3 DEF OutcomeOf
  <2> QED
    BY <2>1, <2>2, <2>3 DEF Over
<1> QED
  BY <1>1, <1>2, <1>3, <1>4, <1>5

\* The dates, the executor and the state of an execution under way agree.
LEMMA UnderWayAgrees ==
    ASSUME NEW ex, IsExecutor(ex), NEW dates, NEW state, NEW ends, UnderWay(ex, dates, state, ends)
    PROVE  LET outcome == dates \cap {"failed", "terminated"}
           IN /\ dates \ outcome \in {D1, D3, D5, D7}
              /\ outcome = {"failed"} <=> ex.failed
              /\ ends = IF ex.failed THEN {"failure"} ELSE {}
              /\ state = "TASK_COMPLETED" <=> "end" \in dates /\ outcome = {}
<1>1. ex.failed \in BOOLEAN
  BY DEF IsExecutor
<1>2. /\ D1 \cap {"failed", "terminated"} = {} /\ D3 \cap {"failed", "terminated"} = {}
      /\ D5 \cap {"failed", "terminated"} = {} /\ D7 \cap {"failed", "terminated"} = {}
      /\ "end" \notin D1 /\ "end" \notin D3 /\ "end" \notin D5 /\ "end" \in D7
  BY DEF D1, D3, D5, D7
<1>3. CASE ~ex.failed /\ ends = {} /\ state = "TASK_RUNNING" /\ dates \in {D1, D3, D5}
  <2>1. dates \cap {"failed", "terminated"} = {} /\ "end" \notin dates
    BY <1>2, <1>3
  <2>2. dates \ (dates \cap {"failed", "terminated"}) = dates /\ {} # {"failed"}
    BY <2>1
  <2> QED
    BY <1>3, <2>1, <2>2
<1>4. CASE /\ ex.failed /\ ends = {"failure"} /\ state = "TASK_FAILED"
           /\ dates \in {D1 \cup {"failed"}, D5 \cup {"failed"}}
  <2>1. /\ dates \cap {"failed", "terminated"} = {"failed"}
        /\ dates \ {"failed"} \in {D1, D5}
    BY <1>2, <1>4
  <2> QED
    BY <1>4, <2>1
<1>5. CASE ~ex.failed /\ ends = {} /\ state = "TASK_COMPLETED" /\ dates = D7
  <2>1. dates \cap {"failed", "terminated"} = {} /\ "end" \in dates
    BY <1>2, <1>5
  <2>2. dates \ (dates \cap {"failed", "terminated"}) = dates /\ {} # {"failed"}
    BY <2>1
  <2> QED
    BY <1>5, <2>1, <2>2
<1> QED
  BY <1>1, <1>3, <1>4, <1>5 DEF UnderWay

\* The invariant says what OneOutcome says.
LEMMA SoundHasOne == ExecutionInv => book.lost \/ OneOutcome
<1> SUFFICES ASSUME ExecutionInv, ~book.lost, NEW t \in Tasks, NEW i \in DOMAIN history[t]
             PROVE
      LET dates == history[t][i]
          outcome == dates \cap {"failed", "terminated"}
          ends == EndsIn(book.stamps, t, i)
      IN /\ \E n \in 1 .. Len(Dates) : dates \ outcome = {Dates[k] : k \in 1 .. n}
         /\ IF Live(t, i)
            THEN /\ outcome = {"failed"} <=> executor[t].failed
                 /\ ends = IF executor[t].failed THEN {"failure"} ELSE {}
            ELSE OutcomeOf(dates, ends)
         /\ i = Execution(t) =>
              (internal[t] = "TASK_COMPLETED" <=> "end" \in dates /\ outcome = {})
  BY DEF OneOutcome, EndsIn, OutcomeOf, ExecutionInv, Shape
<1> DEFINE dates == history[t][i]
           outcome == dates \cap {"failed", "terminated"}
           ends == EndsIn(book.stamps, t, i)
<1>1. /\ Sound(t, executor[t], history[t], internal[t], book.stamps) /\ IsExecutor(executor[t])
      /\ history[t] \in Seq(Noted)
  BY DEF ExecutionInv, Shape, TasksAreSound
<1>2. i \in 1 .. Len(history[t]) /\ Len(history[t]) \in Nat /\ Len(history[t]) # 0
  BY <1>1
<1>3. CASE i # Len(history[t])
  <2>1. i \in 1 .. Len(history[t]) - 1
    BY <1>2, <1>3
  <2>2. Over(dates, ends)
    BY <1>1, <2>1 DEF Sound
  <2>3. ~Live(t, i) /\ i # Execution(t)
    BY <1>3 DEF Live, Execution
  <2> HIDE DEF dates, ends
  <2>4. OutcomeOf(dates, ends) /\ dates \ outcome \in {D1, D3, D5, D7}
    BY <2>2, OverHasOne
  <2>5. \E n \in 1 .. Len(Dates) : dates \ outcome = {Dates[k] : k \in 1 .. n}
    BY <2>4, FirstDates
  <2> QED
    BY <2>3, <2>4, <2>5 DEF dates, ends
<1>4. CASE i = Len(history[t]) /\ executor[t].started
  <2>1. UnderWay(executor[t], dates, internal[t], ends)
    BY <1>1, <1>2, <1>4 DEF Sound, Latest
  <2>2. Live(t, i)
    BY <1>4 DEF Live, Execution
  <2> HIDE DEF dates, ends
  <2>3. /\ dates \ outcome \in {D1, D3, D5, D7}
        /\ outcome = {"failed"} <=> executor[t].failed
        /\ ends = IF executor[t].failed THEN {"failure"} ELSE {}
        /\ internal[t] = "TASK_COMPLETED" <=> "end" \in dates /\ outcome = {}
    BY <1>1, <2>1, UnderWayAgrees
  <2>4. \E n \in 1 .. Len(Dates) : dates \ outcome = {Dates[k] : k \in 1 .. n}
    BY <2>3, FirstDates
  <2> QED
    BY <2>2, <2>3, <2>4 DEF dates, ends
<1>5. CASE i = Len(history[t]) /\ ~executor[t].started
  <2>1. Over(dates, ends) /\ (internal[t] = "TASK_COMPLETED" <=> dates = D7)
    BY <1>1, <1>2, <1>5 DEF Sound, Latest
  <2>2. ~Live(t, i)
    BY <1>5 DEF Live
  <2> HIDE DEF dates, ends
  <2>3. /\ OutcomeOf(dates, ends) /\ dates \ outcome \in {D1, D3, D5, D7}
        /\ dates = D7 <=> "end" \in dates /\ outcome = {}
    BY <2>1, OverHasOne
  <2>4. \E n \in 1 .. Len(Dates) : dates \ outcome = {Dates[k] : k \in 1 .. n}
    BY <2>3, FirstDates
  <2> QED
    BY <2>1, <2>2, <2>3, <2>4 DEF dates, ends
<1> QED
  BY <1>3, <1>4, <1>5

-------------------------------------------------------------------------------
(* Ends and starts *)

\* In a book, an end has one start and a start at most one end; starts that are pending have
\* none yet.
BookFine(b) ==
    /\ IsBook(b) /\ ~b.lost
    /\ DOMAIN b.pending = Kinds
    /\ \A s \in b.stamps : IsStamp(s)
    /\ \A k \in Kinds : \A s \in b.pending[k] :
         s \in b.stamps /\ s.type = "start" /\ s.of = k /\ \A p \in b.pairs : p[1] # s
    /\ \A p \in b.pairs :
         \E s, e \in b.stamps :
           /\ p = <<s, e>> /\ s.type = "start" /\ e.type # "start"
           /\ s.of = e.of /\ s.key = e.key /\ (e.of = "task" => Own(s, e))
    /\ \A p, q \in b.pairs : p[1] = q[1] \/ p[2] = q[2] => p = q
    /\ \A e \in b.stamps : e.type # "start" => \E p \in b.pairs : p[2] = e

\* A start of each kind that has a file, and of what may be under way.
FileKinds == {"read", "write"}
PhaseOf(k) == IF k = "read" THEN "reading" ELSE "writing"
FileStamp(k, type, t) == Stamp(k, type, t, Execution(t), Place(t))
Busy(k) == {t \in Tasks : executor[t].at = PhaseOf(k)}
Open(k) == IF k = "copy" THEN {CopyStamp("start", c) : c \in {d \in Copiers : copier[d]}}
           ELSE {FileStamp(k, "start", t) : t \in Busy(k)}

\* Of every key there are as many stamps in P as in U.
Keyed(P, key) == {p \in P : p.key = key}
Covers(P, U) ==
    /\ IsFiniteSet(P) /\ IsFiniteSet(U)
    /\ \A key : Cardinality(Keyed(P, key)) >= Cardinality(Keyed(U, key))

\* What an executor has to do, and the files that are left.
AtFile == {"reading", "spawning", "computing", "writing"}
ExecutorFine(t, ex) ==
    /\ ex.at \in {"off", "starting"} => ~ex.started /\ ~ex.failed /\ ~ex.completed
    /\ ex.at \in AtFile => ex.started /\ ~ex.failed /\ ~ex.completed
    /\ ex.at = "sending" => (ex.completed <=> ex.started /\ ~ex.failed)
    /\ ex.at \in AtFile => ex.location \in [FilesOf(t) -> Locations]
    /\ ex.at \in {"reading", "writing"} =>
         /\ ex.left \in Seq(Files) /\ ex.left # <<>> /\ IsInjective(ex.left)
         /\ ToSet(ex.left) \subseteq FilesOf(t)

\* A stamp about a file that is not among those left.
Past(s, left) ==
    /\ s.key[1] \notin ToSet(Tail(left))
    /\ s.type # "start" => s.key[1] # Head(left)

\* A stamp was put in the book before what its executor, or its copier, does now.
Earlier(s) ==
    /\ s.of # "copy" =>
         LET t == s.by
             ex == executor[t]
         IN /\ t \in Tasks /\ s.attempt \in 1 .. Execution(t)
            /\ s.attempt = Execution(t) =>
                 /\ s.of = "task" /\ s.type # "start" => ~(ex.started /\ ~ex.failed)
                 /\ s.of = "read" /\ ex.at = "reading" => Past(s, ex.left)
                 /\ s.of = "write" => ex.at \notin {"reading", "spawning", "computing"}
                 /\ s.of = "write" /\ ex.at = "writing" => Past(s, ex.left)
    /\ s.of = "copy" =>
         /\ s.by \in Copiers /\ s.attempt \in 1 .. attempts[s.by]
         /\ s.type # "start" /\ s.attempt = attempts[s.by] => ~copier[s.by]

\* The pending starts of tasks are those of the executions under way.
TasksPending ==
    /\ \A s \in book.pending["task"] :
         s.by \in Tasks /\ s = TaskStamp("start", s.by)
    /\ \A t \in Tasks :
         TaskStamp("start", t) \in book.pending["task"] <=> executor[t].started /\ ~executor[t].failed

Numbers ==
    /\ internal \in [Tasks -> {"TASK_READY", "TASK_RUNNING", "TASK_COMPLETED", "TASK_FAILED"}]
    /\ attempts \in [Tasks \cup Copiers -> 0 .. MaxRetries + 1]
    /\ copier \in [Copiers -> BOOLEAN]
    /\ \A c \in Copiers : copier[c] => attempts[c] > 0
    /\ stored \subseteq Files \X Locations

BookInv ==
    /\ ExecutionInv /\ Numbers
    /\ BookFine(book)
    /\ \A t \in Tasks : ExecutorFine(t, executor[t])
    /\ \A s \in book.stamps : Earlier(s)
    /\ TasksPending
    /\ \A k \in FileKinds \cup {"copy"} : Covers(book.pending[k], Open(k))

\* The stamps of some set with one key, when one is added.
LEMMA OfOneKey ==
    ASSUME NEW P, IsFiniteSet(P), NEW key
    PROVE  /\ IsFiniteSet(Keyed(P, key)) /\ Cardinality(Keyed(P, key)) \in Nat
           /\ \A s : /\ s \notin P /\ s.key = key =>
                          Cardinality(Keyed(P \cup {s}, key)) = Cardinality(Keyed(P, key)) + 1
                     /\ s \in P \/ s.key # key => Keyed(P \cup {s}, key) = Keyed(P, key)
<1>1. IsFiniteSet(Keyed(P, key)) /\ Cardinality(Keyed(P, key)) \in Nat
  <2>1. Keyed(P, key) \subseteq P
    BY DEF Keyed
  <2> QED
    BY <2>1, FS_Subset, FS_CardinalityType
<1>2. ASSUME NEW s, s \in P \/ s.key # key PROVE Keyed(P \cup {s}, key) = Keyed(P, key)
  BY <1>2 DEF Keyed
<1>3. ASSUME NEW s, s \notin P, s.key = key
      PROVE  Cardinality(Keyed(P \cup {s}, key)) = Cardinality(Keyed(P, key)) + 1
  <2>1. Keyed(P \cup {s}, key) = Keyed(P, key) \cup {s} /\ s \notin Keyed(P, key)
    BY <1>3 DEF Keyed
  <2> QED
    BY <1>1, <2>1, FS_AddElement
<1> QED
  BY <1>1, <1>2, <1>3

LEMMA CoversMore ==
    ASSUME NEW P, NEW U, Covers(P, U), NEW s, s \notin P
    PROVE  Covers(P \cup {s}, U \cup {s})
<1>1. IsFiniteSet(P) /\ IsFiniteSet(U) /\ IsFiniteSet(P \cup {s}) /\ IsFiniteSet(U \cup {s})
  BY FS_AddElement DEF Covers
<1>2. ASSUME NEW key
      PROVE  Cardinality(Keyed(P \cup {s}, key)) >= Cardinality(Keyed(U \cup {s}, key))
  <2>1. /\ Cardinality(Keyed(P, key)) \in Nat /\ Cardinality(Keyed(U, key)) \in Nat
        /\ Cardinality(Keyed(P, key)) >= Cardinality(Keyed(U, key))
    BY <1>1, OfOneKey DEF Covers
  <2>2. IF s.key = key THEN Cardinality(Keyed(P \cup {s}, key)) = Cardinality(Keyed(P, key)) + 1
        ELSE Cardinality(Keyed(P \cup {s}, key)) = Cardinality(Keyed(P, key))
    BY <1>1, OfOneKey
  <2>3. \/ Cardinality(Keyed(U \cup {s}, key)) = Cardinality(Keyed(U, key))
        \/ s.key = key /\ Cardinality(Keyed(U \cup {s}, key)) = Cardinality(Keyed(U, key)) + 1
    BY <1>1, OfOneKey
  <2> QED
    BY <2>1, <2>2, <2>3
<1> QED
  BY <1>1, <1>2 DEF Covers

LEMMA CoversFewer ==
    ASSUME NEW P, NEW U, Covers(P, U), NEW V \in SUBSET U
    PROVE  Covers(P, V)
<1>1. IsFiniteSet(P) /\ IsFiniteSet(U) /\ IsFiniteSet(V)
  BY FS_Subset DEF Covers
<1>2. ASSUME NEW key PROVE Cardinality(Keyed(P, key)) >= Cardinality(Keyed(V, key))
  <2>1. /\ IsFiniteSet(Keyed(U, key)) /\ Cardinality(Keyed(U, key)) \in Nat
        /\ Cardinality(Keyed(V, key)) \in Nat /\ Cardinality(Keyed(P, key)) \in Nat
    BY <1>1, OfOneKey
  <2>2. Cardinality(Keyed(P, key)) >= Cardinality(Keyed(U, key))
    BY DEF Covers
  <2>3. Keyed(V, key) \subseteq Keyed(U, key)
    BY DEF Keyed
  <2>4. Cardinality(Keyed(V, key)) <= Cardinality(Keyed(U, key))
    BY <2>1, <2>3, FS_Subset
  <2> QED
    BY <2>1, <2>2, <2>4
<1> QED
  BY <1>1, <1>2 DEF Covers

LEMMA CoversLess ==
    ASSUME NEW P, NEW U, NEW v, v \notin U, Covers(P, U \cup {v})
    PROVE  /\ \E p \in P : p.key = v.key
           /\ \A p \in P : p.key = v.key => Covers(P \ {p}, U)
<1>1. IsFiniteSet(P) /\ IsFiniteSet(U)
  <2>1. IsFiniteSet(P) /\ IsFiniteSet(U \cup {v}) /\ U \subseteq U \cup {v}
    BY DEF Covers
  <2> QED
    BY <2>1, FS_Subset
<1>2. ASSUME NEW key
      PROVE  /\ Cardinality(Keyed(P, key)) \in Nat /\ Cardinality(Keyed(U, key)) \in Nat
             /\ IF v.key = key THEN Cardinality(Keyed(P, key)) >= Cardinality(Keyed(U, key)) + 1
                ELSE Cardinality(Keyed(P, key)) >= Cardinality(Keyed(U, key))
  <2>1. Cardinality(Keyed(P, key)) \in Nat /\ Cardinality(Keyed(U, key)) \in Nat
    BY <1>1, OfOneKey
  <2>2. IF v.key = key
        THEN Cardinality(Keyed(U \cup {v}, key)) = Cardinality(Keyed(U, key)) + 1
        ELSE Cardinality(Keyed(U \cup {v}, key)) = Cardinality(Keyed(U, key))
    BY <1>1, OfOneKey
  <2>3. Cardinality(Keyed(P, key)) >= Cardinality(Keyed(U \cup {v}, key))
    BY DEF Covers
  <2> QED
    BY <2>1, <2>2, <2>3
<1>3. \E p \in P : p.key = v.key
  <2>1. SUFFICES ASSUME \A p \in P : p.key # v.key PROVE FALSE
    OBVIOUS
  <2>2. Keyed(P, v.key) = {}
    BY <2>1 DEF Keyed
  <2>3. Cardinality(Keyed(P, v.key)) = 0
    BY <2>2, FS_EmptySet
  <2>4. Cardinality(Keyed(U, v.key)) \in Nat /\ Cardinality(Keyed(P, v.key)) >= Cardinality(Keyed(U, v.key)) + 1
    BY <1>2
  <2> QED
    BY <2>3, <2>4
<1>4. ASSUME NEW p \in P, p.key = v.key PROVE Covers(P \ {p}, U)
  <2>1. PICK R : R = P \ {p}
    OBVIOUS
  <2>2. IsFiniteSet(R) /\ R \cup {p} = P /\ p \notin R
    BY <1>1, <2>1, FS_RemoveElement
  <2>3. ASSUME NEW key PROVE Cardinality(Keyed(R, key)) >= Cardinality(Keyed(U, key))
    <3>1. Cardinality(Keyed(R, key)) \in Nat
      BY <2>2, OfOneKey
    <3>2. IF p.key = key THEN Cardinality(Keyed(R \cup {p}, key)) = Cardinality(Keyed(R, key)) + 1
          ELSE Cardinality(Keyed(R \cup {p}, key)) = Cardinality(Keyed(R, key))
      BY <2>2, OfOneKey
    <3>3. R \cup {p} = P
      BY <2>2
    <3> QED
      BY <1>2, <1>4, <3>1, <3>2, <3>3
  <2> QED
    BY <1>1, <2>1, <2>2, <2>3 DEF Covers
<1> QED
  BY <1>3, <1>4

\* A new start is noted.
LEMMA StartNoted ==
    ASSUME NEW b, BookFine(b), NEW s, IsStamp(s), s.type = "start", s \notin b.stamps,
           s.of = "task" => WithKey(b, s) = {}
    PROVE  LET a == Started(b, s) IN
             /\ BookFine(a) /\ a.stamps = b.stamps \cup {s}
             /\ a.pending = [b.pending EXCEPT ![s.of] = @ \cup {s}]
<1>1. PICK a : a = Started(b, s)
  OBVIOUS
<1>2. /\ DOMAIN b = {"stamps", "pairs", "pending", "lost"} /\ DOMAIN b.pending = Kinds
      /\ s.of \in Kinds
  BY DEF BookFine, IsBook, IsStamp
<1>3. /\ DOMAIN a = {"stamps", "pairs", "pending", "lost"}
      /\ a.stamps = b.stamps \cup {s} /\ a.pairs = b.pairs /\ a.lost = b.lost
      /\ a.pending = [b.pending EXCEPT ![s.of] = @ \cup {s}]
  BY <1>1, <1>2 DEF Started
<1>4. /\ DOMAIN a.pending = Kinds
      /\ \A k \in Kinds : a.pending[k] = IF k = s.of THEN b.pending[k] \cup {s} ELSE b.pending[k]
  BY <1>2, <1>3
<1>5. \A p \in b.pairs : p[1] # s
  <2>1. \A p \in b.pairs : \E u, e \in b.stamps : p = <<u, e>>
    BY DEF BookFine
  <2>2. \A u, e : <<u, e>>[1] = u
    OBVIOUS
  <2> QED
    BY <2>1, <2>2
<1>6. \A k \in Kinds : \A u \in a.pending[k] :
         u \in a.stamps /\ u.type = "start" /\ u.of = k /\ \A p \in a.pairs : p[1] # u
  <2>1. \A k \in Kinds : \A u \in a.pending[k] : u \in b.pending[k] \/ (u = s /\ k = s.of)
    BY <1>4
  <2>2. \A k \in Kinds : \A u \in b.pending[k] :
           u \in b.stamps /\ u.type = "start" /\ u.of = k /\ \A p \in b.pairs : p[1] # u
    BY DEF BookFine
  <2> QED
    BY <1>3, <1>5, <2>1, <2>2
<1>7. \A p \in a.pairs :
         \E u, e \in a.stamps :
           /\ p = <<u, e>> /\ u.type = "start" /\ e.type # "start"
           /\ u.of = e.of /\ u.key = e.key /\ (e.of = "task" => Own(u, e))
  BY <1>3 DEF BookFine
<1>8. /\ \A p, q \in a.pairs : p[1] = q[1] \/ p[2] = q[2] => p = q
      /\ \A e \in a.stamps : e.type # "start" => \E p \in a.pairs : p[2] = e
      /\ \A u \in a.stamps : IsStamp(u)
      /\ IsBook(a) /\ ~a.lost
  BY <1>3 DEF BookFine, IsBook
<1> QED
  BY <1>1, <1>3, <1>4, <1>6, <1>7, <1>8 DEF BookFine

\* So is a new end, if a start waits for one with its key.
LEMMA EndNoted ==
    ASSUME NEW b, BookFine(b), NEW e, IsStamp(e), e.type # "start", e \notin b.stamps,
           WithKey(b, e) # {}, e.of = "task" => \A s \in WithKey(b, e) : Own(s, e),
           NEW a \in Ended(b, e)
    PROVE  /\ BookFine(a) /\ a.stamps = b.stamps \cup {e}
           /\ \E s \in WithKey(b, e) : a.pending = [b.pending EXCEPT ![e.of] = @ \ {s}]
<1>1. PICK s \in WithKey(b, e) :
        a = [b EXCEPT !.stamps = @ \cup {e}, !.pairs = @ \cup {<<s, e>>}, !.pending[e.of] = @ \ {s}]
  BY DEF Ended
<1>2. /\ DOMAIN b = {"stamps", "pairs", "pending", "lost"} /\ DOMAIN b.pending = Kinds
      /\ e.of \in Kinds
  BY DEF BookFine, IsBook, IsStamp
<1>3. /\ DOMAIN a = {"stamps", "pairs", "pending", "lost"}
      /\ a.stamps = b.stamps \cup {e} /\ a.pairs = b.pairs \cup {<<s, e>>} /\ a.lost = b.lost
      /\ a.pending = [b.pending EXCEPT ![e.of] = @ \ {s}]
  BY <1>1, <1>2
<1>4. /\ DOMAIN a.pending = Kinds
      /\ \A k \in Kinds : a.pending[k] = IF k = e.of THEN b.pending[k] \ {s} ELSE b.pending[k]
  BY <1>2, <1>3
<1>5. /\ s \in b.stamps /\ s.type = "start" /\ s.of = e.of /\ s.key = e.key
      /\ \A p \in b.pairs : p[1] # s
      /\ e.of = "task" => Own(s, e)
  BY <1>2 DEF BookFine, WithKey
<1>6. \A p \in b.pairs : \E u, f \in b.stamps : p = <<u, f>>
  BY DEF BookFine
<1>7. \A p \in b.pairs : p[2] # e
  <2>1. \A u, f : <<u, f>>[2] = f
    OBVIOUS
  <2> QED
    BY <1>6, <2>1
<1>8. \A k \in Kinds : \A u \in a.pending[k] :
         u \in a.stamps /\ u.type = "start" /\ u.of = k /\ \A p \in a.pairs : p[1] # u
  <2>1. \A k \in Kinds : \A u \in a.pending[k] : u \in b.pending[k] /\ (u = s => k # e.of)
    BY <1>4
  <2>2. \A k \in Kinds : \A u \in b.pending[k] :
           u \in b.stamps /\ u.type = "start" /\ u.of = k /\ \A p \in b.pairs : p[1] # u
    BY DEF BookFine
  <2>3. \A k \in Kinds : \A u \in a.pending[k] : u # s
    BY <1>5, <2>1, <2>2
  <2>4. <<s, e>>[1] = s
    OBVIOUS
  <2> QED
    BY <1>3, <2>1, <2>2, <2>3, <2>4
<1>9. \A p \in a.pairs :
         \E u, f \in a.stamps :
           /\ p = <<u, f>> /\ u.type = "start" /\ f.type # "start"
           /\ u.of = f.of /\ u.key = f.key /\ (f.of = "task" => Own(u, f))
  <2>1. \A p \in b.pairs :
         \E u, f \in b.stamps :
           /\ p = <<u, f>> /\ u.type = "start" /\ f.type # "start"
           /\ u.of = f.of /\ u.key = f.key /\ (f.of = "task" => Own(u, f))
    BY DEF BookFine
  <2> QED
    BY <1>3, <1>5, <2>1
<1>10. \A p, q \in a.pairs : p[1] = q[1] \/ p[2] = q[2] => p = q
  <2>1. \A p, q \in b.pairs : p[1] = q[1] \/ p[2] = q[2] => p = q
    BY DEF BookFine
  <2>2. <<s, e>>[1] = s /\ <<s, e>>[2] = e
    OBVIOUS
  <2> QED
    BY <1>3, <1>5, <1>7, <2>1, <2>2
<1>11. \A f \in a.stamps : f.type # "start" => \E p \in a.pairs : p[2] = f
  <2>1. \A f \in b.stamps : f.type # "start" => \E p \in b.pairs : p[2] = f
    BY DEF BookFine
  <2>2. <<s, e>>[2] = e
    OBVIOUS
  <2> QED
    BY <1>3, <2>1, <2>2
<1>12. IsBook(a) /\ ~a.lost /\ \A u \in a.stamps : IsStamp(u)
  BY <1>3 DEF BookFine, IsBook
<1> QED
  BY <1>3, <1>4, <1>8, <1>9, <1>10, <1>11, <1>12 DEF BookFine

\* What is under way beside the file of t.
OpenBut(k, t) == {FileStamp(k, "start", u) : u \in Busy(k) \ {t}}

LEMMA OpenSplits ==
    ASSUME NEW t \in Tasks, NEW k \in FileKinds
    PROVE  /\ Open(k) = IF executor[t].at = PhaseOf(k)
                        THEN OpenBut(k, t) \cup {FileStamp(k, "start", t)} ELSE OpenBut(k, t)
           /\ Open(k)' = IF executor'[t].at = PhaseOf(k)
                         THEN OpenBut(k, t)' \cup {FileStamp(k, "start", t)'} ELSE OpenBut(k, t)'
           /\ FileStamp(k, "start", t) \notin OpenBut(k, t)
           /\ FileStamp(k, "start", t)' \notin OpenBut(k, t)'
<1>1. k # "copy"
  BY DEF FileKinds
<1>2. /\ FileStamp(k, "start", t) \notin OpenBut(k, t)
      /\ FileStamp(k, "start", t)' \notin OpenBut(k, t)'
  BY DEF OpenBut, FileStamp, Stamp
<1>3. Open(k) = IF executor[t].at = PhaseOf(k)
                THEN OpenBut(k, t) \cup {FileStamp(k, "start", t)} ELSE OpenBut(k, t)
  <2>1. CASE executor[t].at = PhaseOf(k)
    <3>1. Busy(k) = (Busy(k) \ {t}) \cup {t}
      BY <2>1 DEF Busy
    <3> QED
      BY <1>1, <2>1, <3>1 DEF Open, OpenBut
  <2>2. CASE executor[t].at # PhaseOf(k)
    <3>1. Busy(k) = Busy(k) \ {t}
      BY <2>2 DEF Busy
    <3> QED
      BY <1>1, <2>2, <3>1 DEF Open, OpenBut
  <2> QED
    BY <2>1, <2>2
<1>4. Open(k)' = IF executor'[t].at = PhaseOf(k)
                 THEN OpenBut(k, t)' \cup {FileStamp(k, "start", t)'} ELSE OpenBut(k, t)'
  <2>1. CASE executor'[t].at = PhaseOf(k)
    <3>1. Busy(k)' = (Busy(k)' \ {t}) \cup {t}
      BY <2>1 DEF Busy
    <3> QED
      BY <1>1, <2>1, <3>1 DEF Open, OpenBut
  <2>2. CASE executor'[t].at # PhaseOf(k)
    <3>1. Busy(k)' = Busy(k)' \ {t}
      BY <2>2 DEF Busy
    <3> QED
      BY <1>1, <2>2, <3>1 DEF Open, OpenBut
  <2> QED
    BY <2>1, <2>2
<1> QED
  BY <1>2, <1>3, <1>4

LEMMA OthersStayOpen ==
    ASSUME NEW t \in Tasks, NEW k,
           \A u \in Tasks : u # t => executor'[u] = executor[u] /\ history'[u] = history[u]
    PROVE  OpenBut(k, t)' = OpenBut(k, t)
<1>1. Busy(k)' \ {t} = Busy(k) \ {t}
  BY DEF Busy
<1>2. \A u \in Busy(k) \ {t} : FileStamp(k, "start", u)' = FileStamp(k, "start", u)
  BY DEF Busy, FileStamp, Execution, Place
<1> QED
  BY <1>1, <1>2 DEF OpenBut

\* A file was read or written, or could not be.
LEMMA FileEnds ==
    ASSUME BookInv, NEW k \in FileKinds, NEW t \in Tasks, executor[t].at = PhaseOf(k),
           NEW type \in {"completion", "failure"}, NEW a \in Ended(book, FileStamp(k, type, t))
    PROVE  /\ BookFine(a) /\ a.stamps = book.stamps \cup {FileStamp(k, type, t)}
           /\ \A j \in Kinds \ {k} : a.pending[j] = book.pending[j]
           /\ Covers(a.pending[k], OpenBut(k, t))
<1>1. PICK e : e = FileStamp(k, type, t)
  OBVIOUS
<1>2. PICK v : v = FileStamp(k, "start", t)
  OBVIOUS
<1>3. /\ e.of = k /\ e.type = type /\ e.by = t /\ e.attempt = Execution(t) /\ e.key = Place(t)
      /\ v.key = e.key /\ k \in Kinds /\ k # "task" /\ k # "copy"
      /\ e.type # "start" /\ IsStamp(e)
  BY <1>1, <1>2 DEF FileStamp, Stamp, FileKinds, Kinds, IsStamp, Ends
<1>4. BookFine(book) /\ Covers(book.pending[k], OpenBut(k, t) \cup {v}) /\ v \notin OpenBut(k, t)
  BY <1>2, OpenSplits DEF BookInv
<1>5. /\ \E p \in book.pending[k] : p.key = e.key
      /\ \A p \in book.pending[k] : p.key = e.key => Covers(book.pending[k] \ {p}, OpenBut(k, t))
  BY <1>3, <1>4, CoversLess
<1>6. e \notin book.stamps
  <2>1. SUFFICES ASSUME Earlier(e) PROVE FALSE
    BY DEF BookInv
  <2>2. Past(e, executor[t].left)
    BY <1>3, <2>1 DEF Earlier, PhaseOf, FileKinds
  <2>3. e.key[1] = Head(executor[t].left)
    BY <1>3 DEF Place
  <2> QED
    BY <1>3, <2>2, <2>3 DEF Past
<1>7. WithKey(book, e) # {} /\ \A s \in WithKey(book, e) : s \in book.pending[k] /\ s.key = e.key
  BY <1>3, <1>5 DEF WithKey
<1>8. a \in Ended(book, e)
  BY <1>1
<1>9. /\ BookFine(a) /\ a.stamps = book.stamps \cup {e}
      /\ \E s \in WithKey(book, e) : a.pending = [book.pending EXCEPT ![e.of] = @ \ {s}]
  BY <1>3, <1>4, <1>6, <1>7, <1>8, EndNoted
<1>10. PICK s \in book.pending[k] : s.key = e.key /\ a.pending = [book.pending EXCEPT ![k] = @ \ {s}]
  BY <1>3, <1>7, <1>9
<1>11. DOMAIN book.pending = Kinds
  BY <1>4 DEF BookFine
<1>12. /\ a.pending[k] = book.pending[k] \ {s}
       /\ \A j \in Kinds \ {k} : a.pending[j] = book.pending[j]
  BY <1>3, <1>10, <1>11
<1> QED
  BY <1>1, <1>5, <1>9, <1>10, <1>12

\* The reading or writing of a file, or a copy, begins.
StartAdded(b, a, k, s) ==
    /\ BookFine(a) /\ a.stamps = b.stamps \cup {s}
    /\ \A j \in Kinds \ {k} : a.pending[j] = b.pending[j]
    /\ \A O : Covers(b.pending[k], O) => Covers(a.pending[k], O \cup {s})

LEMMA FileStarts ==
    ASSUME NEW b, BookFine(b), NEW k \in Kinds, k # "task",
           NEW s, s.of = k, s.type = "start", s \notin b.stamps, NEW a, a = Started(b, s)
    PROVE  StartAdded(b, a, k, s)
<1>1. IsStamp(s) /\ s.of # "task"
  BY DEF IsStamp
<1>2. /\ BookFine(a) /\ a.stamps = b.stamps \cup {s}
      /\ a.pending = [b.pending EXCEPT ![k] = @ \cup {s}]
  BY <1>1, StartNoted
<1>3. DOMAIN b.pending = Kinds /\ \A u \in b.pending[k] : u \in b.stamps
  BY DEF BookFine
<1>4. /\ a.pending[k] = b.pending[k] \cup {s}
      /\ \A j \in Kinds \ {k} : a.pending[j] = b.pending[j]
      /\ s \notin b.pending[k]
  BY <1>2, <1>3
<1>5. ASSUME NEW O, Covers(b.pending[k], O) PROVE Covers(a.pending[k], O \cup {s})
  BY <1>4, <1>5, CoversMore
<1> QED
  BY <1>2, <1>4, <1>5 DEF StartAdded

\* An execution of a task has ended.
LEMMA TaskEnds ==
    ASSUME BookInv, NEW b, BookFine(b), b.pending["task"] = book.pending["task"],
           NEW t \in Tasks, executor[t].started, ~executor[t].failed, NEW type \in Ends,
           TaskStamp(type, t) \notin b.stamps, NEW a \in Ended(b, TaskStamp(type, t))
    PROVE  /\ BookFine(a) /\ a.stamps = b.stamps \cup {TaskStamp(type, t)}
           /\ \A j \in Kinds \ {"task"} : a.pending[j] = b.pending[j]
           /\ a.pending["task"] = book.pending["task"] \ {TaskStamp("start", t)}
<1>1. PICK e : e = TaskStamp(type, t)
  OBVIOUS
<1>2. PICK v : v = TaskStamp("start", t)
  OBVIOUS
<1>3. /\ e.of = "task" /\ e.type = type /\ e.by = t /\ e.attempt = Execution(t) /\ e.key = <<t>>
      /\ v.of = "task" /\ v.by = t /\ v.attempt = Execution(t) /\ v.key = <<t>>
      /\ e.type # "start" /\ IsStamp(e) /\ Own(v, e) /\ "task" \in Kinds
  BY <1>1, <1>2 DEF TaskStamp, Stamp, Kinds, IsStamp, Ends, Own
<1>4. v \in b.pending["task"]
  BY <1>2 DEF BookInv, TasksPending
<1>5. ASSUME NEW s \in b.pending["task"], s.key = e.key PROVE s = v
  <2>1. s.by \in Tasks /\ s = TaskStamp("start", s.by)
    BY DEF BookInv, TasksPending
  <2>2. s.key = <<s.by>>
    BY <2>1 DEF TaskStamp, Stamp
  <2>3. s.by = t
    BY <1>3, <1>5, <2>2
  <2> QED
    BY <1>2, <2>1, <2>3
<1>6. WithKey(b, e) = {v}
  BY <1>3, <1>4, <1>5 DEF WithKey
<1>7. /\ BookFine(a) /\ a.stamps = b.stamps \cup {e}
      /\ \E s \in WithKey(b, e) : a.pending = [b.pending EXCEPT ![e.of] = @ \ {s}]
  <2>1. e \notin b.stamps /\ a \in Ended(b, e)
    BY <1>1
  <2>2. WithKey(b, e) # {} /\ \A s \in WithKey(b, e) : Own(s, e)
    BY <1>3, <1>6
  <2> QED
    BY <1>3, <2>1, <2>2, EndNoted
<1>8. a.pending = [b.pending EXCEPT !["task"] = @ \ {v}] /\ DOMAIN b.pending = Kinds
  BY <1>3, <1>6, <1>7 DEF BookFine
<1> QED
  BY <1>1, <1>2, <1>3, <1>7, <1>8

-------------------------------------------------------------------------------
(* The steps of an executor *)

\* Only the executor of t takes a step, and has at most one file under way afterwards.
OnlyOf(t) ==
    /\ \A u \in Tasks : u # t => executor'[u] = executor[u] /\ history'[u] = history[u]
    /\ \A c \in Copiers : attempts'[c] = attempts[c]
    /\ copier' = copier
OpenAfter(k, t) ==
    IF executor'[t].at = PhaseOf(k) THEN OpenBut(k, t) \cup {FileStamp(k, "start", t)'}
    ELSE OpenBut(k, t)
PendingBut(t) == book.pending["task"] \ {TaskStamp("start", t)}

LEMMA TaskKeeps ==
    ASSUME BookInv, NEW t \in Tasks, OnlyOf(t), ExecutionInv', Numbers', BookFine(book'),
           ExecutorFine(t, executor'[t]),
           \A s \in book'.stamps : s \in book.stamps \/ (s.of # "copy" /\ s.by = t),
           \A s \in book'.stamps : s.of # "copy" /\ s.by = t => Earlier(s)',
           book'.pending["copy"] = book.pending["copy"],
           \A k \in FileKinds : Covers(book'.pending[k], OpenAfter(k, t)),
           book'.pending["task"] = IF executor'[t].started /\ ~executor'[t].failed
                                   THEN PendingBut(t) \cup {TaskStamp("start", t)'}
                                   ELSE PendingBut(t)
    PROVE  BookInv'
<1>1. \A u \in Tasks : u # t => executor'[u] = executor[u] /\ history'[u] = history[u]
  BY DEF OnlyOf
<1>2. \A u \in Tasks : ExecutorFine(u, executor'[u])
  <2>1. \A u \in Tasks : ExecutorFine(u, executor[u])
    BY DEF BookInv
  <2> QED
    BY <1>1, <2>1
<1>3. ASSUME NEW s \in book'.stamps PROVE Earlier(s)'
  <2>1. CASE s.of # "copy" /\ s.by = t
    BY <2>1
  <2>2. CASE s.of # "copy" /\ s.by # t
    <3>1. Earlier(s)
      BY <2>2 DEF BookInv
    <3>2. s.by \in Tasks /\ executor'[s.by] = executor[s.by] /\ history'[s.by] = history[s.by]
      BY <1>1, <2>2, <3>1 DEF Earlier
    <3> QED
      BY <2>2, <3>1, <3>2 DEF Earlier, Execution
  <2>3. CASE s.of = "copy"
    <3>1. Earlier(s)
      BY <2>3 DEF BookInv
    <3>2. s.by \in Copiers /\ attempts'[s.by] = attempts[s.by] /\ copier'[s.by] = copier[s.by]
      BY <2>3, <3>1 DEF Earlier, OnlyOf
    <3> QED
      BY <2>3, <3>1, <3>2 DEF Earlier
  <2> QED
    BY <2>1, <2>2, <2>3
<1>4. TasksPending'
  <2>1. \A u \in Tasks : u # t => TaskStamp("start", u)' = TaskStamp("start", u)
    BY <1>1 DEF TaskStamp, Execution
  <2>2. /\ \A s : TaskStamp("start", s)' = Stamp("task", "start", s, Len(history'[s]), <<s>>)
        /\ \A s : TaskStamp("start", s) = Stamp("task", "start", s, Len(history[s]), <<s>>)
        /\ TaskStamp("start", t)'.by = t /\ TaskStamp("start", t).by = t
        /\ \A u : TaskStamp("start", u).by = u
    BY DEF TaskStamp, Execution, Stamp
  <2>3. TasksPending
    BY DEF BookInv
  <2>4. ASSUME NEW s \in book'.pending["task"]
        PROVE  s.by \in Tasks /\ s = TaskStamp("start", s.by)'
    <3>1. CASE s = TaskStamp("start", t)'
      BY <2>2, <3>1
    <3>2. CASE s \in PendingBut(t)
      <4>1. s \in book.pending["task"] /\ s # TaskStamp("start", t)
        BY <3>2 DEF PendingBut
      <4>2. s.by \in Tasks /\ s = TaskStamp("start", s.by) /\ s.by # t
        BY <2>3, <4>1 DEF TasksPending
      <4> QED
        BY <2>1, <4>2
    <3> QED
      BY <3>1, <3>2
  <2>5. ASSUME NEW u \in Tasks
        PROVE  TaskStamp("start", u)' \in book'.pending["task"]
                 <=> executor'[u].started /\ ~executor'[u].failed
    <3>1. CASE u # t
      <4>1. TaskStamp("start", u) # TaskStamp("start", t) /\ TaskStamp("start", u) # TaskStamp("start", t)'
        BY <2>2, <3>1
      <4>2. TaskStamp("start", u) \in book'.pending["task"] <=> TaskStamp("start", u) \in book.pending["task"]
        BY <4>1 DEF PendingBut
      <4> QED
        BY <1>1, <2>1, <2>3, <3>1, <4>2 DEF TasksPending
    <3>2. CASE u = t
      <4>1. TaskStamp("start", t)' \notin PendingBut(t)
        <5>1. SUFFICES ASSUME TaskStamp("start", t)' \in PendingBut(t) PROVE FALSE
          OBVIOUS
        <5>2. TaskStamp("start", t)' \in book.pending["task"] /\ TaskStamp("start", t)' # TaskStamp("start", t)
          BY <5>1 DEF PendingBut
        <5>3. PICK s \in book.pending["task"] : s = TaskStamp("start", t)'
          BY <5>2
        <5>4. s = TaskStamp("start", s.by)
          BY <2>3 DEF TasksPending
        <5> QED
          BY <2>2, <5>2, <5>3, <5>4
      <4> QED
        BY <3>2, <4>1
    <3> QED
      BY <3>1, <3>2
  <2> QED
    BY <2>4, <2>5 DEF TasksPending
<1>5. \A k \in FileKinds : Covers(book'.pending[k], Open(k)')
  BY <1>1, OpenSplits, OthersStayOpen DEF OpenAfter
<1>6. Covers(book'.pending["copy"], Open("copy")')
  <2>1. \A c \in Copiers : attempts'[c] = attempts[c] /\ copier'[c] = copier[c]
    BY DEF OnlyOf
  <2>2. {CopyStamp("start", c)' : c \in {d \in Copiers : copier'[d]}}
          = {CopyStamp("start", c) : c \in {d \in Copiers : copier[d]}}
    BY <2>1 DEF CopyStamp
  <2>3. Open("copy")' = Open("copy")
    BY <2>2 DEF Open
  <2> QED
    BY <2>3 DEF BookInv
<1> QED
  BY <1>2, <1>3, <1>4, <1>5, <1>6 DEF BookInv

-------------------------------------------------------------------------------
(* Retries, locations and the files that are left *)

Same(p, d, x) == d
Sums == INSTANCE FoldProofs WITH op <- Same

\* Who may try has not used up the retries.
LEMMA RetriesAreBounded ==
    ASSUME attempts \in [Tasks \cup Copiers -> 0 .. MaxRetries + 1],
           NEW x \in Tasks \cup Copiers, MayTry(x)
    PROVE  attempts[x] + 1 \in 1 .. MaxRetries + 1
<1> DEFINE More == [y \in DOMAIN attempts |-> attempts[y] - 1]
           Used == {y \in DOMAIN attempts : attempts[y] > 0}
<1>1. MaxRetries \in Nat /\ attempts[x] \in 0 .. MaxRetries + 1
  BY ExecutionAssumption
<1>2. CASE attempts[x] = 0
  BY <1>1, <1>2
<1>3. CASE attempts[x] # 0
  <2>1. DOMAIN attempts = Tasks \cup Copiers /\ \A y \in DOMAIN attempts : attempts[y] \in Nat
    BY ExecutionAssumption
  <2>2. IsFiniteSet(DOMAIN attempts)
    <3>1. IsFiniteSet(Tasks) /\ IsFiniteSet(Copiers)
      BY ExecutionAssumption
    <3>2. IsFiniteSet(Tasks \cup Copiers)
      BY <3>1, FS_Union
    <3> QED
      BY <2>1, <3>2
  <2>3. IsFiniteSet(Used) /\ IsFiniteSet(Used \ {x})
    <3>1. Used \subseteq DOMAIN attempts /\ Used \ {x} \subseteq DOMAIN attempts
      OBVIOUS
    <3> HIDE DEF Used
    <3> QED
      BY <2>2, <3>1, FS_Subset
  <2>4. x \in Used /\ More[x] = attempts[x] - 1 /\ \A y \in Used : More[y] \in Int /\ More[y] >= 0
    BY <1>1, <1>3, <2>1
  <2>5. Retries = SumFunctionOnSet(More, Used) /\ Retries < MaxRetries
    BY <1>3 DEF Retries, MayTry
  <2> HIDE DEF More, Used
  <2>6. /\ \A F, S : SumFunctionOnSet(F, S) = Sums!SumFunctionOnSet(F, S)
        /\ Sums!IsFiniteSet(Used) /\ Sums!IsFiniteSet(Used \ {x})
    BY <2>3 DEF SumFunctionOnSet, Sums!SumFunctionOnSet, FoldFunctionOnSet,
           Sums!FoldFunctionOnSet, MapThenFoldSet, Sums!MapThenFoldSet, IsFiniteSet,
           Sums!IsFiniteSet
  <2>7. Sums!SumFunctionOnSet(More, Used) = More[x] + Sums!SumFunctionOnSet(More, Used \ {x})
    BY <2>4, <2>6, Sums!SumAdds
  <2>8. Sums!SumFunctionOnSet(More, Used \ {x}) \in Int /\ Sums!SumFunctionOnSet(More, Used \ {x}) >= 0
    <3>1. \A y \in Used \ {x} : More[y] \in Int /\ More[y] >= 0
      BY <2>4
    <3> QED
      BY <2>6, <3>1, Sums!SumType
  <2>9. More[x] < MaxRetries
    BY <1>1, <2>4, <2>5, <2>6, <2>7, <2>8
  <2> QED
    BY <1>1, <2>4, <2>9
<1> QED
  BY <1>2, <1>3

\* A file that is usable has a location.
LEMMA ChosenIsLocation ==
    ASSUME NEW f \in Files, Usable(f)
    PROVE  Chosen(f) \in Locations
<1>1. FileLocations[f] \in Seq(Locations) /\ FileLocations[f] # <<>>
  BY ExecutionAssumption
<1> DEFINE n == Len(FileLocations[f])
<1>2. n \in Nat /\ n > 0 /\ DOMAIN FileLocations[f] = 1 .. n
      /\ \A i \in 1 .. n : FileLocations[f][i] \in Locations
  BY <1>1
<1>3. CASE n = 1
  BY <1>2, <1>3 DEF Chosen
<1>4. CASE n # 1
  <2>1. Found(f) # {} /\ Found(f) \in SUBSET (1 .. n)
    BY <1>2, <1>4 DEF Usable, Found
  <2>2. Found(f) \in SUBSET (0 .. n)
    BY <2>1
  <2> HIDE DEF n
  <2>3. \E m \in Found(f) : \A k \in Found(f) : m <= k
    BY <1>2, <2>1, <2>2, Sums!SmallestOf
  <2>4. Min(Found(f)) \in Found(f)
    BY <2>3 DEF Min
  <2>5. Min(Found(f)) \in 1 .. n
    BY <2>1, <2>4
  <2> QED
    BY <1>2, <1>4, <2>5 DEF Chosen, n
<1> QED
  BY <1>3, <1>4

\* A sequence without repetition and the rest of it.
LEMMA RestOfFiles ==
    ASSUME NEW q \in Seq(Files), q # <<>>, IsInjective(q)
    PROVE  /\ Head(q) \in Files /\ Tail(q) \in Seq(Files) /\ IsInjective(Tail(q))
           /\ ToSet(q) = {Head(q)} \cup ToSet(Tail(q)) /\ Head(q) \notin ToSet(Tail(q))
<1>1. /\ Len(q) \in Nat /\ Len(q) > 0 /\ DOMAIN q = 1 .. Len(q) /\ Head(q) = q[1]
      /\ Tail(q) \in Seq(Files) /\ Len(Tail(q)) = Len(q) - 1 /\ DOMAIN Tail(q) = 1 .. Len(q) - 1
      /\ \A i \in 1 .. Len(q) - 1 : Tail(q)[i] = q[i + 1]
      /\ \A i \in 1 .. Len(q) : q[i] \in Files
  OBVIOUS
<1>2. \A i, j \in 1 .. Len(q) : q[i] = q[j] => i = j
  BY <1>1 DEF IsInjective
<1>3. \A i, j \in 1 .. Len(q) - 1 : Tail(q)[i] = Tail(q)[j] => i = j
  <2>1. SUFFICES ASSUME NEW i \in 1 .. Len(q) - 1, NEW j \in 1 .. Len(q) - 1,
                        Tail(q)[i] = Tail(q)[j]
                 PROVE  i = j
    OBVIOUS
  <2>2. i + 1 \in 1 .. Len(q) /\ j + 1 \in 1 .. Len(q) /\ q[i + 1] = q[j + 1]
    BY <1>1, <2>1
  <2>3. i + 1 = j + 1
    BY <1>2, <2>2
  <2> QED
    BY <1>1, <2>3
<1>4. IsInjective(Tail(q))
  BY <1>1, <1>3 DEF IsInjective
<1>5. ToSet(q) = {q[i] : i \in 1 .. Len(q)} /\ ToSet(Tail(q)) = {Tail(q)[i] : i \in 1 .. Len(q) - 1}
  BY <1>1 DEF ToSet
<1>6. Head(q) \notin ToSet(Tail(q))
  <2>1. SUFFICES ASSUME NEW i \in 1 .. Len(q) - 1, Tail(q)[i] = Head(q) PROVE FALSE
    BY <1>5
  <2>2. i + 1 \in 1 .. Len(q) /\ 1 \in 1 .. Len(q) /\ q[i + 1] = q[1] /\ i + 1 # 1
    BY <1>1, <2>1
  <2> QED
    BY <1>2, <2>2
<1>7. ToSet(q) \subseteq {Head(q)} \cup ToSet(Tail(q))
  <2>1. SUFFICES ASSUME NEW i \in 1 .. Len(q), i # 1 PROVE q[i] \in ToSet(Tail(q))
    BY <1>1, <1>5
  <2>2. i - 1 \in 1 .. Len(q) - 1 /\ Tail(q)[i - 1] = q[(i - 1) + 1] /\ (i - 1) + 1 = i
    BY <1>1, <2>1
  <2> QED
    BY <1>5, <2>2
<1>8. {Head(q)} \cup ToSet(Tail(q)) \subseteq ToSet(q)
  <2>1. ASSUME NEW i \in 1 .. Len(q) - 1 PROVE Tail(q)[i] \in ToSet(q)
    <3>1. i + 1 \in 1 .. Len(q) /\ Tail(q)[i] = q[i + 1]
      BY <1>1
    <3> QED
      BY <1>5, <3>1
  <2>2. Head(q) \in ToSet(q)
    BY <1>1, <1>5
  <2> QED
    BY <1>5, <2>1, <2>2
<1> QED
  BY <1>1, <1>4, <1>6, <1>7, <1>8

\* The states of the tasks, the attempts, the copiers and the files stored keep their types.
LEMMA NumbersAfterwards ==
    ASSUME BookInv, Next
    PROVE  Numbers'
<1> DEFINE States == {"TASK_READY", "TASK_RUNNING", "TASK_COMPLETED", "TASK_FAILED"}
<1>1. /\ internal \in [Tasks -> States]
      /\ attempts \in [Tasks \cup Copiers -> 0 .. MaxRetries + 1]
      /\ copier \in [Copiers -> BOOLEAN] /\ stored \subseteq Files \X Locations
  BY DEF BookInv, ExecutionInv, Shape, Numbers
<1>2. \/ \E t \in Tasks : Start(t)
      \/ \E t \in Tasks : ExecutorStep(t) \/ \E f, c \in BOOLEAN : IsKilled(t, f, c)
      \/ \E c \in Copiers : CopyStarts(c)
      \/ \E c \in Copiers : CopyIsRefused(c) \/ CopyEnds(c) \/ CopyFails(c)
  BY DEF Next, CopyStep
<1>3. internal' \in [Tasks -> States]
  <2>1. internal' = internal \/ \E t \in Tasks : \E v \in States : internal' = [internal EXCEPT ![t] = v]
    BY <1>2 DEF Start, ExecutorStep, Begin, CannotBegin, Reads, CannotRead, Spawned, Computes, Completes,
                Writes, CannotWrite, Fails, Returns, IsKilled, CopyStarts, CopyIsRefused, CopyEnds,
                CopyFails
  <2> HIDE DEF States
  <2> QED
    BY <1>1, <2>1
<1>4. attempts' \in [Tasks \cup Copiers -> 0 .. MaxRetries + 1]
  <2>1. attempts' = attempts
        \/ \E x \in Tasks \cup Copiers : MayTry(x) /\ attempts' = [attempts EXCEPT ![x] = @ + 1]
    BY <1>2 DEF Start, ExecutorStep, Begin, CannotBegin, Reads, CannotRead, Spawned, Computes,
                Writes, CannotWrite, Fails, Returns, IsKilled, CopyStarts, CopyIsRefused, CopyEnds,
                CopyFails
  <2>2. ASSUME NEW x \in Tasks \cup Copiers, MayTry(x), attempts' = [attempts EXCEPT ![x] = @ + 1]
        PROVE  attempts' \in [Tasks \cup Copiers -> 0 .. MaxRetries + 1]
    <3>1. attempts[x] + 1 \in 1 .. MaxRetries + 1 /\ MaxRetries \in Nat
      BY <1>1, <2>2, RetriesAreBounded, ExecutionAssumption
    <3>2. attempts[x] + 1 \in 0 .. MaxRetries + 1
      BY <3>1
    <3> QED
      BY <1>1, <2>2, <3>2
  <2> QED
    BY <1>1, <2>1, <2>2
<1>5. copier' \in [Copiers -> BOOLEAN]
  <2>1. copier' = copier \/ \E c \in Copiers : \E v \in BOOLEAN : copier' = [copier EXCEPT ![c] = v]
    BY <1>2 DEF Start, ExecutorStep, Begin, CannotBegin, Reads, CannotRead, Spawned, Computes,
                Writes, CannotWrite, Fails, Returns, IsKilled, CopyStarts, CopyIsRefused, CopyEnds,
                CopyFails
  <2> QED
    BY <1>1, <2>1
<1>6. stored' \subseteq Files \X Locations
  <2>1. \/ stored' = stored
        \/ \E t \in Tasks : /\ executor[t].at = "writing"
                            /\ stored' = stored \cup {Place(t)}
        \/ \E c \in Copiers : stored' = stored \cup {<<CopyOf[c][1], CopyOf[c][3]>>}
    BY <1>2 DEF Start, ExecutorStep, Begin, CannotBegin, Reads, CannotRead, Spawned, Computes,
                Writes, CannotWrite, Fails, Returns, IsKilled, CopyStarts, CopyIsRefused, CopyEnds,
                CopyFails, Place
  <2>2. ASSUME NEW t \in Tasks, executor[t].at = "writing" PROVE Place(t) \in Files \X Locations
    <3>1. ExecutorFine(t, executor[t])
      BY DEF BookInv
    <3>2. /\ executor[t].left \in Seq(Files) /\ executor[t].left # <<>> /\ IsInjective(executor[t].left)
          /\ ToSet(executor[t].left) \subseteq FilesOf(t)
          /\ executor[t].location \in [FilesOf(t) -> Locations]
      BY <2>2, <3>1 DEF ExecutorFine, AtFile
    <3>3. Head(executor[t].left) \in Files /\ Head(executor[t].left) \in FilesOf(t)
      BY <3>2, RestOfFiles
    <3> QED
      BY <3>2, <3>3 DEF Place
  <2>3. \A c \in Copiers : <<CopyOf[c][1], CopyOf[c][3]>> \in Files \X Locations
    BY ExecutionAssumption
  <2> QED
    BY <1>1, <2>1, <2>2, <2>3
<1>7. \A c \in Copiers : copier'[c] => attempts'[c] > 0
  <2>1. \A c \in Copiers : attempts[c] \in Nat /\ (copier[c] => attempts[c] > 0)
    BY <1>1, ExecutionAssumption DEF BookInv, Numbers
  <2>2. \/ attempts' = attempts /\ \A c \in Copiers : copier'[c] => copier[c]
        \/ \E x \in Tasks : attempts' = [attempts EXCEPT ![x] = @ + 1] /\ copier' = copier
        \/ \E d \in Copiers : /\ attempts' = [attempts EXCEPT ![d] = @ + 1]
                              /\ copier' = [copier EXCEPT ![d] = TRUE]
    <3>1. \/ attempts' = attempts /\ copier' = copier
          \/ attempts' = attempts /\ \E c \in Copiers : copier' = [copier EXCEPT ![c] = FALSE]
          \/ \E x \in Tasks : attempts' = [attempts EXCEPT ![x] = @ + 1] /\ copier' = copier
          \/ \E d \in Copiers : /\ attempts' = [attempts EXCEPT ![d] = @ + 1]
                                /\ copier' = [copier EXCEPT ![d] = TRUE]
      BY <1>2 DEF Start, ExecutorStep, Begin, CannotBegin, Reads, CannotRead, Spawned, Computes,
                  Writes, CannotWrite, Fails, Returns, IsKilled, CopyStarts, CopyIsRefused, CopyEnds,
                  CopyFails
    <3> QED
      BY <1>1, <3>1
  <2>3. ASSUME NEW x, attempts' = [attempts EXCEPT ![x] = @ + 1], NEW c \in Copiers
        PROVE  attempts'[c] = IF c = x THEN attempts[c] + 1 ELSE attempts[c]
    BY <1>1, <2>3
  <2> QED
    BY <1>1, <2>1, <2>2, <2>3
<1> QED
  BY <1>3, <1>4, <1>5, <1>6, <1>7 DEF Numbers

-------------------------------------------------------------------------------
(* Stamps that were there before *)

LEMMA PastRest ==
    ASSUME NEW q \in Seq(Files), q # <<>>, IsInjective(q), Tail(q) # <<>>, NEW s
    PROVE  /\ Past(s, q) => Past(s, Tail(q))
           /\ s.key[1] = Head(q) => Past(s, Tail(q))
           /\ s.key[1] = Head(Tail(q)) /\ s.type = "start" => Past(s, Tail(q)) /\ ~Past(s, q)
<1>1. /\ Tail(q) \in Seq(Files) /\ IsInjective(Tail(q)) /\ Head(q) \notin ToSet(Tail(q))
  BY RestOfFiles
<1>2. /\ ToSet(Tail(q)) = {Head(Tail(q))} \cup ToSet(Tail(Tail(q)))
      /\ Head(Tail(q)) \notin ToSet(Tail(Tail(q)))
  BY <1>1, RestOfFiles
<1> QED
  BY <1>1, <1>2 DEF Past

\* The stamps of t that were in the book are no news.
Sooner(s, t) ==
    LET ex == executor[t]
        after == executor'[t]
        before == {"reading", "spawning", "computing"}
    IN /\ after.started /\ ~after.failed => ex.started /\ ~ex.failed
       /\ after.at = "reading" => ex.at = "reading" /\ (Past(s, ex.left) => Past(s, after.left))
       /\ after.at \in before => ex.at \in before
       /\ after.at = "writing" =>
            \/ ex.at \in before
            \/ ex.at = "writing" /\ (Past(s, ex.left) => Past(s, after.left))

LEMMA SoonerIsEarlier ==
    ASSUME NEW s, Earlier(s), s.of # "copy", NEW t, s.by = t, Len(history'[t]) = Len(history[t]),
           Sooner(s, t)
    PROVE  Earlier(s)'
<1>1. /\ t \in Tasks /\ s.attempt \in 1 .. Len(history[t])
      /\ s.attempt = Len(history[t]) =>
           /\ s.of = "task" /\ s.type # "start" => ~(executor[t].started /\ ~executor[t].failed)
           /\ s.of = "read" /\ executor[t].at = "reading" => Past(s, executor[t].left)
           /\ s.of = "write" => executor[t].at \notin {"reading", "spawning", "computing"}
           /\ s.of = "write" /\ executor[t].at = "writing" => Past(s, executor[t].left)
  BY DEF Earlier, Execution
<1>2. /\ s.attempt \in 1 .. Len(history'[t])
      /\ s.attempt = Len(history'[t]) =>
           /\ s.of = "task" /\ s.type # "start" => ~(executor'[t].started /\ ~executor'[t].failed)
           /\ s.of = "read" /\ executor'[t].at = "reading" => Past(s, executor'[t].left)
           /\ s.of = "write" => executor'[t].at \notin {"reading", "spawning", "computing"}
           /\ s.of = "write" /\ executor'[t].at = "writing" => Past(s, executor'[t].left)
  BY <1>1 DEF Sooner
<1> QED
  BY <1>1, <1>2 DEF Earlier, Execution

\* A step that notes nothing, and neither begins nor ends with a file.
LEMMA KeptQuietly ==
    ASSUME BookInv, NEW t \in Tasks, OnlyOf(t), ExecutionInv', Numbers',
           Len(history'[t]) = Len(history[t]), book' = book, ExecutorFine(t, executor'[t]),
           executor[t].at \notin {"reading", "writing"},
           executor'[t].at \notin {"reading", "writing"},
           executor'[t].at \in {"spawning", "computing"} => executor[t].at \in {"spawning", "computing"},
           executor'[t].started /\ ~executor'[t].failed <=> executor[t].started /\ ~executor[t].failed
    PROVE  BookInv'
<1>1. BookFine(book') /\ book'.pending["copy"] = book.pending["copy"]
  BY DEF BookInv
<1>2. \A s \in book'.stamps : s \in book.stamps \/ (s.of # "copy" /\ s.by = t)
  OBVIOUS
<1>3. ASSUME NEW s \in book'.stamps, s.of # "copy" /\ s.by = t PROVE Earlier(s)'
  <2>1. Earlier(s) /\ s.of # "copy" /\ s.by = t
    BY <1>3 DEF BookInv
  <2>2. Sooner(s, t)
    BY DEF Sooner
  <2> QED
    BY <2>1, <2>2, SoonerIsEarlier
<1>4. ASSUME NEW k \in FileKinds PROVE Covers(book'.pending[k], OpenAfter(k, t))
  <2>1. OpenAfter(k, t) = OpenBut(k, t) /\ Open(k) = OpenBut(k, t)
    BY OpenSplits DEF OpenAfter, PhaseOf
  <2> QED
    BY <2>1 DEF BookInv
<1>5. book'.pending["task"] = IF executor'[t].started /\ ~executor'[t].failed
                              THEN PendingBut(t) \cup {TaskStamp("start", t)'} ELSE PendingBut(t)
  <2>1. TaskStamp("start", t)' = TaskStamp("start", t)
    BY DEF TaskStamp, Execution
  <2>2. TaskStamp("start", t) \in book.pending["task"] <=> executor[t].started /\ ~executor[t].failed
    BY DEF BookInv, TasksPending
  <2> QED
    BY <2>1, <2>2 DEF PendingBut
<1> QED
  BY <1>1, <1>2, <1>3, <1>4, <1>5, TaskKeeps

-------------------------------------------------------------------------------
(* Steps from file to file *)

LEMMA InExecution ==
    ASSUME BookInv, NEW t \in Tasks
    PROVE  /\ Len(history[t]) \in Nat /\ (executor[t].started => Len(history[t]) > 0)
           /\ Len(history'[t]) = Len(history[t]) => TaskStamp("start", t)' = TaskStamp("start", t)
           /\ executor[t].started /\ ~executor[t].failed
                => book.pending["task"] = PendingBut(t) \cup {TaskStamp("start", t)}
           /\ ~(executor[t].started /\ ~executor[t].failed) => book.pending["task"] = PendingBut(t)
<1>1. Sound(t, executor[t], history[t], internal[t], book.stamps) /\ history[t] \in Seq(Noted)
  BY DEF BookInv, ExecutionInv, BookFine, TasksAreSound, Shape
<1>2. Len(history[t]) \in Nat /\ (executor[t].started => Len(history[t]) > 0)
  BY <1>1 DEF Sound, NotBegun
<1>3. Len(history'[t]) = Len(history[t]) => TaskStamp("start", t)' = TaskStamp("start", t)
  BY DEF TaskStamp, Execution
<1>4. TaskStamp("start", t) \in book.pending["task"] <=> executor[t].started /\ ~executor[t].failed
  BY DEF BookInv, TasksPending
<1> QED
  BY <1>2, <1>3, <1>4 DEF PendingBut

\* What the executor of t, and the others, are after a change of the first.
LEMMA ExecutorSet ==
    ASSUME BookInv, NEW t \in Tasks, NEW ex, executor' = [executor EXCEPT ![t] = ex]
    PROVE  /\ executor'[t] = ex /\ IsExecutor(executor[t])
           /\ \A u \in Tasks : u # t => executor'[u] = executor[u]
BY DEF BookInv, ExecutionInv, Shape

LEMMA DatesLeaveLength ==
    ASSUME BookInv, NEW t \in Tasks, NEW dates, history' = SetDates(t, dates)
    PROVE  /\ Len(history'[t]) = Len(history[t])
           /\ \A u \in Tasks : u # t => history'[u] = history[u]
<1>1. history \in [Tasks -> Seq(Noted)]
  BY DEF BookInv, ExecutionInv, Shape
<1>2. history' = [history EXCEPT ![t] = [history[t] EXCEPT ![Execution(t)] = @ \cup dates]]
  BY DEF SetDates
<1>3. history'[t] = [history[t] EXCEPT ![Execution(t)] = @ \cup dates]
  BY <1>1, <1>2
<1>4. \A q \in Seq(Noted) : \A i, v : Len([q EXCEPT ![i] = v]) = Len(q)
  OBVIOUS
<1>5. Len(history'[t]) = Len(history[t])
  BY <1>1, <1>3, <1>4
<1> QED
  BY <1>1, <1>2, <1>5

\* A step that notes stamps X of t, while its execution goes on.
LEMMA KeptNoting ==
    ASSUME BookInv, NEW t \in Tasks, OnlyOf(t), ExecutionInv', Numbers', BookFine(book'),
           Len(history'[t]) = Len(history[t]), ExecutorFine(t, executor'[t]), executor[t].started,
           NEW X, book'.stamps = book.stamps \cup X,
           \A s \in X : s.of # "copy" /\ s.by = t /\ Earlier(s)',
           \A s \in book.stamps : s.of # "copy" /\ s.by = t => Sooner(s, t),
           book'.pending["copy"] = book.pending["copy"],
           \A k \in FileKinds : Covers(book'.pending[k], OpenAfter(k, t)),
           book'.pending["task"] = IF executor'[t].started /\ ~executor'[t].failed
                                   THEN book.pending["task"] ELSE PendingBut(t),
           executor'[t].started /\ ~executor'[t].failed => ~executor[t].failed
    PROVE  BookInv'
<1>1. \A s \in book'.stamps : s \in book.stamps \/ (s.of # "copy" /\ s.by = t)
  OBVIOUS
<1>2. ASSUME NEW s \in book'.stamps, s.of # "copy" /\ s.by = t PROVE Earlier(s)'
  <2>1. CASE s \in X
    BY <2>1
  <2>2. CASE s \in book.stamps
    <3>1. Earlier(s) /\ Sooner(s, t) /\ s.of # "copy" /\ s.by = t
      BY <1>2, <2>2 DEF BookInv
    <3> QED
      BY <3>1, SoonerIsEarlier
  <2> QED
    BY <2>1, <2>2
<1>3. book'.pending["task"] = IF executor'[t].started /\ ~executor'[t].failed
                              THEN PendingBut(t) \cup {TaskStamp("start", t)'} ELSE PendingBut(t)
  BY InExecution
<1> QED
  BY <1>1, <1>2, <1>3, TaskKeeps

\* The executor goes on to the next file.
LEMMA KeptOntoNext ==
    ASSUME BookInv, NEW t \in Tasks, OnlyOf(t), ExecutionInv', Numbers', history' = history,
           NEW k \in FileKinds, executor[t].at = PhaseOf(k), Tail(executor[t].left) # <<>>,
           NEW b \in Ended(book, FileStamp(k, "completion", t)),
           OnTo(t, PhaseOf(k), k, Tail(executor[t].left), b)
    PROVE  BookInv'
<1> DEFINE ex == executor[t]
           q == executor[t].left
           e == FileStamp(k, "completion", t)
           s == FileStamp(k, "start", t)'
<1>1. /\ executor'[t] = [ex EXCEPT !.at = PhaseOf(k), !.left = Tail(q)] /\ IsExecutor(ex)
  BY ExecutorSet DEF OnTo, BookInv, ExecutionInv, Shape
<1>2. /\ executor'[t].at = PhaseOf(k) /\ executor'[t].left = Tail(q)
      /\ executor'[t].location = ex.location /\ executor'[t].started = ex.started
      /\ executor'[t].failed = ex.failed /\ executor'[t].completed = ex.completed
  BY <1>1 DEF IsExecutor
<1>3. k \in Kinds /\ k # "task" /\ k # "copy" /\ PhaseOf(k) \in {"reading", "writing"}
      /\ \A j \in FileKinds : j # k => PhaseOf(j) # PhaseOf(k)
  BY DEF FileKinds, Kinds, PhaseOf
<1>4. /\ ex.started /\ ~ex.failed /\ ~ex.completed /\ ex.location \in [FilesOf(t) -> Locations]
      /\ q \in Seq(Files) /\ q # <<>> /\ IsInjective(q) /\ ToSet(q) \subseteq FilesOf(t)
  BY <1>3 DEF BookInv, ExecutorFine, AtFile
<1>5. /\ Tail(q) \in Seq(Files) /\ IsInjective(Tail(q)) /\ ToSet(Tail(q)) \subseteq ToSet(q)
      /\ Head(Tail(q)) # Head(q)
  <2>1. /\ Tail(q) \in Seq(Files) /\ IsInjective(Tail(q)) /\ ToSet(q) = {Head(q)} \cup ToSet(Tail(q))
        /\ Head(q) \notin ToSet(Tail(q))
    BY <1>4, RestOfFiles
  <2>2. ToSet(Tail(q)) = {Head(Tail(q))} \cup ToSet(Tail(Tail(q)))
    BY <2>1, RestOfFiles
  <2> QED
    BY <2>1, <2>2
<1>6. ExecutorFine(t, executor'[t])
  BY <1>2, <1>3, <1>4, <1>5 DEF ExecutorFine, AtFile
<1>7. /\ s.of = k /\ s.type = "start" /\ s.by = t /\ s.attempt = Execution(t)
      /\ s.key = <<Head(Tail(q)), ex.location[Head(Tail(q))]>>
      /\ s = Stamp(k, "start", t, Execution(t), <<Head(Tail(q)), ex.location[Head(Tail(q))]>>)
  BY <1>2 DEF FileStamp, Stamp, Execution, Place
<1>8. book' = Started(b, s)
  BY <1>7 DEF OnTo
<1>9. /\ e.of = k /\ e.type = "completion" /\ e.by = t /\ e.attempt = Execution(t)
      /\ e.key[1] = Head(q) /\ s.key[1] = Head(Tail(q))
  BY <1>7 DEF FileStamp, Stamp, Place
<1>10. /\ Past(e, Tail(q)) /\ Past(s, Tail(q)) /\ ~Past(s, q)
       /\ \A u : Past(u, q) => Past(u, Tail(q))
  <2> HIDE DEF e, s
  <2> QED
    BY <1>4, <1>7, <1>9, PastRest
<1>11. Len(history[t]) \in Nat /\ Len(history[t]) > 0 /\ Execution(t) = Len(history[t])
  BY <1>4, InExecution DEF Execution
<1>12. s \notin book.stamps
  <2>1. SUFFICES ASSUME Earlier(s) PROVE FALSE
    BY DEF BookInv
  <2> HIDE DEF s
  <2> QED
    BY <1>3, <1>7, <1>10, <2>1 DEF Earlier, PhaseOf, FileKinds
<1>13. /\ BookFine(b) /\ b.stamps = book.stamps \cup {e}
       /\ \A j \in Kinds \ {k} : b.pending[j] = book.pending[j]
       /\ Covers(b.pending[k], OpenBut(k, t))
  BY FileEnds
<1>14. s \notin b.stamps
  BY <1>7, <1>9, <1>12, <1>13
<1> HIDE DEF e, s
<1>15. /\ BookFine(book') /\ book'.stamps = b.stamps \cup {s}
       /\ \A j \in Kinds \ {k} : book'.pending[j] = b.pending[j]
       /\ Covers(book'.pending[k], OpenBut(k, t) \cup {s})
  <2>1. PICK u, a : u = s /\ a = Started(b, u)
    OBVIOUS
  <2>2. u.of = k /\ u.type = "start" /\ u \notin b.stamps /\ BookFine(b)
    BY <1>7, <1>13, <1>14, <2>1
  <2>3. StartAdded(b, a, k, u)
    BY <1>3, <2>1, <2>2, FileStarts
  <2> QED
    BY <1>8, <1>13, <2>1, <2>3 DEF StartAdded
<1>16. ASSUME NEW j \in FileKinds PROVE Covers(book'.pending[j], OpenAfter(j, t))
  <2>1. CASE j = k
    BY <1>2, <1>15, <2>1 DEF OpenAfter, s
  <2>2. CASE j # k
    <3>1. OpenAfter(j, t) = OpenBut(j, t) /\ Open(j) = OpenBut(j, t)
      BY <1>2, <1>3, <2>2, OpenSplits DEF OpenAfter
    <3>2. book'.pending[j] = book.pending[j]
      BY <1>13, <1>15, <2>2 DEF FileKinds, Kinds
    <3> QED
      BY <3>1, <3>2 DEF BookInv
  <2> QED
    BY <2>1, <2>2
<1>17. ASSUME NEW u \in {e, s} PROVE u.of # "copy" /\ u.by = t /\ Earlier(u)'
  <2>1. u.of = k /\ u.by = t /\ u.attempt = Len(history'[t]) /\ Past(u, executor'[t].left)
    BY <1>2, <1>7, <1>9, <1>10, <1>11
  <2> QED
    BY <1>2, <1>3, <1>11, <2>1 DEF Earlier, Execution, PhaseOf, FileKinds
<1>18. ASSUME NEW u \in book.stamps PROVE Sooner(u, t)
  BY <1>2, <1>3, <1>4, <1>10 DEF Sooner
<1>19. /\ book'.pending["copy"] = book.pending["copy"] /\ book'.pending["task"] = book.pending["task"]
       /\ book'.stamps = book.stamps \cup {e, s}
  BY <1>3, <1>13, <1>15 DEF Kinds
<1> HIDE DEF ex, q
<1> DEFINE X == {e, s}
<1>20. book'.stamps = book.stamps \cup X /\ \A u \in X : u.of # "copy" /\ u.by = t /\ Earlier(u)'
  BY <1>17, <1>19
<1> HIDE DEF X
<1> QED
  BY <1>2, <1>4, <1>6, <1>15, <1>16, <1>18, <1>19, <1>20, KeptNoting DEF ex

\* The last file is read or written.
LEMMA KeptAfterLast ==
    ASSUME BookInv, NEW t \in Tasks, OnlyOf(t), ExecutionInv', Numbers',
           Len(history'[t]) = Len(history[t]), NEW k \in FileKinds, executor[t].at = PhaseOf(k),
           book' \in Ended(book, FileStamp(k, "completion", t)), ExecutorFine(t, executor'[t]),
           executor'[t].started = executor[t].started, executor'[t].failed = executor[t].failed,
           executor'[t].at = IF k = "read" THEN "spawning" ELSE "sending"
    PROVE  BookInv'
<1>1. PICK a : a = book'
  OBVIOUS
<1>2. PICK e : e = FileStamp(k, "completion", t)
  OBVIOUS
<1>3. k \in Kinds /\ k # "task" /\ k # "copy" /\ PhaseOf(k) \in {"reading", "writing"}
      /\ (k = "read" <=> executor[t].at = "reading") /\ PhaseOf(k) \in AtFile
      /\ \A j \in FileKinds : (j # k => PhaseOf(j) # PhaseOf(k)) /\ executor'[t].at # PhaseOf(j)
  BY DEF FileKinds, Kinds, PhaseOf, AtFile
<1>4. executor[t].started /\ ~executor[t].failed
  <2>1. ExecutorFine(t, executor[t])
    BY DEF BookInv
  <2> QED
    BY <1>3, <2>1 DEF ExecutorFine
<1>5. /\ BookFine(a) /\ a.stamps = book.stamps \cup {e}
      /\ \A j \in Kinds \ {k} : a.pending[j] = book.pending[j]
      /\ Covers(a.pending[k], OpenBut(k, t))
  <2>1. a \in Ended(book, FileStamp(k, "completion", t))
    BY <1>1
  <2> QED
    BY <1>2, <2>1, FileEnds
<1>6. Len(history[t]) \in Nat /\ Len(history[t]) > 0 /\ Execution(t) = Len(history[t])
  BY <1>4, InExecution DEF Execution
<1>7. e.of = k /\ e.by = t /\ e.attempt = Len(history'[t])
  BY <1>2, <1>6 DEF FileStamp, Stamp
<1>8. Earlier(e)'
  BY <1>3, <1>6, <1>7 DEF Earlier, Execution, FileKinds, PhaseOf
<1>9. ASSUME NEW u \in book.stamps PROVE Sooner(u, t)
  BY <1>3, <1>4 DEF Sooner
<1>10. ASSUME NEW j \in FileKinds PROVE Covers(a.pending[j], OpenAfter(j, t))
  <2>1. OpenAfter(j, t) = OpenBut(j, t)
    BY <1>3 DEF OpenAfter
  <2>2. CASE j = k
    BY <1>5, <2>1, <2>2
  <2>3. CASE j # k
    <3>1. Open(j) = OpenBut(j, t) /\ a.pending[j] = book.pending[j]
      BY <1>3, <1>5, <2>3, OpenSplits DEF FileKinds, Kinds
    <3> QED
      BY <2>1, <3>1 DEF BookInv
  <2> QED
    BY <2>2, <2>3
<1>11. a.pending["copy"] = book.pending["copy"] /\ a.pending["task"] = book.pending["task"]
  BY <1>3, <1>5 DEF Kinds
<1>12. PICK X : X = {e}
  OBVIOUS
<1>13. book'.stamps = book.stamps \cup X /\ \A u \in X : u.of # "copy" /\ u.by = t /\ Earlier(u)'
  BY <1>1, <1>3, <1>5, <1>7, <1>8, <1>12
<1> QED
  BY <1>1, <1>4, <1>5, <1>9, <1>10, <1>11, <1>13, KeptNoting

\* The current execution of a task has no end while it goes on.
LEMMA NotEnded ==
    ASSUME BookInv, NEW t \in Tasks, executor[t].started, ~executor[t].failed, NEW type \in Ends
    PROVE  TaskStamp(type, t) \notin book.stamps
<1>1. SUFFICES ASSUME Earlier(TaskStamp(type, t)) PROVE FALSE
  BY DEF BookInv
<1>2. PICK e : e = TaskStamp(type, t)
  OBVIOUS
<1>3. e.of = "task" /\ e.by = t /\ e.attempt = Execution(t) /\ e.type # "start" /\ Earlier(e)
  BY <1>1, <1>2 DEF TaskStamp, Stamp, Ends
<1> QED
  BY <1>3 DEF Earlier

\* A file is read or written in vain.
LEMMA KeptWhenFailing ==
    ASSUME BookInv, NEW t \in Tasks, OnlyOf(t), ExecutionInv', Numbers',
           Len(history'[t]) = Len(history[t]), NEW k \in FileKinds, executor[t].at = PhaseOf(k),
           NEW b \in Ended(book, FileStamp(k, "failure", t)), book' \in Ended(b, TaskStamp("failure", t)),
           ExecutorFine(t, executor'[t]), executor'[t].failed, executor'[t].at = "sending"
    PROVE  BookInv'
<1>1. PICK a : a = book'
  OBVIOUS
<1>2. PICK e, f : e = FileStamp(k, "failure", t) /\ f = TaskStamp("failure", t)
  OBVIOUS
<1>3. k \in Kinds /\ k # "task" /\ k # "copy" /\ PhaseOf(k) \in AtFile
      /\ \A j \in FileKinds : (j # k => PhaseOf(j) # PhaseOf(k)) /\ executor'[t].at # PhaseOf(j)
  BY DEF FileKinds, Kinds, PhaseOf, AtFile
<1>4. executor[t].started /\ ~executor[t].failed
  <2>1. ExecutorFine(t, executor[t])
    BY DEF BookInv
  <2> QED
    BY <1>3, <2>1 DEF ExecutorFine
<1>5. /\ BookFine(b) /\ b.stamps = book.stamps \cup {e}
      /\ \A j \in Kinds \ {k} : b.pending[j] = book.pending[j]
      /\ Covers(b.pending[k], OpenBut(k, t))
  BY <1>2, FileEnds
<1>6. Len(history[t]) \in Nat /\ Len(history[t]) > 0 /\ Execution(t) = Len(history[t])
  BY <1>4, InExecution DEF Execution
<1>7. /\ e.of = k /\ e.by = t /\ e.attempt = Len(history'[t])
      /\ f.of = "task" /\ f.by = t /\ f.attempt = Len(history'[t])
  BY <1>2, <1>6 DEF FileStamp, TaskStamp, Stamp
<1>8. /\ BookFine(a) /\ a.stamps = b.stamps \cup {f}
      /\ \A j \in Kinds \ {"task"} : a.pending[j] = b.pending[j]
      /\ a.pending["task"] = PendingBut(t)
  <2>1. "failure" \in Ends /\ "task" \in Kinds
    BY DEF Ends, Kinds
  <2>2. f \notin book.stamps /\ f # e
    BY <1>2, <1>3, <1>4, <1>7, <2>1, NotEnded
  <2>3. TaskStamp("failure", t) \notin b.stamps
    BY <1>2, <1>5, <2>2
  <2>4. a \in Ended(b, TaskStamp("failure", t)) /\ BookFine(b) /\ b.pending["task"] = book.pending["task"]
    BY <1>1, <1>3, <1>5, <2>1
  <2>5. /\ BookFine(a) /\ a.stamps = b.stamps \cup {TaskStamp("failure", t)}
        /\ \A j \in Kinds \ {"task"} : a.pending[j] = b.pending[j]
        /\ a.pending["task"] = book.pending["task"] \ {TaskStamp("start", t)}
    BY <1>4, <2>1, <2>3, <2>4, TaskEnds
  <2> QED
    BY <1>2, <2>5 DEF PendingBut
<1>9. ASSUME NEW u \in {e, f} PROVE u.of # "copy" /\ u.by = t /\ Earlier(u)'
  BY <1>3, <1>6, <1>7 DEF Earlier, Execution, FileKinds, PhaseOf
<1>10. ASSUME NEW u \in book.stamps PROVE Sooner(u, t)
  BY DEF Sooner
<1>11. ASSUME NEW j \in FileKinds PROVE Covers(a.pending[j], OpenAfter(j, t))
  <2>1. OpenAfter(j, t) = OpenBut(j, t) /\ a.pending[j] = b.pending[j]
    BY <1>3, <1>8 DEF OpenAfter, FileKinds, Kinds
  <2>2. CASE j = k
    BY <1>5, <2>1, <2>2
  <2>3. CASE j # k
    <3>1. Open(j) = OpenBut(j, t) /\ b.pending[j] = book.pending[j]
      BY <1>3, <1>5, <2>3, OpenSplits DEF FileKinds, Kinds
    <3> QED
      BY <2>1, <3>1 DEF BookInv
  <2> QED
    BY <2>2, <2>3
<1>12. a.pending["copy"] = book.pending["copy"]
  BY <1>3, <1>5, <1>8 DEF Kinds
<1>13. PICK X : X = {e, f}
  OBVIOUS
<1>14. book'.stamps = book.stamps \cup X /\ \A u \in X : u.of # "copy" /\ u.by = t /\ Earlier(u)'
  BY <1>1, <1>5, <1>8, <1>9, <1>13
<1> QED
  BY <1>1, <1>4, <1>8, <1>10, <1>11, <1>12, <1>14, KeptNoting

\* An execution is over and its end is noted.
LEMMA KeptWhenOver ==
    ASSUME BookInv, NEW t \in Tasks, OnlyOf(t), ExecutionInv', Numbers',
           Len(history'[t]) = Len(history[t]), executor[t].started, ~executor[t].failed,
           NEW type \in Ends, book' \in Ended(book, TaskStamp(type, t)), executor'[t] = Off
    PROVE  BookInv'
<1>1. PICK a, f : a = book' /\ f = TaskStamp(type, t)
  OBVIOUS
<1>2. /\ executor'[t].at = "off" /\ ~executor'[t].started /\ ~executor'[t].failed
      /\ ~executor'[t].completed
  BY DEF Off
<1>3. ExecutorFine(t, executor'[t])
  BY <1>2 DEF ExecutorFine, AtFile
<1>4. Len(history[t]) \in Nat /\ Len(history[t]) > 0 /\ Execution(t) = Len(history[t])
  BY InExecution DEF Execution
<1>5. f.of = "task" /\ f.by = t /\ f.attempt = Len(history'[t])
  BY <1>1, <1>4 DEF TaskStamp, Stamp
<1>6. /\ BookFine(a) /\ a.stamps = book.stamps \cup {f}
      /\ \A j \in Kinds \ {"task"} : a.pending[j] = book.pending[j]
      /\ a.pending["task"] = PendingBut(t)
  <2>1. PICK b : b = book
    OBVIOUS
  <2>2. BookFine(b) /\ b.pending["task"] = book.pending["task"] /\ TaskStamp(type, t) \notin b.stamps
        /\ a \in Ended(b, TaskStamp(type, t))
    BY <1>1, <2>1, NotEnded DEF BookInv
  <2>3. /\ BookFine(a) /\ a.stamps = b.stamps \cup {TaskStamp(type, t)}
        /\ \A j \in Kinds \ {"task"} : a.pending[j] = b.pending[j]
        /\ a.pending["task"] = book.pending["task"] \ {TaskStamp("start", t)}
    BY <2>2, TaskEnds
  <2> QED
    BY <1>1, <2>1, <2>3 DEF PendingBut
<1>7. Earlier(f)'
  BY <1>2, <1>4, <1>5 DEF Earlier, Execution
<1>8. ASSUME NEW u \in book.stamps PROVE Sooner(u, t)
  BY <1>2 DEF Sooner
<1>9. ASSUME NEW j \in FileKinds PROVE Covers(a.pending[j], OpenAfter(j, t))
  <2>1. OpenAfter(j, t) = OpenBut(j, t) /\ a.pending[j] = book.pending[j]
    BY <1>2, <1>6 DEF OpenAfter, FileKinds, Kinds, PhaseOf
  <2>2. OpenBut(j, t) \subseteq Open(j)
    BY OpenSplits
  <2>3. Covers(book.pending[j], Open(j))
    BY DEF BookInv
  <2>4. Covers(book.pending[j], OpenBut(j, t))
    BY <2>2, <2>3, CoversFewer
  <2> QED
    BY <2>1, <2>4
<1>10. a.pending["copy"] = book.pending["copy"]
  BY <1>6 DEF Kinds
<1>11. PICK X : X = {f}
  OBVIOUS
<1>12. book'.stamps = book.stamps \cup X /\ \A u \in X : u.of # "copy" /\ u.by = t /\ Earlier(u)'
  BY <1>1, <1>5, <1>6, <1>7, <1>11
<1> QED
  BY <1>1, <1>2, <1>3, <1>6, <1>8, <1>9, <1>10, <1>12, KeptNoting

-------------------------------------------------------------------------------
(* Beginnings *)

LEMMA FilesOfTask ==
    ASSUME NEW t \in Tasks
    PROVE  /\ Inputs[t] \in Seq(Files) /\ IsInjective(Inputs[t]) /\ ToSet(Inputs[t]) \subseteq FilesOf(t)
           /\ Outputs[t] \in Seq(Files) /\ IsInjective(Outputs[t]) /\ ToSet(Outputs[t]) \subseteq FilesOf(t)
           /\ FilesOf(t) \subseteq Files
<1>1. Inputs[t] \in Seq(Files) /\ Outputs[t] \in Seq(Files)
  BY ExecutionAssumption
<1>2. IsInjective(Inputs[t]) /\ IsInjective(Outputs[t])
  BY ExecutionAssumption
<1>3. \A q \in Seq(Files) : ToSet(q) \subseteq Files
  BY DEF ToSet
<1> QED
  BY <1>1, <1>2, <1>3 DEF FilesOf

\* The first of some files is not among the rest.
LEMMA FirstIsPast ==
    ASSUME NEW q \in Seq(Files), q # <<>>, IsInjective(q), NEW s, s.type = "start", s.key[1] = Head(q)
    PROVE  Past(s, q)
BY RestOfFiles DEF Past

\* The executor goes on to write its files.
LEMMA KeptOntoWriting ==
    ASSUME BookInv, NEW t \in Tasks, OnlyOf(t), ExecutionInv', Numbers',
           Len(history'[t]) = Len(history[t]), executor[t].at = "computing", Outputs[t] # <<>>,
           OnTo(t, "writing", "write", Outputs[t], book)
    PROVE  BookInv'
<1> DEFINE ex == executor[t]
           q == Outputs[t]
<1>1. executor'[t] = [ex EXCEPT !.at = "writing", !.left = q] /\ IsExecutor(ex)
  BY ExecutorSet DEF OnTo, BookInv, ExecutionInv, Shape
<1>2. /\ executor'[t].at = "writing" /\ executor'[t].left = q
      /\ executor'[t].location = ex.location /\ executor'[t].started = ex.started
      /\ executor'[t].failed = ex.failed /\ executor'[t].completed = ex.completed
  BY <1>1 DEF IsExecutor
<1>3. ex.started /\ ~ex.failed /\ ~ex.completed /\ ex.location \in [FilesOf(t) -> Locations]
  BY DEF BookInv, ExecutorFine, AtFile
<1>4. q \in Seq(Files) /\ q # <<>> /\ IsInjective(q) /\ ToSet(q) \subseteq FilesOf(t)
  BY FilesOfTask
<1>5. ExecutorFine(t, executor'[t])
  BY <1>2, <1>3, <1>4 DEF ExecutorFine, AtFile
<1>6. Len(history[t]) \in Nat /\ Len(history[t]) > 0 /\ Execution(t) = Len(history[t])
  BY <1>3, InExecution DEF Execution
<1>7. PICK s : s = Stamp("write", "start", t, Execution(t), <<Head(q), ex.location[Head(q)]>>)
  OBVIOUS
<1>8. /\ s.of = "write" /\ s.type = "start" /\ s.by = t /\ s.attempt = Len(history[t])
      /\ s.key[1] = Head(q) /\ s = FileStamp("write", "start", t)'
  BY <1>2, <1>6, <1>7 DEF FileStamp, Stamp, Execution, Place
<1>9. Past(s, q)
  BY <1>4, <1>8, FirstIsPast
<1>10. s \notin book.stamps
  <2>1. SUFFICES ASSUME Earlier(s) PROVE FALSE
    BY DEF BookInv
  <2> QED
    BY <1>6, <1>8, <2>1 DEF Earlier
<1>11. PICK a, b : a = book' /\ b = book
  OBVIOUS
<1>12. a = Started(b, s)
  BY <1>7, <1>11 DEF OnTo
<1>13. StartAdded(b, a, "write", s)
  <2>1. BookFine(b) /\ s \notin b.stamps /\ "write" \in Kinds /\ "write" # "task"
    BY <1>10, <1>11 DEF BookInv, Kinds
  <2> QED
    BY <1>8, <1>12, <2>1, FileStarts
<1>14. /\ BookFine(book') /\ book'.stamps = book.stamps \cup {s}
       /\ \A j \in Kinds \ {"write"} : book'.pending[j] = book.pending[j]
       /\ \A O : Covers(book.pending["write"], O) => Covers(book'.pending["write"], O \cup {s})
  BY <1>11, <1>13 DEF StartAdded
<1>15. ASSUME NEW j \in FileKinds PROVE Covers(book'.pending[j], OpenAfter(j, t))
  <2>1. Open(j) = OpenBut(j, t) /\ Covers(book.pending[j], OpenBut(j, t))
    <3>1. Open(j) = OpenBut(j, t)
      BY OpenSplits DEF PhaseOf
    <3> QED
      BY <3>1 DEF BookInv
  <2>2. CASE j = "write"
    <3>1. OpenAfter(j, t) = OpenBut(j, t) \cup {s}
      BY <1>2, <1>8, <2>2 DEF OpenAfter, PhaseOf
    <3> QED
      BY <1>14, <2>1, <2>2, <3>1
  <2>3. CASE j # "write"
    <3>1. OpenAfter(j, t) = OpenBut(j, t) /\ book'.pending[j] = book.pending[j]
      BY <1>2, <1>14, <2>3 DEF OpenAfter, PhaseOf, FileKinds, Kinds
    <3> QED
      BY <2>1, <3>1
  <2> QED
    BY <2>2, <2>3
<1>16. Earlier(s)'
  BY <1>2, <1>6, <1>8, <1>9 DEF Earlier, Execution
<1>17. ASSUME NEW u \in book.stamps PROVE Sooner(u, t)
  BY <1>2, <1>3 DEF Sooner
<1>18. book'.pending["copy"] = book.pending["copy"] /\ book'.pending["task"] = book.pending["task"]
  BY <1>14 DEF Kinds
<1>19. PICK X : X = {s}
  OBVIOUS
<1>20. book'.stamps = book.stamps \cup X /\ \A u \in X : u.of # "copy" /\ u.by = t /\ Earlier(u)'
  BY <1>8, <1>14, <1>16, <1>19
<1> HIDE DEF ex, q
<1> QED
  BY <1>2, <1>3, <1>5, <1>14, <1>15, <1>17, <1>18, <1>20, KeptNoting DEF ex

\* A task starts.
LEMMA KeptWhenBegun ==
    ASSUME BookInv, ExecutionInv', Numbers', NEW t \in Tasks, Begin(t)
    PROVE  BookInv'
<1> DEFINE ex == executor[t]
           q == Inputs[t]
           n == Len(history[t])
<1>1. /\ ex.at = "starting" /\ IsExecutor(ex) /\ ~ex.started /\ ~ex.failed /\ ~ex.completed
      /\ n \in Nat /\ DOMAIN executor = Tasks /\ history \in [Tasks -> Seq(Noted)]
      /\ book.pending["task"] = PendingBut(t) /\ BookFine(book)
  <2>1. ex.at = "starting" /\ ExecutorFine(t, ex) /\ Shape /\ BookFine(book)
    BY DEF Begin, BookInv, ExecutionInv
  <2> QED
    BY <2>1, InExecution DEF ExecutorFine, Shape
<1>2. /\ executor'[t].started /\ ~executor'[t].failed /\ ~executor'[t].completed
      /\ executor'[t].location = [f \in FilesOf(t) |-> Chosen(f)]
      /\ IF q = <<>> THEN executor'[t].at = "spawning"
         ELSE executor'[t].at = "reading" /\ executor'[t].left = q
      /\ \A u \in Tasks : u # t => executor'[u] = executor[u]
  <2>1. PICK begun : begun = [ex EXCEPT !.started = TRUE, !.location = [f \in FilesOf(t) |-> Chosen(f)]]
    OBVIOUS
  <2>2. /\ DOMAIN begun = {"at", "left", "location", "started", "failed", "completed"}
        /\ begun.started /\ ~begun.failed /\ ~begun.completed
        /\ begun.location = [f \in FilesOf(t) |-> Chosen(f)]
    BY <1>1, <2>1 DEF IsExecutor
  <2>3. executor' = [executor EXCEPT ![t] = IF q = <<>> THEN [begun EXCEPT !.at = "spawning"]
                                            ELSE [begun EXCEPT !.at = "reading", !.left = q]]
    BY <2>1 DEF Begin
  <2>4. /\ executor'[t] = IF q = <<>> THEN [begun EXCEPT !.at = "spawning"]
                          ELSE [begun EXCEPT !.at = "reading", !.left = q]
        /\ \A u \in Tasks : u # t => executor'[u] = executor[u]
    BY <1>1, <2>3
  <2> QED
    BY <2>2, <2>4
<1>3. /\ Len(history'[t]) = n + 1
      /\ \A u \in Tasks : u # t => history'[u] = history[u]
  <2>1. \E d : history' = [history EXCEPT ![t] = Append(@, d)]
    BY DEF Begin
  <2> QED
    BY <1>1, <2>1
<1>4. OnlyOf(t)
  BY <1>2, <1>3 DEF OnlyOf, Begin
<1>5. q \in Seq(Files) /\ IsInjective(q) /\ ToSet(q) \subseteq FilesOf(t) /\ FilesOf(t) \subseteq Files
  BY FilesOfTask
<1>6. executor'[t].location \in [FilesOf(t) -> Locations]
  <2>1. \A f \in FilesOf(t) : Usable(f)
    BY DEF Begin
  <2>2. \A f \in FilesOf(t) : Chosen(f) \in Locations
    BY <1>5, <2>1, ChosenIsLocation
  <2> QED
    BY <1>2, <2>2
<1>7. ExecutorFine(t, executor'[t])
  BY <1>2, <1>5, <1>6 DEF ExecutorFine, AtFile
<1>8. PICK s, r, b, c :
        /\ s = Stamp("task", "start", t, n + 1, <<t>>)
        /\ r = Stamp("read", "start", t, n + 1, <<Head(q), executor'[t].location[Head(q)]>>)
        /\ b = book /\ c = Started(b, s)
  OBVIOUS
<1>9. /\ s.of = "task" /\ s.type = "start" /\ s.by = t /\ s.attempt = n + 1 /\ s.key = <<t>>
      /\ r.of = "read" /\ r.type = "start" /\ r.by = t /\ r.attempt = n + 1 /\ r.key[1] = Head(q)
      /\ s = TaskStamp("start", t)' /\ IsStamp(s)
  BY <1>3, <1>8 DEF Stamp, TaskStamp, Execution, IsStamp, Kinds
<1>10. ASSUME NEW u, u.by = t, u.of # "copy", u.attempt = n + 1 PROVE u \notin book.stamps
  <2>1. SUFFICES ASSUME Earlier(u) PROVE FALSE
    BY DEF BookInv
  <2> QED
    BY <1>1, <1>10, <2>1 DEF Earlier, Execution
<1>11. WithKey(book, s) = {}
  <2>1. SUFFICES ASSUME NEW p \in book.pending["task"], p.key = <<t>> PROVE FALSE
    BY <1>9 DEF WithKey
  <2>2. p = TaskStamp("start", p.by)
    BY DEF BookInv, TasksPending
  <2>3. p.key = <<p.by>>
    BY <2>2 DEF TaskStamp, Stamp
  <2>4. p = TaskStamp("start", t)
    BY <2>1, <2>2, <2>3
  <2> QED
    BY <1>1, <2>4 DEF PendingBut
<1>12. /\ BookFine(c) /\ c.stamps = book.stamps \cup {s}
       /\ c.pending["task"] = book.pending["task"] \cup {s}
       /\ \A j \in Kinds \ {"task"} : c.pending[j] = book.pending[j]
  <2>1. BookFine(b) /\ s \notin b.stamps /\ WithKey(b, s) = {}
    BY <1>1, <1>8, <1>9, <1>10, <1>11
  <2>2. BookFine(c) /\ c.stamps = b.stamps \cup {s} /\ c.pending = [b.pending EXCEPT ![s.of] = @ \cup {s}]
    <3>1. c = Started(b, s) /\ IsStamp(s) /\ s.type = "start"
      BY <1>8, <1>9
    <3> QED
      BY <2>1, <3>1, StartNoted
  <2>3. DOMAIN b.pending = Kinds /\ "task" \in Kinds
    BY <2>1 DEF BookFine, Kinds
  <2> QED
    BY <1>8, <1>9, <2>2, <2>3
<1>13. IF q = <<>> THEN book' = c ELSE book' = Started(c, r)
  <2>1. CASE q = <<>>
    BY <1>8, <2>1 DEF Begin, Execution
  <2>2. CASE q # <<>>
    <3>1. q[1] = Head(q) /\ Head(q) \in FilesOf(t)
      BY <1>5, <2>2, RestOfFiles
    <3>2. book' = Started(Started(book, s), Stamp("read", "start", t, n + 1, <<q[1], Chosen(q[1])>>))
      BY <1>1, <1>8, <2>2, <3>1 DEF Begin, Execution, IsExecutor
    <3> QED
      BY <1>2, <1>8, <2>2, <3>1, <3>2
  <2> QED
    BY <2>1, <2>2
<1>14. ASSUME NEW j \in FileKinds
       PROVE  Open(j) = OpenBut(j, t) /\ Covers(book.pending[j], OpenBut(j, t))
  <2>1. Open(j) = OpenBut(j, t)
    BY <1>1, OpenSplits DEF PhaseOf
  <2> QED
    BY <2>1 DEF BookInv
<1>15. /\ BookFine(book')
       /\ book'.stamps \subseteq book.stamps \cup {s} \cup (IF q = <<>> THEN {} ELSE {r})
       /\ book'.pending["task"] = book.pending["task"] \cup {s}
       /\ book'.pending["copy"] = book.pending["copy"]
       /\ \A j \in FileKinds : Covers(book'.pending[j], OpenAfter(j, t))
  <2>1. CASE q = <<>>
    <3>1. \A j \in FileKinds : OpenAfter(j, t) = OpenBut(j, t)
      BY <1>2, <2>1 DEF OpenAfter, PhaseOf
    <3>2. "copy" \in Kinds \ {"task"} /\ FileKinds \subseteq Kinds \ {"task"} /\ book' = c
      BY <1>13, <2>1 DEF Kinds, FileKinds
    <3> QED
      BY <1>12, <1>14, <3>1, <3>2
  <2>2. CASE q # <<>>
    <3>1. r \notin c.stamps /\ "read" \in Kinds
      BY <1>9, <1>10, <1>12 DEF Kinds
    <3>2. PICK a : a = book'
      OBVIOUS
    <3>3. a = Started(c, r)
      BY <1>13, <2>2, <3>2
    <3>4. StartAdded(c, a, "read", r)
      BY <1>9, <1>12, <3>1, <3>3, FileStarts
    <3>5. /\ BookFine(book') /\ book'.stamps = book.stamps \cup {s} \cup {r}
          /\ \A j \in Kinds \ {"read"} : book'.pending[j] = c.pending[j]
          /\ \A O : Covers(c.pending["read"], O) => Covers(book'.pending["read"], O \cup {r})
      BY <1>12, <3>2, <3>4 DEF StartAdded
    <3>6. /\ book'.pending["task"] = book.pending["task"] \cup {s}
          /\ book'.pending["copy"] = book.pending["copy"]
          /\ book'.pending["write"] = book.pending["write"]
          /\ c.pending["read"] = book.pending["read"]
      BY <1>12, <3>5 DEF Kinds
    <3>7. r = FileStamp("read", "start", t)'
      BY <1>2, <1>3, <1>8, <2>2 DEF FileStamp, Stamp, Execution, Place
    <3>8. OpenAfter("read", t) = OpenBut("read", t) \cup {r} /\ OpenAfter("write", t) = OpenBut("write", t)
      BY <1>2, <2>2, <3>7 DEF OpenAfter, PhaseOf
    <3>9. ASSUME NEW j \in FileKinds PROVE Covers(book'.pending[j], OpenAfter(j, t))
      <4>1. CASE j = "read"
        BY <1>14, <3>5, <3>6, <3>8, <4>1
      <4>2. CASE j = "write"
        BY <1>14, <3>6, <3>8, <4>2
      <4> QED
        BY <4>1, <4>2 DEF FileKinds
    <3> QED
      BY <2>2, <3>5, <3>6, <3>9
  <2> QED
    BY <2>1, <2>2
<1>16. ASSUME NEW u \in book'.stamps, u.of # "copy" /\ u.by = t PROVE Earlier(u)'
  <2>1. CASE u \in book.stamps
    <3>1. u.attempt \in 1 .. n
      BY <1>16, <2>1 DEF BookInv, Earlier, Execution
    <3>2. u.attempt \in 1 .. n + 1 /\ u.attempt # n + 1
      BY <1>1, <3>1
    <3> QED
      BY <1>3, <1>16, <3>2 DEF Earlier, Execution
  <2>2. CASE u = s
    BY <1>1, <1>3, <1>9, <2>2 DEF Earlier, Execution
  <2>3. CASE u = r /\ q # <<>>
    <3>1. Past(u, q)
      BY <1>5, <1>9, <2>3, FirstIsPast
    <3> QED
      BY <1>1, <1>2, <1>3, <1>9, <2>3, <3>1 DEF Earlier, Execution
  <2> QED
    BY <1>15, <2>1, <2>2, <2>3
<1>17. \A u \in book'.stamps : u \in book.stamps \/ (u.of # "copy" /\ u.by = t)
  BY <1>9, <1>15
<1>18. book'.pending["task"] = IF executor'[t].started /\ ~executor'[t].failed
                               THEN PendingBut(t) \cup {TaskStamp("start", t)'} ELSE PendingBut(t)
  BY <1>1, <1>2, <1>9, <1>15
<1> QED
  BY <1>4, <1>7, <1>15, <1>16, <1>17, <1>18, TaskKeeps

-------------------------------------------------------------------------------
(* Copies *)

CopiesBut(c) == {CopyStamp("start", d) : d \in {e \in Copiers : copier[e]} \ {c}}
OnlyCopier(c) ==
    /\ executor' = executor /\ history' = history
    /\ \A d \in Copiers : d # c => copier'[d] = copier[d] /\ attempts'[d] = attempts[d]

LEMMA CopiesSplit ==
    ASSUME NEW c \in Copiers, OnlyCopier(c)
    PROVE  /\ Open("copy") = IF copier[c] THEN CopiesBut(c) \cup {CopyStamp("start", c)} ELSE CopiesBut(c)
           /\ Open("copy")' = IF copier'[c] THEN CopiesBut(c) \cup {CopyStamp("start", c)'} ELSE CopiesBut(c)
           /\ CopyStamp("start", c) \notin CopiesBut(c)
<1> DEFINE Others == {e \in Copiers : copier[e]} \ {c}
<1>1. Others = {e \in Copiers : copier'[e]} \ {c}
  BY DEF OnlyCopier
<1>2. {e \in Copiers : copier[e]} = IF copier[c] THEN Others \cup {c} ELSE Others
  OBVIOUS
<1>3. {e \in Copiers : copier'[e]} = IF copier'[c] THEN Others \cup {c} ELSE Others
  BY <1>1
<1>4. \A d \in Others : CopyStamp("start", d)' = CopyStamp("start", d)
  BY DEF OnlyCopier, CopyStamp
<1>5. Open("copy") = {CopyStamp("start", d) : d \in {e \in Copiers : copier[e]}}
  BY DEF Open
<1>6. Open("copy")' = {CopyStamp("start", d)' : d \in {e \in Copiers : copier'[e]}}
  BY DEF Open
<1>7. CopiesBut(c) = {CopyStamp("start", d) : d \in Others}
  BY DEF CopiesBut
<1>8. \A d : CopyStamp("start", d).by = d
  BY DEF CopyStamp, Stamp
<1> HIDE DEF Others
<1>9. c \notin Others
  BY DEF Others
<1>10. Open("copy") = IF copier[c] THEN CopiesBut(c) \cup {CopyStamp("start", c)} ELSE CopiesBut(c)
  BY <1>2, <1>5, <1>7
<1>11. Open("copy")' = IF copier'[c] THEN CopiesBut(c) \cup {CopyStamp("start", c)'} ELSE CopiesBut(c)
  <2>1. CopiesBut(c) = {CopyStamp("start", d)' : d \in Others}
    BY <1>4, <1>7
  <2> QED
    BY <1>3, <1>6, <2>1
<1>12. CopyStamp("start", c) \notin CopiesBut(c)
  BY <1>7, <1>8, <1>9
<1> QED
  BY <1>10, <1>11, <1>12

\* What a step of a copier has to show.
LEMMA CopierKeeps ==
    ASSUME BookInv, NEW c \in Copiers, OnlyCopier(c), ExecutionInv', Numbers', BookFine(book'),
           \A s \in book'.stamps : s \in book.stamps \/ (s.of = "copy" /\ s.by = c),
           \A s \in book'.stamps : s.of = "copy" /\ s.by = c => Earlier(s)',
           \A k \in Kinds \ {"copy"} : book'.pending[k] = book.pending[k],
           Covers(book'.pending["copy"], Open("copy")')
    PROVE  BookInv'
<1>1. executor' = executor /\ history' = history
  BY DEF OnlyCopier
<1>2. ASSUME NEW s \in book'.stamps PROVE Earlier(s)'
  <2>1. CASE s.of = "copy" /\ s.by = c
    BY <2>1
  <2>2. CASE s.of # "copy"
    <3>1. Earlier(s)
      BY <2>2 DEF BookInv
    <3> QED
      BY <1>1, <2>2, <3>1 DEF Earlier, Execution
  <2>3. CASE s.of = "copy" /\ s.by # c
    <3>1. Earlier(s)
      BY <2>3 DEF BookInv
    <3>2. s.by \in Copiers /\ attempts'[s.by] = attempts[s.by] /\ copier'[s.by] = copier[s.by]
      BY <2>3, <3>1 DEF Earlier, OnlyCopier
    <3> QED
      BY <2>3, <3>1, <3>2 DEF Earlier
  <2> QED
    BY <2>1, <2>2, <2>3
<1>3. TasksPending'
  <2>1. book'.pending["task"] = book.pending["task"]
    BY DEF Kinds
  <2> QED
    BY <1>1, <2>1 DEF BookInv, TasksPending, TaskStamp, Execution
<1>4. ASSUME NEW k \in FileKinds PROVE Covers(book'.pending[k], Open(k)')
  <2>1. book'.pending[k] = book.pending[k] /\ k # "copy"
    BY DEF Kinds, FileKinds
  <2>2. Open(k)' = Open(k)
    BY <1>1, <2>1 DEF Open, Busy, FileStamp, Execution, Place
  <2> QED
    BY <2>1, <2>2 DEF BookInv
<1>5. \A u \in Tasks : ExecutorFine(u, executor'[u])
  BY <1>1 DEF BookInv
<1> QED
  BY <1>2, <1>3, <1>4, <1>5 DEF BookInv

LEMMA KeptWhenCopyStarts ==
    ASSUME BookInv, NEW c \in Copiers, CopyStarts(c), ExecutionInv', Numbers'
    PROVE  BookInv'
<1>1. /\ attempts \in [Tasks \cup Copiers -> 0 .. MaxRetries + 1] /\ copier \in [Copiers -> BOOLEAN]
      /\ attempts[c] \in Nat
  BY ExecutionAssumption DEF BookInv, Numbers
<1>2. OnlyCopier(c) /\ ~copier[c] /\ copier'[c] /\ attempts'[c] = attempts[c] + 1
  BY <1>1 DEF CopyStarts, OnlyCopier
<1>3. PICK s, b, a : s = Stamp("copy", "start", c, attempts[c] + 1, CopyOf[c]) /\ b = book /\ a = book'
  OBVIOUS
<1>4. /\ s.of = "copy" /\ s.type = "start" /\ s.by = c /\ s.attempt = attempts[c] + 1
      /\ s = CopyStamp("start", c)' /\ a = Started(b, s)
  BY <1>2, <1>3 DEF Stamp, CopyStamp, CopyStarts
<1>5. s \notin book.stamps
  <2>1. SUFFICES ASSUME Earlier(s) PROVE FALSE
    BY DEF BookInv
  <2> QED
    BY <1>1, <1>4, <2>1 DEF Earlier
<1>6. StartAdded(b, a, "copy", s)
  <2>1. BookFine(b) /\ s \notin b.stamps /\ "copy" \in Kinds /\ "copy" # "task"
    BY <1>3, <1>5 DEF BookInv, Kinds
  <2> QED
    BY <1>4, <2>1, FileStarts
<1>7. /\ BookFine(book') /\ book'.stamps = book.stamps \cup {s}
      /\ \A j \in Kinds \ {"copy"} : book'.pending[j] = book.pending[j]
      /\ \A O : Covers(book.pending["copy"], O) => Covers(book'.pending["copy"], O \cup {s})
  BY <1>3, <1>6 DEF StartAdded
<1>8. Covers(book'.pending["copy"], Open("copy")')
  <2>1. Open("copy") = CopiesBut(c) /\ Open("copy")' = CopiesBut(c) \cup {s}
    BY <1>2, <1>4, CopiesSplit
  <2>2. Covers(book.pending["copy"], Open("copy"))
    BY DEF BookInv
  <2> QED
    BY <1>7, <2>1, <2>2
<1>9. ASSUME NEW u \in book'.stamps, u.of = "copy" /\ u.by = c PROVE Earlier(u)'
  <2>1. CASE u \in book.stamps
    <3>1. u.attempt \in 1 .. attempts[c]
      BY <1>9, <2>1 DEF BookInv, Earlier
    <3>2. u.attempt \in 1 .. attempts[c] + 1 /\ u.attempt # attempts[c] + 1
      BY <1>1, <3>1
    <3> QED
      BY <1>2, <1>9, <3>2 DEF Earlier
  <2>2. CASE u = s
    <3>1. u.attempt \in 1 .. attempts[c] + 1
      BY <1>1, <1>4, <2>2
    <3> QED
      BY <1>2, <1>4, <1>9, <2>2, <3>1 DEF Earlier
  <2> QED
    BY <1>7, <2>1, <2>2
<1>10. \A u \in book'.stamps : u \in book.stamps \/ (u.of = "copy" /\ u.by = c)
  BY <1>4, <1>7
<1> QED
  BY <1>2, <1>7, <1>8, <1>9, <1>10, CopierKeeps

LEMMA KeptWhenCopyEnds ==
    ASSUME BookInv, NEW c \in Copiers, copier[c], OnlyCopier(c), ExecutionInv', Numbers',
           attempts' = attempts, ~copier'[c], NEW type \in {"completion", "failure"},
           book' \in Ended(book, CopyStamp(type, c))
    PROVE  BookInv'
<1>1. attempts[c] \in Nat /\ attempts[c] > 0
  BY ExecutionAssumption DEF BookInv, Numbers
<1>2. PICK e, v, b, a : /\ e = CopyStamp(type, c) /\ v = CopyStamp("start", c)
                        /\ b = book /\ a = book'
  OBVIOUS
<1>3. /\ e.of = "copy" /\ e.type # "start" /\ e.by = c /\ e.attempt = attempts[c]
      /\ v.key = e.key /\ IsStamp(e) /\ a \in Ended(b, e) /\ "copy" \in Kinds
  BY <1>2 DEF CopyStamp, Stamp, IsStamp, Kinds, Ends
<1>4. /\ BookFine(b) /\ Covers(b.pending["copy"], CopiesBut(c) \cup {v}) /\ v \notin CopiesBut(c)
      /\ Open("copy")' = CopiesBut(c)
  <2>1. /\ Open("copy") = CopiesBut(c) \cup {v} /\ v \notin CopiesBut(c)
        /\ Open("copy")' = CopiesBut(c)
    BY <1>2, CopiesSplit
  <2> QED
    BY <1>2, <2>1 DEF BookInv
<1>5. /\ \E p \in b.pending["copy"] : p.key = e.key
      /\ \A p \in b.pending["copy"] : p.key = e.key => Covers(b.pending["copy"] \ {p}, CopiesBut(c))
  BY <1>3, <1>4, CoversLess
<1>6. e \notin b.stamps
  <2>1. SUFFICES ASSUME Earlier(e) PROVE FALSE
    BY <1>2 DEF BookInv
  <2> QED
    BY <1>3, <2>1 DEF Earlier
<1>7. WithKey(b, e) # {} /\ \A s \in WithKey(b, e) : s \in b.pending["copy"] /\ s.key = e.key
  BY <1>3, <1>5 DEF WithKey
<1>8. /\ BookFine(a) /\ a.stamps = b.stamps \cup {e}
      /\ \E s \in WithKey(b, e) : a.pending = [b.pending EXCEPT ![e.of] = @ \ {s}]
  BY <1>3, <1>4, <1>6, <1>7, EndNoted
<1>9. PICK s \in b.pending["copy"] : s.key = e.key /\ a.pending = [b.pending EXCEPT !["copy"] = @ \ {s}]
  BY <1>3, <1>7, <1>8
<1>10. /\ a.pending["copy"] = b.pending["copy"] \ {s}
       /\ \A k \in Kinds \ {"copy"} : a.pending[k] = b.pending[k]
  <2>1. DOMAIN b.pending = Kinds
    BY <1>4 DEF BookFine
  <2> QED
    BY <1>3, <1>9, <2>1
<1>11. Covers(book'.pending["copy"], Open("copy")')
  BY <1>2, <1>4, <1>5, <1>9, <1>10
<1>12. ASSUME NEW u \in book'.stamps, u.of = "copy" /\ u.by = c PROVE Earlier(u)'
  <2>1. u.attempt \in 1 .. attempts[c]
    <3>1. CASE u \in book.stamps
      BY <1>12, <3>1 DEF BookInv, Earlier
    <3>2. CASE u = e
      BY <1>1, <1>3, <3>2
    <3> QED
      BY <1>2, <1>8, <3>1, <3>2
  <2> QED
    BY <1>12, <2>1 DEF Earlier
<1>13. \A u \in book'.stamps : u \in book.stamps \/ (u.of = "copy" /\ u.by = c)
  BY <1>2, <1>3, <1>8
<1>14. BookFine(book') /\ \A k \in Kinds \ {"copy"} : book'.pending[k] = book.pending[k]
  BY <1>2, <1>8, <1>10
<1> QED
  BY <1>11, <1>12, <1>13, <1>14, CopierKeeps

LEMMA KeptWhenCopyFails ==
    ASSUME BookInv, NEW c \in Copiers, CopyFails(c), ExecutionInv', Numbers'
    PROVE  BookInv'
<1>1. copier \in [Copiers -> BOOLEAN]
  BY DEF BookInv, Numbers
<1>2. OnlyCopier(c) /\ ~copier'[c] /\ copier[c] /\ attempts' = attempts /\ book' = book
  BY <1>1 DEF CopyFails, OnlyCopier
<1>3. Open("copy")' \subseteq Open("copy")
  BY <1>2, CopiesSplit
<1>4. Covers(book'.pending["copy"], Open("copy")')
  <2>1. Covers(book.pending["copy"], Open("copy"))
    BY DEF BookInv
  <2>2. PICK V : V = Open("copy")'
    OBVIOUS
  <2>3. Covers(book.pending["copy"], V)
    BY <1>3, <2>1, <2>2, CoversFewer
  <2> QED
    BY <1>2, <2>2, <2>3
<1>5. ASSUME NEW u \in book'.stamps, u.of = "copy" /\ u.by = c PROVE Earlier(u)'
  BY <1>2, <1>5 DEF BookInv, Earlier
<1>6. BookFine(book') /\ \A u \in book'.stamps : u \in book.stamps
  BY <1>2 DEF BookInv
<1> QED
  BY <1>2, <1>4, <1>5, <1>6, CopierKeeps

-------------------------------------------------------------------------------
(* Every step *)

LEMMA FileStampIs ==
    ASSUME NEW type, NEW t
    PROVE  /\ ReadStamp(type, t) = FileStamp("read", type, t)
           /\ WriteStamp(type, t) = FileStamp("write", type, t)
           /\ PhaseOf("read") = "reading" /\ PhaseOf("write") = "writing"
           /\ "read" \in FileKinds /\ "write" \in FileKinds
BY DEF ReadStamp, WriteStamp, FileStamp, PhaseOf, FileKinds

LEMMA KeptByReads ==
    ASSUME BookInv, ExecutionInv', Numbers', NEW t \in Tasks, Reads(t)
    PROVE  BookInv'
<1> DEFINE ex == executor[t]
<1>1. PICK b \in Ended(book, FileStamp("read", "completion", t)) :
        IF Tail(ex.left) # <<>>
        THEN OnTo(t, "reading", "read", Tail(ex.left), b) /\ history' = history
        ELSE /\ history' = SetDates(t, {"readEnd", "computeStart"})
             /\ executor' = [executor EXCEPT ![t].at = "spawning", ![t].left = <<>>]
             /\ book' = b
  BY FileStampIs DEF Reads
<1>2. ex.at = "reading" /\ attempts' = attempts /\ copier' = copier
  BY DEF Reads
<1>3. CASE Tail(ex.left) # <<>>
  <2>1. \A u \in Tasks : u # t => executor'[u] = executor[u] /\ history'[u] = history[u]
    BY <1>1, <1>3 DEF OnTo, BookInv, ExecutionInv, Shape
  <2>2. OnlyOf(t)
    BY <1>2, <2>1 DEF OnlyOf
  <2> QED
    BY <1>1, <1>2, <1>3, <2>2, FileStampIs, KeptOntoNext
<1>4. CASE Tail(ex.left) = <<>>
  <2>1. /\ executor'[t] = [ex EXCEPT !.at = "spawning", !.left = <<>>] /\ IsExecutor(ex)
        /\ \A u \in Tasks : u # t => executor'[u] = executor[u]
    BY <1>1, <1>4 DEF BookInv, ExecutionInv, Shape
  <2>2. /\ executor'[t].at = "spawning" /\ executor'[t].location = ex.location
        /\ executor'[t].started = ex.started /\ executor'[t].failed = ex.failed
        /\ executor'[t].completed = ex.completed
    BY <2>1 DEF IsExecutor
  <2>3. ExecutorFine(t, ex)
    BY DEF BookInv
  <2>4. ExecutorFine(t, executor'[t])
    BY <1>2, <2>2, <2>3 DEF ExecutorFine, AtFile
  <2>5. OnlyOf(t) /\ Len(history'[t]) = Len(history[t])
    BY <1>1, <1>2, <1>4, <2>1, DatesLeaveLength DEF OnlyOf
  <2>6. book' \in Ended(book, FileStamp("read", "completion", t))
    BY <1>1, <1>4
  <2> QED
    BY <1>2, <2>2, <2>4, <2>5, <2>6, FileStampIs, KeptAfterLast
<1> QED
  BY <1>3, <1>4

\* What is known when a task has completed.
LEMMA ExecutorCompletes ==
    ASSUME BookInv, NEW t \in Tasks, NEW dates, Completes(t, dates),
           executor[t].at \in AtFile, attempts' = attempts, copier' = copier
    PROVE  /\ OnlyOf(t) /\ Len(history'[t]) = Len(history[t]) /\ ExecutorFine(t, executor'[t])
           /\ executor'[t].at = "sending" /\ executor'[t].started = executor[t].started
           /\ executor'[t].failed = executor[t].failed
<1> DEFINE ex == executor[t]
<1>1. /\ executor'[t] = [ex EXCEPT !.at = "sending", !.completed = TRUE, !.left = <<>>]
      /\ IsExecutor(ex) /\ \A u \in Tasks : u # t => executor'[u] = executor[u]
  BY DEF Completes, BookInv, ExecutionInv, Shape
<1>2. /\ executor'[t].at = "sending" /\ executor'[t].started = ex.started
      /\ executor'[t].failed = ex.failed /\ executor'[t].completed
  BY <1>1 DEF IsExecutor
<1>3. ex.started /\ ~ex.failed
  BY DEF BookInv, ExecutorFine
<1>4. ExecutorFine(t, executor'[t])
  BY <1>2, <1>3 DEF ExecutorFine, AtFile
<1>5. OnlyOf(t) /\ Len(history'[t]) = Len(history[t])
  BY <1>1, DatesLeaveLength DEF OnlyOf, Completes
<1> QED
  BY <1>2, <1>4, <1>5

LEMMA KeptByComputes ==
    ASSUME BookInv, ExecutionInv', Numbers', NEW t \in Tasks, Computes(t)
    PROVE  BookInv'
<1>1. executor[t].at = "computing" /\ attempts' = attempts /\ copier' = copier
  BY DEF Computes
<1>2. CASE Outputs[t] = <<>>
  <2>1. Completes(t, {"computeEnd", "writeStart"}) /\ book' = book
    BY <1>2 DEF Computes
  <2>2. /\ OnlyOf(t) /\ Len(history'[t]) = Len(history[t]) /\ ExecutorFine(t, executor'[t])
        /\ executor'[t].at = "sending" /\ executor'[t].started = executor[t].started
        /\ executor'[t].failed = executor[t].failed
    BY <1>1, <2>1, ExecutorCompletes DEF AtFile
  <2> QED
    BY <1>1, <2>1, <2>2, KeptQuietly
<1>3. CASE Outputs[t] # <<>>
  <2>1. /\ OnTo(t, "writing", "write", Outputs[t], book)
        /\ history' = SetDates(t, {"computeEnd", "writeStart"})
    BY <1>3 DEF Computes
  <2>2. \A u \in Tasks : u # t => executor'[u] = executor[u]
    BY <2>1 DEF OnTo, BookInv, ExecutionInv, Shape
  <2>3. OnlyOf(t) /\ Len(history'[t]) = Len(history[t])
    BY <1>1, <2>1, <2>2, DatesLeaveLength DEF OnlyOf
  <2> QED
    BY <1>1, <1>3, <2>1, <2>3, KeptOntoWriting
<1> QED
  BY <1>2, <1>3

LEMMA KeptByWrites ==
    ASSUME BookInv, ExecutionInv', Numbers', NEW t \in Tasks, Writes(t)
    PROVE  BookInv'
<1> DEFINE ex == executor[t]
<1>1. PICK b \in Ended(book, FileStamp("write", "completion", t)) :
        IF Tail(ex.left) # <<>>
        THEN OnTo(t, "writing", "write", Tail(ex.left), b) /\ history' = history
        ELSE Completes(t, {}) /\ book' = b
  BY FileStampIs DEF Writes
<1>2. ex.at = "writing" /\ attempts' = attempts /\ copier' = copier
  BY DEF Writes
<1>3. CASE Tail(ex.left) # <<>>
  <2>1. \A u \in Tasks : u # t => executor'[u] = executor[u] /\ history'[u] = history[u]
    BY <1>1, <1>3 DEF OnTo, BookInv, ExecutionInv, Shape
  <2>2. OnlyOf(t)
    BY <1>2, <2>1 DEF OnlyOf
  <2> QED
    BY <1>1, <1>2, <1>3, <2>2, FileStampIs, KeptOntoNext
<1>4. CASE Tail(ex.left) = <<>>
  <2>1. Completes(t, {}) /\ book' \in Ended(book, FileStamp("write", "completion", t))
    BY <1>1, <1>4
  <2>2. /\ OnlyOf(t) /\ Len(history'[t]) = Len(history[t]) /\ ExecutorFine(t, executor'[t])
        /\ executor'[t].at = "sending" /\ executor'[t].started = executor[t].started
        /\ executor'[t].failed = executor[t].failed
    BY <1>2, <2>1, ExecutorCompletes DEF AtFile
  <2> QED
    BY <1>2, <2>1, <2>2, FileStampIs, KeptAfterLast
<1> QED
  BY <1>3, <1>4

LEMMA KeptByFails ==
    ASSUME BookInv, ExecutionInv', Numbers', NEW t \in Tasks, NEW k \in FileKinds,
           executor[t].at = PhaseOf(k), Fails(t, FileStamp(k, "failure", t))
    PROVE  BookInv'
<1> DEFINE ex == executor[t]
<1>1. PICK b \in Ended(book, FileStamp(k, "failure", t)) : book' \in Ended(b, TaskStamp("failure", t))
  BY DEF Fails
<1>2. /\ executor'[t] = [ex EXCEPT !.at = "sending", !.failed = TRUE]
      /\ IsExecutor(ex) /\ \A u \in Tasks : u # t => executor'[u] = executor[u]
  BY DEF Fails, BookInv, ExecutionInv, Shape
<1>3. /\ executor'[t].at = "sending" /\ executor'[t].failed
      /\ executor'[t].completed = ex.completed
  BY <1>2 DEF IsExecutor
<1>4. ~ex.completed
  BY DEF BookInv, ExecutorFine, PhaseOf, AtFile
<1>5. ExecutorFine(t, executor'[t])
  BY <1>3, <1>4 DEF ExecutorFine, AtFile
<1>6. OnlyOf(t) /\ Len(history'[t]) = Len(history[t])
  BY <1>2, DatesLeaveLength DEF OnlyOf, Fails
<1> QED
  BY <1>1, <1>3, <1>5, <1>6, KeptWhenFailing

\* Steps to Off.
LEMMA KeptByEnds ==
    ASSUME BookInv, ExecutionInv', Numbers', NEW t \in Tasks,
           Returns(t) \/ \E f, c \in BOOLEAN : IsKilled(t, f, c)
    PROVE  BookInv'
<1> DEFINE ex == executor[t]
<1>1. /\ executor'[t] = Off /\ ex.at # "off" /\ attempts' = attempts /\ copier' = copier
      /\ \A u \in Tasks : u # t => executor'[u] = executor[u]
  BY DEF Returns, IsKilled, BookInv, ExecutionInv, Shape
<1>2. ExecutorFine(t, ex) /\ IsExecutor(ex)
  BY DEF BookInv, ExecutionInv, Shape
<1>3. \/ history' = history /\ book' = book /\ ~(ex.started /\ ~ex.failed)
      \/ /\ ex.started /\ ~ex.failed
         /\ history' = history \/ \E dates : history' = SetDates(t, dates)
         /\ \E type \in Ends : book' \in Ended(book, TaskStamp(type, t))
  <2>1. CASE Returns(t)
    BY <1>2, <2>1 DEF Returns, ExecutorFine, Ends
  <2>2. CASE \E f, c \in BOOLEAN : IsKilled(t, f, c)
    <3>1. PICK f \in BOOLEAN, c \in BOOLEAN : IsKilled(t, f, c)
      BY <2>2
    <3>2. CASE ~MustNote(t)
      BY <3>1, <3>2 DEF IsKilled, MustNote
    <3>3. CASE MustNote(t)
      <4>1. PICK type \in Ends : book' \in Ended(book, TaskStamp(type, t))
        BY <3>1, <3>3 DEF IsKilled, Ends
      <4> QED
        BY <3>1, <3>3, <4>1 DEF IsKilled, MustNote
    <3> QED
      BY <3>2, <3>3
  <2> QED
    BY <2>1, <2>2
<1>4. OnlyOf(t) /\ Len(history'[t]) = Len(history[t])
  BY <1>1, <1>3, DatesLeaveLength DEF OnlyOf
<1>5. /\ executor'[t].at = "off" /\ ~executor'[t].started /\ ~executor'[t].failed
      /\ ~executor'[t].completed
  BY <1>1 DEF Off
<1>6. ExecutorFine(t, executor'[t])
  BY <1>5 DEF ExecutorFine, AtFile
<1>7. CASE ex.started /\ ~ex.failed
  <2>1. PICK type \in Ends : book' \in Ended(book, TaskStamp(type, t))
    BY <1>3, <1>7
  <2> QED
    BY <1>1, <1>4, <1>7, <2>1, KeptWhenOver
<1>8. CASE ~(ex.started /\ ~ex.failed)
  <2>1. book' = book
    BY <1>3, <1>8
  <2>2. ex.at \notin {"reading", "writing"}
    BY <1>2, <1>8 DEF ExecutorFine, AtFile
  <2> QED
    BY <1>4, <1>5, <1>6, <1>8, <2>1, <2>2, KeptQuietly
<1> QED
  BY <1>7, <1>8

\* Steps that change what the executor does, and nothing else of it.
LEMMA KeptByOthers ==
    ASSUME BookInv, ExecutionInv', Numbers', NEW t \in Tasks,
           Start(t) \/ CannotBegin(t) \/ Spawned(t)
    PROVE  BookInv'
<1> DEFINE ex == executor[t]
<1>1. ExecutorFine(t, ex) /\ IsExecutor(ex) /\ DOMAIN executor = Tasks
  BY DEF BookInv, ExecutionInv, Shape
<1>2. history' = history /\ book' = book /\ copier' = copier
  BY DEF Start, CannotBegin, Spawned
<1>3. \A c \in Copiers : attempts'[c] = attempts[c]
  <2>1. attempts' = attempts \/ attempts' = [attempts EXCEPT ![t] = @ + 1]
    BY DEF Start, CannotBegin, Spawned
  <2>2. t \notin Copiers /\ attempts \in [Tasks \cup Copiers -> 0 .. MaxRetries + 1]
    <3>1. Tasks \cap Copiers = {}
      BY ExecutionAssumption
    <3> QED
      BY <3>1 DEF BookInv, Numbers
  <2> QED
    BY <2>1, <2>2
<1>4. \A u \in Tasks : u # t => executor'[u] = executor[u]
  BY <1>1 DEF Start, CannotBegin, Spawned
<1>5. OnlyOf(t)
  BY <1>2, <1>3, <1>4 DEF OnlyOf
<1>6. CASE Start(t)
  <2>1. executor'[t] = [Off EXCEPT !.at = "starting"] /\ ex.at = "off"
    BY <1>1, <1>6 DEF Start
  <2>2. /\ executor'[t].at = "starting" /\ ~executor'[t].started /\ ~executor'[t].failed
        /\ ~executor'[t].completed
    BY <2>1 DEF Off
  <2>3. ExecutorFine(t, executor'[t]) /\ ~ex.started
    BY <1>1, <2>1, <2>2 DEF ExecutorFine, AtFile
  <2> QED
    BY <1>2, <1>5, <2>1, <2>2, <2>3, KeptQuietly
<1>7. CASE CannotBegin(t)
  <2>1. executor'[t] = [ex EXCEPT !.at = "sending"] /\ ex.at = "starting"
    BY <1>1, <1>7 DEF CannotBegin
  <2>2. /\ executor'[t].at = "sending" /\ executor'[t].started = ex.started
        /\ executor'[t].failed = ex.failed /\ executor'[t].completed = ex.completed
    BY <1>1, <2>1 DEF IsExecutor
  <2>3. ExecutorFine(t, executor'[t])
    BY <1>1, <2>1, <2>2 DEF ExecutorFine, AtFile
  <2> QED
    BY <1>2, <1>5, <2>1, <2>2, <2>3, KeptQuietly
<1>8. CASE Spawned(t)
  <2>1. executor'[t] = [ex EXCEPT !.at = "computing"] /\ ex.at = "spawning"
    BY <1>1, <1>8 DEF Spawned
  <2>2. /\ executor'[t].at = "computing" /\ executor'[t].started = ex.started
        /\ executor'[t].failed = ex.failed /\ executor'[t].completed = ex.completed
        /\ executor'[t].location = ex.location
    BY <1>1, <2>1 DEF IsExecutor
  <2>3. ExecutorFine(t, executor'[t])
    BY <1>1, <2>1, <2>2 DEF ExecutorFine, AtFile
  <2> QED
    BY <1>2, <1>5, <2>1, <2>2, <2>3, KeptQuietly
<1> QED
  BY <1>6, <1>7, <1>8

LEMMA KeptByCopies ==
    ASSUME BookInv, ExecutionInv', Numbers', NEW c \in Copiers, CopyStep(c)
    PROVE  BookInv'
<1>1. CASE CopyStarts(c)
  BY <1>1, KeptWhenCopyStarts
<1>2. CASE CopyFails(c)
  BY <1>2, KeptWhenCopyFails
<1>3. ASSUME NEW type \in {"completion", "failure"}, book' \in Ended(book, CopyStamp(type, c)),
             copier[c], copier' = [copier EXCEPT ![c] = FALSE],
             executor' = executor, history' = history, attempts' = attempts
      PROVE  BookInv'
  <2>1. OnlyCopier(c) /\ ~copier'[c]
    BY <1>3 DEF OnlyCopier, BookInv, Numbers
  <2> QED
    BY <1>3, <2>1, KeptWhenCopyEnds
<1>4. CASE CopyIsRefused(c)
  BY <1>3, <1>4 DEF CopyIsRefused
<1>5. CASE CopyEnds(c)
  BY <1>3, <1>5 DEF CopyEnds
<1> QED
  BY <1>1, <1>2, <1>4, <1>5 DEF CopyStep

LEMMA BookAfterwards == BookInv /\ [Next]_vars => BookInv'
<1> SUFFICES ASSUME BookInv, [Next]_vars PROVE BookInv'
  OBVIOUS
<1>1. ExecutionInv'
  BY SoundAfterwards DEF BookInv
<1>2. CASE UNCHANGED vars
  <2>1. /\ executor' = executor /\ history' = history /\ book' = book /\ attempts' = attempts
        /\ copier' = copier /\ internal' = internal /\ stored' = stored
    BY <1>2 DEF vars
  <2>2. Numbers' /\ TasksPending' /\ \A s \in book'.stamps : Earlier(s)'
    BY <2>1 DEF BookInv, Numbers, TasksPending, TaskStamp, Execution, Earlier
  <2>3. \A k : Open(k)' = Open(k)
    BY <2>1 DEF Open, CopyStamp, FileStamp, Busy, Execution, Place
  <2> QED
    BY <1>1, <2>1, <2>2, <2>3 DEF BookInv
<1>3. CASE Next
  <2>1. Numbers'
    BY <1>3, NumbersAfterwards
  <2>2. ASSUME NEW t \in Tasks, Start(t) \/ ExecutorStep(t) PROVE BookInv'
    <3>1. CASE Start(t) \/ CannotBegin(t) \/ Spawned(t)
      BY <1>1, <2>1, <3>1, KeptByOthers
    <3>2. CASE Begin(t)
      BY <1>1, <2>1, <3>2, KeptWhenBegun
    <3>3. CASE Reads(t)
      BY <1>1, <2>1, <3>3, KeptByReads
    <3>4. CASE CannotRead(t)
      BY <1>1, <2>1, <3>4, FileStampIs, KeptByFails DEF CannotRead
    <3>5. CASE Computes(t)
      BY <1>1, <2>1, <3>5, KeptByComputes
    <3>6. CASE Writes(t)
      BY <1>1, <2>1, <3>6, KeptByWrites
    <3>7. CASE CannotWrite(t)
      BY <1>1, <2>1, <3>7, FileStampIs, KeptByFails DEF CannotWrite
    <3>8. CASE Returns(t)
      BY <1>1, <2>1, <3>8, KeptByEnds
    <3> QED
      BY <2>2, <3>1, <3>2, <3>3, <3>4, <3>5, <3>6, <3>7, <3>8 DEF ExecutorStep
  <2>3. ASSUME NEW t \in Tasks, \E f, c \in BOOLEAN : IsKilled(t, f, c) PROVE BookInv'
    BY <1>1, <2>1, <2>3, KeptByEnds
  <2>4. ASSUME NEW c \in Copiers, CopyStep(c) PROVE BookInv'
    BY <1>1, <2>1, <2>4, KeptByCopies
  <2> QED
    BY <1>3, <2>2, <2>3, <2>4 DEF Next
<1> QED
  BY <1>2, <1>3

-------------------------------------------------------------------------------
(* Stamps are paired *)

LEMMA BookAtFirst == Init => BookInv
<1> SUFFICES ASSUME Init PROVE BookInv
  OBVIOUS
<1>1. ExecutionInv
  BY SoundAtFirst
<1>2. /\ DOMAIN book = {"stamps", "pairs", "pending", "lost"} /\ book.stamps = {} /\ book.pairs = {}
      /\ book.lost = FALSE /\ DOMAIN book.pending = Kinds /\ \A k \in Kinds : book.pending[k] = {}
  BY DEF Init, EmptyBook
<1>3. BookFine(book)
  BY <1>2 DEF BookFine, IsBook
<1>4. \A t \in Tasks : /\ executor[t].at = "off" /\ ~executor[t].started /\ ~executor[t].failed
                       /\ ~executor[t].completed
  BY DEF Init, Off
<1>5. \A t \in Tasks : ExecutorFine(t, executor[t])
  BY <1>4 DEF ExecutorFine, AtFile
<1>6. Numbers
  <2>1. MaxRetries \in Nat /\ Staged \subseteq Files \X Locations
    BY ExecutionAssumption
  <2> QED
    BY <2>1 DEF Init, Numbers
<1>7. TasksPending
  BY <1>2, <1>4 DEF TasksPending, Kinds
<1>8. ASSUME NEW k \in FileKinds \cup {"copy"} PROVE Covers(book.pending[k], Open(k))
  <2>1. book.pending[k] = {}
    BY <1>2 DEF FileKinds, Kinds
  <2>2. Open(k) = {}
    BY <1>4 DEF Open, Busy, PhaseOf, Init
  <2>3. \A key : Keyed({}, key) = {}
    BY DEF Keyed
  <2>4. IsFiniteSet({}) /\ Cardinality({}) = 0
    BY FS_EmptySet
  <2> QED
    BY <2>1, <2>2, <2>3, <2>4 DEF Covers
<1> QED
  BY <1>1, <1>2, <1>3, <1>5, <1>6, <1>7, <1>8 DEF BookInv

LEMMA BookIsPaired == BookInv => StampsArePaired
<1> SUFFICES ASSUME BookInv PROVE StampsArePaired
  OBVIOUS
<1>1. TypeOK
  <2>1. ToSet(Dates) \cup {"failed", "terminated"} = D7 \cup Outcomes
    <3>1. Dates \in Seq(D7) /\ D7 \subseteq ToSet(Dates)
      <4>1. Len(Dates) = 7 /\ DOMAIN Dates = 1 .. 7
        BY DEF Dates
      <4>2. /\ Dates[1] = "readStart" /\ Dates[2] = "readEnd" /\ Dates[3] = "computeStart"
            /\ Dates[4] = "computeEnd" /\ Dates[5] = "writeStart" /\ Dates[6] = "writeEnd"
            /\ Dates[7] = "end"
        BY DEF Dates
      <4>3. \A i \in 1 .. 7 : Dates[i] \in ToSet(Dates)
        BY <4>1 DEF ToSet
      <4>4. D7 \subseteq ToSet(Dates)
        BY <4>2, <4>3 DEF D7, D5, D3, D1
      <4>5. Dates \in Seq(D7)
        BY DEF Dates, D7, D5, D3, D1
      <4> QED
        BY <4>4, <4>5
    <3>2. ToSet(Dates) \subseteq D7
      BY <3>1 DEF ToSet
    <3> QED
      BY <3>1, <3>2 DEF Outcomes
  <2>2. ASSUME NEW t \in Tasks, NEW i \in DOMAIN history[t]
        PROVE  history[t][i] \subseteq D7 \cup Outcomes
    <3>1. history[t] \in Seq(Noted)
      BY DEF BookInv, ExecutionInv, Shape
    <3> QED
      BY <3>1 DEF Noted
  <2>3. internal \in [Tasks -> {"TASK_READY", "TASK_RUNNING", "TASK_COMPLETED", "TASK_FAILED"}]
    BY DEF BookInv, Numbers
  <2>4. \A t \in Tasks : executor[t].at \in Phases
    BY DEF BookInv, ExecutionInv, Shape, IsExecutor
  <2>5. \A s \in book.stamps : IsStamp(s)
    BY DEF BookInv, BookFine
  <2> QED
    BY <2>1, <2>2, <2>3, <2>4, <2>5 DEF TypeOK, BookInv, Numbers
<1>2. ~book.lost
  BY DEF BookInv, BookFine
<1>3. ASSUME NEW e \in book.stamps, e.type # "start"
      PROVE  \E s \in book.stamps :
               /\ {p \in book.pairs : p[1] = s \/ p[2] = e} = {<<s, e>>}
               /\ s.type = "start" /\ s.of = e.of /\ s.key = e.key
               /\ e.of = "task" => Own(s, e)
  <2>1. PICK p \in book.pairs : p[2] = e
    BY <1>3 DEF BookInv, BookFine
  <2>2. PICK s, f \in book.stamps :
          /\ p = <<s, f>> /\ s.type = "start" /\ f.type # "start"
          /\ s.of = f.of /\ s.key = f.key /\ (f.of = "task" => Own(s, f))
    BY DEF BookInv, BookFine
  <2>3. f = e /\ p[1] = s
    BY <2>1, <2>2
  <2>4. \A r, q \in book.pairs : r[1] = q[1] \/ r[2] = q[2] => r = q
    BY DEF BookInv, BookFine
  <2>5. {q \in book.pairs : q[1] = s \/ q[2] = e} = {p}
    BY <2>1, <2>3, <2>4
  <2> QED
    BY <2>2, <2>3, <2>5
<1>4. ASSUME NEW of \in Kinds \ {"task"}, NEW u
      PROVE  Cardinality({p \in book.pending[of] : p.key = u.key})
               >= Cardinality({v \in Open(of) : v.key = u.key})
  <2>1. of \in FileKinds \cup {"copy"}
    BY DEF Kinds, FileKinds
  <2>2. Covers(book.pending[of], Open(of))
    BY <2>1 DEF BookInv
  <2>3. Cardinality(Keyed(book.pending[of], u.key)) >= Cardinality(Keyed(Open(of), u.key))
    BY <2>2 DEF Covers
  <2> QED
    BY <2>3 DEF Keyed
<1>5. /\ {CopyStamp("start", c) : c \in {d \in Copiers : copier[d]}} = Open("copy")
      /\ {ReadStamp("start", t) : t \in {u \in Tasks : executor[u].at = "reading"}} = Open("read")
      /\ {WriteStamp("start", t) : t \in {u \in Tasks : executor[u].at = "writing"}} = Open("write")
  BY FileStampIs DEF Open, Busy
<1>6. ASSUME NEW of \in Kinds \ {"task"}
      PROVE  Open(of) = IF of = "copy" THEN {CopyStamp("start", c) : c \in {d \in Copiers : copier[d]}}
                        ELSE IF of = "read"
                        THEN {ReadStamp("start", t) : t \in {u \in Tasks : executor[u].at = "reading"}}
                        ELSE {WriteStamp("start", t) : t \in {u \in Tasks : executor[u].at = "writing"}}
  BY <1>5 DEF Kinds
<1> QED
  BY <1>1, <1>2, <1>3, <1>4, <1>6 DEF StampsArePaired

LEMMA BookHolds == Spec => []BookInv
<1>1. BookInv /\ [Next]_vars => BookInv'
  BY BookAfterwards
<1> QED
  BY BookAtFirst, <1>1, PTL DEF Spec

\* A timestamp that says how something ended is the endpoint of one start, of the same thing,
\* and what is under way has a start that waits: setEndpoints() always finds one and no two
\* ends share one, whatever executors are killed or fail, and however many copies, reads and
\* writes of the same file at the same place are under way at once.
THEOREM StampsStayPaired == Spec => []StampsArePaired
  BY BookHolds, BookIsPaired, PTL

\* Every execution of a task ends one way, in its history, in one timestamp and in the state
\* of the task, however its executor ends: cleanup() notes what main() has not, and nothing it
\* has.
THEOREM OutcomesAreOne == Spec => []OneOutcome
<1>1. BookInv => OneOutcome
  BY SoundHasOne DEF BookInv, BookFine
<1> QED
  BY <1>1, BookHolds, PTL

===============================================================================
