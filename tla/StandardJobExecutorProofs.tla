--------------------- MODULE StandardJobExecutorProofs ---------------------
(* Proofs about StandardJobExecutor.tla, for every job, hosts and allocation, however often
   hosts are turned off and on, whatever fails, and whenever the executor is killed. *)
EXTENDS StandardJobExecutor, FiniteSetTheorems, SequenceTheorems, TLAPS

\* The step of a dispatch, in the form that the lemmas about folds are for.
DispatchTo(p, d, w) == DispatchOne(w, d)
Dispatching == INSTANCE FoldProofs WITH op <- DispatchTo

-------------------------------------------------------------------------------
(* Orders *)

\* Of a family of subsets of a finite set, one is minimal.
LEMMA OneIsMinimal ==
    ASSUME NEW S, IsFiniteSet(S), NEW T \in SUBSET SUBSET S, T # {}
    PROVE  \E U \in T : \A V \in SUBSET U : V # U => V \notin T
<1>1. Dispatching!IsFiniteSet(S)
  BY DEF IsFiniteSet, Dispatching!IsFiniteSet
<1> QED
  BY <1>1, Dispatching!MinimalSubset

\* Of the elements of a finite set, one comes before no other. R is the set of pairs of
\* which the first comes before the second.
LEMMA OneIsLast ==
    ASSUME NEW S, IsFiniteSet(S), S # {}, NEW R,
           \A x \in S : <<x, x>> \notin R,
           \A x, y, z \in S : <<x, y>> \in R /\ <<y, z>> \in R => <<x, z>> \in R
    PROVE  \E x \in S : \A y \in S : <<x, y>> \notin R
<1> DEFINE HasLast(U) == \E x \in U : \A y \in U : <<x, y>> \notin R
           T == {U \in SUBSET S : U # {} /\ ~HasLast(U)}
<1>1. SUFFICES ASSUME T # {} PROVE FALSE
  <2>1. S \in SUBSET S
    OBVIOUS
  <2> QED
    BY <1>1, <2>1
<1>2. PICK U \in T : \A V \in SUBSET U : V # U => V \notin T
  <2>1. T \in SUBSET SUBSET S
    OBVIOUS
  <2> HIDE DEF T
  <2> QED
    BY <1>1, <2>1, OneIsMinimal
<1>3. U \in SUBSET S /\ U # {} /\ ~HasLast(U)
  OBVIOUS
<1>4. PICK x \in U : TRUE
  BY <1>3
<1> DEFINE V == {y \in U : <<x, y>> \in R}
<1>5. V \in SUBSET U /\ V # U /\ V \in SUBSET S
  BY <1>3, <1>4
<1>6. V # {}
  BY <1>3, <1>4
<1>7. PICK z \in V : \A y \in V : <<z, y>> \notin R
  <2>1. V \notin T
    BY <1>2, <1>5
  <2> HIDE DEF V
  <2> QED
    BY <1>5, <1>6, <2>1
<1>8. ASSUME NEW y \in U, <<z, y>> \in R PROVE FALSE
  <2>1. x \in S /\ z \in S /\ y \in S /\ <<x, z>> \in R
    BY <1>3, <1>4, <1>5, <1>7
  <2>2. <<x, y>> \in R
    BY <1>8, <2>1
  <2>3. y \in V
    BY <2>2
  <2> HIDE DEF V
  <2> QED
    BY <1>7, <1>8, <2>3
<1> QED
  BY <1>3, <1>5, <1>7, <1>8

\* The elements of a finite set can be listed in such an order.
LEMMA SortedExists ==
    ASSUME NEW S, IsFiniteSet(S), NEW R,
           \A x \in S : <<x, x>> \notin R,
           \A x, y, z \in S : <<x, y>> \in R /\ <<y, z>> \in R => <<x, z>> \in R
    PROVE  \E q \in [1 .. Cardinality(S) -> S] :
              /\ \A i, j \in 1 .. Cardinality(S) : i # j => q[i] # q[j]
              /\ \A i, j \in 1 .. Cardinality(S) : i < j => <<q[j], q[i]>> \notin R
<1> DEFINE Lists(q, U) == /\ q \in [1 .. Cardinality(U) -> U]
                          /\ \A i, j \in 1 .. Cardinality(U) : i # j => q[i] # q[j]
                          /\ \A i, j \in 1 .. Cardinality(U) : i < j => <<q[j], q[i]>> \notin R
           T == {U \in SUBSET S : ~ \E q : Lists(q, U)}
<1>1. SUFFICES ASSUME T # {} PROVE FALSE
  <2>1. S \in SUBSET S
    OBVIOUS
  <2>2. \E q : Lists(q, S)
    BY <1>1, <2>1
  <2> QED
    BY <2>2
<1>2. PICK U \in T : \A V \in SUBSET U : V # U => V \notin T
  <2>1. T \in SUBSET SUBSET S
    OBVIOUS
  <2> HIDE DEF T
  <2> QED
    BY <1>1, <2>1, OneIsMinimal
<1>3. U \in SUBSET S /\ ~(\E q : Lists(q, U)) /\ IsFiniteSet(U)
  BY FS_Subset
<1>4. U # {}
  <2>1. ASSUME U = {} PROVE FALSE
    <3>1. Cardinality(U) = 0
      BY <2>1, FS_EmptySet
    <3>2. [i \in 1 .. 0 |-> i] \in [1 .. 0 -> U] /\ 1 .. 0 = {}
      OBVIOUS
    <3>3. Lists([i \in 1 .. 0 |-> i], U)
      BY <3>1, <3>2
    <3> HIDE DEF Lists
    <3> QED
      BY <1>3, <3>3
  <2> QED
    BY <2>1
<1>5. PICK m \in U : \A y \in U : <<m, y>> \notin R
  <2>1. \A x \in U : <<x, x>> \notin R
    BY <1>3
  <2>2. \A x, y, z \in U : <<x, y>> \in R /\ <<y, z>> \in R => <<x, z>> \in R
    BY <1>3
  <2> HIDE DEF T
  <2> QED
    BY <1>3, <1>4, <2>1, <2>2, OneIsLast
<1> DEFINE V == U \ {m}
           n == Cardinality(V)
<1>6. n \in Nat /\ Cardinality(U) = n + 1
  <2>1. IsFiniteSet(V) /\ Cardinality(V) = Cardinality(U) - 1
    BY <1>3, <1>5, FS_RemoveElement
  <2>2. Cardinality(V) \in Nat /\ Cardinality(U) \in Nat
    BY <1>3, <2>1, FS_CardinalityType
  <2> QED
    BY <2>1, <2>2
<1>7. PICK q : Lists(q, V)
  <2>1. V \in SUBSET U /\ V # U
    BY <1>5
  <2>2. V \notin T
    BY <1>2, <2>1
  <2> QED
    BY <1>3, <2>1, <2>2
<1>8. /\ q \in [1 .. n -> V]
      /\ \A i, j \in 1 .. n : i # j => q[i] # q[j]
      /\ \A i, j \in 1 .. n : i < j => <<q[j], q[i]>> \notin R
  BY <1>7
<1> DEFINE p == [i \in 1 .. n + 1 |-> IF i = n + 1 THEN m ELSE q[i]]
<1> HIDE DEF n, T, Lists
<1>9. \A i \in 1 .. n : i \in 1 .. n + 1 /\ p[i] = q[i] /\ q[i] \in V /\ q[i] \in U /\ q[i] # m
  <2>1. \A i \in 1 .. n : i \in 1 .. n + 1 /\ i # n + 1
    BY <1>6
  <2> QED
    BY <1>8, <2>1
<1>10. p[n + 1] = m /\ \A i \in 1 .. n + 1 : i = n + 1 \/ i \in 1 .. n
  BY <1>6
<1>11. p \in [1 .. n + 1 -> U]
  BY <1>5, <1>9, <1>10
<1> HIDE DEF p, V
<1>12. \A i, j \in 1 .. n + 1 : i # j => p[i] # p[j]
  BY <1>8, <1>9, <1>10
<1>13. ASSUME NEW i \in 1 .. n + 1, NEW j \in 1 .. n + 1, i < j PROVE <<p[j], p[i]>> \notin R
  <2>1. i \in 1 .. n
    BY <1>6, <1>13
  <2>2. CASE j = n + 1
    BY <1>5, <1>9, <1>10, <2>1, <2>2
  <2>3. CASE j \in 1 .. n
    BY <1>8, <1>9, <1>13, <2>1, <2>3
  <2> QED
    BY <1>10, <2>2, <2>3
<1>14. Lists(p, U)
  BY <1>6, <1>11, <1>12, <1>13 DEF Lists
<1> QED
  BY <1>3, <1>14

-------------------------------------------------------------------------------
(* The workunits *)

LEMMA WorkunitsAreFinite ==
    IsFiniteSet(Workunits) /\ \A S \in SUBSET Workunits : IsFiniteSet(S)
<1>1. IsFiniteSet(NoTask)
  <2>1. IsFiniteSet({PreOverhead})
    BY FS_Singleton
  <2>2. IsFiniteSet({PreOverhead} \cup {PreFileCopies})
    BY <2>1, FS_AddElement
  <2>3. IsFiniteSet({PreOverhead} \cup {PreFileCopies} \cup {PostFileCopies})
    BY <2>2, FS_AddElement
  <2>4. IsFiniteSet({PreOverhead} \cup {PreFileCopies} \cup {PostFileCopies} \cup {Cleanup})
    BY <2>3, FS_AddElement
  <2>5. IsFiniteSet({PreOverhead} \cup {PreFileCopies} \cup {PostFileCopies} \cup {Cleanup}
                    \cup {PostOverhead})
    BY <2>4, FS_AddElement
  <2>6. NoTask = {PreOverhead} \cup {PreFileCopies} \cup {PostFileCopies} \cup {Cleanup}
                 \cup {PostOverhead}
    BY DEF NoTask
  <2> QED
    BY <2>5, <2>6
<1>2. IsFiniteSet(Workunits)
  BY <1>1, JobAssumption, FS_Union DEF Workunits
<1> QED
  BY <1>2, FS_Subset

\* The keys of tasks are numbers.
LEMMA KeysAreNumbers ==
    \A t \in Tasks : SelectionKey(t) \in Int
<1> TAKE t \in Tasks
<1>1. Flops[t] \in Int /\ MinCores[t] \in Int /\ -TopLevel[t] \in Int
  BY JobAssumption
<1>2. CASE TaskSelection = "maximum_flops"
  BY <1>1, <1>2 DEF SelectionKey
<1>3. CASE TaskSelection = "maximum_minimum_cores"
  BY <1>1, <1>3 DEF SelectionKey
<1>4. CASE TaskSelection = "minimum_top_level"
  BY <1>1, <1>4 DEF SelectionKey
<1> QED
  BY <1>2, <1>3, <1>4, SelectionAssumption

\* Every ready workunit is considered once.
LEMMA WorkunitsAreSorted ==
    ASSUME NEW S \in SUBSET Workunits
    PROVE  /\ Cardinality(S) \in Nat
           /\ SortedReadyWorkunits(S) \in [1 .. Cardinality(S) -> S]
           /\ \A i, j \in 1 .. Cardinality(S) :
                 i # j => SortedReadyWorkunits(S)[i] # SortedReadyWorkunits(S)[j]
<1>1. IsFiniteSet(S) /\ Cardinality(S) \in Nat
  BY WorkunitsAreFinite, FS_CardinalityType
<1> DEFINE n == Cardinality(S)
           R == {x \in S \X S : ComesFirst(x[1], x[2])}
<1>2. ASSUME NEW x \in S, <<x, x>> \in R PROVE FALSE
  <2>1. ComesFirst(x, x)
    BY <1>2
  <2>2. CASE x \in Tasks
    <3>1. SelectionKey(x) \in Int /\ x \in Nat
      BY <2>2, JobAssumption, KeysAreNumbers
    <3> QED
      BY <2>1, <2>2, <3>1 DEF ComesFirst
  <2>3. CASE x \notin Tasks
    BY <2>1, <2>3 DEF ComesFirst
  <2> QED
    BY <2>2, <2>3
<1>3. ASSUME NEW x \in S, NEW y \in S, NEW z \in S, <<x, y>> \in R, <<y, z>> \in R
      PROVE  <<x, z>> \in R
  <2>1. ComesFirst(x, y) /\ ComesFirst(y, z)
    BY <1>3
  <2>2. CASE x \in Tasks /\ y \in Tasks /\ z \in Tasks
    <3>1. /\ SelectionKey(x) \in Int /\ SelectionKey(y) \in Int /\ SelectionKey(z) \in Int
          /\ x \in Nat /\ y \in Nat /\ z \in Nat
      BY <2>2, JobAssumption, KeysAreNumbers
    <3>2. ComesFirst(x, z)
      BY <2>1, <2>2, <3>1 DEF ComesFirst
    <3> QED
      BY <3>2
  <2>3. CASE ~(x \in Tasks /\ y \in Tasks /\ z \in Tasks)
    <3>1. ComesFirst(x, z)
      BY <2>1, <2>3 DEF ComesFirst
    <3> QED
      BY <3>1
  <2> QED
    BY <2>2, <2>3
<1>4. PICK q \in [1 .. n -> S] :
          /\ \A i, j \in 1 .. n : i # j => q[i] # q[j]
          /\ \A i, j \in 1 .. n : i < j => <<q[j], q[i]>> \notin R
  <2> HIDE DEF R
  <2> QED
    BY <1>1, <1>2, <1>3, SortedExists
<1> HIDE DEF n
<1>5. q \in Injection(1 .. n, S)
  BY <1>4 DEF Injection, IsInjective
<1>6. \A i, j \in DOMAIN q : i < j => ~ComesFirst(q[j], q[i])
  BY <1>4
<1> DEFINE Fine(p) == \A i, j \in DOMAIN p : i < j => ~ComesFirst(p[j], p[i])
<1>7. SortedReadyWorkunits(S) = CHOOSE p \in Injection(1 .. n, S) : Fine(p)
  BY DEF SortedReadyWorkunits, n
<1>8. Fine(q)
  BY <1>6
<1> HIDE DEF Fine
<1>9. SortedReadyWorkunits(S) \in Injection(1 .. n, S)
  BY <1>5, <1>7, <1>8
<1>10. /\ SortedReadyWorkunits(S) \in [1 .. n -> S]
       /\ \A i, j \in 1 .. n : i # j => SortedReadyWorkunits(S)[i] # SortedReadyWorkunits(S)[j]
  <2>1. PICK p : p = SortedReadyWorkunits(S)
    OBVIOUS
  <2>2. p \in [1 .. n -> S] /\ IsInjective(p)
    BY <1>9, <2>1 DEF Injection
  <2> QED
    BY <2>1, <2>2 DEF IsInjective
<1> QED
  BY <1>1, <1>10 DEF n

-------------------------------------------------------------------------------
(* The inductive invariant *)

Phases == {"none", "started", "running", "worked", "failed", "sent", "crashed", "reported"}
Executors == [phase : Phases, host : Nat, cores : Nat, files : SUBSET Files]
About == [type : {"Done", "Failed", "Crashed"}, workunit : Workunits]
Messages == About \cup [type : {"HostOn"}]
Amounts == 0 .. WordSize - 1
Lives == {"new", "rejected", "up", "ending", "done", "failed", "killed", "crashed"}

Types ==
    /\ daemon \in Lives
    /\ parts \in SUBSET NoTask
    /\ coreAvailabilities \in [Hosts -> Amounts] /\ ramAvailabilities \in [Hosts -> Nat]
    /\ executor \in [Workunits -> Executors]
    /\ taskState \in [Tasks -> InternalStates]
    /\ numPendingParents \in [Workunits -> Nat] /\ numCompletedTasks \in Nat
    /\ nonReady \in SUBSET Workunits /\ ready \in SUBSET Workunits
    /\ running \in SUBSET Workunits /\ completed \in SUBSET Workunits
    /\ mailbox \in Seq(Messages)
    /\ filesStored \in SUBSET Files /\ endedFiles \in SUBSET Files /\ scratch \in SUBSET Files
    /\ isOn \in SUBSET Hosts

\* What the executor starts from.
Fresh ==
    /\ executor = [w \in Workunits |-> NoExecutor] /\ taskState = InitialInternal
    /\ mailbox = <<>> /\ numCompletedTasks = 0 /\ capacity \in Requests
    /\ filesStored = {} /\ endedFiles = {} /\ scratch = {} /\ damaged = {}

\* What was said and thrown, by the life of the executor.
LifeOf ==
    /\ answer \in {"none", "done", "failed"}
    /\ daemon \in {"new", "rejected", "up"} => answer = "none"
    /\ daemon \in {"done", "failed"} => answer = daemon
    /\ daemon = "ending" => answer # "none"
    /\ aborted \in {"no", "scratch does not answer"}
    /\ daemon \in {"new", "up"} => aborted = "no"
    /\ daemon \notin {"up", "ending"} => nonReady = {} /\ ready = {} /\ running = {} /\ completed = {}
    /\ daemon = "new" => Fresh

\* The dependencies of createWorkunits, for tasks in their first states.
JobDependencies ==
    {d \in Tasks \X Tasks : d[1] \in Parents[d[2]]} \cup StageDependencies \cup OverheadDependencies
Pending(w) == {d \in dependencies : d[2] = w /\ d[1] \notin completed}

\* Each workunit of the job is in one set; those that wait are those with a parent that is
\* not completed, which numPendingParents counts.
Sorted ==
    /\ dependencies = JobDependencies
    /\ nonReady \cup ready \cup running \cup completed = JobWorkunits
    /\ nonReady \cap ready = {} /\ nonReady \cap running = {} /\ nonReady \cap completed = {}
    /\ ready \cap running = {} /\ ready \cap completed = {} /\ running \cap completed = {}
    /\ \A w \in JobWorkunits : /\ numPendingParents[w] = Cardinality(Pending(w))
                               /\ w \in nonReady <=> Pending(w) # {}

\* The workunits that run have a workunit executor, and they only; it has no files at first. R are those that run.
HousedIn(e, R) ==
    \A w \in Workunits : /\ w \in R <=> e[w].phase # "none"
                         /\ w \notin R => e[w] = NoExecutor
                         /\ w \in R => e[w].host \in Hosts
                         /\ e[w].phase = "started" => e[w].files = {}
Housed == HousedIn(executor, running)

\* What a message says of the executor it is about, which there is at most one about. e are the
\* executors, s the states of the tasks, q the mailbox.
Reported(m, e, s) ==
    /\ e[m.workunit].phase = IF m.type = "Crashed" THEN "reported" ELSE "sent"
    /\ m.type = "Done" /\ m.workunit \in Tasks => s[m.workunit] = "TASK_COMPLETED"
PostedIn(q, e, s) ==
    /\ \A i \in DOMAIN q : q[i].type # "HostOn" => Reported(q[i], e, s)
    /\ \A i, j \in DOMAIN q :
          q[i].type # "HostOn" /\ q[j].type # "HostOn" /\ i # j => q[i].workunit # q[j].workunit
Posted == PostedIn(mailbox, executor, taskState)

\* The states of tasks by what was done of their workunits. A task that waits is made ready
\* by its last parent.
Advanced ==
    /\ \A t \in Tasks :
          /\ t \in completed \/ executor[t].phase = "worked" => taskState[t] = "TASK_COMPLETED"
          /\ taskState[t] = "TASK_RUNNING" => executor[t].phase = "running"
          /\ t \in nonReady =>
                /\ taskState[t] \in {"TASK_NOT_READY", "TASK_READY"}
                /\ (\A p \in Parents[t] : taskState[p] = "TASK_COMPLETED")
                   => taskState[t] = "TASK_READY"
    /\ numCompletedTasks = Cardinality(completed \cap Tasks)

\* A file in scratch was written by a workunit executor that keeps a list of it.
Listed ==
    \A f \in scratch : \/ f \in filesStored \/ f \in endedFiles
                       \/ \E w \in Workunits : f \in executor[w].files

Accounted ==
    \A h \in Hosts : /\ capacity[h] \in Amounts
                     /\ h \notin damaged => coreAvailabilities[h] + HeldCores(h) = capacity[h]
                     /\ ramAvailabilities[h] + HeldRam(h) = HostRam[h]

WhileUp == Sorted /\ Housed /\ Posted /\ Advanced /\ Listed /\ Accounted

ExecutorInv ==
    /\ Types
    /\ LifeOf
    /\ daemon = "up" => WhileUp
    /\ EndedJobIsQuiet

\* No workunit is in two sets.
Apart ==
    /\ nonReady \cap ready = {} /\ nonReady \cap running = {} /\ nonReady \cap completed = {}
    /\ ready \cap running = {} /\ ready \cap completed = {} /\ running \cap completed = {}

\* Nothing is deleted before the answer. After "done", a file in scratch is one whose deletion
\* was not answered, and not the one that was deleted last.
CleaningUp ==
    /\ toDelete \in SUBSET Files
    /\ deletion \in [file : Files, phase : {"asked", "deleted"}] \cup {NoDeletion}
    /\ daemon \in {"new", "rejected", "up"} => toDelete = {} /\ deletion = NoDeletion
    /\ daemon = "ending" => Apart
    /\ daemon = "ending" /\ answer = "done" /\ ScratchSpace /\ ~PartOfPilotJob =>
          scratch \subseteq toDelete /\ (deletion.phase = "deleted" => deletion.file \notin scratch)

-------------------------------------------------------------------------------
(* The host that is picked *)

\* Of numbers ordered by two keys, the largest first by a, then the smallest by b, then the
\* smallest itself, one comes first.
LEMMA OneComesFirst ==
    ASSUME NEW S \in SUBSET Nat, IsFiniteSet(S), S # {}, NEW a \in [S -> Int], NEW b \in [S -> Int]
    PROVE  \E h \in S : \A g \in S \ {h} :
              \/ a[h] > a[g]
              \/ a[h] = a[g] /\ (b[h] < b[g] \/ (b[h] = b[g] /\ h < g))
<1> DEFINE Before(h, g) == \/ a[h] > a[g]
                           \/ a[h] = a[g] /\ (b[h] < b[g] \/ (b[h] = b[g] /\ h < g))
           R == {x \in S \X S : Before(x[2], x[1])}
<1>1. \A x \in S : x \in Nat /\ a[x] \in Int /\ b[x] \in Int
  OBVIOUS
<1>2. \A x \in S : <<x, x>> \notin R
  BY <1>1
<1>3. \A x, y, z \in S : Before(x, y) /\ Before(y, z) => Before(x, z)
  BY <1>1
<1>4. \A x, y \in S : x = y \/ Before(x, y) \/ Before(y, x)
  BY <1>1
<1> HIDE DEF Before
<1>5. \A x, y, z \in S : <<x, y>> \in R /\ <<y, z>> \in R => <<x, z>> \in R
  BY <1>3
<1>6. PICK h \in S : \A y \in S : <<h, y>> \notin R
  <2> HIDE DEF R
  <2> QED
    BY <1>2, <1>5, OneIsLast
<1>7. ASSUME NEW g \in S \ {h} PROVE Before(h, g)
  <2>1. ~Before(g, h)
    <3>1. <<h, g>> \notin R /\ <<h, g>> \in S \X S
      BY <1>6
    <3> QED
      BY <3>1
  <2> QED
    BY <1>4, <2>1
<1> QED
  BY <1>7 DEF Before

\* The smaller of two numbers.
LEMMA MinOfTwo ==
    ASSUME NEW a \in Int, NEW b \in Int
    PROVE  Min({a, b}) \in {a, b} /\ Min({a, b}) <= a /\ Min({a, b}) <= b
<1>1. CASE a <= b
  <2>1. a \in {a, b} /\ \A y \in {a, b} : a <= y
    BY <1>1
  <2>2. Min({a, b}) \in {a, b} /\ \A y \in {a, b} : Min({a, b}) <= y
    BY <2>1 DEF Min
  <2> QED
    BY <2>2
<1>2. CASE b <= a
  <2>1. b \in {a, b} /\ \A y \in {a, b} : b <= y
    BY <1>2
  <2>2. Min({a, b}) \in {a, b} /\ \A y \in {a, b} : Min({a, b}) <= y
    BY <2>1 DEF Min
  <2> QED
    BY <2>2
<1> QED
  BY <1>1, <1>2

\* What a workunit needs.
LEMMA NeedsAreNumbers ==
    ASSUME NEW w \in Workunits
    PROVE  /\ MinNumCores(w) \in Nat /\ MinNumCores(w) > 0
           /\ DesiredNumCores(w) \in Nat /\ DesiredNumCores(w) > 0
           /\ RequiredRam(w) \in Nat
<1>1. w \in Tasks => /\ MinCores[w] \in Nat /\ MinCores[w] > 0 /\ MaxCores[w] \in Nat
                     /\ MaxCores[w] >= MinCores[w] /\ Ram[w] \in Nat
  BY JobAssumption
<1>2. CASE w \in Tasks
  BY <1>1, <1>2 DEF MinNumCores, DesiredNumCores, RequiredRam
<1>3. CASE w \notin Tasks
  BY <1>3 DEF MinNumCores, DesiredNumCores, RequiredRam
<1> QED
  BY <1>2, <1>3

\* If a host is suitable, one that is gets picked, and no more cores than it has available.
LEMMA BestFitSuits ==
    ASSUME NEW w \in Workunits, NEW d, d.cores \in [Hosts -> Amounts], isOn \in SUBSET Hosts,
           Suitable(w, d) # {}
    PROVE  /\ BestFit(w, d) \in Suitable(w, d) /\ BestFit(w, d) \in Hosts
           /\ NumCoresOn(BestFit(w, d), w, d) \in 0 .. d.cores[BestFit(w, d)]
<1> DEFINE S == Suitable(w, d)
           a == [h \in S |-> NumCoresOn(h, w, d)]
           b == [h \in S |-> SlackOn(h, w, d)]
<1>1. S \in SUBSET Hosts /\ S \in SUBSET Nat /\ IsFiniteSet(S)
  <2>1. S \in SUBSET Hosts
    BY DEF Suitable
  <2> QED
    BY <2>1, HostsAssumption, FS_Subset
<1>2. ASSUME NEW h \in S
      PROVE  NumCoresOn(h, w, d) \in Int /\ SlackOn(h, w, d) \in Int
             /\ NumCoresOn(h, w, d) \in 0 .. d.cores[h]
  <2>1. h \in Hosts
    BY <1>1
  <2>2. d.cores[h] \in Nat
    BY <2>1, HostsAssumption DEF Amounts
  <2>3. DesiredNumCores(w) \in Nat
    BY NeedsAreNumbers
  <2>4. NumCoresOn(h, w, d) \in {d.cores[h], DesiredNumCores(w)} /\ NumCoresOn(h, w, d) <= d.cores[h]
    <3>1. PICK x, y : x = d.cores[h] /\ y = DesiredNumCores(w) /\ x \in Int /\ y \in Int
      BY <2>2, <2>3
    <3>2. Min({x, y}) \in {x, y} /\ Min({x, y}) <= x
      BY <3>1, MinOfTwo
    <3>3. NumCoresOn(h, w, d) = Min({x, y})
      BY <3>1 DEF NumCoresOn
    <3> QED
      BY <3>1, <3>2, <3>3
  <2>5. NumCoresOn(h, w, d) \in Nat
    BY <2>2, <2>3, <2>4
  <2> QED
    BY <2>2, <2>4, <2>5 DEF SlackOn
<1>3. a \in [S -> Int] /\ b \in [S -> Int]
  BY <1>2
<1>4. S # {}
  OBVIOUS
<1> HIDE DEF a, b, S
<1>5. PICK h \in S : \A g \in S \ {h} :
              \/ a[h] > a[g]
              \/ a[h] = a[g] /\ (b[h] < b[g] \/ (b[h] = b[g] /\ h < g))
  BY <1>1, <1>3, <1>4, OneComesFirst
<1> DEFINE Better(x, g) ==
            \/ NumCoresOn(x, w, d) > NumCoresOn(g, w, d)
            \/ /\ NumCoresOn(x, w, d) = NumCoresOn(g, w, d)
               /\ \/ SlackOn(x, w, d) < SlackOn(g, w, d)
                  \/ SlackOn(x, w, d) = SlackOn(g, w, d) /\ x < g
<1>6. \A g \in S \ {h} : Better(h, g)
  <2>1. \A x \in S : a[x] = NumCoresOn(x, w, d) /\ b[x] = SlackOn(x, w, d)
    BY DEF a, b
  <2> QED
    BY <1>5, <2>1
<1>7. BestFit(w, d) = CHOOSE x \in S : \A g \in S \ {x} : Better(x, g)
  BY DEF BestFit, S
<1> HIDE DEF Better
<1>8. BestFit(w, d) \in S
  BY <1>6, <1>7
<1> QED
  BY <1>1, <1>2, <1>8 DEF S

-------------------------------------------------------------------------------
(* Sums *)

\* The cores and the RAM that the workunits of R, with executors e, hold on host h.
HeldOn(e, R, h) == {w \in R : e[w].host = h}
CoresHeld(e, R, h) == SumFunctionOnSet([w \in Workunits |-> e[w].cores], HeldOn(e, R, h))
RamHeld(e, R, h) == SumFunctionOnSet([w \in Workunits |-> RequiredRam(w)], HeldOn(e, R, h))
CoresOn(e, w, h) == IF e[w].host = h THEN e[w].cores ELSE 0
RamOn(e, w, h) == IF e[w].host = h THEN RequiredRam(w) ELSE 0

\* Sums over sets of workunits.
LEMMA SumsOfWorkunits ==
    ASSUME NEW f, \A w \in Workunits : f[w] \in Nat, NEW S \in SUBSET Workunits
    PROVE  /\ SumFunctionOnSet(f, S) \in Nat
           /\ SumFunctionOnSet(f, {}) = 0
           /\ \A w \in S : SumFunctionOnSet(f, S) = f[w] + SumFunctionOnSet(f, S \ {w})
           /\ \A g : (\A w \in S : g[w] = f[w]) => SumFunctionOnSet(g, S) = SumFunctionOnSet(f, S)
<1>1. \A g, T : /\ SumFunctionOnSet(g, T) = Dispatching!SumFunctionOnSet(g, T)
                /\ IsFiniteSet(T) <=> Dispatching!IsFiniteSet(T)
  BY DEF SumFunctionOnSet, Dispatching!SumFunctionOnSet, FoldFunctionOnSet,
         Dispatching!FoldFunctionOnSet, MapThenFoldSet, Dispatching!MapThenFoldSet,
         IsFiniteSet, Dispatching!IsFiniteSet
<1>2. Dispatching!IsFiniteSet(S) /\ Dispatching!IsFiniteSet({})
  BY <1>1, WorkunitsAreFinite, FS_EmptySet
<1>3. \A w \in S : f[w] \in Int /\ f[w] >= 0
  OBVIOUS
<1>4. SumFunctionOnSet(f, S) \in Int /\ SumFunctionOnSet(f, S) >= 0
  BY <1>1, <1>2, <1>3, Dispatching!SumType
<1>5. SumFunctionOnSet(f, {}) = 0
  BY <1>1, <1>2, Dispatching!SumUnfolds
<1>6. ASSUME NEW w \in S PROVE SumFunctionOnSet(f, S) = f[w] + SumFunctionOnSet(f, S \ {w})
  BY <1>1, <1>2, <1>3, Dispatching!SumAdds
<1>7. ASSUME NEW g, \A w \in S : g[w] = f[w] PROVE SumFunctionOnSet(g, S) = SumFunctionOnSet(f, S)
  BY <1>1, <1>2, <1>7, Dispatching!SumAgrees
<1> QED
  BY <1>4, <1>5, <1>6, <1>7

\* The executors have numbers of cores.
Counts(e) == \A w \in Workunits : e[w].cores \in Nat

LEMMA HeldIsNumber ==
    ASSUME NEW e, Counts(e), NEW R \in SUBSET Workunits, NEW h
    PROVE  CoresHeld(e, R, h) \in Nat /\ RamHeld(e, R, h) \in Nat
<1> DEFINE f == [w \in Workunits |-> e[w].cores]
           r == [w \in Workunits |-> RequiredRam(w)]
<1>1. (\A w \in Workunits : f[w] \in Nat) /\ (\A w \in Workunits : r[w] \in Nat)
  BY NeedsAreNumbers DEF Counts
<1>2. HeldOn(e, R, h) \in SUBSET Workunits
  BY DEF HeldOn
<1>3. CoresHeld(e, R, h) = SumFunctionOnSet(f, HeldOn(e, R, h))
      /\ RamHeld(e, R, h) = SumFunctionOnSet(r, HeldOn(e, R, h))
  BY DEF CoresHeld, RamHeld
<1> HIDE DEF f, r
<1> QED
  BY <1>1, <1>2, <1>3, SumsOfWorkunits

\* Nothing is held by none.
LEMMA NoneHold ==
    ASSUME NEW e, Counts(e), NEW h
    PROVE  CoresHeld(e, {}, h) = 0 /\ RamHeld(e, {}, h) = 0
<1> DEFINE f == [w \in Workunits |-> e[w].cores]
           r == [w \in Workunits |-> RequiredRam(w)]
<1>1. (\A w \in Workunits : f[w] \in Nat) /\ (\A w \in Workunits : r[w] \in Nat)
  BY NeedsAreNumbers DEF Counts
<1>2. HeldOn(e, {}, h) = {} /\ {} \in SUBSET Workunits
  BY DEF HeldOn
<1>3. CoresHeld(e, {}, h) = SumFunctionOnSet(f, {}) /\ RamHeld(e, {}, h) = SumFunctionOnSet(r, {})
  BY <1>2 DEF CoresHeld, RamHeld
<1> HIDE DEF f, r
<1> QED
  BY <1>1, <1>2, <1>3, SumsOfWorkunits

\* What one of the workunits holds.
LEMMA OneHolds ==
    ASSUME NEW e, Counts(e), NEW R \in SUBSET Workunits, NEW h, NEW w \in R
    PROVE  /\ CoresHeld(e, R, h) = CoresHeld(e, R \ {w}, h) + CoresOn(e, w, h)
           /\ RamHeld(e, R, h) = RamHeld(e, R \ {w}, h) + RamOn(e, w, h)
<1> DEFINE f == [v \in Workunits |-> e[v].cores]
           r == [v \in Workunits |-> RequiredRam(v)]
           S == HeldOn(e, R, h)
<1>1. (\A v \in Workunits : f[v] \in Nat) /\ (\A v \in Workunits : r[v] \in Nat)
      /\ f[w] = e[w].cores /\ r[w] = RequiredRam(w)
  BY NeedsAreNumbers DEF Counts
<1>2. S \in SUBSET Workunits
  BY DEF HeldOn
<1>3. /\ CoresHeld(e, R, h) = SumFunctionOnSet(f, S)
      /\ RamHeld(e, R, h) = SumFunctionOnSet(r, S)
      /\ CoresHeld(e, R \ {w}, h) = SumFunctionOnSet(f, HeldOn(e, R \ {w}, h))
      /\ RamHeld(e, R \ {w}, h) = SumFunctionOnSet(r, HeldOn(e, R \ {w}, h))
  BY DEF CoresHeld, RamHeld
<1>4. CASE e[w].host = h
  <2>1. w \in S /\ HeldOn(e, R \ {w}, h) = S \ {w} /\ S \ {w} \in SUBSET Workunits
    BY <1>2, <1>4 DEF HeldOn
  <2> HIDE DEF f, r, S
  <2>2. /\ SumFunctionOnSet(f, S) = f[w] + SumFunctionOnSet(f, S \ {w})
        /\ SumFunctionOnSet(f, S \ {w}) \in Nat
    BY <1>1, <1>2, <2>1, SumsOfWorkunits
  <2>3. /\ SumFunctionOnSet(r, S) = r[w] + SumFunctionOnSet(r, S \ {w})
        /\ SumFunctionOnSet(r, S \ {w}) \in Nat
    BY <1>1, <1>2, <2>1, SumsOfWorkunits
  <2>4. f[w] \in Nat /\ r[w] \in Nat
    BY <1>1
  <2>5. /\ f[w] + SumFunctionOnSet(f, S \ {w}) = SumFunctionOnSet(f, S \ {w}) + f[w]
        /\ r[w] + SumFunctionOnSet(r, S \ {w}) = SumFunctionOnSet(r, S \ {w}) + r[w]
    BY <2>2, <2>3, <2>4
  <2>6. /\ CoresHeld(e, R \ {w}, h) = SumFunctionOnSet(f, S \ {w})
        /\ RamHeld(e, R \ {w}, h) = SumFunctionOnSet(r, S \ {w})
    BY <1>3, <2>1
  <2>7. CoresHeld(e, R, h) = CoresHeld(e, R \ {w}, h) + e[w].cores
    BY <1>1, <1>3, <2>2, <2>5, <2>6
  <2>8. RamHeld(e, R, h) = RamHeld(e, R \ {w}, h) + RequiredRam(w)
    BY <1>1, <1>3, <2>3, <2>5, <2>6
  <2> QED
    BY <1>4, <2>7, <2>8 DEF CoresOn, RamOn
<1>5. CASE e[w].host # h
  <2>1. HeldOn(e, R \ {w}, h) = S
    BY <1>5 DEF HeldOn
  <2> HIDE DEF f, r, S
  <2>2. SumFunctionOnSet(f, S) \in Nat /\ SumFunctionOnSet(r, S) \in Nat
    BY <1>1, <1>2, SumsOfWorkunits
  <2>3. CoresOn(e, w, h) = 0 /\ RamOn(e, w, h) = 0
    BY <1>5 DEF CoresOn, RamOn
  <2> QED
    BY <1>3, <2>1, <2>2, <2>3
<1> QED
  BY <1>4, <1>5

\* It depends on the executors of R only.
LEMMA HeldAgrees ==
    ASSUME NEW e, Counts(e), NEW f, Counts(f), NEW R \in SUBSET Workunits, NEW h,
           \A w \in R : f[w].cores = e[w].cores /\ f[w].host = e[w].host
    PROVE  CoresHeld(f, R, h) = CoresHeld(e, R, h) /\ RamHeld(f, R, h) = RamHeld(e, R, h)
<1> DEFINE a == [v \in Workunits |-> e[v].cores]
           b == [v \in Workunits |-> f[v].cores]
           S == HeldOn(e, R, h)
<1>1. \A v \in Workunits : a[v] \in Nat
  BY DEF Counts
<1>2. S \in SUBSET Workunits /\ HeldOn(f, R, h) = S /\ \A w \in S : b[w] = a[w]
  BY DEF HeldOn
<1>3. /\ CoresHeld(e, R, h) = SumFunctionOnSet(a, S)
      /\ CoresHeld(f, R, h) = SumFunctionOnSet(b, HeldOn(f, R, h))
  BY DEF CoresHeld
<1>4. RamHeld(f, R, h) = RamHeld(e, R, h)
  BY <1>2 DEF RamHeld
<1> HIDE DEF a, b, S
<1>5. SumFunctionOnSet(b, S) = SumFunctionOnSet(a, S)
  BY <1>1, <1>2, SumsOfWorkunits
<1> QED
  BY <1>2, <1>3, <1>4, <1>5

-------------------------------------------------------------------------------
(* A dispatch *)

Dispatches == [cores : [Hosts -> Amounts], ram : [Hosts -> Nat], started : [Workunits -> Executors],
               placed : SUBSET Workunits]

\* A dispatch from the resources cores and ram and the executors e, in which the workunits of R
\* run, has placed some of those of D: what they hold was available.
Placed(cores, ram, e, R, D, d) ==
    /\ d.placed \subseteq D
    /\ \A w \in Workunits \ d.placed : d.started[w] = e[w]
    /\ \A w \in d.placed : /\ d.started[w].phase = "started" /\ d.started[w].files = {}
                           /\ d.started[w].host \in Hosts
    /\ \A h \in Hosts :
          /\ d.cores[h] + CoresHeld(d.started, R \cup d.placed, h) = cores[h] + CoresHeld(e, R, h)
          /\ d.ram[h] + RamHeld(d.started, R \cup d.placed, h) = ram[h] + RamHeld(e, R, h)

\* What is taken from one host is held there.
LEMMA TakenIsHeld ==
    ASSUME NEW e, Counts(e), NEW f, Counts(f), NEW R \in SUBSET Workunits, NEW w \in Workunits, w \notin R,
           \A v \in R : f[v] = e[v], NEW g
    PROVE  /\ CoresHeld(f, R \cup {w}, g) = CoresHeld(e, R, g) + CoresOn(f, w, g)
           /\ RamHeld(f, R \cup {w}, g) = RamHeld(e, R, g) + RamOn(f, w, g)
<1> DEFINE T == R \cup {w}
<1>1. T \in SUBSET Workunits /\ w \in T /\ T \ {w} = R
  OBVIOUS
<1>2. /\ CoresHeld(f, T, g) = CoresHeld(f, R, g) + CoresOn(f, w, g)
      /\ RamHeld(f, T, g) = RamHeld(f, R, g) + RamOn(f, w, g)
  <2> HIDE DEF T
  <2>1. /\ CoresHeld(f, T, g) = CoresHeld(f, T \ {w}, g) + CoresOn(f, w, g)
        /\ RamHeld(f, T, g) = RamHeld(f, T \ {w}, g) + RamOn(f, w, g)
    BY <1>1, OneHolds
  <2> QED
    BY <1>1, <2>1
<1>3. CoresHeld(f, R, g) = CoresHeld(e, R, g) /\ RamHeld(f, R, g) = RamHeld(e, R, g)
  <2>1. \A v \in R : f[v].cores = e[v].cores /\ f[v].host = e[v].host
    OBVIOUS
  <2> QED
    BY <2>1, HeldAgrees
<1> QED
  BY <1>2, <1>3

LEMMA DispatchOneKeeps ==
    ASSUME NEW cores \in [Hosts -> Amounts], NEW ram \in [Hosts -> Nat], NEW e \in [Workunits -> Executors],
           NEW R \in SUBSET Workunits, NEW D \in SUBSET Workunits, NEW w \in Workunits,
           w \notin D, w \notin R, isOn \in SUBSET Hosts,
           NEW d \in Dispatches, Placed(cores, ram, e, R, D, d)
    PROVE  /\ DispatchOne(w, d) \in Dispatches
           /\ Placed(cores, ram, e, R, D \cup {w}, DispatchOne(w, d))
<1>1. /\ d.cores \in [Hosts -> Amounts] /\ d.ram \in [Hosts -> Nat]
      /\ d.started \in [Workunits -> Executors] /\ d.placed \in SUBSET Workunits
      /\ d = [cores |-> d.cores, ram |-> d.ram, started |-> d.started, placed |-> d.placed]
  BY DEF Dispatches
<1>2. CASE Suitable(w, d) = {}
  <2>1. DispatchOne(w, d) = d
    BY <1>2 DEF DispatchOne
  <2>2. Placed(cores, ram, e, R, D \cup {w}, d)
    BY DEF Placed
  <2> QED
    BY <2>1, <2>2
<1>3. CASE Suitable(w, d) # {}
  <2>1. PICK h, n, r : h = BestFit(w, d) /\ n = NumCoresOn(BestFit(w, d), w, d) /\ r = RequiredRam(w)
    OBVIOUS
  <2>2. h \in Suitable(w, d) /\ h \in Hosts /\ n \in 0 .. d.cores[h]
    BY <1>1, <1>3, <2>1, BestFitSuits
  <2>3. d.cores[h] \in Amounts /\ d.ram[h] \in Nat /\ d.ram[h] >= r /\ r \in Nat /\ n \in Nat
        /\ d.cores[h] - n \in Amounts /\ d.ram[h] - r \in Nat
    <3>1. r \in Nat
      BY <2>1, NeedsAreNumbers
    <3>2. d.cores[h] \in Amounts /\ d.ram[h] \in Nat /\ d.ram[h] >= r
      BY <1>1, <2>1, <2>2 DEF Suitable
    <3>3. n \in Nat /\ d.cores[h] - n \in Amounts
      <4>1. WordSize \in Nat
        BY HostsAssumption
      <4> QED
        BY <2>2, <3>2, <4>1 DEF Amounts
    <3> QED
      BY <3>1, <3>2, <3>3
  <2> DEFINE x == [phase |-> "started", host |-> h, cores |-> n, files |-> {}]
             c1 == [d.cores EXCEPT ![h] = @ - n]
             r1 == [d.ram EXCEPT ![h] = @ - r]
             s1 == [d.started EXCEPT ![w] = x]
             p1 == d.placed \cup {w}
             y == [cores |-> c1, ram |-> r1, started |-> s1, placed |-> p1]
  <2>4. DispatchOne(w, d) = y
    <3>1. DispatchOne(w, d) = [d EXCEPT !.cores[h] = @ - n, !.ram[h] = @ - r, !.started[w] = x,
                                        !.placed = @ \cup {w}]
      BY <1>3, <2>1 DEF DispatchOne
    <3> HIDE DEF x
    <3> QED
      BY <1>1, <3>1
  <2>5. x \in Executors /\ x.phase = "started" /\ x.host = h /\ x.cores = n /\ x.files = {}
    <3>1. h \in Nat
      BY <2>2, HostsAssumption
    <3> QED
      BY <2>3, <3>1 DEF Executors, Phases
  <2> HIDE DEF x
  <2>6. /\ c1 \in [Hosts -> Amounts] /\ r1 \in [Hosts -> Nat]
        /\ s1 \in [Workunits -> Executors] /\ p1 \in SUBSET Workunits
    BY <1>1, <2>2, <2>3, <2>5
  <2>7. /\ c1[h] = d.cores[h] - n /\ r1[h] = d.ram[h] - r /\ s1[w] = x
        /\ \A g \in Hosts \ {h} : c1[g] = d.cores[g] /\ r1[g] = d.ram[g]
        /\ \A v \in Workunits \ {w} : s1[v] = d.started[v]
    BY <1>1, <2>2
  <2>8. y \in Dispatches /\ y.cores = c1 /\ y.ram = r1 /\ y.started = s1 /\ y.placed = p1
    BY <2>6 DEF Dispatches
  <2> HIDE DEF c1, r1, s1, y
  <2>9. Counts(d.started) /\ Counts(s1) /\ d.started[w] = e[w]
    BY <1>1, <2>6 DEF Counts, Executors, Placed
  <2>10. p1 \subseteq D \cup {w} /\ \A v \in Workunits \ p1 : s1[v] = e[v]
    BY <2>7 DEF Placed
  <2>11. ASSUME NEW v \in p1
         PROVE  s1[v].phase = "started" /\ s1[v].files = {} /\ s1[v].host \in Hosts
    <3>1. CASE v = w
      BY <2>2, <2>5, <2>7, <3>1
    <3>2. CASE v # w
      <4>1. v \in d.placed /\ v \in Workunits \ {w}
        BY <1>1, <3>2
      <4> QED
        BY <2>7, <4>1 DEF Placed
    <3> QED
      BY <3>1, <3>2
  <2> DEFINE Q == R \cup d.placed
  <2>12. Q \in SUBSET Workunits /\ w \in Workunits \ Q /\ R \cup p1 = Q \cup {w}
    BY <1>1 DEF Placed
  <2>13. ASSUME NEW g \in Hosts
         PROVE  /\ CoresHeld(s1, R \cup p1, g) = CoresHeld(d.started, Q, g) + (IF g = h THEN n ELSE 0)
                /\ RamHeld(s1, R \cup p1, g) = RamHeld(d.started, Q, g) + (IF g = h THEN r ELSE 0)
    <3> HIDE DEF Q
    <3>1. /\ CoresHeld(s1, Q \cup {w}, g) = CoresHeld(d.started, Q, g) + (IF g = h THEN n ELSE 0)
          /\ RamHeld(s1, Q \cup {w}, g)
               = RamHeld(d.started, Q, g) + (IF g = h THEN RequiredRam(w) ELSE 0)
      <4>1. s1[w].host = h /\ s1[w].cores = n
        BY <2>5, <2>7
      <4>2. PICK e0 : e0 = d.started /\ Counts(e0)
        BY <2>9
      <4>3. \A v \in Q : s1[v] = e0[v]
        BY <2>7, <2>12, <4>2
      <4>4. Q \in SUBSET Workunits /\ w \notin Q /\ Counts(s1)
        BY <2>9, <2>12
      <4>5. /\ CoresHeld(s1, Q \cup {w}, g) = CoresHeld(e0, Q, g) + CoresOn(s1, w, g)
            /\ RamHeld(s1, Q \cup {w}, g) = RamHeld(e0, Q, g) + RamOn(s1, w, g)
        BY <4>2, <4>3, <4>4, TakenIsHeld
      <4>6. CoresOn(s1, w, g) = (IF g = h THEN n ELSE 0)
            /\ RamOn(s1, w, g) = (IF g = h THEN RequiredRam(w) ELSE 0)
        BY <4>1 DEF CoresOn, RamOn
      <4> QED
        BY <4>2, <4>5, <4>6
    <3> QED
      BY <2>1, <2>12, <3>1
  <2>14. ASSUME NEW g \in Hosts
         PROVE  /\ c1[g] + CoresHeld(s1, R \cup p1, g) = cores[g] + CoresHeld(e, R, g)
                /\ r1[g] + RamHeld(s1, R \cup p1, g) = ram[g] + RamHeld(e, R, g)
    <3>1. /\ d.cores[g] + CoresHeld(d.started, Q, g) = cores[g] + CoresHeld(e, R, g)
          /\ d.ram[g] + RamHeld(d.started, Q, g) = ram[g] + RamHeld(e, R, g)
      BY DEF Placed
    <3>2. CoresHeld(d.started, Q, g) \in Nat /\ RamHeld(d.started, Q, g) \in Nat
      BY <2>9, <2>12, HeldIsNumber
    <3>3. d.cores[g] \in Nat /\ d.ram[g] \in Nat
      BY <1>1 DEF Amounts
    <3> HIDE DEF Q, p1
    <3>4. CASE g = h
      <4>1. /\ c1[g] = d.cores[g] - n /\ r1[g] = d.ram[g] - r
            /\ CoresHeld(s1, R \cup p1, g) = CoresHeld(d.started, Q, g) + n
            /\ RamHeld(s1, R \cup p1, g) = RamHeld(d.started, Q, g) + r
        BY <2>7, <2>13, <3>4
      <4> QED
        BY <2>3, <3>1, <3>2, <3>3, <4>1
    <3>5. CASE g # h
      <4>1. /\ c1[g] = d.cores[g] /\ r1[g] = d.ram[g]
            /\ CoresHeld(s1, R \cup p1, g) = CoresHeld(d.started, Q, g) + 0
            /\ RamHeld(s1, R \cup p1, g) = RamHeld(d.started, Q, g) + 0
        BY <2>7, <2>13, <3>5
      <4> QED
        BY <3>1, <3>2, <3>3, <4>1
    <3> QED
      BY <3>4, <3>5
  <2> HIDE DEF p1
  <2>15. Placed(cores, ram, e, R, D \cup {w}, y)
    BY <2>8, <2>10, <2>11, <2>14 DEF Placed
  <2> QED
    BY <2>4, <2>8, <2>15
<1> QED
  BY <1>2, <1>3

\* All the ready workunits are considered, once each.
LEMMA DispatchPlaces ==
    ASSUME NEW cores \in [Hosts -> Amounts], NEW ram \in [Hosts -> Nat], NEW e \in [Workunits -> Executors],
           NEW R \in SUBSET Workunits, NEW S \in SUBSET Workunits, R \cap S = {},
           isOn \in SUBSET Hosts, NEW d, d = Dispatch(S, cores, ram, e)
    PROVE  d \in Dispatches /\ Placed(cores, ram, e, R, S, d)
<1>1. PICK n, q : n = Cardinality(S) /\ q = SortedReadyWorkunits(S)
  OBVIOUS
<1>2. n \in Nat /\ q \in [1 .. n -> S] /\ \A i, j \in 1 .. n : i # j => q[i] # q[j]
  <2>1. /\ Cardinality(S) \in Nat
        /\ SortedReadyWorkunits(S) \in [1 .. Cardinality(S) -> S]
        /\ \A i, j \in 1 .. Cardinality(S) :
              i # j => SortedReadyWorkunits(S)[i] # SortedReadyWorkunits(S)[j]
    BY WorkunitsAreSorted
  <2> QED
    BY <1>1, <2>1
<1> DEFINE Done(i) == {q[k] : k \in 1 .. i}
           base == [cores |-> cores, ram |-> ram, started |-> e, placed |-> {}]
           I == [i \in 0 .. n |-> {x \in Dispatches : Placed(cores, ram, e, R, Done(i), x)}]
<1>3. base \in I[0]
  <2>1. base \in Dispatches
    BY DEF Dispatches
  <2>2. Placed(cores, ram, e, R, Done(0), base)
    BY DEF Placed
  <2>3. 0 \in 0 .. n
    BY <1>2
  <2> HIDE DEF base, Done
  <2> QED
    BY <2>1, <2>2, <2>3
<1>4. ASSUME NEW i \in 1 .. n, NEW x \in I[i - 1] PROVE DispatchTo(n, x, q[i]) \in I[i]
  <2>1. i - 1 \in 0 .. n /\ i \in 0 .. n /\ q[i] \in S /\ q[i] \in Workunits /\ q[i] \notin R
    BY <1>2
  <2>2. x \in Dispatches /\ Placed(cores, ram, e, R, Done(i - 1), x)
    BY <2>1
  <2>3. Done(i) = Done(i - 1) \cup {q[i]} /\ Done(i - 1) \in SUBSET Workunits
    <3>1. 1 .. i = (1 .. i - 1) \cup {i} /\ 1 .. i - 1 \subseteq 1 .. n
      BY <1>2
    <3> QED
      BY <1>2, <3>1
  <2>4. q[i] \notin Done(i - 1)
    <3>1. \A k \in 1 .. i - 1 : k \in 1 .. n /\ k # i
      BY <1>2
    <3> QED
      BY <1>2, <3>1
  <2> HIDE DEF Done
  <2>5. /\ DispatchOne(q[i], x) \in Dispatches
        /\ Placed(cores, ram, e, R, Done(i - 1) \cup {q[i]}, DispatchOne(q[i], x))
    BY <2>1, <2>2, <2>3, <2>4, DispatchOneKeeps
  <2> QED
    BY <2>1, <2>3, <2>5 DEF DispatchTo
<1> HIDE DEF I
<1>5. Dispatching!Folded(n, base, q) \in I[n]
  <2>1. DOMAIN q = 1 .. n
    BY <1>2
  <2> HIDE DEF base
  <2> QED
    BY <1>2, <1>3, <1>4, <2>1, Dispatching!FoldKeeps
<1>6. Dispatching!Folded(n, base, q) = Dispatch(S, cores, ram, e)
  BY <1>1 DEF Dispatching!Folded, Dispatch, DispatchTo, FoldLeft, Dispatching!FoldLeft,
         MapThenFoldSet, Dispatching!MapThenFoldSet, Max, Dispatching!Max
<1>7. n \in 0 .. n /\ Done(n) \subseteq S
  BY <1>2
<1>8. d \in Dispatches /\ Placed(cores, ram, e, R, Done(n), d)
  BY <1>5, <1>6, <1>7 DEF I
<1> QED
  BY <1>7, <1>8 DEF Placed

-------------------------------------------------------------------------------
(* The dependencies between workunits *)

\* A workunit without a task is no task and is of one kind.
LEMMA PartsAreDistinct ==
    /\ PreOverhead \notin Tasks /\ PreFileCopies \notin Tasks /\ PostFileCopies \notin Tasks
    /\ Cleanup \notin Tasks /\ PostOverhead \notin Tasks
    /\ PreOverhead # PreFileCopies /\ PreOverhead # PostFileCopies /\ PreOverhead # Cleanup
    /\ PreOverhead # PostOverhead /\ PreFileCopies # PostFileCopies /\ PreFileCopies # Cleanup
    /\ PreFileCopies # PostOverhead /\ PostFileCopies # Cleanup /\ PostFileCopies # PostOverhead
    /\ Cleanup # PostOverhead
<1>1. NoTask \cap Tasks = {}
  BY JobAssumption
<1>2. PICK q : q = <<PreOverhead, PreFileCopies, PostFileCopies, Cleanup, PostOverhead>> /\ IsInjective(q)
  BY JobAssumption
<1>3. \A i, j \in 1 .. 5 : q[i] = q[j] => i = j
  BY <1>2 DEF IsInjective
<1>4. /\ q[1] # q[2] /\ q[1] # q[3] /\ q[1] # q[4] /\ q[1] # q[5] /\ q[2] # q[3] /\ q[2] # q[4]
      /\ q[2] # q[5] /\ q[3] # q[4] /\ q[3] # q[5] /\ q[4] # q[5]
  BY <1>3
<1>5. /\ q[1] = PreOverhead /\ q[2] = PreFileCopies /\ q[3] = PostFileCopies
      /\ q[4] = Cleanup /\ q[5] = PostOverhead
  BY <1>2
<1>6. /\ PreOverhead \notin Tasks /\ PreFileCopies \notin Tasks /\ PostFileCopies \notin Tasks
      /\ Cleanup \notin Tasks /\ PostOverhead \notin Tasks
  BY <1>1 DEF NoTask
<1> QED
  BY <1>4, <1>5, <1>6

LEMMA StagesOfParts ==
    /\ StageOf(PreOverhead) = 0 /\ StageOf(PreFileCopies) = 1 /\ StageOf(PostFileCopies) = 3
    /\ StageOf(Cleanup) = 4 /\ StageOf(PostOverhead) = 5
    /\ \A t \in Tasks : StageOf(t) = 2
<1>1. StageOf(PreOverhead) = 0
  BY PartsAreDistinct DEF StageOf
<1>2. StageOf(PreFileCopies) = 1
  BY PartsAreDistinct DEF StageOf
<1>3. StageOf(PostFileCopies) = 3
  BY PartsAreDistinct DEF StageOf
<1>4. StageOf(Cleanup) = 4
  BY PartsAreDistinct DEF StageOf
<1>5. StageOf(PostOverhead) = 5
  BY PartsAreDistinct DEF StageOf
<1>6. ASSUME NEW t \in Tasks PROVE StageOf(t) = 2
  BY PartsAreDistinct DEF StageOf
<1> QED
  BY <1>1, <1>2, <1>3, <1>4, <1>5, <1>6

\* The dependencies that order the stages.
LEMMA StagesAreLinked ==
    ASSUME parts \in SUBSET NoTask
    PROVE  /\ PreOverhead \in parts =>
                \A x \in JobWorkunits \ {PreOverhead} : <<PreOverhead, x>> \in JobDependencies
           /\ PostOverhead \in parts =>
                \A x \in JobWorkunits \ {PostOverhead} : <<x, PostOverhead>> \in JobDependencies
           /\ PreFileCopies \in parts => \A t \in Tasks : <<PreFileCopies, t>> \in JobDependencies
           /\ PostFileCopies \in parts => \A t \in Tasks : <<t, PostFileCopies>> \in JobDependencies
           /\ PostFileCopies \notin parts /\ Cleanup \in parts =>
                \A t \in Tasks : <<t, Cleanup>> \in JobDependencies
           /\ PostFileCopies \in parts /\ Cleanup \in parts =>
                <<PostFileCopies, Cleanup>> \in JobDependencies
           /\ PreFileCopies \in parts /\ Tasks = {} /\ PostFileCopies \in parts =>
                <<PreFileCopies, PostFileCopies>> \in JobDependencies
           /\ PreFileCopies \in parts /\ Tasks = {} /\ PostFileCopies \notin parts /\ Cleanup \in parts =>
                <<PreFileCopies, Cleanup>> \in JobDependencies
<1>1. StageDependencies \subseteq JobDependencies /\ OverheadDependencies \subseteq JobDependencies
  BY DEF JobDependencies
<1>2. ASSUME PreOverhead \in parts, NEW x \in JobWorkunits \ {PreOverhead}
      PROVE  <<PreOverhead, x>> \in OverheadDependencies
  BY <1>2, PartsAreDistinct DEF OverheadDependencies, JobWorkunits
<1>3. ASSUME PostOverhead \in parts, NEW x \in JobWorkunits \ {PostOverhead}
      PROVE  <<x, PostOverhead>> \in OverheadDependencies
  BY <1>3, PartsAreDistinct DEF OverheadDependencies, JobWorkunits
<1>4. ASSUME PreFileCopies \in parts, NEW t \in Tasks PROVE <<PreFileCopies, t>> \in StageDependencies
  BY <1>4 DEF StageDependencies, AfterPreFileCopies, Else
<1>5. ASSUME PostFileCopies \in parts, NEW t \in Tasks PROVE <<t, PostFileCopies>> \in StageDependencies
  BY <1>5 DEF StageDependencies, AfterTasks, Else
<1>6. ASSUME PostFileCopies \notin parts, Cleanup \in parts, NEW t \in Tasks
      PROVE  <<t, Cleanup>> \in StageDependencies
  BY <1>6 DEF StageDependencies, AfterTasks, Else
<1>7. ASSUME PostFileCopies \in parts, Cleanup \in parts
      PROVE  <<PostFileCopies, Cleanup>> \in StageDependencies
  BY <1>7 DEF StageDependencies
<1>8. ASSUME PreFileCopies \in parts, Tasks = {}, PostFileCopies \in parts
      PROVE  <<PreFileCopies, PostFileCopies>> \in StageDependencies
  BY <1>8 DEF StageDependencies, AfterPreFileCopies, AfterTasks, Else
<1>9. ASSUME PreFileCopies \in parts, Tasks = {}, PostFileCopies \notin parts, Cleanup \in parts
      PROVE  <<PreFileCopies, Cleanup>> \in StageDependencies
  BY <1>9 DEF StageDependencies, AfterPreFileCopies, AfterTasks, Else
<1> QED
  BY <1>1, <1>2, <1>3, <1>4, <1>5, <1>6, <1>7, <1>8, <1>9

\* Workunits of earlier stages are behind a workunit: in any set that holds what its elements
\* and w depend on.
LEMMA StagesPrecede ==
    ASSUME parts \in SUBSET NoTask, NEW v \in JobWorkunits, NEW w \in JobWorkunits,
           StageOf(v) < StageOf(w),
           NEW C, \A d \in JobDependencies : d[2] \in C \cup {w} => d[1] \in C
    PROVE  v \in C
<1> DEFINE D == JobDependencies
<1>0. \A x, y : <<x, y>> \in D /\ (y \in C \/ y = w) => x \in C
  <2> TAKE x, y
  <2>1. <<x, y>>[1] = x /\ <<x, y>>[2] = y
    OBVIOUS
  <2> QED
    BY <2>1
<1> HIDE DEF D
<1>1. /\ PreOverhead \in parts => \A x \in JobWorkunits \ {PreOverhead} : <<PreOverhead, x>> \in D
      /\ PostOverhead \in parts => \A x \in JobWorkunits \ {PostOverhead} : <<x, PostOverhead>> \in D
      /\ PreFileCopies \in parts => \A t \in Tasks : <<PreFileCopies, t>> \in D
      /\ PostFileCopies \in parts => \A t \in Tasks : <<t, PostFileCopies>> \in D
      /\ PostFileCopies \notin parts /\ Cleanup \in parts => \A t \in Tasks : <<t, Cleanup>> \in D
      /\ PostFileCopies \in parts /\ Cleanup \in parts => <<PostFileCopies, Cleanup>> \in D
      /\ PreFileCopies \in parts /\ Tasks = {} /\ PostFileCopies \in parts =>
           <<PreFileCopies, PostFileCopies>> \in D
      /\ PreFileCopies \in parts /\ Tasks = {} /\ PostFileCopies \notin parts /\ Cleanup \in parts =>
           <<PreFileCopies, Cleanup>> \in D
  BY StagesAreLinked DEF D
<1>2. v # w
  <2>1. \A x \in JobWorkunits : StageOf(x) \in Nat
    BY StagesOfParts DEF JobWorkunits, NoTask
  <2> QED
    BY <2>1
<1>3. \A x \in JobWorkunits : x \in Tasks \/ (x \in parts /\ x \in {PreOverhead, PreFileCopies,
                                              PostFileCopies, Cleanup, PostOverhead})
  BY DEF JobWorkunits, NoTask
<1>4. CASE w = PostOverhead
  <2>1. w \in parts
    BY <1>3, <1>4, PartsAreDistinct
  <2> QED
    BY <1>0, <1>1, <1>2, <1>4, <2>1
<1>5. CASE v = PreOverhead
  <2>1. v \in parts
    BY <1>3, <1>5, PartsAreDistinct
  <2> QED
    BY <1>0, <1>1, <1>2, <1>5, <2>1
<1>6. CASE v \in Tasks /\ w = PostFileCopies
  <2>1. w \in parts
    BY <1>3, <1>6, PartsAreDistinct
  <2> QED
    BY <1>0, <1>1, <1>6, <2>1
<1>7. CASE v \in Tasks /\ w = Cleanup
  <2>1. w \in parts
    BY <1>3, <1>7, PartsAreDistinct
  <2>2. CASE PostFileCopies \in parts
    <3>1. PostFileCopies \in C
      BY <1>0, <1>1, <1>7, <2>1, <2>2
    <3> QED
      BY <1>0, <1>1, <1>7, <2>2, <3>1
  <2>3. CASE PostFileCopies \notin parts
    BY <1>0, <1>1, <1>7, <2>1, <2>3
  <2> QED
    BY <2>2, <2>3
<1>8. CASE v = PostFileCopies /\ w = Cleanup
  <2>1. v \in parts /\ w \in parts
    BY <1>3, <1>8, PartsAreDistinct
  <2> QED
    BY <1>0, <1>1, <1>8, <2>1
<1>9. CASE v = PreFileCopies /\ w \in Tasks
  <2>1. v \in parts
    BY <1>3, <1>9, PartsAreDistinct
  <2> QED
    BY <1>0, <1>1, <1>9, <2>1
<1>10. ASSUME v = PreFileCopies, PostFileCopies \in parts, PostFileCopies \in C \/ PostFileCopies = w
       PROVE  v \in C
  <2>1. v \in parts
    BY <1>3, <1>10, PartsAreDistinct
  <2>2. CASE Tasks = {}
    BY <1>0, <1>1, <1>10, <2>1, <2>2
  <2>3. CASE Tasks # {}
    <3>1. PICK t \in Tasks : TRUE
      BY <2>3
    <3>2. t \in C
      BY <1>0, <1>1, <1>10
    <3> QED
      BY <1>0, <1>1, <1>10, <2>1, <3>2
  <2> QED
    BY <2>2, <2>3
<1>11. CASE v = PreFileCopies /\ w = PostFileCopies
  <2>1. w \in parts
    BY <1>3, <1>11, PartsAreDistinct
  <2> QED
    BY <1>10, <1>11, <2>1
<1>12. CASE v = PreFileCopies /\ w = Cleanup
  <2>1. w \in parts /\ v \in parts
    BY <1>3, <1>12, PartsAreDistinct
  <2>2. CASE PostFileCopies \in parts
    <3>1. PostFileCopies \in C
      BY <1>0, <1>1, <1>12, <2>1, <2>2
    <3> QED
      BY <1>10, <1>12, <2>2, <3>1
  <2>3. CASE PostFileCopies \notin parts /\ Tasks = {}
    BY <1>0, <1>1, <1>12, <2>1, <2>3
  <2>4. CASE PostFileCopies \notin parts /\ Tasks # {}
    <3>1. PICK t \in Tasks : TRUE
      BY <2>4
    <3>2. t \in C
      BY <1>0, <1>1, <1>12, <2>1, <2>4
    <3> QED
      BY <1>0, <1>1, <1>12, <2>1, <3>2
  <2> QED
    BY <2>2, <2>3, <2>4
<1>13. \/ w = PostOverhead \/ v = PreOverhead \/ (v \in Tasks /\ w = PostFileCopies)
       \/ (v \in Tasks /\ w = Cleanup) \/ (v = PostFileCopies /\ w = Cleanup)
       \/ (v = PreFileCopies /\ w \in Tasks) \/ (v = PreFileCopies /\ w = PostFileCopies)
       \/ (v = PreFileCopies /\ w = Cleanup)
  BY <1>3, StagesOfParts
<1> QED
  BY <1>4, <1>5, <1>6, <1>7, <1>8, <1>9, <1>11, <1>12, <1>13

\* They are between the workunits of the job, and finite in number.
LEMMA DependenciesAreFinite ==
    ASSUME parts \in SUBSET NoTask
    PROVE  /\ JobDependencies \in SUBSET (JobWorkunits \X JobWorkunits)
           /\ IsFiniteSet(JobDependencies) /\ \A S \in SUBSET JobDependencies : IsFiniteSet(S)
           /\ JobWorkunits \in SUBSET Workunits
<1>1. JobWorkunits \in SUBSET Workunits
  BY DEF JobWorkunits, Workunits
<1>2. StageDependencies \in SUBSET (JobWorkunits \X JobWorkunits)
  BY DEF StageDependencies, AfterPreFileCopies, AfterTasks, Else, JobWorkunits
<1>3. OverheadDependencies \in SUBSET (JobWorkunits \X JobWorkunits)
  BY DEF OverheadDependencies, JobWorkunits
<1>4. JobDependencies \in SUBSET (JobWorkunits \X JobWorkunits)
  BY <1>2, <1>3 DEF JobDependencies, JobWorkunits
<1>5. IsFiniteSet(JobWorkunits \X JobWorkunits)
  BY <1>1, WorkunitsAreFinite, FS_Product
<1>6. IsFiniteSet(JobDependencies)
  BY <1>4, <1>5, FS_Subset
<1> QED
  BY <1>1, <1>4, <1>6, FS_Subset

-------------------------------------------------------------------------------
(* The main loop *)

\* What the main loop makes of the resources and the executors.
Looped(rdy, nonRdy, rng, cores, ram, e) ==
    /\ nonReady' = nonRdy /\ ready' \in SUBSET rdy /\ running' = rng \cup (rdy \ ready')
    /\ coreAvailabilities' \in [Hosts -> Amounts] /\ ramAvailabilities' \in [Hosts -> Nat]
    /\ executor' \in [Workunits -> Executors] /\ Housed'
    /\ \A w \in Workunits : w \notin rdy \ ready' => executor'[w] = e[w]
    /\ \A w \in rdy \ ready' : executor'[w].phase = "started"
    /\ \A h \in Hosts :
          /\ coreAvailabilities'[h] + HeldCores(h)' = cores[h] + CoresHeld(e, rng, h)
          /\ ramAvailabilities'[h] + HeldRam(h)' = ram[h] + RamHeld(e, rng, h)

LEMMA LoopAgainKeeps ==
    ASSUME NEW rdy \in SUBSET Workunits, NEW nonRdy \in SUBSET Workunits, NEW rng \in SUBSET Workunits,
           rng \cap rdy = {},
           NEW cores \in [Hosts -> Amounts], NEW ram \in [Hosts -> Nat], NEW e \in [Workunits -> Executors],
           HousedIn(e, rng), isOn \in SUBSET Hosts, LoopAgain(rdy, nonRdy, rng, cores, ram, e)
    PROVE  Looped(rdy, nonRdy, rng, cores, ram, e)
<1>1. PICK d : d = Dispatch(rdy, cores, ram, e)
  OBVIOUS
<1>2. /\ ready' = rdy \ d.placed /\ nonReady' = nonRdy /\ running' = rng \cup d.placed
      /\ coreAvailabilities' = d.cores /\ ramAvailabilities' = d.ram /\ executor' = d.started
  BY <1>1 DEF LoopAgain
<1>3. d \in Dispatches /\ Placed(cores, ram, e, rng, rdy, d)
  BY <1>1, DispatchPlaces
<1>4. d.placed \subseteq rdy /\ rdy \ ready' = d.placed
  BY <1>2, <1>3 DEF Placed
<1>5. /\ coreAvailabilities' \in [Hosts -> Amounts] /\ ramAvailabilities' \in [Hosts -> Nat]
      /\ executor' \in [Workunits -> Executors]
  BY <1>2, <1>3 DEF Dispatches
<1>6. \A w \in Workunits : w \notin rdy \ ready' => executor'[w] = e[w]
  BY <1>2, <1>3, <1>4 DEF Placed
<1>7. \A w \in rdy \ ready' : executor'[w].phase = "started" /\ executor'[w].host \in Hosts
                          /\ executor'[w].files = {}
  BY <1>2, <1>3, <1>4 DEF Placed
<1>8. HousedIn(executor', running')
  <2>1. ASSUME NEW w \in Workunits
        PROVE  /\ w \in running' <=> executor'[w].phase # "none"
               /\ w \notin running' => executor'[w] = NoExecutor
               /\ w \in running' => executor'[w].host \in Hosts
               /\ executor'[w].phase = "started" => executor'[w].files = {}
    <3>1. CASE w \in rdy \ ready'
      BY <1>2, <1>4, <1>7, <3>1
    <3>2. CASE w \notin rdy \ ready'
      <4>1. executor'[w] = e[w] /\ (w \in running' <=> w \in rng)
        BY <1>2, <1>4, <1>6, <3>2
      <4> QED
        BY <4>1 DEF HousedIn
    <3> QED
      BY <3>1, <3>2
  <2> QED
    BY <2>1 DEF HousedIn
<1>9. ASSUME NEW h \in Hosts
      PROVE  /\ coreAvailabilities'[h] + HeldCores(h)' = cores[h] + CoresHeld(e, rng, h)
             /\ ramAvailabilities'[h] + HeldRam(h)' = ram[h] + RamHeld(e, rng, h)
  <2>1. /\ d.cores[h] + CoresHeld(d.started, rng \cup d.placed, h) = cores[h] + CoresHeld(e, rng, h)
        /\ d.ram[h] + RamHeld(d.started, rng \cup d.placed, h) = ram[h] + RamHeld(e, rng, h)
    BY <1>3 DEF Placed
  <2>2. /\ HeldCores(h)' = CoresHeld(executor', running', h)
        /\ HeldRam(h)' = RamHeld(executor', running', h)
    BY DEF HeldCores, HeldRam, RunningOn, CoresHeld, RamHeld, HeldOn
  <2> QED
    BY <1>2, <2>1, <2>2
<1> QED
  BY <1>2, <1>4, <1>5, <1>6, <1>7, <1>8, <1>9 DEF Housed, Looped

\* What the executors of the workunits that run hold.
LEMMA HeldIsHeld ==
    \A h : HeldCores(h) = CoresHeld(executor, running, h) /\ HeldRam(h) = RamHeld(executor, running, h)
  BY DEF HeldCores, HeldRam, RunningOn, CoresHeld, RamHeld, HeldOn

LEMMA NoExecutorIsOne ==
    /\ NoExecutor \in Executors /\ NoExecutor.phase = "none" /\ NoExecutor.files = {}
    /\ NoExecutor.cores = 0
  BY DEF NoExecutor, Executors, Phases

\* The executor of w is gone, and what it held can be had again.
LEMMA FreedIsAvailable ==
    ASSUME Types, Housed, Accounted, NEW w \in running
    PROVE  /\ executor[w].host \in Hosts
           /\ CoresFreed(w) \in [Hosts -> Amounts] /\ RamFreed(w) \in [Hosts -> Nat]
           /\ Forgotten(w) \in [Workunits -> Executors] /\ HousedIn(Forgotten(w), running \ {w})
           /\ \A h \in Hosts :
                 /\ h \notin damaged => CoresFreed(w)[h] + CoresHeld(Forgotten(w), running \ {w}, h) = capacity[h]
                 /\ RamFreed(w)[h] + RamHeld(Forgotten(w), running \ {w}, h) = HostRam[h]
<1>1. /\ executor \in [Workunits -> Executors] /\ running \in SUBSET Workunits /\ w \in Workunits
      /\ coreAvailabilities \in [Hosts -> Amounts] /\ ramAvailabilities \in [Hosts -> Nat]
  BY DEF Types
<1>2. PICK h0, n, r : h0 = executor[w].host /\ n = executor[w].cores /\ r = RequiredRam(w)
  OBVIOUS
<1>3. h0 \in Hosts
  BY <1>1, <1>2 DEF Housed, HousedIn
<1>4. n \in Nat /\ r \in Nat /\ WordSize \in Nat /\ WordSize > 0
  <2>1. n \in Nat
    BY <1>1, <1>2 DEF Executors
  <2>2. r \in Nat
    BY <1>1, <1>2, NeedsAreNumbers
  <2>3. PICK k \in Hosts : HostCores[k] \in 1 .. WordSize - 1
    BY HostsAssumption
  <2> QED
    BY <2>1, <2>2, <2>3, HostsAssumption
<1>5. /\ CoresFreed(w) = [coreAvailabilities EXCEPT ![h0] = (@ + n) % WordSize]
      /\ RamFreed(w) = [ramAvailabilities EXCEPT ![h0] = @ + r]
      /\ Forgotten(w) = [executor EXCEPT ![w] = NoExecutor]
  BY <1>2 DEF CoresFreed, RamFreed, Forgotten
<1>6. \A h \in Hosts : coreAvailabilities[h] \in Nat /\ ramAvailabilities[h] \in Nat
  BY <1>1, <1>4 DEF Amounts
<1>7. CoresFreed(w) \in [Hosts -> Amounts] /\ RamFreed(w) \in [Hosts -> Nat]
  <2>1. (coreAvailabilities[h0] + n) % WordSize \in Amounts
    BY <1>3, <1>4, <1>6 DEF Amounts
  <2>2. ramAvailabilities[h0] + r \in Nat
    BY <1>3, <1>4, <1>6
  <2> QED
    BY <1>1, <1>5, <2>1, <2>2
<1>8. Forgotten(w) \in [Workunits -> Executors] /\ HousedIn(Forgotten(w), running \ {w})
  <2>1. PICK f : f = Forgotten(w)
    OBVIOUS
  <2>2. f \in [Workunits -> Executors] /\ f[w] = NoExecutor
        /\ \A v \in Workunits \ {w} : f[v] = executor[v]
    BY <1>1, <1>5, <2>1, NoExecutorIsOne
  <2>3. HousedIn(f, running \ {w})
    BY <1>1, <2>2, NoExecutorIsOne DEF Housed, HousedIn
  <2> QED
    BY <2>1, <2>2, <2>3
<1>9. ASSUME NEW h \in Hosts
      PROVE  /\ h \notin damaged => CoresFreed(w)[h] + CoresHeld(Forgotten(w), running \ {w}, h) = capacity[h]
             /\ RamFreed(w)[h] + RamHeld(Forgotten(w), running \ {w}, h) = HostRam[h]
  <2>1. PICK e, f, R : e = executor /\ f = Forgotten(w) /\ R = running
    OBVIOUS
  <2>2. Counts(e) /\ Counts(f)
    BY <1>1, <1>8, <2>1 DEF Counts, Executors
  <2>3. R \in SUBSET Workunits /\ w \in R /\ R \ {w} \in SUBSET Workunits
    BY <1>1, <2>1
  <2>4. CoresHeld(f, R \ {w}, h) = CoresHeld(e, R \ {w}, h) /\ RamHeld(f, R \ {w}, h) = RamHeld(e, R \ {w}, h)
    <3>1. \A v \in R \ {w} : f[v].cores = e[v].cores /\ f[v].host = e[v].host
      BY <1>1, <1>5, <2>1
    <3> QED
      BY <2>2, <2>3, <3>1, HeldAgrees
  <2>5. /\ CoresHeld(e, R, h) = CoresHeld(e, R \ {w}, h) + CoresOn(e, w, h)
        /\ RamHeld(e, R, h) = RamHeld(e, R \ {w}, h) + RamOn(e, w, h)
    BY <2>2, <2>3, OneHolds
  <2>6. CoresHeld(e, R \ {w}, h) \in Nat /\ RamHeld(e, R \ {w}, h) \in Nat
    BY <2>2, <2>3, HeldIsNumber
  <2>7. PICK c, m, x, y : c = coreAvailabilities[h] /\ m = ramAvailabilities[h]
                          /\ x = CoresHeld(e, R \ {w}, h) /\ y = RamHeld(e, R \ {w}, h)
    OBVIOUS
  <2>8. c \in Nat /\ m \in Nat /\ x \in Nat /\ y \in Nat
    BY <1>6, <2>6, <2>7
  <2>9. /\ capacity[h] \in Amounts
        /\ h \notin damaged => c + (x + CoresOn(e, w, h)) = capacity[h]
        /\ m + (y + RamOn(e, w, h)) = HostRam[h]
    BY <2>1, <2>5, <2>7, HeldIsHeld DEF Accounted
  <2>10. CASE h = h0
    <3>1. CoresOn(e, w, h) = n /\ RamOn(e, w, h) = r
      BY <1>2, <2>1, <2>10 DEF CoresOn, RamOn
    <3>2. CoresFreed(w)[h] = (c + n) % WordSize /\ RamFreed(w)[h] = m + r
      BY <1>1, <1>3, <1>5, <2>7, <2>10
    <3>3. (m + r) + y = HostRam[h]
      BY <1>4, <2>8, <2>9, <3>1
    <3>4. ASSUME h \notin damaged PROVE (c + n) % WordSize = c + n /\ (c + n) + x = capacity[h]
      <4>1. c + (x + n) = capacity[h] /\ capacity[h] \in Amounts
        BY <2>9, <3>1, <3>4
      <4>2. c + n \in 0 .. WordSize - 1 /\ (c + n) + x = capacity[h]
        BY <1>4, <2>8, <4>1 DEF Amounts
      <4> QED
        BY <1>4, <4>2
    <3> QED
      BY <2>1, <2>4, <2>7, <3>2, <3>3, <3>4
  <2>11. CASE h # h0
    <3>1. CoresOn(e, w, h) = 0 /\ RamOn(e, w, h) = 0
      BY <1>2, <2>1, <2>11 DEF CoresOn, RamOn
    <3>2. CoresFreed(w)[h] = c /\ RamFreed(w)[h] = m
      BY <1>1, <1>5, <2>7, <2>11
    <3> QED
      BY <2>1, <2>4, <2>7, <2>8, <2>9, <3>1, <3>2
  <2> QED
    BY <2>10, <2>11
<1> QED
  BY <1>2, <1>3, <1>7, <1>8, <1>9

-------------------------------------------------------------------------------
(* The order of the stages *)

\* What a workunit that does not wait depends on is completed.
LEMMA NothingIsPending ==
    ASSUME Types, Sorted, NEW d \in JobDependencies, d[2] \notin nonReady
    PROVE  d[1] \in completed
<1>1. d \in JobWorkunits \X JobWorkunits
  BY DependenciesAreFinite DEF Types
<1>2. d[2] \in JobWorkunits /\ d \in dependencies
  BY <1>1 DEF Sorted
<1>3. Pending(d[2]) = {}
  BY <1>2 DEF Sorted
<1> QED
  BY <1>2, <1>3 DEF Pending

LEMMA RunningFollows ==
    ASSUME Types, Sorted, NEW w \in JobWorkunits, w \notin nonReady, NEW v \in JobWorkunits,
           StageOf(v) < StageOf(w)
    PROVE  v \in completed
<1>1. ASSUME NEW d \in JobDependencies, d[2] \in completed \cup {w} PROVE d[1] \in completed
  <2>1. d[2] \notin nonReady
    BY <1>1 DEF Sorted
  <2> QED
    BY <2>1, NothingIsPending
<1>2. parts \in SUBSET NoTask
  BY DEF Types
<1> QED
  BY <1>1, <1>2, StagesPrecede

LEMMA StagesAreNumbers ==
    ASSUME parts \in SUBSET NoTask, NEW w \in JobWorkunits
    PROVE  StageOf(w) \in Nat
<1>1. CASE w \in Tasks
  BY <1>1, StagesOfParts
<1>2. CASE w \in NoTask
  <2>1. w \in {PreOverhead, PreFileCopies, PostFileCopies, Cleanup, PostOverhead}
    BY <1>2 DEF NoTask
  <2>2. StageOf(w) \in {0, 1, 3, 4, 5}
    BY <2>1, StagesOfParts
  <2> QED
    BY <2>2
<1> QED
  BY <1>1, <1>2 DEF JobWorkunits

\* Those that run are of one stage.
LEMMA OneStageRuns ==
    ASSUME Types, Sorted, NEW v \in running, NEW w \in running
    PROVE  StageOf(v) = StageOf(w)
<1>1. /\ v \in JobWorkunits /\ v \notin nonReady /\ v \notin completed
      /\ w \in JobWorkunits /\ w \notin nonReady /\ w \notin completed
  BY DEF Sorted
<1>2. ~(StageOf(v) < StageOf(w)) /\ ~(StageOf(w) < StageOf(v))
  BY <1>1, RunningFollows
<1>3. StageOf(v) \in Nat /\ StageOf(w) \in Nat
  BY <1>1, StagesAreNumbers DEF Types
<1> QED
  BY <1>2, <1>3

\* The copies of files run alone.
LEMMA FileCopiesRunAlone ==
    ASSUME Types, Sorted, NEW w \in running
    PROVE  (running \ {w}) \cap {PreFileCopies, PostFileCopies} = {}
<1>1. SUFFICES ASSUME NEW v \in running, v # w, v \in {PreFileCopies, PostFileCopies} PROVE FALSE
  OBVIOUS
<1>2. StageOf(v) = StageOf(w)
  BY OneStageRuns
<1>3. w \in Tasks \/ w \in {PreOverhead, PreFileCopies, PostFileCopies, Cleanup, PostOverhead}
  BY DEF Types, Workunits, NoTask
<1> QED
  BY <1>1, <1>2, <1>3, StagesOfParts

\* The parents of a task that does not wait are completed.
LEMMA ParentsAreCompleted ==
    ASSUME Types, Sorted, NEW t \in Tasks, t \notin nonReady, NEW p \in Parents[t]
    PROVE  p \in Tasks /\ p \in completed
<1>1. p \in Tasks
  BY ParentsAssumption
<1>2. PICK d : d = <<p, t>>
  OBVIOUS
<1>3. d \in JobDependencies /\ d[1] = p /\ d[2] = t
  BY <1>1, <1>2 DEF JobDependencies
<1> QED
  BY <1>1, <1>3, NothingIsPending

-------------------------------------------------------------------------------
(* Messages *)

LEMMA MessagesAreAbout ==
    \A m \in Messages : m.type # "HostOn" => m.workunit \in Workunits /\ m.type \in {"Done", "Failed", "Crashed"}
  BY DEF Messages, About

\* What was said of an executor stays true as long as nothing happens to the executor.
Undisturbed(w, e, s, f, u) ==
    e[w].phase \in {"sent", "reported"} =>
        /\ f[w].phase = e[w].phase
        /\ w \in Tasks /\ s[w] = "TASK_COMPLETED" => u[w] = "TASK_COMPLETED"

LEMMA ReportedStays ==
    ASSUME NEW e, NEW s, NEW f, NEW u, NEW m, Reported(m, e, s), Undisturbed(m.workunit, e, s, f, u)
    PROVE  Reported(m, f, u)
  BY DEF Reported, Undisturbed

LEMMA PostedStays ==
    ASSUME NEW q \in Seq(Messages), NEW e, NEW s, PostedIn(q, e, s), NEW f, NEW u,
           \A w \in Workunits : Undisturbed(w, e, s, f, u)
    PROVE  PostedIn(q, f, u)
<1>1. ASSUME NEW i \in DOMAIN q, q[i].type # "HostOn" PROVE Reported(q[i], f, u)
  <2>1. q[i] \in Messages
    OBVIOUS
  <2>2. q[i].workunit \in Workunits
    BY <1>1, <2>1, MessagesAreAbout
  <2>3. Reported(q[i], e, s)
    BY <1>1 DEF PostedIn
  <2> QED
    BY <2>2, <2>3, ReportedStays
<1> QED
  BY <1>1 DEF PostedIn

LEMMA NothingNewIsSaid ==
    ASSUME Types, Posted, mailbox' = mailbox,
           \A v \in Workunits : Undisturbed(v, executor, taskState, executor', taskState')
    PROVE  Posted'
<1>1. PICK q, e, s, f, u : q = mailbox /\ e = executor /\ s = taskState /\ f = executor' /\ u = taskState'
  OBVIOUS
<1>2. q \in Seq(Messages) /\ PostedIn(q, e, s) /\ \A v \in Workunits : Undisturbed(v, e, s, f, u)
  BY <1>1 DEF Posted, Types
<1>3. PostedIn(q, f, u)
  BY <1>2, PostedStays
<1> QED
  BY <1>1, <1>3 DEF Posted

\* The same when the first message is taken out.
LEMMA PostedTail ==
    ASSUME NEW q \in Seq(Messages), q # <<>>, NEW e, NEW s, PostedIn(q, e, s), NEW f, NEW u,
           \A w \in Workunits : \/ Head(q).type # "HostOn" /\ w = Head(q).workunit
                                \/ Undisturbed(w, e, s, f, u)
    PROVE  Tail(q) \in Seq(Messages) /\ PostedIn(Tail(q), f, u)
<1>1. PICK r : r = Tail(q)
  OBVIOUS
<1>2. r \in Seq(Messages) /\ Len(q) \in Nat /\ DOMAIN q = 1 .. Len(q) /\ Head(q) = q[1]
      /\ DOMAIN r = 1 .. Len(q) - 1 /\ 1 \in DOMAIN q
      /\ \A i \in DOMAIN r : i + 1 \in DOMAIN q /\ i + 1 # 1 /\ r[i] = q[i + 1]
  BY <1>1
<1>3. ASSUME NEW i \in DOMAIN r, r[i].type # "HostOn" PROVE Reported(r[i], f, u)
  <2>1. PICK k, m : k = i + 1 /\ m = q[k] /\ k \in DOMAIN q /\ k # 1 /\ r[i] = m /\ m \in Messages
    BY <1>2
  <2>2. m.workunit \in Workunits /\ m.type # "HostOn"
    BY <1>3, <2>1, MessagesAreAbout
  <2>3. Reported(m, e, s)
    BY <2>1, <2>2 DEF PostedIn
  <2>4. Head(q).type # "HostOn" => m.workunit # Head(q).workunit
    BY <1>2, <2>1, <2>2 DEF PostedIn
  <2> QED
    BY <2>1, <2>2, <2>3, <2>4, ReportedStays
<1>4. ASSUME NEW i \in DOMAIN r, NEW j \in DOMAIN r, r[i].type # "HostOn", r[j].type # "HostOn", i # j
      PROVE  r[i].workunit # r[j].workunit
  <2>1. i + 1 # j + 1
    BY <1>2, <1>4
  <2> QED
    BY <1>2, <1>4, <2>1 DEF PostedIn
<1> QED
  BY <1>1, <1>2, <1>3, <1>4 DEF PostedIn

\* A message that a host is on says nothing of the executors.
LEMMA PostedHostOn ==
    ASSUME NEW q \in Seq(Messages), NEW e, NEW s, PostedIn(q, e, s), NEW m \in Messages, m.type = "HostOn"
    PROVE  Append(q, m) \in Seq(Messages) /\ PostedIn(Append(q, m), e, s)
<1>1. PICK r : r = Append(q, m)
  OBVIOUS
<1>2. r \in Seq(Messages) /\ Len(q) \in Nat /\ DOMAIN q = 1 .. Len(q) /\ DOMAIN r = 1 .. Len(q) + 1
      /\ r[Len(q) + 1] = m /\ \A i \in DOMAIN r : i = Len(q) + 1 \/ (i \in DOMAIN q /\ r[i] = q[i])
  BY <1>1
<1>3. \A i \in DOMAIN r : r[i].type # "HostOn" => i \in DOMAIN q /\ r[i] = q[i]
  BY <1>2
<1> QED
  BY <1>1, <1>2, <1>3 DEF PostedIn

\* A new message is about an executor there is none about.
LEMMA PostedAppend ==
    ASSUME NEW q \in Seq(Messages), NEW e, NEW s, PostedIn(q, e, s), NEW f, NEW m \in About,
           e[m.workunit].phase \notin {"sent", "reported"}, Reported(m, f, s),
           \A w \in Workunits \ {m.workunit} : f[w] = e[w]
    PROVE  Append(q, m) \in Seq(Messages) /\ PostedIn(Append(q, m), f, s)
<1>1. PICK r, n : r = Append(q, m) /\ n = Len(q) + 1
  OBVIOUS
<1>2. m \in Messages /\ m.type # "HostOn"
  BY DEF Messages, About
<1>3. r \in Seq(Messages) /\ DOMAIN r = 1 .. n
      /\ r[n] = m /\ \A i \in DOMAIN r : i = n \/ (i \in DOMAIN q /\ r[i] = q[i])
  BY <1>1, <1>2
<1>4. ASSUME NEW i \in DOMAIN q, q[i].type # "HostOn"
      PROVE  q[i].workunit # m.workunit /\ Reported(q[i], f, s)
  <2>1. q[i] \in Messages /\ Reported(q[i], e, s)
    BY <1>4 DEF PostedIn
  <2>2. q[i].workunit \in Workunits
    BY <1>4, <2>1, MessagesAreAbout
  <2>3. q[i].workunit # m.workunit
    BY <2>1 DEF Reported
  <2>4. f[q[i].workunit] = e[q[i].workunit]
    BY <2>2, <2>3
  <2> QED
    BY <2>1, <2>3, <2>4 DEF Reported
<1>5. \A i \in DOMAIN r : r[i].type # "HostOn" => Reported(r[i], f, s)
  BY <1>3, <1>4
<1>6. ASSUME NEW i \in DOMAIN r, NEW j \in DOMAIN r, r[i].type # "HostOn", r[j].type # "HostOn", i # j
      PROVE  r[i].workunit # r[j].workunit
  <2>1. CASE i = n
    <3>1. j \in DOMAIN q /\ r[j] = q[j]
      BY <1>3, <1>6, <2>1
    <3> QED
      BY <1>3, <1>4, <1>6, <2>1, <3>1
  <2>2. CASE j = n
    <3>1. i \in DOMAIN q /\ r[i] = q[i]
      BY <1>3, <1>6, <2>2
    <3> QED
      BY <1>3, <1>4, <1>6, <2>2, <3>1
  <2>3. CASE i # n /\ j # n
    <3>1. i \in DOMAIN q /\ r[i] = q[i] /\ j \in DOMAIN q /\ r[j] = q[j]
      BY <1>3, <2>3
    <3> QED
      BY <1>6, <3>1 DEF PostedIn
  <2> QED
    BY <2>1, <2>2, <2>3
<1> QED
  BY <1>1, <1>3, <1>5, <1>6 DEF PostedIn

-------------------------------------------------------------------------------
(* The initial states and the start *)

LEMMA StatesOfTasks ==
    /\ InitialInternal \in [Tasks -> InternalStates]
    /\ \A t \in Tasks : /\ InitialInternal[t] \in {"TASK_NOT_READY", "TASK_READY"}
                        /\ InitialInternal[t] = "TASK_READY" <=> Parents[t] = {}
  BY DEF InitialInternal, InternalStates

LEMMA ExecutorInit ==
    ASSUME Init PROVE ExecutorInv
<1>1. Types
  <2>1. parts \in SUBSET NoTask
    BY JobAssumption DEF Init
  <2>2. coreAvailabilities \in [Hosts -> Amounts] /\ ramAvailabilities \in [Hosts -> Nat]
    <3>1. ASSUME NEW h \in Hosts PROVE 0 \in Amounts
      <4>1. HostCores[h] \in 1 .. WordSize - 1 /\ WordSize \in Nat
        BY HostsAssumption
      <4> QED
        BY <4>1 DEF Amounts
    <3> QED
      BY <3>1 DEF Init
  <2>3. executor \in [Workunits -> Executors]
    BY NoExecutorIsOne DEF Init
  <2>4. mailbox \in Seq(Messages)
    BY DEF Init
  <2>5. taskState \in [Tasks -> InternalStates]
    BY StatesOfTasks DEF Init
  <2>6. numPendingParents \in [Workunits -> Nat]
    BY DEF Init
  <2> QED
    BY <2>1, <2>2, <2>3, <2>4, <2>5, <2>6 DEF Init, Types, Lives
<1>2. LifeOf
  BY DEF Init, LifeOf, Fresh
<1>3. daemon = "new" /\ answer = "none"
  BY DEF Init
<1> QED
  BY <1>1, <1>2, <1>3 DEF ExecutorInv, EndedJobIsQuiet

\* The dependencies that createWorkunits finds for tasks in their first states.
LEMMA FirstDependencies ==
    ASSUME taskState = InitialInternal
    PROVE  Dependencies = JobDependencies
<1>1. TaskDependencies = {d \in Tasks \X Tasks : d[1] \in Parents[d[2]]}
  <2>1. ASSUME NEW d \in Tasks \X Tasks
        PROVE  taskState[d[2]] # "TASK_READY" /\ d[1] \in Parents[d[2]] <=> d[1] \in Parents[d[2]]
    <3>1. d[2] \in Tasks
      OBVIOUS
    <3> QED
      BY <3>1, StatesOfTasks
  <2> QED
    BY <2>1 DEF TaskDependencies
<1> QED
  BY <1>1 DEF Dependencies, JobDependencies

LEMMA CapacityIsAmount ==
    ASSUME capacity \in Requests, ValidResources
    PROVE  [h \in Hosts |-> Resolved(h)] \in [Hosts -> Amounts]
<1> SUFFICES ASSUME NEW h \in Hosts PROVE Resolved(h) \in Amounts
  OBVIOUS
<1>1. capacity[h] \in Nat \cup {AllCores} /\ HostCores[h] \in 1 .. WordSize - 1 /\ WordSize \in Nat
  BY HostsAssumption
<1>2. Resolved(h) \in Nat
  BY <1>1 DEF Resolved
<1>3. Resolved(h) <= HostCores[h]
  BY DEF ValidResources
<1> QED
  BY <1>1, <1>2, <1>3 DEF Amounts

LEMMA RejectedKeeps ==
    ASSUME ExecutorInv, Start, daemon' = "rejected" PROVE ExecutorInv'
<1>1. /\ UNCHANGED <<resourceVars, workunitVars, executor, dependencies, capacity>>
      /\ UNCHANGED <<parts, taskState, numCompletedTasks, mailbox, answer, scratchVars,
                     hostVars, damaged, aborted>>
      /\ daemon = "new"
  BY DEF Start
<1>2. Types'
  BY <1>1 DEF ExecutorInv, Types, Lives, Start, resourceVars, workunitVars, scratchVars, hostVars
<1>3. LifeOf'
  BY <1>1 DEF ExecutorInv, LifeOf, resourceVars, workunitVars, scratchVars, hostVars
<1>4. daemon' = "rejected" /\ answer' = "none"
  BY <1>3 DEF LifeOf
<1> QED
  BY <1>2, <1>3, <1>4 DEF ExecutorInv, EndedJobIsQuiet

LEMMA StartedKeeps ==
    ASSUME ExecutorInv, Start, daemon' # "rejected" PROVE ExecutorInv'
<1> DEFINE cap == [h \in Hosts |-> Resolved(h)]
           ram == [h \in Hosts |-> HostRam[h]]
<1>1. /\ Types /\ LifeOf /\ daemon = "new" /\ Fresh /\ answer = "none" /\ aborted = "no"
      /\ completed = {} /\ running = {} /\ ready = {} /\ nonReady = {}
  BY DEF ExecutorInv, LifeOf, Start
<1>2. /\ daemon' = "up" /\ capacity' = cap /\ dependencies' = Dependencies /\ completed' = {}
      /\ numPendingParents' = [w \in Workunits |-> Cardinality({d \in dependencies' : d[2] = w})]
      /\ UNCHANGED <<parts, taskState, numCompletedTasks, mailbox, answer, scratchVars,
                     hostVars, damaged, aborted>>
      /\ ValidResources
  BY DEF Start
<1>3. PICK first : first = {w \in JobWorkunits : numPendingParents'[w] = 0}
  OBVIOUS
<1>4. LoopAgain(first, JobWorkunits \ first, {}, cap, ram, executor)
  BY <1>1, <1>2, <1>3 DEF Start
<1>5. parts \in SUBSET NoTask /\ JobWorkunits \in SUBSET Workunits /\ JobWorkunits' = JobWorkunits
      /\ first \in SUBSET Workunits /\ JobWorkunits \ first \in SUBSET Workunits
  BY <1>1, <1>2, <1>3 DEF Types, JobWorkunits, Workunits
<1>6. cap \in [Hosts -> Amounts] /\ ram \in [Hosts -> Nat]
  <2>1. cap \in [Hosts -> Amounts]
    BY <1>1, <1>2, CapacityIsAmount DEF Fresh
  <2>2. \A h \in Hosts : HostRam[h] \in Nat
    BY HostsAssumption
  <2> QED
    BY <2>1, <2>2
<1>7. /\ executor \in [Workunits -> Executors] /\ HousedIn(executor, {}) /\ isOn \in SUBSET Hosts
      /\ \A w \in Workunits : executor[w] = NoExecutor
  BY <1>1, NoExecutorIsOne DEF Fresh, HousedIn, Types
<1> HIDE DEF cap, ram
<1>8. /\ nonReady' = JobWorkunits \ first /\ ready' \in SUBSET first /\ running' = first \ ready'
      /\ coreAvailabilities' \in [Hosts -> Amounts] /\ ramAvailabilities' \in [Hosts -> Nat]
      /\ executor' \in [Workunits -> Executors] /\ Housed'
      /\ \A w \in Workunits : w \notin first \ ready' => executor'[w] = executor[w]
      /\ \A w \in first \ ready' : executor'[w].phase = "started"
      /\ \A h \in Hosts :
            /\ coreAvailabilities'[h] + HeldCores(h)' = cap[h] + CoresHeld(executor, {}, h)
            /\ ramAvailabilities'[h] + HeldRam(h)' = ram[h] + RamHeld(executor, {}, h)
  <2>1. PICK N, R : N = JobWorkunits \ first /\ R = {}
    OBVIOUS
  <2>2. N \in SUBSET Workunits /\ R \in SUBSET Workunits /\ R \cap first = {} /\ HousedIn(executor, R)
        /\ LoopAgain(first, N, R, cap, ram, executor)
    BY <1>4, <1>5, <1>7, <2>1
  <2>3. Looped(first, N, R, cap, ram, executor)
    BY <1>5, <1>6, <1>7, <2>2, LoopAgainKeeps
  <2> QED
    BY <2>1, <2>3 DEF Looped
<1>9. dependencies' = JobDependencies /\ JobDependencies' = JobDependencies
      /\ \A S \in SUBSET dependencies' : IsFiniteSet(S)
  <2>1. dependencies' = JobDependencies
    BY <1>1, <1>2, FirstDependencies DEF Fresh
  <2>2. JobDependencies' = JobDependencies
    BY <1>2 DEF JobDependencies, StageDependencies, OverheadDependencies, AfterPreFileCopies, AfterTasks
  <2> QED
    BY <1>5, <2>1, <2>2, DependenciesAreFinite
<1>10. ASSUME NEW w \in Workunits
       PROVE  /\ Pending(w)' = {d \in dependencies' : d[2] = w}
              /\ numPendingParents'[w] = Cardinality(Pending(w)') /\ numPendingParents'[w] \in Nat
              /\ numPendingParents'[w] = 0 <=> Pending(w)' = {}
  <2>1. PICK P : P = {d \in dependencies' : d[2] = w}
    OBVIOUS
  <2>2. IsFiniteSet(P)
    BY <1>9, <2>1
  <2>3. Cardinality(P) \in Nat /\ (Cardinality(P) = 0 <=> P = {})
    BY <2>2, FS_CardinalityType, FS_EmptySet
  <2>4. Pending(w)' = P
    BY <1>2, <2>1 DEF Pending
  <2>5. numPendingParents'[w] = Cardinality(P)
    BY <1>2, <2>1
  <2> QED
    BY <2>1, <2>3, <2>4, <2>5
<1>11. Types'
  <2>1. nonReady' \in SUBSET Workunits /\ ready' \in SUBSET Workunits /\ running' \in SUBSET Workunits
        /\ completed' \in SUBSET Workunits
    BY <1>2, <1>5, <1>8
  <2>2. numPendingParents' \in [Workunits -> Nat]
    <3>1. \A w \in Workunits : numPendingParents'[w] \in Nat
      BY <1>10
    <3> QED
      BY <1>2, <3>1
  <2>3. /\ parts' = parts /\ taskState' = taskState /\ numCompletedTasks' = numCompletedTasks
        /\ mailbox' = mailbox /\ filesStored' = filesStored /\ endedFiles' = endedFiles
        /\ scratch' = scratch /\ isOn' = isOn
    BY <1>2 DEF scratchVars, hostVars
  <2> QED
    BY <1>1, <1>2, <1>8, <2>1, <2>2, <2>3 DEF Types, Lives
<1>12. LifeOf'
  BY <1>1, <1>2 DEF LifeOf
<1>13. Sorted'
  <2>1. ASSUME NEW w \in JobWorkunits
        PROVE  numPendingParents'[w] = Cardinality(Pending(w)') /\ (w \in nonReady' <=> Pending(w)' # {})
    <3>1. w \in Workunits
      BY <1>5
    <3>2. w \in nonReady' <=> numPendingParents'[w] # 0
      BY <1>3, <1>8
    <3> QED
      BY <1>10, <3>1, <3>2
  <2>2. nonReady' \cup ready' \cup running' \cup completed' = JobWorkunits
    BY <1>2, <1>3, <1>8
  <2>3. /\ nonReady' \cap ready' = {} /\ nonReady' \cap running' = {} /\ nonReady' \cap completed' = {}
        /\ ready' \cap running' = {} /\ ready' \cap completed' = {} /\ running' \cap completed' = {}
    BY <1>2, <1>8
  <2> QED
    BY <1>5, <1>9, <2>1, <2>2, <2>3 DEF Sorted
<1>14. Posted'
  BY <1>1, <1>2 DEF Posted, PostedIn, Fresh
<1>15. \A w \in Workunits : executor'[w].phase \in {"none", "started"}
  BY <1>7, <1>8, NoExecutorIsOne
<1>16. Advanced'
  <2>1. taskState' = InitialInternal /\ numCompletedTasks' = 0
    BY <1>1, <1>2 DEF Fresh
  <2>2. ASSUME NEW t \in Tasks
        PROVE  /\ t \in completed' \/ executor'[t].phase = "worked" => taskState'[t] = "TASK_COMPLETED"
               /\ taskState'[t] = "TASK_RUNNING" => executor'[t].phase = "running"
               /\ t \in nonReady' =>
                    /\ taskState'[t] \in {"TASK_NOT_READY", "TASK_READY"}
                    /\ (\A p \in Parents[t] : taskState'[p] = "TASK_COMPLETED")
                       => taskState'[t] = "TASK_READY"
    <3>1. t \in Workunits
      BY DEF Workunits
    <3>2. t \notin completed' /\ executor'[t].phase # "worked"
      BY <1>2, <1>15, <3>1
    <3>3. InitialInternal[t] \in {"TASK_NOT_READY", "TASK_READY"}
      BY StatesOfTasks
    <3>4. (\A p \in Parents[t] : InitialInternal[p] = "TASK_COMPLETED") => InitialInternal[t] = "TASK_READY"
      <4>1. \A p \in Parents[t] : InitialInternal[p] # "TASK_COMPLETED"
        BY ParentsAssumption, StatesOfTasks
      <4> QED
        BY <4>1, StatesOfTasks
    <3> QED
      BY <2>1, <3>2, <3>3, <3>4
  <2>3. Cardinality(completed' \cap Tasks) = 0
    BY <1>2, FS_EmptySet
  <2> QED
    BY <2>1, <2>2, <2>3 DEF Advanced
<1>17. Listed'
  BY <1>1, <1>2 DEF Listed, Fresh, scratchVars
<1>18. Accounted'
  <2>1. Counts(executor)
    BY <1>1 DEF Types, Executors, Counts
  <2>2. ASSUME NEW h \in Hosts
        PROVE  /\ capacity'[h] \in Amounts
               /\ coreAvailabilities'[h] + HeldCores(h)' = capacity'[h]
               /\ ramAvailabilities'[h] + HeldRam(h)' = HostRam[h]
    <3>1. CoresHeld(executor, {}, h) = 0 /\ RamHeld(executor, {}, h) = 0
      <4>1. PICK e : e = executor
        OBVIOUS
      <4>2. CoresHeld(e, {}, h) = 0 /\ RamHeld(e, {}, h) = 0
        BY <2>1, <4>1, NoneHold
      <4> QED
        BY <4>1, <4>2
    <3>2. cap[h] \in Nat /\ cap[h] \in Amounts /\ ram[h] = HostRam[h] /\ ram[h] \in Nat
      BY <1>6 DEF Amounts, ram
    <3>3. cap[h] + CoresHeld(executor, {}, h) = cap[h] /\ ram[h] + RamHeld(executor, {}, h) = ram[h]
      BY <3>1, <3>2
    <3> QED
      BY <1>2, <1>8, <3>2, <3>3
  <2> QED
    BY <2>2 DEF Accounted
<1>19. EndedJobIsQuiet'
  BY <1>1, <1>2 DEF EndedJobIsQuiet
<1>20. WhileUp'
  BY <1>8, <1>13, <1>14, <1>16, <1>17, <1>18 DEF WhileUp
<1> QED
  BY <1>11, <1>12, <1>19, <1>20 DEF ExecutorInv

-------------------------------------------------------------------------------
(* The workunit executors *)

\* Nothing holds differently when executors go on on the same hosts with the same cores.
LEMMA AccountedStays ==
    ASSUME Types, Types', Accounted, running' = running,
           \A w \in running : executor'[w].host = executor[w].host /\ executor'[w].cores = executor[w].cores,
           UNCHANGED <<coreAvailabilities, ramAvailabilities, capacity, damaged>>
    PROVE  Accounted'
<1>1. PICK e, f, R : e = executor /\ f = executor' /\ R = running
  OBVIOUS
<1>2. Counts(e) /\ Counts(f) /\ R \in SUBSET Workunits
  BY <1>1 DEF Types, Executors, Counts
<1>3. ASSUME NEW h \in Hosts PROVE HeldCores(h)' = HeldCores(h) /\ HeldRam(h)' = HeldRam(h)
  <2>1. CoresHeld(f, R, h) = CoresHeld(e, R, h) /\ RamHeld(f, R, h) = RamHeld(e, R, h)
    BY <1>1, <1>2, HeldAgrees
  <2>2. /\ HeldCores(h)' = CoresHeld(executor', running', h)
        /\ HeldRam(h)' = RamHeld(executor', running', h)
    BY DEF HeldCores, HeldRam, RunningOn, CoresHeld, RamHeld, HeldOn
  <2> QED
    BY <1>1, <2>1, <2>2, HeldIsHeld
<1> QED
  BY <1>3 DEF Accounted

\* The job is as it was.
LEMMA SortedStays ==
    ASSUME Sorted, UNCHANGED <<parts, dependencies, nonReady, ready, running, completed, numPendingParents>>
    PROVE  Sorted'
<1>1. JobDependencies' = JobDependencies /\ JobWorkunits' = JobWorkunits
  BY DEF JobDependencies, StageDependencies, OverheadDependencies, AfterPreFileCopies, AfterTasks,
         JobWorkunits
<1>2. \A w : Pending(w)' = Pending(w)
  BY DEF Pending
<1> QED
  BY <1>1, <1>2 DEF Sorted

\* A workunit executor goes on: x is what becomes of it.
LEMMA ExecutorGoesOn ==
    ASSUME ExecutorInv, NEW w \in Workunits, executor[w].phase # "none", NEW x \in Executors,
           x.phase \notin {"none", "started"}, x.host = executor[w].host, x.cores = executor[w].cores,
           executor' = [executor EXCEPT ![w] = x], ExecutorUnchanged,
           taskState' \in [Tasks -> InternalStates], mailbox' \in Seq(Messages), scratch' \in SUBSET Files,
           executor[w].phase \in {"started", "running", "worked", "failed"} \/ daemon = "up"
    PROVE  /\ Types' /\ LifeOf' /\ EndedJobIsQuiet'
           /\ executor'[w] = x /\ \A v \in Workunits \ {w} : executor'[v] = executor[v]
           /\ daemon' = daemon
           /\ daemon = "up" => /\ Sorted' /\ Housed' /\ Accounted'
                               /\ w \in running /\ w \notin nonReady /\ w \notin completed
<1>1. Types /\ LifeOf /\ EndedJobIsQuiet /\ (daemon = "up" => WhileUp)
  BY DEF ExecutorInv
<1>2. executor \in [Workunits -> Executors]
  BY <1>1 DEF Types
<1>3. executor' \in [Workunits -> Executors] /\ executor'[w] = x
      /\ \A v \in Workunits \ {w} : executor'[v] = executor[v]
  BY <1>2
<1>4. /\ UNCHANGED <<daemon, parts, dependencies, capacity, coreAvailabilities, ramAvailabilities,
                     numPendingParents, nonReady, ready, running, completed, numCompletedTasks,
                     answer, filesStored, endedFiles, isOn, hostFailures, damaged, aborted>>
  BY DEF ExecutorUnchanged, jobVars, resourceVars, workunitVars, hostVars
<1>5. Types'
  BY <1>1, <1>3, <1>4 DEF Types
<1>6. daemon # "new"
  BY <1>1, NoExecutorIsOne DEF LifeOf, Fresh
<1>7. LifeOf'
  BY <1>1, <1>4, <1>6 DEF LifeOf
<1>8. answer = "none" /\ daemon \notin {"killed", "done"}
  <2>1. executor[w].phase \in {"started", "running", "worked", "failed"} => w \in Alive
    BY DEF Alive
  <2> QED
    BY <1>1, <2>1 DEF EndedJobIsQuiet, LifeOf
<1>9. EndedJobIsQuiet'
  BY <1>4, <1>8 DEF EndedJobIsQuiet
<1>10. ASSUME daemon = "up"
       PROVE  /\ Sorted' /\ Housed' /\ Accounted'
              /\ w \in running /\ w \notin nonReady /\ w \notin completed
  <2>1. Sorted /\ Housed /\ Accounted
    BY <1>1, <1>10 DEF WhileUp
  <2>2. w \in running
    BY <2>1 DEF Housed, HousedIn
  <2>3. w \notin nonReady /\ w \notin completed
    BY <2>1, <2>2 DEF Sorted
  <2>4. Sorted'
    BY <1>4, <2>1, SortedStays
  <2>5. Housed'
    BY <1>3, <1>4, <2>1, <2>2 DEF Housed, HousedIn
  <2>6. \A v \in running : executor'[v].host = executor[v].host /\ executor'[v].cores = executor[v].cores
    BY <1>1, <1>3 DEF Types
  <2>7. Accounted'
    BY <1>1, <1>4, <1>5, <2>1, <2>6, AccountedStays
  <2> QED
    BY <2>2, <2>3, <2>4, <2>5, <2>7
<1> QED
  BY <1>3, <1>4, <1>5, <1>7, <1>9, <1>10

\* Files that are written are on a list.
LEMMA ListedStays ==
    ASSUME Listed, NEW w \in Workunits, executor[w].files \subseteq executor'[w].files,
           \A v \in Workunits \ {w} : executor'[v] = executor[v],
           scratch' \subseteq scratch \cup executor'[w].files, UNCHANGED <<filesStored, endedFiles>>
    PROVE  Listed'
<1> SUFFICES ASSUME NEW f \in scratch'
             PROVE  f \in filesStored \/ f \in endedFiles \/ \E v \in Workunits : f \in executor'[v].files
  BY DEF Listed
<1>1. CASE f \in executor'[w].files
  BY <1>1
<1>2. CASE f \in scratch
  <2>1. f \in filesStored \/ f \in endedFiles \/ \E v \in Workunits : f \in executor[v].files
    BY <1>2 DEF Listed
  <2>2. \A v \in Workunits : f \in executor[v].files => f \in executor'[v].files
    OBVIOUS
  <2> QED
    BY <2>1, <2>2
<1> QED
  BY <1>1, <1>2

\* The states of the tasks go with the phases of their executors, when the executor of one
\* workunit goes on and no other task than its own changes state.
LEMMA AdvancedStays ==
    ASSUME Advanced, NEW w \in Workunits, w \notin nonReady, w \notin completed,
           \A v \in Workunits \ {w} : executor'[v] = executor[v],
           \A t \in Tasks \ {w} : taskState'[t] = taskState[t],
           w \in Tasks => /\ executor'[w].phase = "worked" => taskState'[w] = "TASK_COMPLETED"
                          /\ taskState'[w] = "TASK_RUNNING" => executor'[w].phase = "running"
                          /\ taskState'[w] = "TASK_COMPLETED" => taskState[w] = "TASK_COMPLETED",
           UNCHANGED <<nonReady, completed, numCompletedTasks>>
    PROVE  Advanced'
<1>1. ASSUME NEW t \in Tasks
      PROVE  /\ t \in completed \/ executor'[t].phase = "worked" => taskState'[t] = "TASK_COMPLETED"
             /\ taskState'[t] = "TASK_RUNNING" => executor'[t].phase = "running"
  <2>1. t \in Workunits
    BY DEF Workunits
  <2>2. CASE t = w
    BY <2>2
  <2>3. CASE t # w
    BY <2>1, <2>3 DEF Advanced
  <2> QED
    BY <2>2, <2>3
<1>2. ASSUME NEW t \in Tasks, t \in nonReady
      PROVE  /\ taskState'[t] \in {"TASK_NOT_READY", "TASK_READY"}
             /\ (\A p \in Parents[t] : taskState'[p] = "TASK_COMPLETED") => taskState'[t] = "TASK_READY"
  <2>1. taskState'[t] = taskState[t]
    BY <1>2
  <2>2. \A p \in Parents[t] : taskState'[p] = "TASK_COMPLETED" => taskState[p] = "TASK_COMPLETED"
    BY ParentsAssumption
  <2> QED
    BY <1>2, <2>1, <2>2 DEF Advanced
<1>3. numCompletedTasks' = Cardinality(completed' \cap Tasks)
  BY DEF Advanced
<1> QED
  BY <1>1, <1>2, <1>3 DEF Advanced

LEMMA FilesAreFiles ==
    \A w \in Workunits : Reads(w) \in SUBSET Files /\ Writes(w) \in SUBSET Files
  BY DEF Reads, Writes, Files, Workunits

LEMMA BeginKeeps ==
    ASSUME ExecutorInv, NEW w \in Workunits, Begin(w) PROVE ExecutorInv'
<1>1. /\ executor[w].phase = "started" /\ aborted = "no"
      /\ executor' = [executor EXCEPT ![w].phase = "running", ![w].files = Reads(w)]
      /\ taskState' = [t \in Tasks |-> IF t = w THEN "TASK_RUNNING" ELSE taskState[t]]
      /\ ExecutorUnchanged /\ mailbox' = mailbox /\ scratch' = scratch
  BY DEF Begin
<1>2. Types
  BY DEF ExecutorInv
<1>3. PICK x : x = [executor[w] EXCEPT !.phase = "running", !.files = Reads(w)]
  OBVIOUS
<1>4. executor[w] \in Executors
  BY <1>2 DEF Types
<1>5. x \in Executors /\ x.phase = "running" /\ x.files = Reads(w) /\ x.host = executor[w].host
      /\ x.cores = executor[w].cores
  BY <1>3, <1>4, FilesAreFiles DEF Executors, Phases
<1>6. executor' = [executor EXCEPT ![w] = x]
  BY <1>1, <1>2, <1>3 DEF Types
<1>7. taskState' \in [Tasks -> InternalStates] /\ mailbox' \in Seq(Messages) /\ scratch' \in SUBSET Files
  BY <1>1, <1>2 DEF Types, InternalStates
<1>8. /\ Types' /\ LifeOf' /\ EndedJobIsQuiet'
      /\ executor'[w] = x /\ \A v \in Workunits \ {w} : executor'[v] = executor[v]
      /\ daemon' = daemon
      /\ daemon = "up" => /\ Sorted' /\ Housed' /\ Accounted'
                          /\ w \in running /\ w \notin nonReady /\ w \notin completed
  BY <1>1, <1>5, <1>6, <1>7, ExecutorGoesOn
<1>9. ASSUME daemon = "up" PROVE WhileUp'
  <2>1. Posted /\ Advanced /\ Listed
    BY <1>9 DEF ExecutorInv, WhileUp
  <2>2. Posted'
    <3>1. \A v \in Workunits : Undisturbed(v, executor, taskState, executor', taskState')
      BY <1>1, <1>8 DEF Undisturbed
    <3> QED
      BY <1>2, <1>1, <2>1, <3>1, NothingNewIsSaid
  <2>3. Advanced'
    <3>1. UNCHANGED <<nonReady, completed, numCompletedTasks>>
      BY <1>1 DEF ExecutorUnchanged, workunitVars
    <3>2. \A t \in Tasks \ {w} : taskState'[t] = taskState[t]
      BY <1>1
    <3>3. w \in Tasks => taskState'[w] = "TASK_RUNNING"
      BY <1>1
    <3> QED
      BY <1>5, <1>8, <1>9, <2>1, <3>1, <3>2, <3>3, AdvancedStays
  <2>4. Listed'
    <3>1. UNCHANGED <<filesStored, endedFiles>>
      BY <1>1 DEF ExecutorUnchanged
    <3>2. executor[w].files \subseteq executor'[w].files
      BY <1>1, <1>9 DEF ExecutorInv, WhileUp, Housed, HousedIn
    <3> QED
      BY <1>1, <1>8, <2>1, <3>1, <3>2, ListedStays
  <2> QED
    BY <1>8, <1>9, <2>2, <2>3, <2>4 DEF WhileUp
<1> QED
  BY <1>8, <1>9 DEF ExecutorInv

LEMMA FailToBeginKeeps ==
    ASSUME ExecutorInv, NEW w \in Workunits, FailToBegin(w) PROVE ExecutorInv'
<1>1. /\ executor[w].phase = "started" /\ aborted = "no"
      /\ executor' = [executor EXCEPT ![w].phase = "failed"]
      /\ ExecutorUnchanged /\ taskState' = taskState /\ mailbox' = mailbox /\ scratch' = scratch
  BY DEF FailToBegin
<1>2. Types
  BY DEF ExecutorInv
<1>3. PICK x : x = [executor[w] EXCEPT !.phase = "failed"]
  OBVIOUS
<1>4. executor[w] \in Executors
  BY <1>2 DEF Types
<1>5. x \in Executors /\ x.phase = "failed" /\ x.files = executor[w].files /\ x.host = executor[w].host
      /\ x.cores = executor[w].cores
  BY <1>3, <1>4 DEF Executors, Phases
<1>6. executor' = [executor EXCEPT ![w] = x]
  BY <1>1, <1>2, <1>3 DEF Types
<1>7. taskState' \in [Tasks -> InternalStates] /\ mailbox' \in Seq(Messages) /\ scratch' \in SUBSET Files
  BY <1>1, <1>2 DEF Types
<1>8. /\ Types' /\ LifeOf' /\ EndedJobIsQuiet'
      /\ executor'[w] = x /\ \A v \in Workunits \ {w} : executor'[v] = executor[v]
      /\ daemon' = daemon
      /\ daemon = "up" => /\ Sorted' /\ Housed' /\ Accounted'
                          /\ w \in running /\ w \notin nonReady /\ w \notin completed
  BY <1>1, <1>5, <1>6, <1>7, ExecutorGoesOn
<1>9. ASSUME daemon = "up" PROVE WhileUp'
  <2>1. Posted /\ Advanced /\ Listed
    BY <1>9 DEF ExecutorInv, WhileUp
  <2>2. Posted'
    <3>1. \A v \in Workunits : Undisturbed(v, executor, taskState, executor', taskState')
      BY <1>1, <1>8 DEF Undisturbed
    <3> QED
      BY <1>2, <1>1, <2>1, <3>1, NothingNewIsSaid
  <2>3. Advanced'
    <3>1. UNCHANGED <<nonReady, completed, numCompletedTasks>>
      BY <1>1 DEF ExecutorUnchanged, workunitVars
    <3>2. \A t \in Tasks \ {w} : taskState'[t] = taskState[t]
      BY <1>1
    <3>3. w \in Tasks => taskState[w] # "TASK_RUNNING" /\ taskState'[w] = taskState[w]
      BY <1>1, <2>1 DEF Advanced
    <3> QED
      BY <1>5, <1>8, <1>9, <2>1, <3>1, <3>2, <3>3, AdvancedStays
  <2>4. Listed'
    <3>1. UNCHANGED <<filesStored, endedFiles>>
      BY <1>1 DEF ExecutorUnchanged
    <3>2. executor[w].files \subseteq executor'[w].files
      BY <1>5, <1>8
    <3> QED
      BY <1>1, <1>8, <2>1, <3>1, <3>2, ListedStays
  <2> QED
    BY <1>8, <1>9, <2>2, <2>3, <2>4 DEF WhileUp
<1> QED
  BY <1>8, <1>9 DEF ExecutorInv

LEMMA FailToWorkKeeps ==
    ASSUME ExecutorInv, NEW w \in Workunits, FailToWork(w) PROVE ExecutorInv'
<1>1. PICK toWrite \in {{}, IF w \in Tasks /\ w \in Failing THEN Writes(w) ELSE {}} :
          executor' = [executor EXCEPT ![w].phase = "failed", ![w].files = @ \cup toWrite]
  BY DEF FailToWork
<1>2. /\ executor[w].phase = "running" /\ aborted = "no"
      /\ taskState' = [t \in Tasks |-> IF t = w THEN "TASK_FAILED" ELSE taskState[t]]
      /\ ExecutorUnchanged /\ mailbox' = mailbox /\ scratch' = scratch
  BY DEF FailToWork
<1>3. Types /\ toWrite \in SUBSET Files
  BY FilesAreFiles DEF ExecutorInv
<1>4. PICK x : x = [executor[w] EXCEPT !.phase = "failed", !.files = @ \cup toWrite]
  OBVIOUS
<1>5. executor[w] \in Executors
  BY <1>3 DEF Types
<1>6. x \in Executors /\ x.phase = "failed" /\ x.files = executor[w].files \cup toWrite
      /\ x.host = executor[w].host /\ x.cores = executor[w].cores
  BY <1>3, <1>4, <1>5 DEF Executors, Phases
<1>7. executor' = [executor EXCEPT ![w] = x]
  BY <1>1, <1>3, <1>4 DEF Types
<1>8. taskState' \in [Tasks -> InternalStates] /\ mailbox' \in Seq(Messages) /\ scratch' \in SUBSET Files
  BY <1>2, <1>3 DEF Types, InternalStates
<1>9. /\ Types' /\ LifeOf' /\ EndedJobIsQuiet'
      /\ executor'[w] = x /\ \A v \in Workunits \ {w} : executor'[v] = executor[v]
      /\ daemon' = daemon
      /\ daemon = "up" => /\ Sorted' /\ Housed' /\ Accounted'
                          /\ w \in running /\ w \notin nonReady /\ w \notin completed
  BY <1>2, <1>6, <1>7, <1>8, ExecutorGoesOn
<1>10. ASSUME daemon = "up" PROVE WhileUp'
  <2>1. Posted /\ Advanced /\ Listed
    BY <1>10 DEF ExecutorInv, WhileUp
  <2>2. Posted'
    <3>1. \A v \in Workunits : Undisturbed(v, executor, taskState, executor', taskState')
      BY <1>2, <1>9 DEF Undisturbed
    <3> QED
      BY <1>3, <1>2, <2>1, <3>1, NothingNewIsSaid
  <2>3. Advanced'
    <3>1. UNCHANGED <<nonReady, completed, numCompletedTasks>>
      BY <1>2 DEF ExecutorUnchanged, workunitVars
    <3>2. \A t \in Tasks \ {w} : taskState'[t] = taskState[t]
      BY <1>2
    <3>3. w \in Tasks => taskState'[w] = "TASK_FAILED"
      BY <1>2
    <3> QED
      BY <1>6, <1>9, <1>10, <2>1, <3>1, <3>2, <3>3, AdvancedStays
  <2>4. Listed'
    <3>1. UNCHANGED <<filesStored, endedFiles>>
      BY <1>2 DEF ExecutorUnchanged
    <3>2. executor[w].files \subseteq executor'[w].files
      BY <1>6, <1>9
    <3> QED
      BY <1>2, <1>9, <2>1, <3>1, <3>2, ListedStays
  <2> QED
    BY <1>9, <1>10, <2>2, <2>3, <2>4 DEF WhileUp
<1> QED
  BY <1>9, <1>10 DEF ExecutorInv

\* A task that is completed makes the children that wait for it only ready.
LEMMA CompletionAdvances ==
    ASSUME NEW s \in [Tasks -> InternalStates], NEW w \in Tasks, w \notin Parents[w]
    PROVE  /\ AfterCompletion(s, w) \in [Tasks -> InternalStates]
           /\ AfterCompletion(s, w)[w] = "TASK_COMPLETED"
           /\ \A t \in Tasks \ {w} : /\ w \notin Parents[t] => AfterCompletion(s, w)[t] = s[t]
                                     /\ AfterCompletion(s, w)[t] \in {s[t], "TASK_READY"}
           /\ \A t \in Tasks \ {w} :
                 w \in Parents[t] /\ (\A p \in Parents[t] : p = w \/ s[p] = "TASK_COMPLETED")
                 => AfterCompletion(s, w)[t] = "TASK_READY"
<1> DEFINE done == [s EXCEPT ![w] = "TASK_COMPLETED"]
<1>1. done[w] = "TASK_COMPLETED" /\ \A t \in Tasks \ {w} : done[t] = s[t]
  OBVIOUS
<1>2. done \in [Tasks -> InternalStates] /\ "TASK_READY" \in InternalStates
  BY DEF InternalStates
<1>3. AfterCompletion(s, w) = [c \in Tasks |->
          IF c \in Children(w) /\ \A p \in Parents[c] : done[p] = "TASK_COMPLETED"
          THEN "TASK_READY" ELSE done[c]]
  BY DEF AfterCompletion
<1>4. \A t \in Tasks : t \in Children(w) <=> w \in Parents[t]
  BY DEF Children
<1> HIDE DEF done
<1>5. AfterCompletion(s, w) \in [Tasks -> InternalStates]
  BY <1>2, <1>3
<1>6. AfterCompletion(s, w)[w] = "TASK_COMPLETED"
  BY <1>1, <1>3, <1>4
<1>7. ASSUME NEW t \in Tasks \ {w}
      PROVE  /\ w \notin Parents[t] => AfterCompletion(s, w)[t] = s[t]
             /\ AfterCompletion(s, w)[t] \in {s[t], "TASK_READY"}
  BY <1>1, <1>3, <1>4
<1>8. ASSUME NEW t \in Tasks \ {w}, w \in Parents[t], \A p \in Parents[t] : p = w \/ s[p] = "TASK_COMPLETED"
      PROVE  AfterCompletion(s, w)[t] = "TASK_READY"
  <2>1. \A p \in Parents[t] : done[p] = "TASK_COMPLETED"
    BY <1>1, <1>8, ParentsAssumption
  <2> QED
    BY <1>3, <1>4, <1>8, <2>1
<1> QED
  BY <1>5, <1>6, <1>7, <1>8

LEMMA WorkKeeps ==
    ASSUME ExecutorInv, NEW w \in Workunits, Work(w) PROVE ExecutorInv'
<1>1. /\ executor[w].phase = "running" /\ aborted = "no"
      /\ executor' = [executor EXCEPT ![w].phase = "worked", ![w].files = @ \cup Writes(w)]
      /\ scratch' = scratch \cup Writes(w)
      /\ taskState' = IF w \in Tasks THEN AfterCompletion(taskState, w) ELSE taskState
      /\ ExecutorUnchanged /\ mailbox' = mailbox
  BY DEF Work
<1>2. Types /\ Writes(w) \in SUBSET Files
  BY FilesAreFiles DEF ExecutorInv
<1>3. PICK x : x = [executor[w] EXCEPT !.phase = "worked", !.files = @ \cup Writes(w)]
  OBVIOUS
<1>4. executor[w] \in Executors
  BY <1>2 DEF Types
<1>5. x \in Executors /\ x.phase = "worked" /\ x.files = executor[w].files \cup Writes(w)
      /\ x.host = executor[w].host /\ x.cores = executor[w].cores
  BY <1>2, <1>3, <1>4 DEF Executors, Phases
<1>6. executor' = [executor EXCEPT ![w] = x]
  BY <1>1, <1>2, <1>3 DEF Types
<1>7. mailbox' \in Seq(Messages) /\ scratch' \in SUBSET Files
  BY <1>1, <1>2 DEF Types
<1>8. taskState' \in [Tasks -> InternalStates]
  <2>1. taskState \in [Tasks -> InternalStates]
    BY <1>2 DEF Types
  <2>2. CASE w \notin Tasks
    BY <1>1, <2>1, <2>2
  <2>3. CASE w \in Tasks
    <3>1. "TASK_READY" \in InternalStates /\ "TASK_COMPLETED" \in InternalStates
      BY DEF InternalStates
    <3>2. AfterCompletion(taskState, w) \in [Tasks -> InternalStates]
      BY <2>1, <2>3, <3>1 DEF AfterCompletion
    <3> QED
      BY <1>1, <2>3, <3>2
  <2> QED
    BY <2>2, <2>3
<1>9. /\ Types' /\ LifeOf' /\ EndedJobIsQuiet'
      /\ executor'[w] = x /\ \A v \in Workunits \ {w} : executor'[v] = executor[v]
      /\ daemon' = daemon
      /\ daemon = "up" => /\ Sorted' /\ Housed' /\ Accounted'
                          /\ w \in running /\ w \notin nonReady /\ w \notin completed
  BY <1>1, <1>5, <1>6, <1>7, <1>8, ExecutorGoesOn
<1>10. ASSUME daemon = "up" PROVE WhileUp'
  <2>1. Sorted /\ Housed /\ Posted /\ Advanced /\ Listed
    BY <1>10 DEF ExecutorInv, WhileUp
  <2>2. w \in running /\ w \notin nonReady /\ w \notin completed
    BY <1>9, <1>10
  <2>3. UNCHANGED <<nonReady, completed, numCompletedTasks, filesStored, endedFiles>>
    BY <1>1 DEF ExecutorUnchanged, workunitVars
  <2>4. ASSUME NEW t \in Tasks, w \in Tasks, w \in Parents[t] PROVE t \in nonReady /\ t # w
    BY <1>2, <2>1, <2>2, <2>4, ParentsAreCompleted
  <2>5. ASSUME NEW t \in Tasks, t # w
        PROVE  /\ t \notin nonReady => taskState'[t] = taskState[t]
               /\ taskState'[t] \in {taskState[t], "TASK_READY"}
    <3>1. CASE w \in Tasks
      <4>1. w \notin Parents[w]
        BY <2>4, <3>1
      <4>2. PICK s : s = taskState /\ s \in [Tasks -> InternalStates]
        BY <1>2 DEF Types
      <4>3. /\ w \notin Parents[t] => AfterCompletion(s, w)[t] = s[t]
            /\ AfterCompletion(s, w)[t] \in {s[t], "TASK_READY"}
        BY <2>5, <3>1, <4>1, <4>2, CompletionAdvances
      <4> QED
        BY <1>1, <2>4, <3>1, <4>2, <4>3
    <3>2. CASE w \notin Tasks
      BY <1>1, <3>2
    <3> QED
      BY <3>1, <3>2
  <2>6. w \in Tasks => taskState'[w] = "TASK_COMPLETED"
    <3>1. SUFFICES ASSUME w \in Tasks PROVE taskState'[w] = "TASK_COMPLETED"
      OBVIOUS
    <3>2. w \notin Parents[w]
      BY <2>4, <3>1
    <3>3. PICK s : s = taskState /\ s \in [Tasks -> InternalStates]
      BY <1>2 DEF Types
    <3>4. AfterCompletion(s, w)[w] = "TASK_COMPLETED"
      BY <3>1, <3>2, <3>3, CompletionAdvances
    <3> QED
      BY <1>1, <3>1, <3>3, <3>4
  <2>7. \A v \in nonReady : executor[v].phase = "none"
    BY <1>2, <2>1 DEF Sorted, Housed, HousedIn, Types
  <2>8. Posted'
    <3>1. ASSUME NEW v \in Workunits PROVE Undisturbed(v, executor, taskState, executor', taskState')
      BY <1>1, <1>9, <2>5, <2>7 DEF Undisturbed
    <3> QED
      BY <1>1, <1>2, <2>1, <3>1, NothingNewIsSaid
  <2>9. Advanced'
    <3>1. ASSUME NEW t \in Tasks
          PROVE  /\ t \in completed \/ executor'[t].phase = "worked" => taskState'[t] = "TASK_COMPLETED"
                 /\ taskState'[t] = "TASK_RUNNING" => executor'[t].phase = "running"
      <4>1. t \in Workunits
        BY DEF Workunits
      <4>2. CASE t = w
        BY <2>6, <4>2
      <4>3. CASE t # w /\ t \notin nonReady
        <5>1. taskState'[t] = taskState[t] /\ executor'[t] = executor[t]
          BY <1>9, <2>5, <4>1, <4>3
        <5> QED
          BY <2>1, <5>1 DEF Advanced
      <4>4. CASE t # w /\ t \in nonReady
        <5>1. executor'[t].phase = "none" /\ t \notin completed
          BY <1>9, <2>1, <2>7, <4>1, <4>4 DEF Sorted
        <5>2. taskState[t] \in {"TASK_NOT_READY", "TASK_READY"}
          BY <2>1, <4>4 DEF Advanced
        <5> QED
          BY <2>5, <4>4, <5>1, <5>2
      <4> QED
        BY <4>2, <4>3, <4>4
    <3>2. ASSUME NEW t \in Tasks, t \in nonReady
          PROVE  /\ taskState'[t] \in {"TASK_NOT_READY", "TASK_READY"}
                 /\ (\A p \in Parents[t] : taskState'[p] = "TASK_COMPLETED") => taskState'[t] = "TASK_READY"
      <4>1. t # w /\ taskState[t] \in {"TASK_NOT_READY", "TASK_READY"}
        BY <2>1, <2>2, <3>2 DEF Advanced
      <4>2. taskState'[t] \in {"TASK_NOT_READY", "TASK_READY"}
        BY <2>5, <4>1
      <4>3. ASSUME \A p \in Parents[t] : taskState'[p] = "TASK_COMPLETED" PROVE taskState'[t] = "TASK_READY"
        <5>1. ASSUME NEW p \in Parents[t] PROVE p = w \/ taskState[p] = "TASK_COMPLETED"
          <6>1. p \in Tasks /\ taskState'[p] = "TASK_COMPLETED"
            BY <4>3, ParentsAssumption
          <6> QED
            BY <2>5, <6>1
        <5>2. CASE w \in Tasks /\ w \in Parents[t]
          <6>1. w \notin Parents[w]
            BY <2>4, <5>2
          <6>2. PICK s : s = taskState /\ s \in [Tasks -> InternalStates]
            BY <1>2 DEF Types
          <6>3. \A p \in Parents[t] : p = w \/ s[p] = "TASK_COMPLETED"
            BY <5>1, <6>2
          <6>4. AfterCompletion(s, w)[t] = "TASK_READY"
            BY <4>1, <5>2, <6>1, <6>2, <6>3, CompletionAdvances
          <6> QED
            BY <1>1, <5>2, <6>2, <6>4
        <5>3. CASE ~(w \in Tasks /\ w \in Parents[t])
          <6>1. \A p \in Parents[t] : taskState[p] = "TASK_COMPLETED"
            BY <5>1, <5>3, ParentsAssumption
          <6>2. taskState[t] = "TASK_READY"
            BY <2>1, <3>2, <6>1 DEF Advanced
          <6> QED
            BY <2>5, <4>1, <6>2
        <5> QED
          BY <5>2, <5>3
      <4> QED
        BY <4>2, <4>3
    <3>3. numCompletedTasks' = Cardinality(completed' \cap Tasks)
      BY <2>1, <2>3 DEF Advanced
    <3> QED
      BY <2>3, <3>1, <3>2, <3>3 DEF Advanced
  <2>10. Listed'
    <3>1. executor[w].files \subseteq executor'[w].files /\ scratch' \subseteq scratch \cup executor'[w].files
      BY <1>1, <1>5, <1>9
    <3> QED
      BY <1>9, <2>1, <2>3, <3>1, ListedStays
  <2> QED
    BY <1>9, <1>10, <2>8, <2>9, <2>10 DEF WhileUp
<1> QED
  BY <1>9, <1>10 DEF ExecutorInv

\* A message is sent, to an executor that lives or has ended.
LEMMA SentIsPosted ==
    ASSUME Types, NEW w \in Workunits, NEW type \in {"Done", "Failed", "Crashed"}, Sent(type, w)
    PROVE  /\ mailbox' \in Seq(Messages)
           /\ daemon = "up" => mailbox' = Append(mailbox, [type |-> type, workunit |-> w])
<1>1. [type |-> type, workunit |-> w] \in Messages
  BY DEF Messages, About
<1>2. mailbox \in Seq(Messages)
  BY DEF Types
<1> QED
  BY <1>1, <1>2 DEF Sent

LEMMA MessageKeeps ==
    ASSUME ExecutorInv, NEW w \in Workunits, SendMessage(w) \/ DetectCrash(w) PROVE ExecutorInv'
<1>1. PICK type, ph : /\ type \in {"Done", "Failed", "Crashed"} /\ Sent(type, w)
                      /\ ph = (IF type = "Crashed" THEN "reported" ELSE "sent")
                      /\ executor' = [executor EXCEPT ![w].phase = ph]
                      /\ executor[w].phase \in {"worked", "failed", "crashed"}
                      /\ executor[w].phase \in {"worked", "failed"} \/ daemon = "up"
                      /\ type = "Done" => executor[w].phase = "worked"
  <2>1. CASE SendMessage(w)
    <3>1. PICK type : type = IF executor[w].phase = "worked" THEN "Done" ELSE "Failed"
      OBVIOUS
    <3>2. /\ type \in {"Done", "Failed"} /\ Sent(type, w) /\ executor[w].phase \in {"worked", "failed"}
          /\ executor' = [executor EXCEPT ![w].phase = "sent"] /\ (type = "Done" => executor[w].phase = "worked")
      BY <2>1, <3>1 DEF SendMessage
    <3> QED
      BY <3>2
  <2>2. CASE DetectCrash(w)
    <3>1. /\ Sent("Crashed", w) /\ executor[w].phase = "crashed" /\ daemon = "up"
          /\ executor' = [executor EXCEPT ![w].phase = "reported"]
      BY <2>2 DEF DetectCrash
    <3>2. PICK type, ph : type = "Crashed" /\ ph = "reported"
      OBVIOUS
    <3>3. /\ type \in {"Done", "Failed", "Crashed"} /\ Sent(type, w)
          /\ ph = (IF type = "Crashed" THEN "reported" ELSE "sent")
          /\ executor' = [executor EXCEPT ![w].phase = ph]
          /\ executor[w].phase \in {"worked", "failed", "crashed"}
          /\ executor[w].phase \in {"worked", "failed"} \/ daemon = "up"
          /\ type = "Done" => executor[w].phase = "worked"
      BY <3>1, <3>2
    <3> QED
      BY <3>3
  <2> QED
    BY <2>1, <2>2
<1>2. ExecutorUnchanged /\ taskState' = taskState /\ scratch' = scratch
  BY DEF SendMessage, DetectCrash
<1>3. Types
  BY DEF ExecutorInv
<1>4. PICK x : x = [executor[w] EXCEPT !.phase = ph]
  OBVIOUS
<1>5. executor[w] \in Executors
  BY <1>3 DEF Types
<1>6. x \in Executors /\ x.phase = ph /\ ph \in {"sent", "reported"} /\ x.files = executor[w].files
      /\ x.host = executor[w].host /\ x.cores = executor[w].cores
  BY <1>1, <1>4, <1>5 DEF Executors, Phases
<1>7. executor' = [executor EXCEPT ![w] = x]
  BY <1>1, <1>3, <1>4 DEF Types
<1>8. /\ mailbox' \in Seq(Messages)
      /\ daemon = "up" => mailbox' = Append(mailbox, [type |-> type, workunit |-> w])
  BY <1>1, <1>3, SentIsPosted
<1>9. taskState' \in [Tasks -> InternalStates] /\ scratch' \in SUBSET Files
  BY <1>2, <1>3 DEF Types
<1>10. /\ Types' /\ LifeOf' /\ EndedJobIsQuiet'
       /\ executor'[w] = x /\ \A v \in Workunits \ {w} : executor'[v] = executor[v]
       /\ daemon' = daemon
       /\ daemon = "up" => /\ Sorted' /\ Housed' /\ Accounted'
                           /\ w \in running /\ w \notin nonReady /\ w \notin completed
  <2>1. executor[w].phase # "none" /\ x.phase \notin {"none", "started"}
        /\ (executor[w].phase \in {"started", "running", "worked", "failed"} \/ daemon = "up")
    BY <1>1, <1>6
  <2> QED
    BY <1>2, <1>6, <1>7, <1>8, <1>9, <2>1, ExecutorGoesOn
<1>11. ASSUME daemon = "up" PROVE WhileUp'
  <2>1. Posted /\ Advanced /\ Listed
    BY <1>11 DEF ExecutorInv, WhileUp
  <2>2. Posted'
    <3>1. PICK q, e, s, f, m : q = mailbox /\ e = executor /\ s = taskState /\ f = executor'
                               /\ m = [type |-> type, workunit |-> w]
      OBVIOUS
    <3>2. q \in Seq(Messages) /\ PostedIn(q, e, s)
      BY <1>3, <2>1, <3>1 DEF Posted, Types
    <3>3. m \in About /\ m.type = type /\ m.workunit = w
      BY <1>1, <3>1 DEF About
    <3>4. e[m.workunit].phase \notin {"sent", "reported"} /\ \A v \in Workunits \ {m.workunit} : f[v] = e[v]
      BY <1>1, <1>10, <3>1, <3>3
    <3>5. Reported(m, f, s)
      <4>1. f[w].phase = ph
        BY <1>6, <1>10, <3>1
      <4>2. type = "Done" /\ w \in Tasks => s[w] = "TASK_COMPLETED"
        BY <1>1, <2>1, <3>1 DEF Advanced
      <4> QED
        BY <1>1, <3>3, <4>1, <4>2 DEF Reported
    <3>6. PostedIn(Append(q, m), f, s)
      BY <3>2, <3>3, <3>4, <3>5, PostedAppend
    <3> QED
      BY <1>2, <1>8, <1>11, <3>1, <3>6 DEF Posted
  <2>3. Advanced'
    <3>1. UNCHANGED <<nonReady, completed, numCompletedTasks>>
      BY <1>2 DEF ExecutorUnchanged, workunitVars
    <3>2. \A t \in Tasks \ {w} : taskState'[t] = taskState[t]
      BY <1>2
    <3>3. w \in Tasks => taskState[w] # "TASK_RUNNING" /\ taskState'[w] = taskState[w]
      BY <1>1, <1>2, <2>1 DEF Advanced
    <3> QED
      BY <1>6, <1>10, <1>11, <2>1, <3>1, <3>2, <3>3, AdvancedStays
  <2>4. Listed'
    <3>1. UNCHANGED <<filesStored, endedFiles>>
      BY <1>2 DEF ExecutorUnchanged
    <3>2. executor[w].files \subseteq executor'[w].files
      BY <1>6, <1>10
    <3> QED
      BY <1>2, <1>10, <2>1, <3>1, <3>2, ListedStays
  <2> QED
    BY <1>10, <1>11, <2>2, <2>3, <2>4 DEF WhileUp
<1> QED
  BY <1>10, <1>11 DEF ExecutorInv

-------------------------------------------------------------------------------
(* The ends of the executor *)

\* An executor that is killed is gone, and says that its task has failed.
LEMMA KilledAreGone ==
    ASSUME Types, NEW S
    PROVE  /\ Killed(S) \in [Workunits -> Executors]
           /\ \A w \in Workunits : Killed(S)[w] = IF w \in S \cap Alive THEN NoExecutor ELSE executor[w]
           /\ TasksAfterDeath(S) \in [Tasks -> InternalStates]
           /\ \A t \in Tasks : TasksAfterDeath(S)[t] =
                 IF t \in S /\ executor[t].phase \in {"running", "worked"} THEN "TASK_FAILED" ELSE taskState[t]
<1>1. executor \in [Workunits -> Executors] /\ taskState \in [Tasks -> InternalStates]
  BY DEF Types
<1>2. "TASK_FAILED" \in InternalStates /\ NoExecutor \in Executors
  BY NoExecutorIsOne DEF InternalStates
<1> QED
  BY <1>1, <1>2 DEF Killed, TasksAfterDeath

LEMMA KillKeeps ==
    ASSUME ExecutorInv, Kill PROVE ExecutorInv'
<1>1. /\ daemon \in {"up", "ending"} /\ aborted = "no" /\ daemon' = "killed"
      /\ executor' = Killed(Workunits) /\ taskState' = TasksAfterDeath(Workunits)
      /\ nonReady' = {} /\ ready' = {} /\ running' = {} /\ completed' = {}
      /\ endedFiles' = {} /\ mailbox' = <<>>
      /\ UNCHANGED <<parts, dependencies, capacity, coreAvailabilities, ramAvailabilities,
                     numPendingParents, numCompletedTasks, answer,
                     filesStored, scratch, isOn, hostFailures, damaged, aborted>>
  BY DEF Kill, jobVars, resourceVars, hostVars
<1>2. Types /\ LifeOf /\ EndedJobIsQuiet
  BY DEF ExecutorInv
<1>3. /\ executor' \in [Workunits -> Executors] /\ taskState' \in [Tasks -> InternalStates]
      /\ \A w \in Workunits : executor'[w] = IF w \in Alive THEN NoExecutor ELSE executor[w]
      /\ \A t \in Tasks : taskState'[t] =
            IF executor[t].phase \in {"running", "worked"} THEN "TASK_FAILED" ELSE taskState[t]
  <2>1. PICK S : S = Workunits
    OBVIOUS
  <2>2. Tasks \subseteq Workunits
    BY DEF Workunits
  <2> QED
    BY <1>1, <1>2, <2>1, <2>2, KilledAreGone
<1>4. mailbox' \in Seq(Messages)
  BY <1>1
<1>5. Types'
  BY <1>1, <1>2, <1>3, <1>4 DEF Types, Lives
<1>6. LifeOf'
  BY <1>1, <1>2 DEF LifeOf
<1>7. EndedJobIsQuiet'
  <2>1. Alive' = {}
    <3>1. ASSUME NEW w \in Workunits PROVE executor'[w].phase \notin {"started", "running", "worked", "failed"}
      BY <1>3, NoExecutorIsOne DEF Alive
    <3> QED
      BY <3>1 DEF Alive
  <2>2. CASE daemon = "up"
    <3>1. \A t \in Tasks : taskState'[t] # "TASK_RUNNING"
      BY <1>3, <2>2 DEF ExecutorInv, WhileUp, Advanced
    <3>2. answer' = "none"
      BY <1>1, <1>2, <2>2 DEF LifeOf
    <3> QED
      BY <1>1, <2>1, <3>1, <3>2 DEF EndedJobIsQuiet
  <2>3. CASE daemon = "ending"
    <3>1. /\ Alive = {} /\ \A t \in Tasks : taskState[t] # "TASK_RUNNING"
          /\ answer = "done" => /\ \A t \in Tasks : taskState[t] = "TASK_COMPLETED"
                                /\ numCompletedTasks = Cardinality(Tasks)
      BY <1>2, <2>3 DEF LifeOf, EndedJobIsQuiet
    <3>2. \A t \in Tasks : taskState'[t] = taskState[t]
      BY <1>3, <3>1 DEF Alive, Workunits
    <3> QED
      BY <1>1, <2>1, <3>1, <3>2 DEF EndedJobIsQuiet
  <2> QED
    BY <1>1, <2>2, <2>3
<1> QED
  BY <1>1, <1>5, <1>6, <1>7 DEF ExecutorInv

\* What the end of the main loop leaves.
LEMMA ReturnLeaves ==
    ASSUME Types, NEW outcome \in {"done", "failed"}, NEW ended \in SUBSET Files,
           Return(outcome, ended)
    PROVE  /\ daemon' = "ending" /\ answer' = outcome
           /\ filesStored' \in SUBSET Files /\ endedFiles' \in SUBSET Files
           /\ toDelete' \in SUBSET Files
           /\ ScratchSpace /\ ~PartOfPilotJob => toDelete' = filesStored \cup ended
  BY DEF Return, Types

\* A message that was received is about a workunit that runs.
LEMMA ReceivedIsReported ==
    ASSUME ExecutorInv, daemon = "up", mailbox # <<>>, NEW m, m = Head(mailbox), m.type # "HostOn"
    PROVE  /\ m.workunit \in Workunits /\ m.workunit \in running /\ Reported(m, executor, taskState)
           /\ executor[m.workunit] # NoExecutor
<1>1. Types /\ Posted /\ Housed
  BY DEF ExecutorInv, WhileUp
<1>2. PICK q : q = mailbox /\ q \in Seq(Messages) /\ q # <<>>
  BY <1>1 DEF Types
<1>3. 1 \in DOMAIN q /\ m = q[1] /\ m \in Messages
  BY <1>2
<1>4. m.workunit \in Workunits
  BY <1>3, MessagesAreAbout
<1>5. Reported(m, executor, taskState)
  BY <1>1, <1>2, <1>3 DEF Posted, PostedIn
<1>6. executor[m.workunit].phase # "none"
  BY <1>5 DEF Reported
<1> QED
  BY <1>1, <1>4, <1>5, <1>6, NoExecutorIsOne DEF Housed, HousedIn

LEMMA FailureKeeps ==
    ASSUME ExecutorInv, ProcessWorkunitExecutorFailure PROVE ExecutorInv'
<1>1. PICK w : w = Head(mailbox).workunit
  OBVIOUS
<1>2. /\ daemon = "up" /\ aborted = "no" /\ mailbox # <<>> /\ Head(mailbox).type = "Failed"
      /\ mailbox' = Tail(mailbox)
  BY DEF ProcessWorkunitExecutorFailure, Receive
<1>3. Types /\ LifeOf /\ Sorted /\ Housed /\ Posted /\ Advanced
  BY <1>2 DEF ExecutorInv, WhileUp
<1>4. w \in Workunits /\ w \in running /\ Reported(Head(mailbox), executor, taskState)
  <2>1. PICK m : m = Head(mailbox)
    OBVIOUS
  <2>2. m.type # "HostOn"
    BY <1>2, <2>1
  <2> QED
    BY <1>1, <1>2, <2>1, <2>2, ReceivedIsReported
<1>5. (running \ {w}) \cap {PreFileCopies, PostFileCopies} = {}
  BY <1>3, <1>4, FileCopiesRunAlone
<1>6. /\ coreAvailabilities' = CoresFreed(w) /\ ramAvailabilities' = RamFreed(w)
      /\ executor' = [Killed(running \ {w}) EXCEPT ![w] = NoExecutor]
      /\ taskState' = TasksAfterDeath(running \ {w})
      /\ running' = running \ {w}
      /\ Return("failed", endedFiles \cup executor[w].files)
      /\ UNCHANGED <<parts, dependencies, capacity, numPendingParents, ready, nonReady, completed,
                     numCompletedTasks, scratch, deletion, isOn, hostFailures, damaged, aborted>>
  BY <1>1, <1>4, <1>5 DEF ProcessWorkunitExecutorFailure, jobVars, hostVars
<1>7. endedFiles \cup executor[w].files \in SUBSET Files
  BY <1>3, <1>4 DEF Types, Executors
<1>8. /\ daemon' = "ending" /\ answer' = "failed"
      /\ filesStored' \in SUBSET Files /\ endedFiles' \in SUBSET Files
  BY <1>3, <1>6, <1>7, ReturnLeaves
<1>9. PICK S : S = running \ {w}
  OBVIOUS
<1>10. /\ executor' \in [Workunits -> Executors] /\ executor'[w] = NoExecutor
       /\ \A v \in Workunits \ {w} : executor'[v] = IF v \in S \cap Alive THEN NoExecutor ELSE executor[v]
       /\ taskState' \in [Tasks -> InternalStates]
       /\ \A t \in Tasks : taskState'[t] =
             IF t \in S /\ executor[t].phase \in {"running", "worked"} THEN "TASK_FAILED" ELSE taskState[t]
  <2>1. PICK k : k = Killed(S)
    OBVIOUS
  <2>2. /\ k \in [Workunits -> Executors]
        /\ \A v \in Workunits : k[v] = IF v \in S \cap Alive THEN NoExecutor ELSE executor[v]
        /\ TasksAfterDeath(S) \in [Tasks -> InternalStates]
        /\ \A t \in Tasks : TasksAfterDeath(S)[t] =
             IF t \in S /\ executor[t].phase \in {"running", "worked"} THEN "TASK_FAILED" ELSE taskState[t]
    BY <1>3, <2>1, KilledAreGone
  <2>3. executor' = [k EXCEPT ![w] = NoExecutor] /\ taskState' = TasksAfterDeath(S)
    BY <1>6, <1>9, <2>1
  <2> QED
    BY <1>4, <2>2, <2>3, NoExecutorIsOne
<1>11. /\ coreAvailabilities' \in [Hosts -> Amounts] /\ ramAvailabilities' \in [Hosts -> Nat]
  BY <1>2, <1>3, <1>4, <1>6, FreedIsAvailable DEF ExecutorInv, WhileUp
<1>12. mailbox' \in Seq(Messages)
  BY <1>2, <1>3 DEF Types
<1>13. Types'
  BY <1>3, <1>6, <1>8, <1>10, <1>11, <1>12 DEF Types, Lives
<1>14. LifeOf'
  BY <1>2, <1>3, <1>6, <1>8 DEF LifeOf
<1>15. EndedJobIsQuiet'
  <2>1. Alive' = {}
    <3>1. ASSUME NEW v \in Workunits PROVE executor'[v].phase \notin {"started", "running", "worked", "failed"}
      <4>1. CASE v = w
        BY <1>10, <4>1, NoExecutorIsOne
      <4>2. CASE v \in S \cap Alive /\ v # w
        BY <1>10, <4>2, NoExecutorIsOne
      <4>3. CASE v \notin S \cap Alive /\ v # w
        <5>1. executor'[v] = executor[v]
          BY <1>10, <4>3
        <5>2. v \notin Alive
          <6>1. CASE v \in running
            BY <1>9, <4>3, <6>1
          <6>2. CASE v \notin running
            BY <1>3, <6>2 DEF Alive, Housed, HousedIn
          <6> QED
            BY <6>1, <6>2
        <5> QED
          BY <5>1, <5>2 DEF Alive
      <4> QED
        BY <4>1, <4>2, <4>3
    <3> QED
      BY <3>1 DEF Alive
  <2>2. ASSUME NEW t \in Tasks PROVE taskState'[t] # "TASK_RUNNING"
    <3>1. CASE taskState[t] # "TASK_RUNNING"
      BY <1>10, <3>1
    <3>2. CASE taskState[t] = "TASK_RUNNING"
      <4>1. executor[t].phase = "running" /\ t \in Workunits
        BY <1>3, <3>2 DEF Advanced, Workunits
      <4>2. t # w /\ t \in running
        BY <1>1, <1>2, <1>3, <1>4, <4>1 DEF Reported, Housed, HousedIn
      <4> QED
        BY <1>9, <1>10, <4>1, <4>2
    <3> QED
      BY <3>1, <3>2
  <2> QED
    BY <1>8, <2>1, <2>2 DEF EndedJobIsQuiet
<1> QED
  BY <1>8, <1>13, <1>14, <1>15 DEF ExecutorInv

-------------------------------------------------------------------------------
(* Hosts *)

LEMMA TurnOnKeeps ==
    ASSUME ExecutorInv, NEW h \in Hosts, TurnOn(h) PROVE ExecutorInv'
<1>1. /\ isOn' = isOn \cup {h}
      /\ mailbox' = IF daemon = "up" THEN Append(mailbox, [type |-> "HostOn"]) ELSE mailbox
      /\ UNCHANGED <<daemon, parts, dependencies, capacity, coreAvailabilities, ramAvailabilities,
                     numPendingParents, nonReady, ready, running, completed, executor, taskState,
                     numCompletedTasks, answer, filesStored, endedFiles, scratch, hostFailures,
                     damaged, aborted>>
  BY DEF TurnOn, jobVars, resourceVars, workunitVars, scratchVars
<1>2. Types /\ LifeOf /\ EndedJobIsQuiet /\ (daemon = "up" => WhileUp)
  BY DEF ExecutorInv
<1>3. [type |-> "HostOn"] \in Messages
  BY DEF Messages
<1>4. mailbox' \in Seq(Messages) /\ (daemon # "up" => mailbox' = mailbox)
  BY <1>1, <1>2, <1>3 DEF Types
<1>5. Types'
  BY <1>1, <1>2, <1>4 DEF Types
<1>6. LifeOf'
  <2>1. daemon = "new" => Fresh'
    BY <1>1, <1>2, <1>4 DEF LifeOf, Fresh
  <2> QED
    BY <1>1, <1>2, <2>1 DEF LifeOf
<1>7. EndedJobIsQuiet'
  BY <1>1, <1>2 DEF EndedJobIsQuiet, Alive
<1>8. ASSUME daemon = "up" PROVE WhileUp'
  <2>1. Sorted /\ Housed /\ Posted /\ Advanced /\ Listed /\ Accounted
    BY <1>2, <1>8 DEF WhileUp
  <2>2. Sorted'
    BY <1>1, <2>1, SortedStays
  <2>3. Accounted'
    BY <1>1, <1>2, <1>5, <2>1, AccountedStays
  <2>4. Posted'
    <3>1. PICK q, e, s, m : q = mailbox /\ e = executor /\ s = taskState /\ m = [type |-> "HostOn"]
      OBVIOUS
    <3>2. q \in Seq(Messages) /\ PostedIn(q, e, s) /\ m \in Messages /\ m.type = "HostOn"
      BY <1>2, <1>3, <2>1, <3>1 DEF Posted, Types
    <3>3. PostedIn(Append(q, m), e, s)
      BY <3>2, PostedHostOn
    <3> QED
      BY <1>1, <1>8, <3>1, <3>3 DEF Posted
  <2>5. Housed' /\ Advanced' /\ Listed'
    BY <1>1, <2>1 DEF Housed, HousedIn, Advanced, Listed
  <2> QED
    BY <2>2, <2>3, <2>4, <2>5 DEF WhileUp
<1> QED
  BY <1>1, <1>5, <1>6, <1>7, <1>8 DEF ExecutorInv

\* What dies with a host.
LEMMA TurnOffLeaves ==
    ASSUME Types, NEW h \in Hosts, TurnOff(h),
           NEW dead, dead = {w \in Alive : executor[w].host = h}
    PROVE  /\ executor' \in [Workunits -> Executors] /\ taskState' \in [Tasks -> InternalStates]
           /\ \A w \in Workunits \ dead : executor'[w] = executor[w]
           /\ \A w \in dead : /\ executor'[w].phase = "crashed" /\ executor'[w].host = executor[w].host
                              /\ executor'[w].cores = executor[w].cores
                              /\ executor'[w].files = executor[w].files
           /\ ~(daemon \in {"up", "ending"} /\ h = FirstHost) =>
                 \A t \in Tasks : taskState'[t] =
                    IF t \in dead /\ executor[t].phase \in {"running", "worked"} THEN "TASK_FAILED"
                    ELSE taskState[t]
           /\ dead = {} => \A t \in Tasks : taskState[t] # "TASK_RUNNING" => taskState'[t] = taskState[t]
<1>1. executor \in [Workunits -> Executors] /\ taskState \in [Tasks -> InternalStates]
      /\ "TASK_FAILED" \in InternalStates
  BY DEF Types, InternalStates
<1>2. executor' = [w \in Workunits |->
          IF w \in dead THEN [executor[w] EXCEPT !.phase = "crashed"] ELSE executor[w]]
  BY DEF TurnOff
<1>3. taskState' = [t \in Tasks |->
          IF daemon \in {"up", "ending"} /\ h = FirstHost THEN IF t \in dead THEN TasksAfterDeath(dead)[t]
                                                 ELSE TasksAfterCleanup(running)[t]
          ELSE TasksAfterDeath(dead)[t]]
  BY DEF TurnOff
<1>4. ASSUME NEW w \in Workunits, NEW x, x = [executor[w] EXCEPT !.phase = "crashed"]
      PROVE  /\ x \in Executors /\ x.phase = "crashed" /\ x.host = executor[w].host
             /\ x.cores = executor[w].cores /\ x.files = executor[w].files
  <2>1. executor[w] \in Executors
    BY <1>1
  <2> QED
    BY <1>4, <2>1 DEF Executors, Phases
<1>5. dead \in SUBSET Workunits
  BY DEF Alive
<1>6. ASSUME NEW w \in Workunits
      PROVE  /\ executor'[w] \in Executors
             /\ w \notin dead => executor'[w] = executor[w]
             /\ w \in dead => /\ executor'[w].phase = "crashed" /\ executor'[w].host = executor[w].host
                              /\ executor'[w].cores = executor[w].cores
                              /\ executor'[w].files = executor[w].files
  <2>1. PICK x : x = [executor[w] EXCEPT !.phase = "crashed"]
    OBVIOUS
  <2>2. /\ x \in Executors /\ x.phase = "crashed" /\ x.host = executor[w].host
        /\ x.cores = executor[w].cores /\ x.files = executor[w].files
    BY <1>4, <2>1
  <2>3. executor'[w] = IF w \in dead THEN x ELSE executor[w]
    BY <1>2, <2>1
  <2> QED
    BY <1>1, <2>2, <2>3
<1>7. executor' \in [Workunits -> Executors]
  BY <1>2, <1>6
<1>8. /\ TasksAfterDeath(dead) \in [Tasks -> InternalStates]
      /\ TasksAfterCleanup(running) \in [Tasks -> InternalStates]
  BY <1>1 DEF TasksAfterDeath, TasksAfterCleanup
<1>9. taskState' \in [Tasks -> InternalStates]
  BY <1>3, <1>8
<1>10. ASSUME ~(daemon \in {"up", "ending"} /\ h = FirstHost), NEW t \in Tasks
       PROVE  taskState'[t] = IF t \in dead /\ executor[t].phase \in {"running", "worked"} THEN "TASK_FAILED"
                              ELSE taskState[t]
  BY <1>3, <1>10 DEF TasksAfterDeath
<1>11. ASSUME dead = {}, NEW t \in Tasks, taskState[t] # "TASK_RUNNING"
       PROVE  taskState'[t] = taskState[t]
  BY <1>3, <1>11 DEF TasksAfterDeath, TasksAfterCleanup
<1> QED
  BY <1>5, <1>6, <1>7, <1>9, <1>10, <1>11

LEMMA TurnOffKeeps ==
    ASSUME ExecutorInv, NEW h \in Hosts, TurnOff(h) PROVE ExecutorInv'
<1>1. Types /\ LifeOf /\ EndedJobIsQuiet /\ (daemon = "up" => WhileUp)
  BY DEF ExecutorInv
<1>2. PICK dead : dead = {w \in Alive : executor[w].host = h}
  OBVIOUS
<1>3. /\ executor' \in [Workunits -> Executors] /\ taskState' \in [Tasks -> InternalStates]
      /\ \A w \in Workunits \ dead : executor'[w] = executor[w]
      /\ \A w \in dead : /\ executor'[w].phase = "crashed" /\ executor'[w].host = executor[w].host
                         /\ executor'[w].cores = executor[w].cores
                         /\ executor'[w].files = executor[w].files
      /\ ~(daemon \in {"up", "ending"} /\ h = FirstHost) =>
            \A t \in Tasks : taskState'[t] =
               IF t \in dead /\ executor[t].phase \in {"running", "worked"} THEN "TASK_FAILED"
               ELSE taskState[t]
      /\ dead = {} => \A t \in Tasks : taskState[t] # "TASK_RUNNING" => taskState'[t] = taskState[t]
  BY <1>1, <1>2, TurnOffLeaves
<1>4. /\ daemon # "new" /\ isOn' = isOn \ {h}
      /\ UNCHANGED <<parts, dependencies, capacity, coreAvailabilities, ramAvailabilities,
                     numPendingParents, numCompletedTasks, answer, filesStored, scratch, damaged, aborted>>
  BY DEF TurnOff, jobVars, resourceVars
<1>5. \A w \in dead : w \in Workunits /\ executor[w].phase \in {"started", "running", "worked", "failed"}
  BY <1>2 DEF Alive
<1>11. EndedJobIsQuiet'
  <2>1. daemon' \in {daemon, "crashed"}
    BY DEF TurnOff
  <2>2. SUFFICES ASSUME answer # "none" \/ daemon = "killed" PROVE EndedJobIsQuiet'
    BY <1>1, <1>4, <2>1 DEF EndedJobIsQuiet, LifeOf
  <2>3. Alive = {} /\ dead = {} /\ \A t \in Tasks : taskState[t] # "TASK_RUNNING"
    BY <1>1, <1>2, <2>2 DEF EndedJobIsQuiet
  <2>4. \A w \in Workunits : executor'[w] = executor[w]
    BY <1>3, <2>3
  <2>5. Alive' = {}
    BY <2>3, <2>4 DEF Alive
  <2>6. \A t \in Tasks : taskState'[t] = taskState[t]
    BY <1>3, <2>3
  <2> QED
    BY <1>1, <1>4, <2>1, <2>3, <2>5, <2>6 DEF EndedJobIsQuiet
<1>6. CASE daemon \in {"up", "ending"} /\ h = FirstHost
  <2>1. /\ daemon' = "crashed" /\ mailbox' = <<>>
        /\ nonReady' = {} /\ ready' = {} /\ running' = {} /\ completed' = {}
        /\ endedFiles' = {}
    BY <1>6 DEF TurnOff
  <2>2. Types'
    BY <1>1, <1>3, <1>4, <2>1 DEF Types, Lives
  <2>3. LifeOf'
    BY <1>1, <1>4, <1>6, <2>1 DEF LifeOf
  <2> QED
    BY <1>11, <2>1, <2>2, <2>3 DEF ExecutorInv
<1>7. CASE ~(daemon \in {"up", "ending"} /\ h = FirstHost)
  <2>1. UNCHANGED <<daemon, mailbox, nonReady, ready, running, completed, endedFiles>>
    BY <1>7 DEF TurnOff
  <2>2. Types'
    BY <1>1, <1>3, <1>4, <2>1 DEF Types
  <2>3. LifeOf'
    BY <1>1, <1>4, <2>1 DEF LifeOf
  <2>4. \A t \in Tasks : taskState'[t] =
           IF t \in dead /\ executor[t].phase \in {"running", "worked"} THEN "TASK_FAILED" ELSE taskState[t]
    BY <1>3, <1>7
  <2>6. ASSUME daemon = "up" PROVE WhileUp'
    <3>1. Sorted /\ Housed /\ Posted /\ Advanced /\ Listed /\ Accounted
      BY <1>1, <2>6 DEF WhileUp
    <3>2. Sorted'
      BY <1>4, <2>1, <3>1, SortedStays
    <3>3. Housed'
      <4>1. ASSUME NEW w \in Workunits
            PROVE  /\ w \in running <=> executor'[w].phase # "none"
                   /\ w \notin running => executor'[w] = NoExecutor
                   /\ w \in running => executor'[w].host \in Hosts
                   /\ executor'[w].phase = "started" => executor'[w].files = {}
        <5>1. CASE w \in dead
          BY <1>3, <1>5, <3>1, <5>1 DEF Housed, HousedIn
        <5>2. CASE w \notin dead
          BY <1>3, <3>1, <5>2 DEF Housed, HousedIn
        <5> QED
          BY <5>1, <5>2
      <4> QED
        BY <2>1, <4>1 DEF Housed, HousedIn
    <3>4. Accounted'
      <4>1. \A w \in running : executor'[w].host = executor[w].host /\ executor'[w].cores = executor[w].cores
        BY <1>1, <1>3 DEF Types
      <4> QED
        BY <1>1, <1>4, <2>1, <2>2, <3>1, <4>1, AccountedStays
    <3>5. Posted'
      <4>1. \A v \in Workunits : Undisturbed(v, executor, taskState, executor', taskState')
        BY <1>3, <1>5, <2>4 DEF Undisturbed
      <4> QED
        BY <1>1, <2>1, <3>1, <4>1, NothingNewIsSaid
    <3>6. Listed'
      <4>1. \A w \in Workunits : executor'[w].files = executor[w].files
        BY <1>3
      <4> QED
        BY <1>4, <2>1, <3>1, <4>1 DEF Listed
    <3>7. Advanced'
      <4>1. \A t \in Tasks : t \in Workunits /\ (t \in completed \/ t \in nonReady => t \notin dead)
        BY <1>5, <3>1 DEF Workunits, Sorted, Housed, HousedIn
      <4>2. ASSUME NEW t \in Tasks
            PROVE  /\ t \in completed \/ executor'[t].phase = "worked" => taskState'[t] = "TASK_COMPLETED"
                   /\ taskState'[t] = "TASK_RUNNING" => executor'[t].phase = "running"
        <5>1. CASE t \in dead
          <6>1. executor'[t].phase = "crashed" /\ t \notin completed
            BY <1>3, <4>1, <5>1
          <6>2. taskState'[t] # "TASK_RUNNING"
            BY <2>4, <3>1, <5>1 DEF Advanced
          <6> QED
            BY <6>1, <6>2
        <5>2. CASE t \notin dead
          <6>1. executor'[t] = executor[t] /\ taskState'[t] = taskState[t]
            BY <1>3, <2>4, <4>1, <5>2
          <6> QED
            BY <3>1, <6>1 DEF Advanced
        <5> QED
          BY <5>1, <5>2
      <4>3. ASSUME NEW t \in Tasks, t \in nonReady
            PROVE  /\ taskState'[t] \in {"TASK_NOT_READY", "TASK_READY"}
                   /\ (\A p \in Parents[t] : taskState'[p] = "TASK_COMPLETED") => taskState'[t] = "TASK_READY"
        <5>1. taskState'[t] = taskState[t]
          BY <2>4, <4>1, <4>3
        <5>2. \A p \in Parents[t] : taskState'[p] = "TASK_COMPLETED" => taskState[p] = "TASK_COMPLETED"
          BY <2>4, ParentsAssumption
        <5> QED
          BY <3>1, <4>3, <5>1, <5>2 DEF Advanced
      <4>4. numCompletedTasks' = Cardinality(completed' \cap Tasks)
        BY <1>4, <2>1, <3>1 DEF Advanced
      <4> QED
        BY <2>1, <4>2, <4>3, <4>4 DEF Advanced
    <3> QED
      BY <3>2, <3>3, <3>4, <3>5, <3>6, <3>7 DEF WhileUp
  <2> QED
    BY <1>11, <2>1, <2>2, <2>3, <2>6 DEF ExecutorInv
<1> QED
  BY <1>6, <1>7

-------------------------------------------------------------------------------
(* Messages received *)

\* The main loop goes on: what it needs, and what holds of the workunits after it. S are the
\* ready ones, N those that wait, R those that run, e the executors.
LoopKeeps(S, N, R, e) ==
    /\ Types' /\ Housed' /\ Accounted' /\ Listed'
    /\ nonReady' = N /\ ready' \in SUBSET S /\ running' = R \cup (S \ ready')
    /\ \A w \in Workunits : executor'[w] = e[w] \/ (w \in S /\ executor'[w].phase = "started")

LEMMA LoopHouses ==
    ASSUME Types, daemon' = daemon, parts' = parts, capacity' = capacity, isOn' = isOn,
           NEW S \in SUBSET Workunits, NEW N \in SUBSET Workunits, NEW R \in SUBSET Workunits,
           R \cap S = {},
           NEW cores \in [Hosts -> Amounts], NEW ram \in [Hosts -> Nat], NEW e \in [Workunits -> Executors],
           HousedIn(e, R), LoopAgain(S, N, R, cores, ram, e),
           taskState' \in [Tasks -> InternalStates], numPendingParents' \in [Workunits -> Nat],
           numCompletedTasks' \in Nat, completed' \in SUBSET Workunits, mailbox' \in Seq(Messages),
           filesStored' \in SUBSET Files, endedFiles' \in SUBSET Files, scratch' = scratch,
           \A f \in scratch : \/ f \in filesStored' \/ f \in endedFiles'
                              \/ \E w \in Workunits : w \in R /\ f \in e[w].files,
           \A h \in Hosts : /\ capacity[h] \in Amounts
                            /\ h \notin damaged' => cores[h] + CoresHeld(e, R, h) = capacity[h]
                            /\ ram[h] + RamHeld(e, R, h) = HostRam[h]
    PROVE  LoopKeeps(S, N, R, e)
<1>1. isOn \in SUBSET Hosts
  BY DEF Types
<1>2. Looped(S, N, R, cores, ram, e)
  BY <1>1, LoopAgainKeeps
<1>3. /\ nonReady' = N /\ ready' \in SUBSET S /\ running' = R \cup (S \ ready')
      /\ coreAvailabilities' \in [Hosts -> Amounts] /\ ramAvailabilities' \in [Hosts -> Nat]
      /\ executor' \in [Workunits -> Executors] /\ Housed'
      /\ \A w \in Workunits : w \notin S \ ready' => executor'[w] = e[w]
      /\ \A w \in S \ ready' : executor'[w].phase = "started"
      /\ \A h \in Hosts :
            /\ coreAvailabilities'[h] + HeldCores(h)' = cores[h] + CoresHeld(e, R, h)
            /\ ramAvailabilities'[h] + HeldRam(h)' = ram[h] + RamHeld(e, R, h)
  BY <1>2 DEF Looped
<1>4. Types'
  <2>1. nonReady' \in SUBSET Workunits /\ ready' \in SUBSET Workunits /\ running' \in SUBSET Workunits
    BY <1>3
  <2>2. scratch' \in SUBSET Files /\ isOn' \in SUBSET Hosts /\ parts' \in SUBSET NoTask
        /\ daemon' \in Lives
    BY DEF Types
  <2> QED
    BY <1>3, <2>1, <2>2 DEF Types
<1>5. Accounted'
  <2>1. ASSUME NEW h \in Hosts
        PROVE  /\ capacity'[h] \in Amounts
               /\ h \notin damaged' => coreAvailabilities'[h] + HeldCores(h)' = capacity'[h]
               /\ ramAvailabilities'[h] + HeldRam(h)' = HostRam[h]
    BY <1>3
  <2> QED
    BY <2>1 DEF Accounted
<1>6. Listed'
  <2>1. ASSUME NEW w \in R PROVE executor'[w] = e[w]
    BY <1>3
  <2> QED
    BY <2>1 DEF Listed
<1>7. \A w \in Workunits : executor'[w] = e[w] \/ (w \in S /\ executor'[w].phase = "started")
  BY <1>3
<1> QED
  BY <1>3, <1>4, <1>5, <1>6, <1>7 DEF LoopKeeps

LEMMA HostOnKeeps ==
    ASSUME ExecutorInv, ProcessHostOn PROVE ExecutorInv'
<1>1. /\ daemon = "up" /\ aborted = "no" /\ mailbox # <<>> /\ Head(mailbox).type = "HostOn"
      /\ mailbox' = Tail(mailbox)
      /\ LoopAgain(ready, nonReady, running, coreAvailabilities, ramAvailabilities, executor)
      /\ UNCHANGED <<daemon, parts, dependencies, capacity, numPendingParents, completed, taskState,
                     numCompletedTasks, answer, filesStored, endedFiles, scratch, isOn, hostFailures,
                     damaged, aborted>>
  BY DEF ProcessHostOn, Receive, jobVars, scratchVars, hostVars
<1>2. Types /\ LifeOf /\ Sorted /\ Housed /\ Posted /\ Advanced /\ Listed /\ Accounted
  BY <1>1 DEF ExecutorInv, WhileUp
<1>3. PICK S, N, R, cores, ram, e :
         /\ S = ready /\ N = nonReady /\ R = running /\ cores = coreAvailabilities
         /\ ram = ramAvailabilities /\ e = executor
  OBVIOUS
<1>4. /\ S \in SUBSET Workunits /\ N \in SUBSET Workunits /\ R \in SUBSET Workunits /\ R \cap S = {}
      /\ cores \in [Hosts -> Amounts] /\ ram \in [Hosts -> Nat] /\ e \in [Workunits -> Executors]
      /\ HousedIn(e, R) /\ LoopAgain(S, N, R, cores, ram, e)
  BY <1>1, <1>2, <1>3 DEF Types, Sorted, Housed
<1>5. /\ taskState' \in [Tasks -> InternalStates] /\ numPendingParents' \in [Workunits -> Nat]
      /\ numCompletedTasks' \in Nat /\ completed' \in SUBSET Workunits /\ mailbox' \in Seq(Messages)
      /\ filesStored' \in SUBSET Files /\ endedFiles' \in SUBSET Files
  <2>1. mailbox \in Seq(Messages) /\ mailbox # <<>>
    BY <1>1, <1>2 DEF Types
  <2>2. mailbox' \in Seq(Messages)
    BY <1>1, <2>1
  <2> QED
    BY <1>1, <1>2, <2>2 DEF Types
<1>6. \A f \in scratch : \/ f \in filesStored' \/ f \in endedFiles'
                         \/ \E w \in Workunits : w \in R /\ f \in e[w].files
  <2>1. \A w \in Workunits : w \notin R => e[w].files = {}
    BY <1>2, <1>3, NoExecutorIsOne DEF Housed, HousedIn
  <2> QED
    BY <1>1, <1>2, <1>3, <2>1 DEF Listed
<1>7. \A h \in Hosts : /\ capacity[h] \in Amounts
                       /\ h \notin damaged' => cores[h] + CoresHeld(e, R, h) = capacity[h]
                       /\ ram[h] + RamHeld(e, R, h) = HostRam[h]
  BY <1>1, <1>2, <1>3, HeldIsHeld DEF Accounted
<1>8. LoopKeeps(S, N, R, e)
  BY <1>1, <1>2, <1>4, <1>5, <1>6, <1>7, LoopHouses
<1>9. /\ Types' /\ Housed' /\ Accounted' /\ Listed'
      /\ nonReady' = nonReady /\ ready' \in SUBSET ready /\ running' = running \cup (ready \ ready')
      /\ \A w \in Workunits : executor'[w] = executor[w] \/ (w \in ready /\ executor'[w].phase = "started")
  BY <1>3, <1>8 DEF LoopKeeps
<1>10. LifeOf'
  BY <1>1, <1>2 DEF LifeOf
<1>11. Sorted'
  <2>1. JobDependencies' = JobDependencies /\ JobWorkunits' = JobWorkunits
    BY <1>1 DEF JobDependencies, StageDependencies, OverheadDependencies, AfterPreFileCopies, AfterTasks,
           JobWorkunits
  <2>2. \A w : Pending(w)' = Pending(w)
    BY <1>1 DEF Pending
  <2>3. \A w \in JobWorkunits : /\ numPendingParents'[w] = Cardinality(Pending(w)')
                                /\ w \in nonReady' <=> Pending(w)' # {}
    BY <1>1, <1>2, <1>9, <2>2 DEF Sorted
  <2>4. /\ nonReady' \cup ready' \cup running' \cup completed' = JobWorkunits'
        /\ nonReady' \cap ready' = {} /\ nonReady' \cap running' = {} /\ nonReady' \cap completed' = {}
        /\ ready' \cap running' = {} /\ ready' \cap completed' = {} /\ running' \cap completed' = {}
    BY <1>1, <1>2, <1>9, <2>1 DEF Sorted
  <2> QED
    BY <1>1, <1>2, <2>1, <2>3, <2>4 DEF Sorted
<1>12. \A w \in ready : w \in Workunits /\ executor[w].phase = "none"
  BY <1>2 DEF Types, Sorted, Housed, HousedIn
<1>13. Posted'
  <2>1. \A v \in Workunits : Undisturbed(v, executor, taskState, executor', taskState')
    BY <1>1, <1>9, <1>12 DEF Undisturbed
  <2>2. PICK q, s, f, u : q = mailbox /\ s = taskState /\ f = executor' /\ u = taskState'
    OBVIOUS
  <2>3. q \in Seq(Messages) /\ q # <<>> /\ PostedIn(q, e, s) /\ \A v \in Workunits : Undisturbed(v, e, s, f, u)
    BY <1>1, <1>2, <1>3, <2>1, <2>2 DEF Posted, Types
  <2>4. PostedIn(Tail(q), f, u)
    BY <2>3, PostedTail
  <2> QED
    BY <1>1, <2>2, <2>4 DEF Posted
<1>14. Advanced'
  <2>1. ASSUME NEW t \in Tasks
        PROVE  /\ t \in completed' \/ executor'[t].phase = "worked" => taskState'[t] = "TASK_COMPLETED"
               /\ taskState'[t] = "TASK_RUNNING" => executor'[t].phase = "running"
    <3>1. t \in Workunits
      BY DEF Workunits
    <3> QED
      BY <1>1, <1>2, <1>9, <1>12, <3>1 DEF Advanced
  <2> QED
    BY <1>1, <1>2, <1>9, <2>1 DEF Advanced
<1>15. EndedJobIsQuiet'
  BY <1>1, <1>10 DEF EndedJobIsQuiet, LifeOf
<1> QED
  BY <1>9, <1>10, <1>11, <1>13, <1>14, <1>15 DEF ExecutorInv, WhileUp

LEMMA CrashKeeps ==
    ASSUME ExecutorInv, ProcessWorkunitExecutorCrash PROVE ExecutorInv'
<1>1. PICK w, h0, cores :
         /\ w = Head(mailbox).workunit /\ h0 = executor[w].host
         /\ cores = [coreAvailabilities EXCEPT ![h0] = (@ - executor[w].cores) % WordSize]
  OBVIOUS
<1>2. /\ daemon = "up" /\ aborted = "no" /\ mailbox # <<>> /\ Head(mailbox).type = "Crashed"
      /\ mailbox' = Tail(mailbox)
  BY DEF ProcessWorkunitExecutorCrash, Receive
<1>3. Types /\ LifeOf /\ Sorted /\ Housed /\ Posted /\ Advanced /\ Listed /\ Accounted
  BY <1>2 DEF ExecutorInv, WhileUp
<1>4. /\ w \in Workunits /\ w \in running /\ Reported(Head(mailbox), executor, taskState)
      /\ executor[w] # NoExecutor
  <2>1. PICK m : m = Head(mailbox)
    OBVIOUS
  <2>2. m.type # "HostOn"
    BY <1>2, <2>1
  <2> QED
    BY <1>1, <1>2, <2>1, <2>2, ReceivedIsReported
<1>5. /\ filesStored' = filesStored \cup executor[w].files
      /\ taskState' = [t \in Tasks |-> IF t = w THEN "TASK_READY" ELSE taskState[t]]
      /\ LoopAgain(ready \cup {w}, nonReady, running \ {w}, cores, RamFreed(w), Forgotten(w))
      /\ damaged' = damaged \cup {h0}
      /\ UNCHANGED <<daemon, parts, dependencies, capacity, numPendingParents, completed,
                     numCompletedTasks, answer, endedFiles, scratch, isOn, hostFailures, aborted>>
  BY <1>1, <1>4 DEF ProcessWorkunitExecutorCrash, jobVars, hostVars
<1>6. PICK S, N, R, ram, e :
         S = ready \cup {w} /\ N = nonReady /\ R = running \ {w} /\ ram = RamFreed(w) /\ e = Forgotten(w)
  OBVIOUS
<1>7. /\ h0 \in Hosts /\ ram \in [Hosts -> Nat] /\ CoresFreed(w) \in [Hosts -> Amounts]
      /\ e \in [Workunits -> Executors] /\ HousedIn(e, R)
      /\ \A h \in Hosts : /\ h \notin damaged => CoresFreed(w)[h] + CoresHeld(e, R, h) = capacity[h]
                          /\ ram[h] + RamHeld(e, R, h) = HostRam[h]
  BY <1>1, <1>3, <1>4, <1>6, FreedIsAvailable
<1>8. cores \in [Hosts -> Amounts]
  <2>1. coreAvailabilities \in [Hosts -> Amounts] /\ executor[w].cores \in Nat
    BY <1>3, <1>4 DEF Types, Executors
  <2>2. WordSize \in Nat /\ WordSize > 0
    <3>1. HostCores[h0] \in 1 .. WordSize - 1 /\ WordSize \in Nat
      BY <1>7, HostsAssumption
    <3> QED
      BY <3>1
  <2>3. coreAvailabilities[h0] \in Int
    BY <1>7, <2>1 DEF Amounts
  <2>4. (coreAvailabilities[h0] - executor[w].cores) % WordSize \in Amounts
    BY <2>1, <2>2, <2>3 DEF Amounts
  <2> QED
    BY <1>1, <2>1, <2>4
<1>9. \A h \in Hosts : h # h0 => cores[h] = CoresFreed(w)[h]
  BY <1>1, <1>3 DEF CoresFreed, Types
<1>10. e[w] = NoExecutor /\ \A v \in Workunits \ {w} : e[v] = executor[v]
  BY <1>3, <1>4, <1>6 DEF Forgotten, Types
<1>11. /\ S \in SUBSET Workunits /\ N \in SUBSET Workunits /\ R \in SUBSET Workunits /\ R \cap S = {}
       /\ LoopAgain(S, N, R, cores, ram, e)
  BY <1>3, <1>4, <1>5, <1>6 DEF Types, Sorted
<1>12. /\ taskState' \in [Tasks -> InternalStates] /\ numPendingParents' \in [Workunits -> Nat]
       /\ numCompletedTasks' \in Nat /\ completed' \in SUBSET Workunits /\ mailbox' \in Seq(Messages)
       /\ filesStored' \in SUBSET Files /\ endedFiles' \in SUBSET Files
  <2>1. mailbox \in Seq(Messages) /\ mailbox # <<>>
    BY <1>2, <1>3 DEF Types
  <2>2. mailbox' \in Seq(Messages)
    BY <1>2, <2>1
  <2>3. executor[w].files \in SUBSET Files
    BY <1>3, <1>4 DEF Types, Executors
  <2>4. taskState' \in [Tasks -> InternalStates]
    BY <1>3, <1>5 DEF Types, InternalStates
  <2> QED
    BY <1>3, <1>5, <2>2, <2>3, <2>4 DEF Types
<1>13. \A f \in scratch : \/ f \in filesStored' \/ f \in endedFiles'
                          \/ \E v \in Workunits : v \in R /\ f \in e[v].files
  <2>1. \A v \in Workunits : v \notin running => executor[v].files = {}
    BY <1>3, NoExecutorIsOne DEF Housed, HousedIn
  <2> QED
    BY <1>3, <1>5, <1>6, <1>10, <2>1 DEF Listed
<1>14. \A h \in Hosts : /\ capacity[h] \in Amounts
                        /\ h \notin damaged' => cores[h] + CoresHeld(e, R, h) = capacity[h]
                        /\ ram[h] + RamHeld(e, R, h) = HostRam[h]
  BY <1>3, <1>5, <1>7, <1>9 DEF Accounted
<1>15. LoopKeeps(S, N, R, e)
  BY <1>3, <1>5, <1>7, <1>8, <1>11, <1>12, <1>13, <1>14, LoopHouses
<1>16. /\ Types' /\ Housed' /\ Accounted' /\ Listed'
       /\ nonReady' = nonReady /\ ready' \in SUBSET S /\ running' = R \cup (S \ ready')
       /\ \A v \in Workunits : executor'[v] = e[v] \/ (v \in S /\ executor'[v].phase = "started")
  BY <1>6, <1>15 DEF LoopKeeps
<1>17. LifeOf'
  BY <1>2, <1>3, <1>5 DEF LifeOf
<1>18. Sorted'
  <2>1. JobDependencies' = JobDependencies /\ JobWorkunits' = JobWorkunits
    BY <1>5 DEF JobDependencies, StageDependencies, OverheadDependencies, AfterPreFileCopies, AfterTasks,
           JobWorkunits
  <2>2. \A v : Pending(v)' = Pending(v)
    BY <1>5 DEF Pending
  <2>3. \A v \in JobWorkunits : /\ numPendingParents'[v] = Cardinality(Pending(v)')
                                /\ v \in nonReady' <=> Pending(v)' # {}
    BY <1>3, <1>5, <1>16, <2>2 DEF Sorted
  <2>4. nonReady' \cup ready' \cup running' \cup completed' = JobWorkunits'
    BY <1>3, <1>4, <1>5, <1>6, <1>16, <2>1 DEF Sorted
  <2>5. /\ nonReady' \cap ready' = {} /\ nonReady' \cap running' = {} /\ nonReady' \cap completed' = {}
        /\ ready' \cap running' = {} /\ ready' \cap completed' = {} /\ running' \cap completed' = {}
    BY <1>3, <1>4, <1>5, <1>6, <1>16 DEF Sorted
  <2> QED
    BY <1>3, <1>5, <2>1, <2>3, <2>4, <2>5 DEF Sorted
<1>19. ASSUME NEW v \in Workunits, executor[v].phase # "none", v # w PROVE executor'[v] = executor[v]
  <2>1. v \in running /\ v \notin S
    BY <1>3, <1>6, <1>19 DEF Housed, HousedIn, Sorted
  <2> QED
    BY <1>10, <1>16, <1>19, <2>1
<1>20. Posted'
  <2>1. ASSUME NEW v \in Workunits, v # w PROVE Undisturbed(v, executor, taskState, executor', taskState')
    <3>1. v \in Tasks => taskState'[v] = taskState[v]
      BY <1>5, <2>1
    <3> QED
      BY <1>19, <2>1, <3>1 DEF Undisturbed
  <2>2. PICK q, x, s, f, u : q = mailbox /\ x = executor /\ s = taskState /\ f = executor' /\ u = taskState'
    OBVIOUS
  <2>3. q \in Seq(Messages) /\ q # <<>> /\ PostedIn(q, x, s) /\ Head(q).type # "HostOn" /\ Head(q).workunit = w
        /\ \A v \in Workunits : v # w => Undisturbed(v, x, s, f, u)
    BY <1>1, <1>2, <1>3, <2>1, <2>2 DEF Posted, Types
  <2>4. PostedIn(Tail(q), f, u)
    BY <2>3, PostedTail
  <2> QED
    BY <1>2, <2>2, <2>4 DEF Posted
<1>21. Advanced'
  <2>1. w \notin completed /\ w \notin nonReady
    BY <1>3, <1>4 DEF Sorted
  <2>2. ASSUME NEW t \in Tasks
        PROVE  /\ t \in completed' \/ executor'[t].phase = "worked" => taskState'[t] = "TASK_COMPLETED"
               /\ taskState'[t] = "TASK_RUNNING" => executor'[t].phase = "running"
    <3>1. t \in Workunits
      BY DEF Workunits
    <3>2. CASE t = w
      <4>1. executor'[t].phase \in {"none", "started"} /\ taskState'[t] = "TASK_READY"
        BY <1>5, <1>10, <1>16, <3>1, <3>2, NoExecutorIsOne
      <4> QED
        BY <1>5, <2>1, <3>2, <4>1
    <3>3. CASE t # w /\ executor[t].phase = "none"
      <4>1. executor'[t].phase \in {"none", "started"} /\ taskState'[t] = taskState[t]
        BY <1>5, <1>10, <1>16, <3>1, <3>3
      <4> QED
        BY <1>3, <1>5, <3>3, <4>1 DEF Advanced
    <3>4. CASE t # w /\ executor[t].phase # "none"
      <4>1. executor'[t] = executor[t] /\ taskState'[t] = taskState[t]
        BY <1>5, <1>19, <3>1, <3>4
      <4> QED
        BY <1>3, <1>5, <4>1 DEF Advanced
    <3> QED
      BY <3>2, <3>3, <3>4
  <2>3. ASSUME NEW t \in Tasks, t \in nonReady'
        PROVE  /\ taskState'[t] \in {"TASK_NOT_READY", "TASK_READY"}
               /\ (\A p \in Parents[t] : taskState'[p] = "TASK_COMPLETED") => taskState'[t] = "TASK_READY"
    <3>1. t \in nonReady /\ taskState'[t] = taskState[t]
      BY <1>5, <1>16, <2>1, <2>3
    <3>2. \A p \in Parents[t] : taskState'[p] = "TASK_COMPLETED" => taskState[p] = "TASK_COMPLETED"
      BY <1>5, ParentsAssumption
    <3> QED
      BY <1>3, <3>1, <3>2 DEF Advanced
  <2>4. numCompletedTasks' = Cardinality(completed' \cap Tasks)
    BY <1>3, <1>5 DEF Advanced
  <2> QED
    BY <2>2, <2>3, <2>4 DEF Advanced
<1>22. EndedJobIsQuiet'
  BY <1>2, <1>5, <1>17 DEF EndedJobIsQuiet, LifeOf
<1> QED
  BY <1>16, <1>17, <1>18, <1>20, <1>21, <1>22 DEF ExecutorInv, WhileUp

\* The workunits that a completed workunit releases are those that waited for it only.
LEMMA ReleasedWaited ==
    ASSUME Types, Sorted, NEW w \in running, NEW c \in JobWorkunits
    PROVE  /\ c \in ChildrenOf(w) <=> <<w, c>> \in Pending(c)
           /\ numPendingParents[c] \in Nat /\ IsFiniteSet(Pending(c))
           /\ c \in ChildrenOf(w) => /\ numPendingParents[c] > 0 /\ c \in nonReady
                                     /\ Cardinality(Pending(c) \ {<<w, c>>}) = numPendingParents[c] - 1
                                     /\ c \in Released(w) <=> Pending(c) \ {<<w, c>>} = {}
           /\ c \notin ChildrenOf(w) => c \notin Released(w)
<1>1. w \in JobWorkunits /\ w \notin completed /\ dependencies = JobDependencies /\ parts \in SUBSET NoTask
  BY DEF Sorted, Types
<1>2. PICK d, P : d = <<w, c>> /\ P = Pending(c)
  OBVIOUS
<1>3. d[1] = w /\ d[2] = c
  BY <1>2
<1>4. IsFiniteSet(P)
  BY <1>1, <1>2, DependenciesAreFinite DEF Pending
<1>5. d \in P <=> c \in ChildrenOf(w)
  BY <1>1, <1>2, <1>3 DEF Pending, ChildrenOf
<1>6. numPendingParents[c] = Cardinality(P) /\ (c \in nonReady <=> P # {}) /\ Cardinality(P) \in Nat
  BY <1>2, <1>4, FS_CardinalityType DEF Sorted
<1>7. ASSUME d \in P
      PROVE  /\ Cardinality(P) > 0 /\ Cardinality(P \ {d}) = Cardinality(P) - 1
             /\ Cardinality(P) = 1 <=> P \ {d} = {}
  <2>1. IsFiniteSet(P \ {d}) /\ Cardinality(P \ {d}) = Cardinality(P) - 1
    BY <1>4, <1>7, FS_RemoveElement
  <2>2. Cardinality(P \ {d}) \in Nat /\ (Cardinality(P \ {d}) = 0 <=> P \ {d} = {})
    BY <2>1, FS_CardinalityType, FS_EmptySet
  <2> QED
    BY <1>6, <2>1, <2>2
<1>8. c \in Released(w) <=> c \in ChildrenOf(w) /\ numPendingParents[c] = 1
  BY DEF Released
<1> QED
  BY <1>2, <1>4, <1>5, <1>6, <1>7, <1>8

LEMMA CompletionKeeps ==
    ASSUME ExecutorInv, ProcessWorkunitExecutorCompletion PROVE ExecutorInv'
<1>1. PICK w : w = Head(mailbox).workunit
  OBVIOUS
<1>2. /\ daemon = "up" /\ aborted = "no" /\ mailbox # <<>> /\ Head(mailbox).type = "Done"
      /\ mailbox' = Tail(mailbox)
  BY DEF ProcessWorkunitExecutorCompletion, Receive
<1>3. Types /\ LifeOf /\ Sorted /\ Housed /\ Posted /\ Advanced /\ Listed /\ Accounted
  BY <1>2 DEF ExecutorInv, WhileUp
<1>4. /\ w \in Workunits /\ w \in running /\ w \in JobWorkunits
      /\ w \in Tasks => taskState[w] = "TASK_COMPLETED"
  <2>1. PICK m : m = Head(mailbox)
    OBVIOUS
  <2>2. m.type # "HostOn" /\ m.type = "Done" /\ m.workunit = w
    BY <1>1, <1>2, <2>1
  <2>3. w \in Workunits /\ w \in running /\ Reported(m, executor, taskState)
    BY <1>2, <2>1, <2>2, ReceivedIsReported
  <2> QED
    BY <1>3, <2>2, <2>3 DEF Reported, Sorted
<1>5. w \notin completed /\ w \notin nonReady /\ w \notin ready /\ JobWorkunits \in SUBSET Workunits
  BY <1>3, <1>4, DependenciesAreFinite DEF Sorted, Types
<1>6. PICK last, released, counted :
         /\ last = (running = {w} /\ ready = {} /\ nonReady = {})
         /\ released = (IF last THEN {} ELSE Released(w))
         /\ counted = (IF w \in Tasks THEN 1 ELSE 0)
  OBVIOUS
<1>7. Released(w) \subseteq nonReady /\ Released(w) \subseteq JobWorkunits
  <2>1. Released(w) \subseteq JobWorkunits
    BY DEF Released, ChildrenOf
  <2> QED
    BY <1>3, <1>4, <2>1, ReleasedWaited
<1>8. released \subseteq nonReady
  BY <1>6, <1>7
<1>9. ASSUME NEW c \in Released(w) \cap Tasks PROVE taskState[c] = "TASK_READY"
  <2>1. c \in JobWorkunits /\ c \in nonReady /\ c \in ChildrenOf(w) /\ Pending(c) \ {<<w, c>>} = {}
    BY <1>3, <1>4, <1>7, ReleasedWaited
  <2>2. ASSUME NEW p \in Parents[c] PROVE taskState[p] = "TASK_COMPLETED"
    <3>1. p \in Tasks
      BY ParentsAssumption
    <3>2. PICK d : d = <<p, c>>
      OBVIOUS
    <3>3. d \in dependencies /\ d[1] = p /\ d[2] = c
      BY <1>3, <3>1, <3>2 DEF Sorted, JobDependencies
    <3>4. CASE p \in completed
      BY <1>3, <3>1, <3>4 DEF Advanced
    <3>5. CASE p \notin completed
      <4>1. d = <<w, c>>
        BY <2>1, <3>3, <3>5 DEF Pending
      <4> QED
        BY <1>4, <3>1, <3>2, <4>1
    <3> QED
      BY <3>4, <3>5
  <2> QED
    BY <1>3, <2>1, <2>2 DEF Advanced
<1>10. ~ (\E c \in released \cap Tasks : taskState[c] # "TASK_READY")
  BY <1>6, <1>9
<1>11. /\ numCompletedTasks' = numCompletedTasks + counted
       /\ numPendingParents' = [c \in Workunits |->
              IF ~last /\ c \in ChildrenOf(w) THEN numPendingParents[c] - 1 ELSE numPendingParents[c]]
       /\ IF last
          THEN /\ Return("done", endedFiles \cup executor[w].files)
               /\ running' = {} /\ completed' = completed \cup {w}
               /\ UNCHANGED <<ready, nonReady>>
               /\ coreAvailabilities' = CoresFreed(w) /\ ramAvailabilities' = RamFreed(w)
               /\ executor' = Forgotten(w)
          ELSE /\ LoopAgain(ready \cup released, nonReady \ released, running \ {w},
                            CoresFreed(w), RamFreed(w), Forgotten(w))
               /\ completed' = completed \cup {w}
               /\ endedFiles' = endedFiles \cup executor[w].files
               /\ UNCHANGED <<daemon, answer, filesStored, toDelete>>
       /\ UNCHANGED <<parts, dependencies, capacity, taskState, scratch, deletion, isOn, hostFailures,
                      damaged, aborted>>
  BY <1>1, <1>4, <1>6, <1>8, <1>10 DEF ProcessWorkunitExecutorCompletion, jobVars, hostVars
<1>12. PICK N, R, cores, ram, e :
         /\ N = nonReady \ released /\ R = running \ {w}
         /\ cores = CoresFreed(w) /\ ram = RamFreed(w) /\ e = Forgotten(w)
  OBVIOUS
<1>13. /\ cores \in [Hosts -> Amounts] /\ ram \in [Hosts -> Nat]
       /\ e \in [Workunits -> Executors] /\ HousedIn(e, R)
       /\ \A h \in Hosts : /\ h \notin damaged => cores[h] + CoresHeld(e, R, h) = capacity[h]
                           /\ ram[h] + RamHeld(e, R, h) = HostRam[h]
  BY <1>3, <1>4, <1>12, FreedIsAvailable
<1>14. e[w] = NoExecutor /\ \A v \in Workunits \ {w} : e[v] = executor[v]
  BY <1>3, <1>4, <1>12 DEF Forgotten, Types
<1>15. executor[w].files \in SUBSET Files /\ endedFiles \cup executor[w].files \in SUBSET Files
  BY <1>3, <1>4 DEF Types, Executors
<1>16. ASSUME NEW c \in Workunits
       PROVE  /\ numPendingParents'[c] \in Nat
              /\ ~last /\ c \in ChildrenOf(w) => numPendingParents'[c] = numPendingParents[c] - 1
              /\ last \/ c \notin ChildrenOf(w) => numPendingParents'[c] = numPendingParents[c]
  <2>1. c \in ChildrenOf(w) => c \in JobWorkunits
    BY DEF ChildrenOf
  <2>2. numPendingParents[c] \in Nat
    BY <1>3 DEF Types
  <2>3. c \in ChildrenOf(w) => numPendingParents[c] > 0
    BY <1>3, <1>4, <2>1, ReleasedWaited
  <2>4. numPendingParents'[c] = IF ~last /\ c \in ChildrenOf(w) THEN numPendingParents[c] - 1
                                ELSE numPendingParents[c]
    BY <1>11
  <2>5. numPendingParents[c] > 0 => numPendingParents[c] - 1 \in Nat
    BY <2>2
  <2> QED
    BY <2>2, <2>3, <2>4, <2>5
<1>17. numPendingParents' \in [Workunits -> Nat]
  <2>1. \A c \in Workunits : numPendingParents'[c] \in Nat
    BY <1>16
  <2> QED
    BY <1>11, <2>1
<1>18. numCompletedTasks' \in Nat /\ taskState' \in [Tasks -> InternalStates] /\ mailbox' \in Seq(Messages)
  <2>1. mailbox \in Seq(Messages) /\ numCompletedTasks \in Nat /\ taskState \in [Tasks -> InternalStates]
    BY <1>3 DEF Types
  <2>2. counted \in Nat
    BY <1>6
  <2> QED
    BY <1>2, <1>11, <2>1, <2>2
<1>19. numCompletedTasks' = Cardinality((completed \cup {w}) \cap Tasks)
  <2>1. PICK C : C = completed \cap Tasks
    OBVIOUS
  <2>2. IsFiniteSet(C)
    BY <2>1, JobAssumption, FS_Subset
  <2>3. numCompletedTasks = Cardinality(C) /\ Cardinality(C) \in Nat /\ w \notin C
    BY <1>3, <1>5, <2>1, <2>2, FS_CardinalityType DEF Advanced
  <2>4. CASE w \in Tasks
    <3>1. Cardinality(C \cup {w}) = Cardinality(C) + 1
      BY <2>2, <2>3, FS_AddElement
    <3>2. (completed \cup {w}) \cap Tasks = C \cup {w}
      BY <2>1, <2>4
    <3> QED
      BY <1>6, <1>11, <2>3, <2>4, <3>1, <3>2
  <2>5. CASE w \notin Tasks
    <3>1. (completed \cup {w}) \cap Tasks = C
      BY <2>1, <2>5
    <3>2. counted = 0
      BY <1>6, <2>5
    <3>3. numCompletedTasks' = Cardinality(C) + 0 /\ Cardinality(C) + 0 = Cardinality(C)
      BY <1>11, <2>3, <3>2
    <3> QED
      BY <3>1, <3>3
  <2> QED
    BY <2>4, <2>5
<1>20. CASE last
  <2>1. running = {w} /\ ready = {} /\ nonReady = {}
    BY <1>6, <1>20
  <2>2. /\ Return("done", endedFiles \cup executor[w].files)
        /\ running' = {} /\ completed' = completed \cup {w} /\ UNCHANGED <<ready, nonReady>>
        /\ coreAvailabilities' = cores /\ ramAvailabilities' = ram /\ executor' = e
    BY <1>11, <1>12, <1>20
  <2>3. /\ daemon' = "ending" /\ answer' = "done"
        /\ filesStored' \in SUBSET Files /\ endedFiles' \in SUBSET Files
    BY <1>3, <1>15, <2>2, ReturnLeaves
  <2>4. Types'
    BY <1>3, <1>4, <1>11, <1>13, <1>17, <1>18, <2>2, <2>3 DEF Types, Lives
  <2>5. LifeOf'
    BY <1>2, <1>11, <2>3 DEF LifeOf
  <2>6. \A v \in Workunits : v # w => executor[v] = NoExecutor
    BY <1>3, <2>1 DEF Housed, HousedIn
  <2>7. \A v \in Workunits : executor'[v] = NoExecutor
    BY <1>14, <2>2, <2>6
  <2>8. \A t \in Tasks : t = w \/ t \in completed
    BY <1>3, <2>1 DEF Sorted, JobWorkunits
  <2>9. \A t \in Tasks : taskState'[t] = "TASK_COMPLETED"
    BY <1>3, <1>4, <1>11, <2>8 DEF Advanced
  <2>10. numCompletedTasks' = Cardinality(Tasks)
    <3>1. (completed \cup {w}) \cap Tasks = Tasks
      BY <2>8
    <3> QED
      BY <1>19, <3>1
  <2>11. Alive' = {}
    BY <2>7, NoExecutorIsOne DEF Alive
  <2>12. EndedJobIsQuiet'
    BY <2>3, <2>9, <2>10, <2>11 DEF EndedJobIsQuiet
  <2> QED
    BY <2>3, <2>4, <2>5, <2>12 DEF ExecutorInv
<1>21. CASE ~last
  <2>1. released = Released(w)
    BY <1>6, <1>21
  <2>2. PICK S : S = ready \cup released
    OBVIOUS
  <2>3. /\ LoopAgain(S, N, R, cores, ram, e)
        /\ completed' = completed \cup {w} /\ endedFiles' = endedFiles \cup executor[w].files
        /\ UNCHANGED <<daemon, answer, filesStored, scratch, aborted>>
    BY <1>2, <1>11, <1>12, <1>21, <2>2
  <2>4. /\ S \in SUBSET Workunits /\ N \in SUBSET Workunits /\ R \in SUBSET Workunits /\ R \cap S = {}
    BY <1>3, <1>8, <1>12, <2>2 DEF Types, Sorted
  <2>5. completed' \in SUBSET Workunits /\ filesStored' \in SUBSET Files /\ endedFiles' \in SUBSET Files
    BY <1>3, <1>4, <1>15, <2>3 DEF Types
  <2>6. \A f \in scratch : \/ f \in filesStored' \/ f \in endedFiles'
                           \/ \E v \in Workunits : v \in R /\ f \in e[v].files
    <3>1. \A v \in Workunits : v \notin running => executor[v].files = {}
      BY <1>3, NoExecutorIsOne DEF Housed, HousedIn
    <3> QED
      BY <1>3, <1>12, <1>14, <2>3, <3>1 DEF Listed
  <2>7. \A h \in Hosts : /\ capacity[h] \in Amounts
                         /\ h \notin damaged' => cores[h] + CoresHeld(e, R, h) = capacity[h]
                         /\ ram[h] + RamHeld(e, R, h) = HostRam[h]
    BY <1>3, <1>11, <1>13 DEF Accounted
  <2>8. LoopKeeps(S, N, R, e)
    BY <1>3, <1>11, <1>13, <1>17, <1>18, <2>3, <2>4, <2>5, <2>6, <2>7, LoopHouses
  <2>9. /\ Types' /\ Housed' /\ Accounted' /\ Listed'
        /\ nonReady' = nonReady \ released /\ ready' \in SUBSET S /\ running' = R \cup (S \ ready')
        /\ \A v \in Workunits : executor'[v] = e[v] \/ (v \in S /\ executor'[v].phase = "started")
    BY <1>12, <2>8 DEF LoopKeeps
  <2>10. LifeOf'
    BY <1>2, <1>3, <2>3 DEF LifeOf
  <2>11. Sorted'
    <3>1. JobDependencies' = JobDependencies /\ JobWorkunits' = JobWorkunits
      BY <1>11 DEF JobDependencies, StageDependencies, OverheadDependencies, AfterPreFileCopies, AfterTasks,
             JobWorkunits
    <3>2. ASSUME NEW c \in JobWorkunits
          PROVE  numPendingParents'[c] = Cardinality(Pending(c)') /\ (c \in nonReady' <=> Pending(c)' # {})
      <4>1. Pending(c)' = Pending(c) \ {<<w, c>>}
        <5>1. \A d \in dependencies : d[2] = c => (d[1] = w <=> d = <<w, c>>)
          BY <1>3, DependenciesAreFinite DEF Types, Sorted
        <5>2. dependencies' = dependencies
          BY <1>11
        <5>3. ASSUME NEW d PROVE d \in Pending(c)' <=> d \in Pending(c) \ {<<w, c>>}
          <6>1. d \in Pending(c)' <=> d \in dependencies /\ d[2] = c /\ d[1] \notin completed \cup {w}
            BY <2>3, <5>2 DEF Pending
          <6>2. d \in Pending(c) <=> d \in dependencies /\ d[2] = c /\ d[1] \notin completed
            BY DEF Pending
          <6> QED
            BY <5>1, <6>1, <6>2
        <5> QED
          BY <5>3
      <4>2. c \in Workunits /\ numPendingParents[c] = Cardinality(Pending(c)) /\ (c \in nonReady <=> Pending(c) # {})
        BY <1>3, <1>5 DEF Sorted
      <4>3. CASE c \in ChildrenOf(w)
        <5>1. /\ numPendingParents[c] > 0 /\ c \in nonReady
              /\ Cardinality(Pending(c) \ {<<w, c>>}) = numPendingParents[c] - 1
              /\ c \in Released(w) <=> Pending(c) \ {<<w, c>>} = {}
          BY <1>3, <1>4, <4>3, ReleasedWaited
        <5>2. numPendingParents'[c] = numPendingParents[c] - 1
          BY <1>16, <1>21, <4>2, <4>3
        <5> QED
          BY <2>1, <2>9, <4>1, <5>1, <5>2
      <4>4. CASE c \notin ChildrenOf(w)
        <5>1. <<w, c>> \notin Pending(c) /\ c \notin Released(w)
          BY <1>3, <1>4, <4>4, ReleasedWaited
        <5>2. Pending(c)' = Pending(c)
          BY <4>1, <5>1
        <5>3. numPendingParents'[c] = numPendingParents[c]
          BY <1>16, <4>2, <4>4
        <5> QED
          BY <2>1, <2>9, <4>2, <5>1, <5>2, <5>3
      <4> QED
        BY <4>3, <4>4
    <3>3. nonReady' \cup ready' \cup running' \cup completed' = JobWorkunits'
      <4>1. (S \ ready') \cup ready' = S
        BY <2>9
      <4> QED
        BY <1>3, <1>4, <1>8, <1>12, <2>2, <2>3, <2>9, <3>1, <4>1 DEF Sorted
    <3>4. /\ nonReady' \cap ready' = {} /\ nonReady' \cap running' = {} /\ nonReady' \cap completed' = {}
          /\ ready' \cap running' = {} /\ ready' \cap completed' = {} /\ running' \cap completed' = {}
      <4>1. /\ N \cap S = {} /\ N \cap R = {} /\ N \cap completed' = {} /\ S \cap R = {}
            /\ S \cap completed' = {} /\ R \cap completed' = {}
        BY <1>3, <1>5, <1>8, <1>12, <2>2, <2>3 DEF Sorted
      <4> QED
        BY <1>12, <2>9, <4>1
    <3> QED
      BY <1>3, <1>11, <3>1, <3>2, <3>3, <3>4 DEF Sorted
  <2>12. ASSUME NEW v \in Workunits, executor[v].phase # "none", v # w PROVE executor'[v] = executor[v]
    <3>1. v \in running
      BY <1>3, <2>12 DEF Housed, HousedIn
    <3>2. v \notin S
      BY <1>3, <1>8, <2>2, <3>1 DEF Sorted
    <3> QED
      BY <1>14, <2>9, <2>12, <3>2
  <2>13. Posted'
    <3>1. ASSUME NEW v \in Workunits, v # w PROVE Undisturbed(v, executor, taskState, executor', taskState')
      BY <1>11, <2>12, <3>1 DEF Undisturbed
    <3>2. PICK q, x, s, f, u : q = mailbox /\ x = executor /\ s = taskState /\ f = executor' /\ u = taskState'
      OBVIOUS
    <3>3. q \in Seq(Messages) /\ q # <<>> /\ PostedIn(q, x, s) /\ Head(q).type # "HostOn" /\ Head(q).workunit = w
          /\ \A v \in Workunits : v # w => Undisturbed(v, x, s, f, u)
      BY <1>1, <1>2, <1>3, <3>1, <3>2 DEF Posted, Types
    <3>4. PostedIn(Tail(q), f, u)
      BY <3>3, PostedTail
    <3> QED
      BY <1>2, <3>2, <3>4 DEF Posted
  <2>14. Advanced'
    <3>1. ASSUME NEW t \in Tasks
          PROVE  /\ t \in completed' \/ executor'[t].phase = "worked" => taskState'[t] = "TASK_COMPLETED"
                 /\ taskState'[t] = "TASK_RUNNING" => executor'[t].phase = "running"
      <4>1. t \in Workunits /\ taskState'[t] = taskState[t]
        BY <1>11 DEF Workunits
      <4>2. CASE t = w
        BY <1>4, <4>1, <4>2
      <4>3. CASE t # w /\ executor[t].phase = "none"
        <5>1. executor'[t].phase \in {"none", "started"}
          BY <1>14, <2>9, <4>1, <4>3
        <5> QED
          BY <1>3, <2>3, <4>1, <4>3, <5>1 DEF Advanced
      <4>4. CASE t # w /\ executor[t].phase # "none"
        <5>1. executor'[t] = executor[t]
          BY <2>12, <4>1, <4>4
        <5> QED
          BY <1>3, <2>3, <4>1, <4>4, <5>1 DEF Advanced
      <4> QED
        BY <4>2, <4>3, <4>4
    <3>2. ASSUME NEW t \in Tasks, t \in nonReady'
          PROVE  /\ taskState'[t] \in {"TASK_NOT_READY", "TASK_READY"}
                 /\ (\A p \in Parents[t] : taskState'[p] = "TASK_COMPLETED") => taskState'[t] = "TASK_READY"
      <4>1. t \in nonReady /\ taskState' = taskState
        BY <1>11, <2>9, <3>2
      <4> QED
        BY <1>3, <4>1 DEF Advanced
    <3>3. numCompletedTasks' = Cardinality(completed' \cap Tasks)
      BY <1>19, <2>3
    <3> QED
      BY <3>1, <3>2, <3>3 DEF Advanced
  <2>15. EndedJobIsQuiet'
    BY <1>2, <2>3, <2>10 DEF EndedJobIsQuiet, LifeOf
  <2> QED
    BY <2>9, <2>10, <2>11, <2>13, <2>14, <2>15 DEF ExecutorInv, WhileUp
<1> QED
  BY <1>20, <1>21

-------------------------------------------------------------------------------
(* The deletions *)

\* The steps that are not about the files to delete.
LEMMA OthersLeaveFiles ==
    ASSUME ExecutorInv, CleaningUp, UNCHANGED deletionVars,
           daemon' \in {"new", "rejected", "up"} => daemon \in {"new", "rejected", "up"},
           daemon' = "ending" => /\ daemon = "ending"
                                 /\ UNCHANGED <<nonReady, ready, running, completed, answer, scratch>>
    PROVE  CleaningUp'
<1>1. UNCHANGED <<toDelete, deletion>>
  BY DEF deletionVars
<1>2. toDelete' \in SUBSET Files
      /\ deletion' \in [file : Files, phase : {"asked", "deleted"}] \cup {NoDeletion}
  BY <1>1 DEF CleaningUp
<1>3. daemon' \in {"new", "rejected", "up"} => toDelete' = {} /\ deletion' = NoDeletion
  BY <1>1 DEF CleaningUp
<1>4. ASSUME daemon' = "ending"
      PROVE  /\ Apart'
             /\ answer' = "done" /\ ScratchSpace /\ ~PartOfPilotJob =>
                   scratch' \subseteq toDelete' /\ (deletion'.phase = "deleted" => deletion'.file \notin scratch')
  BY <1>1, <1>4 DEF CleaningUp, Apart
<1> QED
  BY <1>2, <1>3, <1>4 DEF CleaningUp

\* A workunit executor takes no step after the answer.
LEMMA StepsLeaveFiles ==
    ASSUME ExecutorInv, CleaningUp, NEW w \in Workunits, ExecutorStep(w) PROVE CleaningUp'
<1>1. /\ ExecutorUnchanged
      /\ executor[w].phase \in {"started", "running", "worked", "failed"} \/ daemon = "up"
  BY DEF ExecutorStep, Begin, FailToBegin, Work, FailToWork, SendMessage, DetectCrash
<1>2. daemon # "ending"
  <2>1. ASSUME daemon = "ending" PROVE Alive = {}
    BY <2>1 DEF ExecutorInv, LifeOf, EndedJobIsQuiet
  <2> QED
    BY <1>1, <2>1 DEF Alive
<1>3. UNCHANGED deletionVars /\ daemon' = daemon
  BY <1>1 DEF ExecutorUnchanged, deletionVars
<1> QED
  BY <1>2, <1>3, OthersLeaveFiles

\* The executor says that it is through: what it has to delete is what is in scratch.
LEMMA CompletionListsFiles ==
    ASSUME ExecutorInv, CleaningUp, ProcessWorkunitExecutorCompletion PROVE CleaningUp'
<1>1. PICK w : w = Head(mailbox).workunit
  OBVIOUS
<1>2. /\ daemon = "up" /\ aborted = "no" /\ mailbox # <<>> /\ Head(mailbox).type = "Done"
  BY DEF ProcessWorkunitExecutorCompletion, Receive
<1>3. Types /\ Sorted /\ Housed /\ Listed /\ toDelete = {} /\ deletion = NoDeletion
  BY <1>2 DEF ExecutorInv, WhileUp, CleaningUp
<1>4. w \in Workunits /\ w \in running
  <2>1. PICK m : m = Head(mailbox)
    OBVIOUS
  <2>2. m.type # "HostOn" /\ m.workunit = w
    BY <1>1, <1>2, <2>1
  <2> QED
    BY <1>2, <2>1, <2>2, ReceivedIsReported
<1>5. CASE daemon' # "ending"
  <2>1. UNCHANGED deletionVars
    BY <1>5 DEF ProcessWorkunitExecutorCompletion, Abort, Return, scratchVars, deletionVars
  <2> QED
    BY <1>2, <1>5, <2>1, OthersLeaveFiles
<1>6. CASE daemon' = "ending"
  <2>1. /\ running = {w} /\ ready = {} /\ nonReady = {}
        /\ Return("done", endedFiles \cup executor[w].files)
        /\ running' = {} /\ UNCHANGED <<ready, nonReady, scratch, deletion>>
    BY <1>1, <1>2, <1>6 DEF ProcessWorkunitExecutorCompletion, Abort
  <2>2. endedFiles \cup executor[w].files \in SUBSET Files
    BY <1>3, <1>4 DEF Types, Executors
  <2>3. /\ toDelete' \in SUBSET Files
        /\ ScratchSpace /\ ~PartOfPilotJob => toDelete' = filesStored \cup (endedFiles \cup executor[w].files)
    BY <1>3, <2>1, <2>2, ReturnLeaves
  <2>4. \A v \in Workunits : v # w => executor[v] = NoExecutor
    BY <1>3, <2>1 DEF Housed, HousedIn
  <2>5. \A f \in scratch : f \in filesStored \cup (endedFiles \cup executor[w].files)
    BY <1>3, <2>4, NoExecutorIsOne DEF Listed
  <2>6. Apart'
    BY <2>1 DEF Apart
  <2>7. deletion' = NoDeletion /\ deletion'.phase # "deleted"
    BY <1>3, <2>1 DEF NoDeletion
  <2> QED
    BY <1>6, <2>1, <2>3, <2>5, <2>6, <2>7 DEF CleaningUp
<1> QED
  BY <1>5, <1>6

LEMMA FailureListsFiles ==
    ASSUME ExecutorInv, CleaningUp, ProcessWorkunitExecutorFailure PROVE CleaningUp'
<1>1. PICK w : w = Head(mailbox).workunit
  OBVIOUS
<1>2. /\ daemon = "up" /\ aborted = "no" /\ mailbox # <<>> /\ Head(mailbox).type = "Failed"
  BY DEF ProcessWorkunitExecutorFailure, Receive
<1>3. Types /\ Sorted /\ toDelete = {} /\ deletion = NoDeletion
  BY <1>2 DEF ExecutorInv, WhileUp, CleaningUp
<1>4. w \in Workunits /\ w \in running
  <2>1. PICK m : m = Head(mailbox)
    OBVIOUS
  <2>2. m.type # "HostOn" /\ m.workunit = w
    BY <1>1, <1>2, <2>1
  <2> QED
    BY <1>2, <2>1, <2>2, ReceivedIsReported
<1>5. CASE daemon' # "ending"
  <2>1. UNCHANGED deletionVars
    BY <1>5 DEF ProcessWorkunitExecutorFailure, Abort, Return, scratchVars, deletionVars
  <2> QED
    BY <1>2, <1>5, <2>1, OthersLeaveFiles
<1>6. CASE daemon' = "ending"
  <2>1. /\ Return("failed", endedFiles \cup executor[w].files)
        /\ running' = running \ {w} /\ UNCHANGED <<ready, nonReady, completed, deletion>>
    BY <1>1, <1>2, <1>6 DEF ProcessWorkunitExecutorFailure, Abort
  <2>2. endedFiles \cup executor[w].files \in SUBSET Files
    BY <1>3, <1>4 DEF Types, Executors
  <2>3. toDelete' \in SUBSET Files /\ answer' = "failed"
    BY <1>3, <2>1, <2>2, ReturnLeaves
  <2>4. Apart'
    BY <1>3, <2>1 DEF Apart, Sorted
  <2> QED
    BY <1>3, <1>6, <2>1, <2>3, <2>4 DEF CleaningUp
<1> QED
  BY <1>5, <1>6

\* A step of cleanUpScratch, or the return from main().
CleanUpStep ==
    \/ \E f \in Files : AskDeletion(f)
    \/ ScratchDeletes
    \/ DeletionAnswered
    \/ DeletionTimesOut
    \/ End

\* The facts about a request to delete a file.
LEMMA DeletionIsOfFile ==
    ASSUME CleaningUp, deletion.phase # "none"
    PROVE  /\ deletion.file \in Files /\ deletion \in [file : Files, phase : {"asked", "deleted"}]
           /\ daemon \notin {"new", "rejected", "up"}
           /\ [deletion EXCEPT !.phase = "deleted"] \in [file : Files, phase : {"asked", "deleted"}]
           /\ [deletion EXCEPT !.phase = "deleted"].file = deletion.file
           /\ [deletion EXCEPT !.phase = "deleted"].phase = "deleted"
<1>1. deletion # NoDeletion
  BY DEF NoDeletion
<1>2. deletion \in [file : Files, phase : {"asked", "deleted"}] /\ daemon \notin {"new", "rejected", "up"}
  BY <1>1 DEF CleaningUp
<1> QED
  BY <1>2

LEMMA CleanUpKeeps ==
    ASSUME ExecutorInv, CleaningUp, CleanUpStep PROVE ExecutorInv' /\ CleaningUp'
<1>1. Types /\ LifeOf /\ EndedJobIsQuiet
  BY DEF ExecutorInv
<1>2. /\ UNCHANGED <<parts, dependencies, capacity, coreAvailabilities, ramAvailabilities,
                     numPendingParents, executor, taskState, numCompletedTasks, mailbox, answer,
                     filesStored, isOn, hostFailures, damaged>>
      /\ aborted = "no"
  BY DEF CleanUpStep, AskDeletion, ScratchDeletes, DeletionAnswered, DeletionTimesOut, End, OutsideCleanUp,
         jobVars, resourceVars, hostVars
<1>3. Alive' = Alive
  BY <1>2 DEF Alive
<1>4. daemon \notin {"new", "rejected", "up"}
  <2>1. ASSUME ScratchDeletes PROVE daemon \notin {"new", "rejected", "up"}
    BY <2>1, DeletionIsOfFile DEF ScratchDeletes
  <2> QED
    BY <2>1 DEF CleanUpStep, AskDeletion, DeletionAnswered, DeletionTimesOut, End
<1>5. CASE End
  <2>1. /\ daemon = "ending" /\ daemon' = answer /\ toDelete = {} /\ UNCHANGED <<scratch, toDelete, deletion, aborted>>
        /\ nonReady' = {} /\ ready' = {} /\ running' = {} /\ completed' = {} /\ endedFiles' = {}
    BY <1>5 DEF End, deletionVars
  <2>2. answer \in {"done", "failed"}
    BY <1>1, <2>1 DEF LifeOf
  <2>3. Types'
    BY <1>1, <1>2, <2>1, <2>2 DEF Types, Lives
  <2>4. LifeOf'
    BY <1>1, <1>2, <2>1, <2>2 DEF LifeOf
  <2>5. ASSUME answer = "done", ScratchSpace, ~PartOfPilotJob PROVE scratch = {}
    BY <2>1, <2>5 DEF CleaningUp
  <2>6. EndedJobIsQuiet'
    BY <1>1, <1>2, <1>3, <2>1, <2>2, <2>5 DEF EndedJobIsQuiet
  <2>7. CleaningUp'
    BY <2>1, <2>2 DEF CleaningUp
  <2> QED
    BY <2>1, <2>2, <2>3, <2>4, <2>6, <2>7 DEF ExecutorInv
<1>6. CASE ~End
  <2>1. /\ UNCHANGED <<daemon, nonReady, ready, running, completed, endedFiles>>
        /\ aborted' \in {"no", "scratch does not answer"}
        /\ scratch' = scratch \/ (deletion.phase = "asked" /\ scratch' = scratch \ {deletion.file})
    BY <1>2, <1>6 DEF CleanUpStep, AskDeletion, ScratchDeletes, DeletionAnswered, DeletionTimesOut,
                     LoopUnchanged
  <2>2. Types'
    BY <1>1, <1>2, <2>1 DEF Types
  <2>3. LifeOf'
    BY <1>1, <1>2, <1>4, <2>1 DEF LifeOf
  <2>4. EndedJobIsQuiet'
    BY <1>1, <1>2, <1>3, <2>1 DEF EndedJobIsQuiet
  <2>5. Apart' <=> Apart
    BY <2>1 DEF Apart
  <2>6. CleaningUp'
    <3>1. ASSUME NEW f \in Files, AskDeletion(f) PROVE CleaningUp'
      <4>1. /\ UNCHANGED <<toDelete, scratch>> /\ deletion' = [file |-> f, phase |-> "asked"]
        BY <3>1 DEF AskDeletion
      <4>2. deletion' \in [file : Files, phase : {"asked", "deleted"}] /\ deletion'.phase # "deleted"
        BY <4>1
      <4> QED
        BY <1>2, <1>4, <2>1, <2>5, <4>1, <4>2 DEF CleaningUp
    <3>2. CASE ScratchDeletes
      <4>1. /\ UNCHANGED toDelete /\ scratch' = scratch \ {deletion.file} /\ deletion.phase = "asked"
            /\ deletion' = [deletion EXCEPT !.phase = "deleted"]
        BY <3>2 DEF ScratchDeletes
      <4>2. deletion' \in [file : Files, phase : {"asked", "deleted"}] /\ deletion'.file = deletion.file
        BY <4>1, DeletionIsOfFile
      <4> QED
        BY <1>2, <1>4, <2>1, <2>5, <4>1, <4>2 DEF CleaningUp
    <3>3. CASE DeletionAnswered
      <4>1. /\ toDelete' = toDelete \ {deletion.file} /\ scratch' = scratch /\ deletion.phase = "deleted"
            /\ deletion' = NoDeletion
        BY <3>3 DEF DeletionAnswered
      <4>2. deletion'.phase # "deleted"
        BY <4>1 DEF NoDeletion
      <4> QED
        BY <1>2, <1>4, <2>1, <2>5, <4>1, <4>2 DEF CleaningUp
    <3>4. CASE DeletionTimesOut
      <4>1. UNCHANGED <<toDelete, deletion, scratch>>
        BY <3>4 DEF DeletionTimesOut, deletionVars
      <4> QED
        BY <1>2, <1>4, <2>1, <2>5, <4>1 DEF CleaningUp
    <3> QED
      BY <1>6, <3>1, <3>2, <3>3, <3>4 DEF CleanUpStep
  <2> QED
    BY <1>4, <2>1, <2>2, <2>3, <2>4, <2>6 DEF ExecutorInv
<1> QED
  BY <1>5, <1>6

-------------------------------------------------------------------------------
(* Theorems *)

LEMMA NothingKeeps ==
    ASSUME ExecutorInv, UNCHANGED vars PROVE ExecutorInv'
<1>1. UNCHANGED <<daemon, parts, dependencies, capacity, coreAvailabilities, ramAvailabilities,
                  numPendingParents, nonReady, ready, running, completed, executor, taskState,
                  numCompletedTasks, mailbox, answer, filesStored, endedFiles, scratch, isOn,
                  hostFailures, damaged, aborted>>
  BY DEF vars, jobVars, resourceVars, workunitVars, scratchVars, hostVars
<1>2. Types /\ LifeOf /\ EndedJobIsQuiet /\ (daemon = "up" => WhileUp)
  BY DEF ExecutorInv
<1>3. Types'
  BY <1>1, <1>2 DEF Types
<1>4. LifeOf'
  BY <1>1, <1>2 DEF LifeOf, Fresh
<1>5. EndedJobIsQuiet'
  BY <1>1, <1>2 DEF EndedJobIsQuiet, Alive
<1>6. ASSUME daemon = "up" PROVE WhileUp'
  <2>1. Sorted /\ Housed /\ Posted /\ Advanced /\ Listed /\ Accounted
    BY <1>2, <1>6 DEF WhileUp
  <2>2. Sorted'
    BY <1>1, <2>1, SortedStays
  <2>3. Accounted'
    BY <1>1, <1>2, <1>3, <2>1, AccountedStays
  <2>4. Housed' /\ Posted' /\ Advanced' /\ Listed'
    BY <1>1, <2>1 DEF Housed, HousedIn, Posted, PostedIn, Reported, Advanced, Listed
  <2> QED
    BY <2>2, <2>3, <2>4 DEF WhileUp
<1> QED
  BY <1>1, <1>3, <1>4, <1>5, <1>6 DEF ExecutorInv

\* What holds in every state of a standard job executor (StandardJobExecutor.cpp:276): each
\* workunit of the job is in the one set its pending parents put it in, those that run are those
\* with an executor, no two messages are about the same executor, the states of tasks go with
\* what was done, a file in scratch is on a list, and then among those to delete, and what is
\* held was available.
THEOREM ExecutorInvariant ==
    Spec => [](ExecutorInv /\ CleaningUp)
<1>1. Init => ExecutorInv /\ CleaningUp
  BY ExecutorInit DEF Init, CleaningUp, NoDeletion
<1>2. ASSUME ExecutorInv, CleaningUp, [Next]_vars PROVE ExecutorInv'
  <2>1. CASE Start
    <3>1. CASE daemon' = "rejected"
      BY <1>2, <2>1, <3>1, RejectedKeeps
    <3>2. CASE daemon' # "rejected"
      BY <1>2, <2>1, <3>2, StartedKeeps
    <3> QED
      BY <3>1, <3>2
  <2>2. CASE ProcessWorkunitExecutorCompletion
    BY <1>2, <2>2, CompletionKeeps
  <2>3. CASE ProcessWorkunitExecutorFailure
    BY <1>2, <2>3, FailureKeeps
  <2>4. CASE ProcessWorkunitExecutorCrash
    BY <1>2, <2>4, CrashKeeps
  <2>5. CASE ProcessHostOn
    BY <1>2, <2>5, HostOnKeeps
  <2>6. CASE Kill
    BY <1>2, <2>6, KillKeeps
  <2>7. ASSUME NEW w \in Workunits, ExecutorStep(w) PROVE ExecutorInv'
    <3>1. CASE Begin(w)
      BY <1>2, <3>1, BeginKeeps
    <3>2. CASE FailToBegin(w)
      BY <1>2, <3>2, FailToBeginKeeps
    <3>3. CASE Work(w)
      BY <1>2, <3>3, WorkKeeps
    <3>4. CASE FailToWork(w)
      BY <1>2, <3>4, FailToWorkKeeps
    <3>5. CASE SendMessage(w) \/ DetectCrash(w)
      BY <1>2, <3>5, MessageKeeps
    <3> QED
      BY <2>7, <3>1, <3>2, <3>3, <3>4, <3>5 DEF ExecutorStep
  <2>8. ASSUME NEW h \in Hosts, TurnOff(h) PROVE ExecutorInv'
    BY <1>2, <2>8, TurnOffKeeps
  <2>9. ASSUME NEW h \in Hosts, TurnOn(h) PROVE ExecutorInv'
    BY <1>2, <2>9, TurnOnKeeps
  <2>10. CASE UNCHANGED vars
    BY <1>2, <2>10, NothingKeeps
  <2>11. CASE CleanUpStep
    BY <1>2, <2>11, CleanUpKeeps
  <2> QED
    BY <1>2, <2>1, <2>2, <2>3, <2>4, <2>5, <2>6, <2>7, <2>8, <2>9, <2>10, <2>11
    DEF Next, DaemonStep, CleanUpStep
<1>3. ASSUME ExecutorInv, CleaningUp, [Next]_vars PROVE CleaningUp'
  <2>1. CASE ProcessWorkunitExecutorCompletion
    BY <1>3, <2>1, CompletionListsFiles
  <2>2. CASE ProcessWorkunitExecutorFailure
    BY <1>3, <2>2, FailureListsFiles
  <2>3. ASSUME NEW w \in Workunits, ExecutorStep(w) PROVE CleaningUp'
    BY <1>3, <2>3, StepsLeaveFiles
  <2>4. CASE CleanUpStep
    BY <1>3, <2>4, CleanUpKeeps
  <2>5. CASE Start \/ ProcessWorkunitExecutorCrash \/ ProcessHostOn
    <3>1. UNCHANGED deletionVars /\ daemon' # "ending" /\ daemon \in {"new", "up"}
      BY <2>5 DEF Start, ProcessWorkunitExecutorCrash, ProcessHostOn, Receive, Abort, scratchVars
    <3> QED
      BY <1>3, <3>1, OthersLeaveFiles
  <2>6. CASE Kill
    <3>1. UNCHANGED deletionVars /\ daemon' = "killed"
      BY <2>6 DEF Kill
    <3> QED
      BY <1>3, <3>1, OthersLeaveFiles
  <2>7. ASSUME NEW h \in Hosts, TurnOff(h) PROVE CleaningUp'
    <3>1. /\ UNCHANGED <<deletionVars, answer, scratch>>
          /\ daemon' = "crashed" \/ UNCHANGED <<daemon, nonReady, ready, running, completed>>
      BY <2>7 DEF TurnOff
    <3> QED
      BY <1>3, <3>1, OthersLeaveFiles
  <2>8. ASSUME NEW h \in Hosts, TurnOn(h) PROVE CleaningUp'
    <3>1. UNCHANGED <<deletionVars, answer, scratch, daemon, nonReady, ready, running, completed>>
      BY <2>8 DEF TurnOn, scratchVars, workunitVars
    <3> QED
      BY <1>3, <3>1, OthersLeaveFiles
  <2>9. CASE UNCHANGED vars
    <3>1. UNCHANGED <<deletionVars, answer, scratch, daemon, nonReady, ready, running, completed>>
      BY <2>9 DEF vars, scratchVars, workunitVars
    <3> QED
      BY <1>3, <3>1, OthersLeaveFiles
  <2> QED
    BY <1>3, <2>1, <2>2, <2>3, <2>4, <2>5, <2>6, <2>7, <2>8, <2>9 DEF Next, DaemonStep, CleanUpStep
<1> QED
  BY <1>1, <1>2, <1>3, PTL DEF Spec

\* The cardinality of a disjoint union.
LEMMA DisjointSums ==
    ASSUME NEW a, NEW b, IsFiniteSet(a), IsFiniteSet(b), a \cap b = {}
    PROVE  IsFiniteSet(a \cup b) /\ Cardinality(a \cup b) = Cardinality(a) + Cardinality(b)
<1>1. IsFiniteSet(a \cup b) /\ Cardinality(a \cup b) = Cardinality(a) + Cardinality(b) - Cardinality(a \cap b)
  BY FS_Union
<1>2. Cardinality(a \cap b) = 0
  BY FS_EmptySet
<1>3. Cardinality(a) \in Nat /\ Cardinality(b) \in Nat
  BY FS_CardinalityType
<1> QED
  BY <1>1, <1>2, <1>3

\* The variables have their types, and no workunit is in two sets (StandardJobExecutor.h:104).
THEOREM ExecutorTypes ==
    Spec => []TypeOK
<1>1. ASSUME ExecutorInv, CleaningUp PROVE TypeOK
  <2>1. Types /\ LifeOf
    BY <1>1 DEF ExecutorInv
  <2>2. /\ ready \in SUBSET Workunits /\ nonReady \in SUBSET Workunits /\ running \in SUBSET Workunits
        /\ completed \in SUBSET Workunits
    BY <2>1 DEF Types
  <2>3. /\ nonReady \cap ready = {} /\ nonReady \cap running = {} /\ nonReady \cap completed = {}
        /\ ready \cap running = {} /\ ready \cap completed = {} /\ running \cap completed = {}
    <3>1. CASE daemon = "up"
      BY <1>1, <3>1 DEF ExecutorInv, WhileUp, Sorted
    <3>2. CASE daemon = "ending"
      BY <1>1, <3>2 DEF CleaningUp, Apart
    <3>3. CASE daemon \notin {"up", "ending"}
      BY <2>1, <3>3 DEF LifeOf
    <3> QED
      BY <3>1, <3>2, <3>3
  <2>4. Cardinality(ready) + Cardinality(nonReady) + Cardinality(running) + Cardinality(completed)
          = Cardinality(ready \cup nonReady \cup running \cup completed)
    <3>1. PICK a, b, c, d : a = ready /\ b = nonReady /\ c = running /\ d = completed
      OBVIOUS
    <3>2. /\ IsFiniteSet(a) /\ IsFiniteSet(b) /\ IsFiniteSet(c) /\ IsFiniteSet(d)
          /\ Cardinality(a) \in Nat /\ Cardinality(b) \in Nat /\ Cardinality(c) \in Nat /\ Cardinality(d) \in Nat
      BY <2>2, <3>1, WorkunitsAreFinite, FS_CardinalityType
    <3>3. IsFiniteSet(a \cup b) /\ Cardinality(a \cup b) = Cardinality(a) + Cardinality(b)
      BY <2>3, <3>1, <3>2, DisjointSums
    <3>4. IsFiniteSet(a \cup b \cup c) /\ Cardinality(a \cup b \cup c) = Cardinality(a \cup b) + Cardinality(c)
      <4>1. (a \cup b) \cap c = {}
        BY <2>3, <3>1
      <4> QED
        BY <3>2, <3>3, <4>1, DisjointSums
    <3>5. Cardinality(a \cup b \cup c \cup d) = Cardinality(a \cup b \cup c) + Cardinality(d)
      <4>1. (a \cup b \cup c) \cap d = {}
        BY <2>3, <3>1
      <4> QED
        BY <3>2, <3>4, <4>1, DisjointSums
    <3> QED
      BY <3>1, <3>3, <3>4, <3>5
  <2>5. /\ coreAvailabilities \in [Hosts -> 0 .. WordSize - 1] /\ ramAvailabilities \in [Hosts -> Int]
        /\ \A w \in Workunits : executor[w].phase \in
              {"none", "started", "running", "worked", "failed", "sent", "crashed", "reported"}
        /\ daemon \in {"new", "rejected", "up", "ending", "done", "failed", "killed", "crashed"}
        /\ taskState \in [Tasks -> InternalStates] /\ scratch \subseteq Files /\ filesStored \subseteq Files
    BY <2>1 DEF Types, Lives, Amounts, Executors, Phases
  <2>6. answer \in {"none", "done", "failed"}
    BY <2>1 DEF LifeOf
  <2>7. /\ toDelete \subseteq Files
        /\ deletion \in [file : Files, phase : {"asked", "deleted"}] \cup {NoDeletion}
    BY <1>1 DEF CleaningUp
  <2> QED
    BY <2>4, <2>5, <2>6, <2>7 DEF TypeOK
<1> QED
  BY <1>1, ExecutorInvariant, PTL

\* While the executor lives, the workunits that run are those whose stage has come, and cores and
\* RAM are available or held (StandardJobExecutor.cpp:406, 712; Workunit.cpp:123).
THEOREM ExecutorRunsInOrder ==
    Spec => []RunningIsInOrder
<1>1. ASSUME ExecutorInv PROVE RunningIsInOrder
  <2>1. SUFFICES ASSUME daemon = "up" PROVE StagesInOrder /\ ResourcesAccounted
    BY DEF RunningIsInOrder, StagesInOrder, ResourcesAccounted
  <2>2. Types /\ Sorted /\ Advanced /\ Accounted
    BY <1>1, <2>1 DEF ExecutorInv, WhileUp
  <2>3. ASSUME NEW w \in running
        PROVE  /\ \A v \in JobWorkunits : StageOf(v) < StageOf(w) => v \in completed
               /\ w \in Tasks => \A p \in Parents[w] : taskState[p] = "TASK_COMPLETED"
    <3>1. w \in JobWorkunits /\ w \notin nonReady
      BY <2>2 DEF Sorted
    <3>2. \A v \in JobWorkunits : StageOf(v) < StageOf(w) => v \in completed
      BY <2>2, <3>1, RunningFollows
    <3>3. ASSUME w \in Tasks, NEW p \in Parents[w] PROVE taskState[p] = "TASK_COMPLETED"
      <4>1. p \in Tasks /\ p \in completed
        BY <2>2, <3>1, <3>3, ParentsAreCompleted
      <4> QED
        BY <2>2, <4>1 DEF Advanced
    <3> QED
      BY <3>2, <3>3
  <2>4. \A h \in Hosts : ramAvailabilities[h] >= 0
    BY <2>2 DEF Types
  <2> QED
    BY <2>2, <2>3, <2>4 DEF StagesInOrder, ResourcesAccounted, Accounted
<1> QED
  BY <1>1, ExecutorInvariant, PTL

\* From the answer on, or once the executor is killed, nothing runs; "done" means that every task
\* was completed and counted once, whatever crosses the rest of the executor's life, and the
\* return after it that scratch is empty (StandardJobExecutor.cpp:230, 257, 338, 699, 944).
THEOREM EndedExecutorIsQuiet ==
    Spec => []EndedJobIsQuiet
<1>1. ASSUME ExecutorInv PROVE EndedJobIsQuiet
  BY <1>1 DEF ExecutorInv
<1> QED
  BY <1>1, ExecutorInvariant, PTL

\* No exception that says "this should not happen" ends the simulation: a completed or failed
\* workunit runs, what it releases waited and is ready, and copies of files run alone
\* (StandardJobExecutor.cpp:677, 718, 738, 789, 798, 847). What can end it is a scratch service
\* that does not answer in time (StandardJobExecutor.cpp:951).
THEOREM NothingUnexpectedHappens ==
    Spec => [](aborted \in {"no", "scratch does not answer"})
<1>1. ASSUME ExecutorInv PROVE aborted \in {"no", "scratch does not answer"}
  BY <1>1 DEF ExecutorInv, LifeOf
<1> QED
  BY <1>1, ExecutorInvariant, PTL
============================================================================
