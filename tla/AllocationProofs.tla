--------------------------- MODULE AllocationProofs ---------------------------
(* Proofs about CloudVMs.tla, for every set of VMs and hosts, every allocation algorithm,
   and any number of requests that wait in any order; and about Batch.tla, for every
   cluster and set of jobs, whatever they ask for and however they end. What the batch
   scheduler decides plays no part, but that it plans no job that was not accepted. *)
EXTENDS CloudVMs, Batch, FiniteSetTheorems, SequenceTheorems, TLAPS

-------------------------------------------------------------------------------
(* The jobs of a batch service *)

USE TimeLineAssumption, BatchAssumption

-------------------------------------------------------------------------------
(* Dates *)

Moved(p, d, j) == Reserve([d EXCEPT !.line = RemoveReservation(@, d.start[j], d.end[j] + 100, j)], j)
Moving == INSTANCE FoldProofs WITH op <- Moved

\* Truncating a date of fewer than h * r ticks gives one of fewer than h seconds.
LEMMA Truncated ==
    ASSUME NEW c \in Nat, NEW r \in Nat \ {0}, NEW h \in Nat, c < h * r
    PROVE  c \div r \in 0 .. h - 1
<1> DEFINE q == c \div r
<1>1. q \in Int /\ c % r \in 0 .. r - 1 /\ c = r * q + (c % r)
  OBVIOUS
<1> HIDE DEF q
<1>2. q >= 0
  <2>1. ASSUME q < 0 PROVE FALSE
    <3>1. q + 1 <= 0 /\ r * (q + 1) = r * q + r
      BY <1>1, <2>1
    <3>2. r * (q + 1) <= 0
      BY <1>1, <3>1
    <3> QED
      BY <1>1, <3>1, <3>2
  <2> QED
    BY <1>1, <2>1
<1>3. q < h
  <2>1. ASSUME q >= h PROVE FALSE
    <3>1. (q - h) * r >= 0 /\ (q - h) * r = r * q - h * r
      BY <1>1, <2>1
    <3>2. h * r \in Nat /\ r * q \in Int
      BY <1>1
    <3> QED
      BY <1>1, <3>1, <3>2
  <2> QED
    BY <1>1, <2>1
<1> QED
  BY <1>1, <1>2, <1>3 DEF q

\* Some dates have an earliest one.
LEMMA Earliest ==
    ASSUME NEW S \in SUBSET Dates, S # {}
    PROVE  Min(S) \in S
<1>1. S \in SUBSET (0 .. Horizon) /\ \A s \in S : s \in Nat
  BY DEF Dates
<1>2. \E m \in S : \A k \in S : m <= k
  BY <1>1, Moving!SmallestOf
<1> QED
  BY <1>2 DEF Min

\* The walk ends in the time line, or at its end.
LEMMA WalkEnds ==
    ASSUME NEW t, NEW origin \in Nat, NEW duration, NEW nodes
    PROVE  EarliestStartTime(t, origin, duration, nodes) \in 0 .. Horizon
<1> DEFINE enough == {u \in origin .. Horizon - 1 : AvailableNodes(t, u) >= nodes}
           counted == {u \in enough : Cardinality({v \in enough : v <= u}) >= duration}
           last == Min(counted)
           run == {u \in enough : u .. last \subseteq enough}
<1>1. enough \in SUBSET Dates /\ counted \in SUBSET enough
  BY DEF Dates
<1>2. EarliestStartTime(t, origin, duration, nodes) = IF counted = {} THEN Horizon ELSE Min(run)
  BY DEF EarliestStartTime
<1> HIDE DEF enough, counted
<1>3. CASE counted = {}
  BY <1>2, <1>3
<1>4. CASE counted # {}
  <2>1. last \in counted
    BY <1>1, <1>4, Earliest
  <2>2. last \in enough /\ last \in Nat
    <3> HIDE DEF last, run
    <3>1. last \in enough /\ last \in Dates
      BY <1>1, <2>1
    <3> QED
      BY <3>1 DEF Dates
  <2>3. last .. last = {last}
    BY <2>2
  <2>4. last \in run
    BY <2>2, <2>3
  <2>5. run \in SUBSET Dates
    BY <1>1
  <2> HIDE DEF last, run
  <2>6. Min(run) \in Dates
    BY <2>4, <2>5, Earliest
  <2> QED
    BY <1>2, <1>4, <2>6 DEF Dates
<1> QED
  BY <1>3, <1>4

-------------------------------------------------------------------------------
(* The plan *)

\* A plan with reservations for jobs of L only.
PlanFor(L) == [line : [Dates -> SUBSET L], start : [Jobs -> 0 .. Horizon], end : [Jobs -> Nat]]

\* The changes of a time line.
LEMMA LineKeeps ==
    ASSUME NEW L, NEW t \in [Dates -> SUBSET L], NEW a, NEW b, NEW j
    PROVE  /\ SetTimeOrigin(t, a) \in [Dates -> SUBSET L]
           /\ RemoveReservation(t, a, b, j) \in [Dates -> SUBSET L]
           /\ j \in L => AddReservation(t, a, b, j) \in [Dates -> SUBSET L]
BY DEF SetTimeOrigin, RemoveReservation, AddReservation

\* A reservation is made, the origin of the time line moved.
LEMMA ReserveKeeps ==
    ASSUME NEW L \in SUBSET Jobs, NEW plan \in PlanFor(L), Now \in Dates
    PROVE  /\ FromNow(plan) \in PlanFor(L)
           /\ \A j \in L : Reserve(plan, j) \in PlanFor(L)
<1>1. FromNow(plan) \in PlanFor(L)
  <2>1. SetTimeOrigin(plan.line, Now) \in [Dates -> SUBSET L]
    BY LineKeeps DEF PlanFor
  <2> QED
    BY <2>1 DEF FromNow, PlanFor
<1>2. ASSUME NEW j \in L PROVE Reserve(plan, j) \in PlanFor(L)
  <2> DEFINE est == EarliestStartTime(plan.line, Now, RequestedTime[j], Nodes[j])
             till == est + RequestedTime[j]
  <2>1. est \in 0 .. Horizon
    BY WalkEnds DEF Dates
  <2>2. till \in Nat
    BY <2>1
  <2>3. Reserve(plan, j) = [line |-> AddReservation(plan.line, est, till, j),
                            start |-> [plan.start EXCEPT ![j] = est],
                            end |-> [plan.end EXCEPT ![j] = till]]
    BY DEF Reserve
  <2> HIDE DEF est, till
  <2>4. AddReservation(plan.line, est, till, j) \in [Dates -> SUBSET L]
    BY LineKeeps DEF PlanFor
  <2> QED
    BY <2>1, <2>2, <2>3, <2>4 DEF PlanFor
<1> QED
  BY <1>1, <1>2

\* The schedule is compacted.
LEMMA CompactKeeps ==
    ASSUME NEW L \in SUBSET Jobs, NEW plan \in PlanFor(L), NEW jobs \in Seq(L), Now \in Dates
    PROVE  Compact(plan, jobs) \in PlanFor(L)
<1> DEFINE n == Len(jobs)
           I == [i \in 0 .. n |-> PlanFor(L)]
<1>1. n \in Nat /\ DOMAIN jobs = 1 .. n /\ \A i \in 1 .. n : jobs[i] \in L
  OBVIOUS
<1>2. FromNow(plan) \in I[0]
  <2>1. 0 \in 0 .. n
    BY <1>1
  <2> QED
    BY <2>1, ReserveKeeps
<1>3. ASSUME NEW i \in 1 .. n, NEW d \in I[i - 1] PROVE Moved(Now, d, jobs[i]) \in I[i]
  <2>1. i - 1 \in 0 .. n /\ i \in 0 .. n /\ jobs[i] \in L
    BY <1>1
  <2>2. d \in PlanFor(L)
    BY <2>1
  <2> DEFINE e == [d EXCEPT !.line = RemoveReservation(@, d.start[jobs[i]], d.end[jobs[i]] + 100, jobs[i])]
  <2>3. RemoveReservation(d.line, d.start[jobs[i]], d.end[jobs[i]] + 100, jobs[i]) \in [Dates -> SUBSET L]
    BY <2>2, LineKeeps DEF PlanFor
  <2>4. e \in PlanFor(L)
    BY <2>2, <2>3 DEF PlanFor
  <2>5. Moved(Now, d, jobs[i]) = Reserve(e, jobs[i])
    BY DEF Moved
  <2> HIDE DEF e
  <2>6. Reserve(e, jobs[i]) \in PlanFor(L)
    BY <2>1, <2>4, ReserveKeeps
  <2> QED
    BY <2>1, <2>5, <2>6
<1> HIDE DEF I
<1>4. Moving!Folded(Now, FromNow(plan), jobs) \in I[n]
  <2> HIDE DEF n
  <2> QED
    BY <1>1, <1>2, <1>3, Moving!FoldKeeps
<1>5. Moving!Folded(Now, FromNow(plan), jobs) = Compact(plan, jobs)
  BY DEF Moving!Folded, Compact, Moved, FoldLeft, Moving!FoldLeft, MapThenFoldSet,
         Moving!MapThenFoldSet, Max, Moving!Max
<1>6. n \in 0 .. n
  BY <1>1
<1> QED
  BY <1>4, <1>5, <1>6 DEF I

\* A job ends, and the schedule is compacted.
LEMMA WithoutKeeps ==
    ASSUME NEW L \in SUBSET Jobs, NEW plan \in PlanFor(L), NEW jobs \in Seq(L), NEW j,
           Now \in Dates
    PROVE  Without(plan, j, jobs) \in PlanFor(L)
<1> DEFINE rest == [FromNow(plan) EXCEPT !.line = RemoveReservation(@, Now, plan.end[j] + 100, j)]
<1>1. FromNow(plan) \in PlanFor(L)
  BY ReserveKeeps
<1>2. RemoveReservation(FromNow(plan).line, Now, plan.end[j] + 100, j) \in [Dates -> SUBSET L]
  BY <1>1, LineKeeps DEF PlanFor
<1>3. rest \in PlanFor(L)
  BY <1>1, <1>2 DEF PlanFor
<1>4. Without(plan, j, jobs) = IF Now < plan.end[j] THEN Compact(rest, jobs) ELSE rest
  BY DEF Without
<1> HIDE DEF rest
<1> QED
  BY <1>3, <1>4, CompactKeeps

-------------------------------------------------------------------------------
(* The jobs that are started *)

Tried(p, a, j) == IF a.short \/ a.nodes < Nodes[j] THEN [a EXCEPT !.short = TRUE]
                  ELSE [a EXCEPT !.nodes = @ - Nodes[j], !.jobs = @ \cup {j}]
Trying == INSTANCE FoldProofs WITH op <- Tried

NodesOf(S) == SumFunctionOnSet(Nodes, S)

\* The nodes of one job more, or less.
LEMMA NodesAreSummed ==
    ASSUME NEW S \in SUBSET Jobs
    PROVE  /\ NodesOf(S) \in Nat
           /\ NodesOf({}) = 0
           /\ \A j \in S : NodesOf(S) = NodesOf(S \ {j}) + Nodes[j]
           /\ \A R \in SUBSET S : NodesOf(S) = NodesOf(R) + NodesOf(S \ R)
<1>1. \A R : /\ NodesOf(R) = Trying!SumFunctionOnSet(Nodes, R)
             /\ IsFiniteSet(R) <=> Trying!IsFiniteSet(R)
  BY DEF NodesOf, SumFunctionOnSet, Trying!SumFunctionOnSet, FoldFunctionOnSet,
         Trying!FoldFunctionOnSet, MapThenFoldSet, Trying!MapThenFoldSet, IsFiniteSet,
         Trying!IsFiniteSet
<1>2. ASSUME NEW R \in SUBSET Jobs
      PROVE  Trying!IsFiniteSet(R) /\ \A x \in R : Nodes[x] \in Int /\ Nodes[x] >= 0
  <2>1. IsFiniteSet(R)
    BY FS_Subset
  <2>2. \A x \in R : Nodes[x] \in Nat
    OBVIOUS
  <2> QED
    BY <1>1, <2>1, <2>2
<1>3. ASSUME NEW R \in SUBSET Jobs PROVE NodesOf(R) \in Nat
  <2>1. NodesOf(R) \in Int /\ NodesOf(R) >= 0
    BY <1>1, <1>2, Trying!SumType
  <2> QED
    BY <2>1
<1>4. NodesOf({}) = 0
  <2>1. Trying!IsFiniteSet({}) /\ \A x \in {} : Nodes[x] \in Int
    BY <1>2
  <2> QED
    BY <1>1, <2>1, Trying!SumUnfolds
<1>5. ASSUME NEW j \in S PROVE NodesOf(S) = NodesOf(S \ {j}) + Nodes[j]
  <2>1. NodesOf(S) = Nodes[j] + NodesOf(S \ {j})
    BY <1>1, <1>2, Trying!SumAdds
  <2>2. NodesOf(S \ {j}) \in Nat /\ Nodes[j] \in Nat
    BY <1>3
  <2> QED
    BY <2>1, <2>2
<1>6. \A R \in SUBSET S : NodesOf(S) = NodesOf(R) + NodesOf(S \ R)
  BY <1>1, <1>2, Trying!SumSplits
<1> QED
  BY <1>3, <1>4, <1>5, <1>6

\* Those that are started have their nodes.
LEMMA StartedHaveNodes ==
    ASSUME NEW R \in SUBSET Jobs, NEW order \in SetToSeqs(R), NEW nodes \in Nat
    PROVE  /\ StartedInOrder(order, nodes).jobs \in SUBSET R
           /\ StartedInOrder(order, nodes).nodes \in Nat
           /\ StartedInOrder(order, nodes).nodes + NodesOf(StartedInOrder(order, nodes).jobs) = nodes
<1> DEFINE n == Cardinality(R)
           Before(i) == {order[k] : k \in 1 .. i}
           I == [i \in 0 .. n |->
                   {a \in [short : BOOLEAN, nodes : Nat, jobs : SUBSET R] :
                      a.jobs \subseteq Before(i) /\ a.nodes + NodesOf(a.jobs) = nodes}]
           none == [short |-> FALSE, nodes |-> nodes, jobs |-> {}]
<1>1. n \in Nat
  <2>1. IsFiniteSet(R)
    BY FS_Subset
  <2> QED
    BY <2>1, FS_CardinalityType
<1>2. order \in [1 .. n -> R] /\ \A i, k \in 1 .. n : i # k => order[i] # order[k]
  BY DEF SetToSeqs
<1> HIDE DEF n
<1>3. none \in I[0]
  <2>1. 0 \in 0 .. n /\ NodesOf({}) = 0
    BY <1>1, NodesAreSummed
  <2>2. none \in [short : BOOLEAN, nodes : Nat, jobs : SUBSET R] /\ none.jobs = {} /\ none.nodes = nodes
    OBVIOUS
  <2>3. none.nodes + NodesOf(none.jobs) = nodes
    BY <2>1, <2>2
  <2> HIDE DEF none
  <2> QED
    BY <2>1, <2>2, <2>3
<1>4. ASSUME NEW i \in 1 .. n, NEW a \in I[i - 1] PROVE Tried(0, a, order[i]) \in I[i]
  <2> DEFINE j == order[i]
             b == [a EXCEPT !.nodes = @ - Nodes[j], !.jobs = @ \cup {j}]
  <2>1. i \in 0 .. n /\ i - 1 \in 0 .. n /\ i \in Nat /\ j \in R /\ j \in Jobs /\ Nodes[j] \in Nat
    BY <1>1, <1>2
  <2>2. /\ a \in [short : BOOLEAN, nodes : Nat, jobs : SUBSET R]
        /\ a.jobs \subseteq Before(i - 1) /\ a.nodes + NodesOf(a.jobs) = nodes
    BY <2>1
  <2>3. Before(i) = Before(i - 1) \cup {j} /\ j \notin Before(i - 1)
    <3>1. 1 .. i = (1 .. i - 1) \cup {i} /\ 1 .. i - 1 \subseteq 1 .. n /\ i \notin 1 .. i - 1
      BY <1>1, <2>1
    <3> QED
      BY <1>2, <3>1
  <2> HIDE DEF j, Before
  <2>4. CASE a.short \/ a.nodes < Nodes[j]
    <3>1. Tried(0, a, order[i]) = [a EXCEPT !.short = TRUE]
      BY <2>4 DEF Tried, j
    <3>2. [a EXCEPT !.short = TRUE] \in I[i]
      BY <2>1, <2>2, <2>3
    <3> QED
      BY <3>1, <3>2
  <2>5. CASE ~(a.short \/ a.nodes < Nodes[j])
    <3>1. Tried(0, a, order[i]) = b
      BY <2>5 DEF Tried, j
    <3>2. b \in [short : BOOLEAN, nodes : Nat, jobs : SUBSET R]
      <4>1. a.nodes - Nodes[j] \in Nat /\ a.jobs \cup {j} \in SUBSET R
        BY <2>1, <2>2, <2>5
      <4> QED
        BY <2>2, <4>1
    <3>3. b.jobs = a.jobs \cup {j} /\ b.nodes = a.nodes - Nodes[j]
      BY <2>2
    <3>4. b.jobs \subseteq Before(i)
      BY <2>2, <2>3, <3>3
    <3>5. NodesOf(b.jobs) = NodesOf(a.jobs) + Nodes[j]
      <4>1. b.jobs \in SUBSET Jobs /\ j \in b.jobs /\ b.jobs \ {j} = a.jobs
        BY <2>1, <2>2, <2>3, <3>3
      <4> HIDE DEF b
      <4>2. NodesOf(b.jobs) = NodesOf(b.jobs \ {j}) + Nodes[j]
        BY <4>1, NodesAreSummed
      <4> QED
        BY <4>1, <4>2
    <3>6. NodesOf(a.jobs) \in Nat
      BY <2>2, NodesAreSummed
    <3>7. b.nodes + NodesOf(b.jobs) = nodes
      BY <2>1, <2>2, <3>3, <3>5, <3>6
    <3> HIDE DEF b
    <3> QED
      BY <2>1, <3>1, <3>2, <3>4, <3>7
  <2> QED
    BY <2>4, <2>5
<1> HIDE DEF I
<1>5. Trying!Folded(0, none, order) \in I[n]
  <2>1. DOMAIN order = 1 .. n
    BY <1>2
  <2> HIDE DEF none
  <2> QED
    BY <1>1, <1>3, <1>4, <2>1, Trying!FoldKeeps
<1>6. Trying!Folded(0, none, order) = StartedInOrder(order, nodes)
  BY DEF Trying!Folded, StartedInOrder, Tried, FoldLeft, Trying!FoldLeft, MapThenFoldSet,
         Trying!MapThenFoldSet, Max, Trying!Max
<1>7. StartedInOrder(order, nodes) \in I[n] /\ n \in 0 .. n
  BY <1>1, <1>5, <1>6
<1> QED
  BY <1>7 DEF I

-------------------------------------------------------------------------------
(* The queue *)

KeptUnless(S, kept, j) == IF j \in S THEN kept ELSE Append(kept, j)
Keeping == INSTANCE FoldProofs WITH op <- KeptUnless

\* Each job is in the queue once.
InOrder(q) == q \in Seq(Jobs) /\ IsInjective(q)

\* A job joins the queue.
LEMMA QueueWith ==
    ASSUME NEW q, InOrder(q), NEW j \in Jobs
    PROVE  /\ ToSet(Append(q, j)) = ToSet(q) \cup {j}
           /\ j \notin ToSet(q) => InOrder(Append(q, j))
<1>1. /\ Append(q, j) \in Seq(Jobs) /\ Len(q) \in Nat
      /\ DOMAIN q = 1 .. Len(q)
      /\ DOMAIN Append(q, j) = DOMAIN q \cup {Len(q) + 1}
      /\ \A k \in DOMAIN q : Append(q, j)[k] = q[k]
      /\ Append(q, j)[Len(q) + 1] = j
  BY DEF InOrder
<1>2. ToSet(Append(q, j)) = ToSet(q) \cup {j}
  BY <1>1 DEF ToSet
<1>3. ASSUME j \notin ToSet(q) PROVE InOrder(Append(q, j))
  <2>1. \A k \in DOMAIN q : q[k] # j
    BY <1>3 DEF ToSet
  <2> QED
    BY <1>1, <2>1 DEF InOrder, IsInjective
<1> QED
  BY <1>2, <1>3

\* Some jobs leave the queue.
LEMMA QueueWithout ==
    ASSUME NEW q, InOrder(q), NEW S
    PROVE  /\ InOrder(RemoveFromQueue(q, S))
           /\ ToSet(RemoveFromQueue(q, S)) = ToSet(q) \ S
<1> DEFINE n == Len(q)
           Before(i) == {q[k] : k \in 1 .. i}
           I == [i \in 0 .. n |-> {d \in Seq(Jobs) : InOrder(d) /\ ToSet(d) = Before(i) \ S}]
<1>1. /\ n \in Nat /\ DOMAIN q = 1 .. n /\ \A i \in 1 .. n : q[i] \in Jobs
      /\ \A i, k \in 1 .. n : q[i] = q[k] => i = k
  BY DEF InOrder, IsInjective
<1>2. <<>> \in I[0]
  <2>1. <<>> \in Seq(Jobs) /\ ToSet(<<>>) = {} /\ 1 .. 0 = {} /\ 0 \in 0 .. n /\ InOrder(<<>>)
    BY <1>1 DEF ToSet, InOrder, IsInjective
  <2> HIDE DEF n
  <2> QED
    BY <2>1
<1>3. ASSUME NEW i \in 1 .. n, NEW d \in I[i - 1] PROVE KeptUnless(S, d, q[i]) \in I[i]
  <2>1. i - 1 \in 0 .. n /\ i \in 0 .. n /\ q[i] \in Jobs
    BY <1>1
  <2>2. d \in Seq(Jobs) /\ InOrder(d) /\ ToSet(d) = Before(i - 1) \ S
    BY <2>1
  <2>3. Before(i) = Before(i - 1) \cup {q[i]} /\ q[i] \notin Before(i - 1)
    <3>1. 1 .. i = (1 .. i - 1) \cup {i} /\ i \notin 1 .. i - 1 /\ 1 .. i - 1 \subseteq 1 .. n
      BY <1>1
    <3>2. \A k \in 1 .. i - 1 : q[k] # q[i]
      BY <1>1, <3>1
    <3>3. Before(i) = Before(i - 1) \cup {q[i]}
      BY <3>1
    <3> QED
      BY <3>2, <3>3
  <2> HIDE DEF n, Before
  <2>4. /\ ToSet(Append(d, q[i])) = ToSet(d) \cup {q[i]}
        /\ InOrder(Append(d, q[i])) /\ Append(d, q[i]) \in Seq(Jobs)
    BY <2>1, <2>2, <2>3, QueueWith DEF InOrder
  <2> QED
    BY <2>1, <2>2, <2>3, <2>4 DEF KeptUnless
<1> HIDE DEF I
<1>4. Keeping!Folded(S, <<>>, q) \in I[n]
  <2> HIDE DEF n
  <2> QED
    BY <1>1, <1>2, <1>3, Keeping!FoldKeeps
<1>5. Keeping!Folded(S, <<>>, q) = RemoveFromQueue(q, S)
  BY DEF Keeping!Folded, RemoveFromQueue, KeptUnless, FoldLeft, Keeping!FoldLeft,
         MapThenFoldSet, Keeping!MapThenFoldSet, Max, Keeping!Max
<1>6. n \in 0 .. n /\ ToSet(q) = Before(n)
  BY <1>1 DEF ToSet
<1> QED
  BY <1>4, <1>5, <1>6 DEF I

-------------------------------------------------------------------------------
(* The jobs that are started from a plan and the jobs that a handler has left. *)

JobsFine(jobs) ==
    /\ InOrder(jobs.queue) /\ jobs.running \subseteq allocated
    /\ jobs.freeNodes \in Nat /\ jobs.freeNodes + NodesOf(jobs.running) = NumNodes
    /\ jobs.listed \subseteq Jobs /\ jobs.alarm \in [Jobs -> Nat]
    /\ jobs.executor \in [Jobs -> {"none", "running", "through", "killed"}]

Starts(S, jobs) ==
    /\ InOrder(queue') /\ ToSet(queue') = ToSet(jobs.queue) \ S
    /\ running' = jobs.running \cup S /\ allocated' = allocated \cup S
    /\ freeNodes' \in Nat /\ freeNodes' + NodesOf(running') = NumNodes
    /\ listed' \subseteq Jobs /\ alarm' \in [Jobs -> Nat]
    /\ executor' \in [Jobs -> {"none", "running", "through", "killed"}]

\* What changes when the jobs of started are.
StartedThese(started, jobs) ==
    LET In(old, new) == [j \in Jobs |-> IF j \in started.jobs THEN new[j] ELSE old[j]] IN
    /\ freeNodes' = started.nodes
    /\ queue' = RemoveFromQueue(jobs.queue, started.jobs)
    /\ running' = jobs.running \cup started.jobs
    /\ allocated' = allocated \cup started.jobs
    /\ listed' = jobs.listed \cup started.jobs
    /\ executor' = In(jobs.executor, [j \in Jobs |-> "running"])
    /\ alarm' = In(jobs.alarm, [j \in Jobs |-> clock + RequestedTime[j] * Resolution])

LEMMA JobsAreStarted ==
    ASSUME TypeOK, Now \in Dates, NEW L \in SUBSET Jobs, NEW plan \in PlanFor(L), NEW jobs,
           JobsFine(jobs), ToSet(jobs.queue) \subseteq L, ProcessQueuedJobs(plan, jobs)
    PROVE  /\ line' \in [Dates -> SUBSET L]
           /\ start' \in [Jobs -> 0 .. Horizon] /\ end' \in [Jobs -> Nat]
           /\ \E S \in SUBSET L : S \cap allocated = {} /\ Starts(S, jobs)
<1>1. PICK next \in {PlanForNow(plan, jobs)} :
      \E order \in SetToSeqs(IF jobs.queue = <<>> THEN {} ELSE next.line[Now] \ allocated) :
      \E started \in {StartedInOrder(order, jobs.freeNodes)} :
        /\ line' = next.line /\ start' = next.start /\ end' = next.end
        /\ StartedThese(started, jobs)
  BY DEF ProcessQueuedJobs, StartedThese
<1>2. next \in PlanFor(L)
  <2>1. jobs.queue \in Seq(L)
    <3>1. jobs.queue \in Seq(Jobs) /\ \A i \in DOMAIN jobs.queue : jobs.queue[i] \in L
      BY DEF JobsFine, InOrder, ToSet
    <3> QED
      BY <3>1
  <2>2. FromNow(plan) \in PlanFor(L)
    BY ReserveKeeps
  <2>3. Compact(FromNow(plan), jobs.queue) \in PlanFor(L)
    BY <2>1, <2>2, CompactKeeps
  <2> QED
    BY <2>2, <2>3 DEF PlanForNow
<1>3. line' \in [Dates -> SUBSET L] /\ start' \in [Jobs -> 0 .. Horizon] /\ end' \in [Jobs -> Nat]
  BY <1>1, <1>2 DEF PlanFor
<1> DEFINE due == IF jobs.queue = <<>> THEN {} ELSE next.line[Now] \ allocated
<1>4. due \in SUBSET L /\ due \cap allocated = {}
  BY <1>2 DEF PlanFor
<1> HIDE DEF due
<1>5. PICK order \in SetToSeqs(due) : StartedThese(StartedInOrder(order, jobs.freeNodes), jobs)
  BY <1>1 DEF due
<1> DEFINE started == StartedInOrder(order, jobs.freeNodes)
           S == started.jobs
<1>6. S \in SUBSET due /\ started.nodes \in Nat /\ started.nodes + NodesOf(S) = jobs.freeNodes
  BY <1>4, <1>5, StartedHaveNodes DEF JobsFine
<1> HIDE DEF started
<1>7. S \in SUBSET L /\ S \cap allocated = {} /\ S \in SUBSET Jobs /\ jobs.running \in SUBSET Jobs
  BY <1>4, <1>6 DEF JobsFine, TypeOK
<1>8. InOrder(queue') /\ ToSet(queue') = ToSet(jobs.queue) \ S
  BY <1>5, QueueWithout DEF JobsFine, StartedThese, started
<1>9. freeNodes' \in Nat /\ freeNodes' + NodesOf(running') = NumNodes
  <2> DEFINE R == jobs.running
  <2>1. running' = R \cup S /\ freeNodes' = started.nodes
    BY <1>5 DEF StartedThese, started
  <2>2. (R \cup S) \ R = S /\ R \in SUBSET (R \cup S) /\ (R \cup S) \in SUBSET Jobs
    BY <1>7 DEF JobsFine
  <2>3. NodesOf(R \cup S) = NodesOf(R) + NodesOf(S) /\ NodesOf(R) \in Nat /\ NodesOf(S) \in Nat
    <3> HIDE DEF S
    <3>1. NodesOf(R \cup S) = NodesOf(R) + NodesOf((R \cup S) \ R)
      BY <2>2, NodesAreSummed
    <3> QED
      BY <1>7, <2>2, <3>1, NodesAreSummed
  <2>4. jobs.freeNodes \in Nat /\ jobs.freeNodes + NodesOf(R) = NumNodes
    BY DEF JobsFine
  <2> HIDE DEF S, R
  <2>5. NodesOf(running') = NodesOf(R) + NodesOf(S)
    BY <2>1, <2>3
  <2> QED
    BY <1>6, <2>1, <2>3, <2>4, <2>5
<1>10. listed' \subseteq Jobs /\ alarm' \in [Jobs -> Nat]
       /\ executor' \in [Jobs -> {"none", "running", "through", "killed"}]
  <2>1. ASSUME NEW j \in Jobs PROVE clock + RequestedTime[j] * Resolution \in Nat
    <3>1. \A a \in Nat, b \in Nat : a * b \in Nat
      OBVIOUS
    <3>2. RequestedTime[j] \in Nat /\ Resolution \in Nat
      OBVIOUS
    <3>3. clock \in Nat
      <4>1. clock \in 0 .. MaxClock
        BY DEF TypeOK
      <4> QED
        BY <4>1
    <3>4. RequestedTime[j] * Resolution \in Nat
      BY <3>1, <3>2
    <3> QED
      BY <3>3, <3>4
  <2> QED
    BY <1>5, <1>7, <2>1 DEF JobsFine, StartedThese, started
<1>11. running' = jobs.running \cup S /\ allocated' = allocated \cup S
  BY <1>5 DEF StartedThese, started
<1> HIDE DEF S
<1>12. Starts(S, jobs)
  BY <1>8, <1>9, <1>10, <1>11 DEF Starts
<1> QED
  BY <1>3, <1>7, <1>12

-------------------------------------------------------------------------------
(* The invariant *)

Unknown == {"new", "submitting", "rejected"}
Waiting == {"waiting", "terminating"}
Accepted(known) == {j \in Jobs : known[j] \notin Unknown}

Submits(mail, j) == {i \in DOMAIN mail : mail[i] = [type |-> "Submit", job |-> j]}

\* Job j is queued or runs while its submitter waits for its end; the scheduler may have a
\* reservation for any job that was accepted, but starts none again.
PlaceFine(j, known, q, runs, old) ==
    /\ j \in ToSet(q) => j \notin runs /\ known[j] \in Waiting
    /\ known[j] \in Waiting => j \in ToSet(q) \cup runs
    /\ known[j] \in Unknown => j \notin runs
    /\ known[j] = "terminated" /\ j \notin old => j \in allocated \ runs

\* Its submission is in the mailbox once.
SubmitFine(j) ==
    /\ Submits(mailbox, j) # {} => status[j] = "submitting"
    /\ \A i, k \in Submits(mailbox, j) : i = k

BInv ==
    /\ TypeOK /\ JobsFine(Current)
    /\ line \in [Dates -> SUBSET Accepted(status)]
    /\ \A j \in Jobs : PlaceFine(j, status, queue, running, ghosts) /\ SubmitFine(j)

\* The date is one of the time line.
LEMMA NowIs == TypeOK => Now \in Dates
<1> SUFFICES ASSUME TypeOK PROVE Now \in Dates
  OBVIOUS
<1>1. clock \in Nat /\ clock < Horizon * Resolution
  <2>1. \A a \in Nat, b \in Nat : a * b \in Nat
    OBVIOUS
  <2>2. MaxClock \in Nat /\ MaxClock < Horizon * Resolution /\ Horizon \in Nat /\ Resolution \in Nat
    OBVIOUS
  <2>3. clock \in 0 .. MaxClock
    BY DEF TypeOK
  <2>4. Horizon * Resolution \in Nat
    BY <2>1, <2>2
  <2> QED
    BY <2>2, <2>3, <2>4
<1>2. clock \div Resolution \in 0 .. Horizon - 1
  BY <1>1, Truncated
<1> QED
  BY <1>2 DEF Now, Dates

\* A message is handled: known and old are the states of the jobs and the ghosts it leaves,
\* jobs and plan what the queued jobs are then processed from.
LEMMA MessageIsHandled ==
    ASSUME BInv, mailbox # <<>>, NEW known \in [Jobs -> Status], NEW old \in SUBSET Jobs,
           NEW plan \in PlanFor(Accepted(known)), NEW jobs, JobsFine(jobs),
           \A j \in Jobs : PlaceFine(j, known, jobs.queue, jobs.running, old),
           \A j \in Jobs : status[j] = "submitting"
                             => known[j] = status[j] \/ Head(mailbox) = [type |-> "Submit", job |-> j],
           ProcessQueuedJobs(plan, jobs), mailbox' = Tail(mailbox),
           status' = known, ghosts' = old, UNCHANGED <<clock, aborted>>
    PROVE  BInv'
<1> DEFINE L == Accepted(known)
<1>1. L \in SUBSET Jobs /\ ToSet(jobs.queue) \subseteq L /\ Now \in Dates
  <2>1. ToSet(jobs.queue) \subseteq Jobs
    BY DEF JobsFine, InOrder, ToSet
  <2>2. \A j \in ToSet(jobs.queue) : known[j] \notin Unknown
    BY <2>1 DEF PlaceFine, Waiting, Unknown
  <2> QED
    BY <2>1, <2>2, NowIs DEF BInv, Accepted
<1> HIDE DEF L
<1>2. /\ line' \in [Dates -> SUBSET L]
      /\ start' \in [Jobs -> 0 .. Horizon] /\ end' \in [Jobs -> Nat]
      /\ \E S \in SUBSET L : S \cap allocated = {} /\ Starts(S, jobs)
  BY <1>1, JobsAreStarted DEF BInv, L
<1>3. PICK S \in SUBSET L : S \cap allocated = {} /\ Starts(S, jobs)
  BY <1>2
<1>4. /\ InOrder(queue') /\ ToSet(queue') = ToSet(jobs.queue) \ S
      /\ running' = jobs.running \cup S /\ allocated' = allocated \cup S
      /\ freeNodes' \in Nat /\ freeNodes' + NodesOf(running') = NumNodes
      /\ listed' \subseteq Jobs /\ alarm' \in [Jobs -> Nat]
      /\ executor' \in [Jobs -> {"none", "running", "through", "killed"}]
  BY <1>3 DEF Starts
<1>5. allocated \subseteq Jobs /\ allocated' \subseteq Jobs /\ running' \subseteq allocated'
  BY <1>1, <1>4 DEF BInv, TypeOK, JobsFine
<1>6. freeNodes' \in 0 .. NumNodes
  <2>1. running' \in SUBSET Jobs
    BY <1>5
  <2>2. NodesOf(running') \in Nat
    BY <2>1, NodesAreSummed
  <2> QED
    BY <1>4, <2>2
<1>7. mailbox' \in Seq(Message)
  <2>1. mailbox \in Seq(Message) /\ mailbox # <<>> /\ mailbox' = Tail(mailbox)
    BY DEF BInv, TypeOK
  <2> QED
    BY <2>1
<1>8. TypeOK'
  <2>1. line' \in TimeLine
    BY <1>1, <1>2 DEF TimeLine
  <2>2. clock' \in 0 .. MaxClock /\ aborted' \in {"no", "executor not listed", "job not running"}
    BY DEF BInv, TypeOK
  <2>3. status' \in [Jobs -> Status] /\ ghosts' \subseteq Jobs
    OBVIOUS
  <2>4. queue' \in Seq(Jobs) /\ running' \subseteq Jobs /\ allocated' \subseteq Jobs
    BY <1>4, <1>5 DEF InOrder
  <2> QED
    BY <1>2, <1>4, <1>6, <1>7, <2>1, <2>2, <2>3, <2>4 DEF TypeOK
<1>9. JobsFine(Current)'
  BY <1>4, <1>5 DEF JobsFine, Current
<1>10. line' \in [Dates -> SUBSET Accepted(status')]
  BY <1>2 DEF L
<1>11. ASSUME NEW j \in Jobs PROVE PlaceFine(j, status, queue, running, ghosts)'
  <2>1. PlaceFine(j, known, jobs.queue, jobs.running, old)
    OBVIOUS
  <2>2. j \in S => j \notin allocated /\ known[j] \notin Unknown
    BY <1>3 DEF L, Accepted
  <2>3. jobs.running \subseteq allocated
    BY DEF JobsFine
  <2> QED
    BY <1>4, <2>1, <2>2, <2>3 DEF PlaceFine
<1>12. ASSUME NEW j \in Jobs PROVE SubmitFine(j)'
  <2>1. /\ mailbox \in Seq(Message) /\ mailbox # <<>> /\ SubmitFine(j)
    BY DEF BInv, TypeOK
  <2>2. /\ DOMAIN Tail(mailbox) = 1 .. Len(mailbox) - 1 /\ Len(mailbox) \in Nat
        /\ DOMAIN mailbox = 1 .. Len(mailbox)
        /\ \A i \in DOMAIN Tail(mailbox) : Tail(mailbox)[i] = mailbox[i + 1]
        /\ 1 \in DOMAIN mailbox /\ mailbox[1] = Head(mailbox)
    BY <2>1
  <2>3. \A i \in Submits(mailbox', j) : i \in Nat /\ i > 0 /\ i + 1 \in Submits(mailbox, j)
    BY <2>2 DEF Submits
  <2>4. ASSUME NEW i \in Submits(mailbox', j), Head(mailbox) = [type |-> "Submit", job |-> j]
        PROVE  FALSE
    <3>1. 1 \in Submits(mailbox, j)
      BY <2>2, <2>4 DEF Submits
    <3>2. i + 1 = 1
      BY <2>1, <2>3, <3>1 DEF SubmitFine
    <3> QED
      BY <2>3, <3>2
  <2>5. ASSUME NEW i \in Submits(mailbox', j), NEW k \in Submits(mailbox', j) PROVE i = k
    <3>1. i + 1 = k + 1
      BY <2>1, <2>3 DEF SubmitFine
    <3> QED
      BY <2>3, <3>1
  <2>6. Submits(mailbox', j) # {} => status'[j] = "submitting"
    BY <2>1, <2>3, <2>4 DEF SubmitFine
  <2> QED
    BY <2>5, <2>6 DEF SubmitFine
<1> QED
  BY <1>8, <1>9, <1>10, <1>11, <1>12 DEF BInv

-------------------------------------------------------------------------------
(* The handlers *)

LEMMA MorePlans ==
    ASSUME NEW L, NEW M, L \subseteq M
    PROVE  PlanFor(L) \subseteq PlanFor(M)
BY DEF PlanFor

\* What the invariant says of the plan and the jobs.
LEMMA CurrentIs ==
    ASSUME BInv
    PROVE  /\ Plan \in PlanFor(Accepted(status)) /\ Plan \in PlanFor(Jobs)
           /\ JobsFine(Current)
           /\ Current.queue = queue /\ Current.running = running
           /\ queue \in Seq(Accepted(status))
           /\ Accepted(status) \in SUBSET Jobs /\ Now \in Dates
<1>1. Accepted(status) \in SUBSET Jobs
  BY DEF Accepted
<1>2. Plan \in PlanFor(Accepted(status))
  BY DEF BInv, TypeOK, PlanFor, Plan
<1>3. queue \in Seq(Jobs) /\ \A i \in DOMAIN queue : queue[i] \in Accepted(status)
  <2>1. ASSUME NEW i \in DOMAIN queue PROVE queue[i] \in Accepted(status)
    <3>1. queue[i] \in Jobs /\ queue[i] \in ToSet(queue)
      <4>1. queue \in Seq(Jobs)
        BY DEF BInv, TypeOK
      <4> QED
        BY <4>1 DEF ToSet
    <3>2. status[queue[i]] \in Waiting
      BY <3>1 DEF BInv, PlaceFine
    <3> QED
      BY <3>1, <3>2 DEF Waiting, Unknown, Accepted
  <2> QED
    BY <2>1 DEF BInv, TypeOK
<1>4. queue \in Seq(Accepted(status))
  BY <1>3
<1> QED
  BY <1>1, <1>2, <1>4, NowIs, MorePlans DEF BInv, Current

\* A message that changes nothing.
LEMMA IgnoredKeeps ==
    ASSUME BInv, mailbox # <<>>, Head(mailbox).type # "Submit", IgnoreMessage
    PROVE  BInv'
<1>1. \A j \in Jobs : PlaceFine(j, status, Current.queue, Current.running, ghosts)
  BY CurrentIs DEF BInv
<1>2. status \in [Jobs -> Status] /\ ghosts \in SUBSET Jobs
  BY DEF BInv, TypeOK
<1> QED
  BY <1>1, <1>2, CurrentIs, MessageIsHandled DEF IgnoreMessage

\* A job that runs ends.
Notified(j, s) == [status EXCEPT ![j] = IF @ \in Ended THEN @ ELSE s]

LEMMA RunEnds ==
    ASSUME BInv, NEW j \in running, NEW s \in Ended \ {"rejected"}, NEW jobs \in {Stopped(j), Over(j)}
    PROVE  /\ Notified(j, s) \in [Jobs -> Status]
           /\ Accepted(status) \subseteq Accepted(Notified(j, s))
           /\ \A k \in Jobs : status[k] = "submitting" => Notified(j, s)[k] = status[k]
           /\ JobsFine(jobs)
           /\ \A k \in Jobs : PlaceFine(k, Notified(j, s), jobs.queue, jobs.running, ghosts)
<1> DEFINE known == Notified(j, s)
<1>1. /\ j \in Jobs /\ running \in SUBSET Jobs /\ status \in [Jobs -> Status]
      /\ PlaceFine(j, status, queue, running, ghosts)
  BY DEF BInv, TypeOK
<1>2. s \in {"done", "failed", "terminated"}
  BY DEF Ended
<1>3. /\ known \in [Jobs -> Status]
      /\ known[j] \in Ended /\ known[j] # "rejected" /\ status[j] \notin Unknown
      /\ known[j] = status[j] \/ known[j] = s
      /\ \A k \in Jobs : k # j => known[k] = status[k]
  BY <1>1, <1>2 DEF Notified, Ended, Status, PlaceFine, Unknown
<1>4. /\ jobs.queue = queue /\ jobs.running = running \ {j} /\ jobs.freeNodes = freeNodes + Nodes[j]
      /\ jobs.listed \subseteq listed
      /\ jobs.executor = [executor EXCEPT ![j] = Killed(@)]
      /\ jobs.alarm = alarm \/ jobs.alarm = [alarm EXCEPT ![j] = NoAlarm]
  <2>1. /\ Stopped(j).queue = queue /\ Stopped(j).running = running \ {j}
        /\ Stopped(j).freeNodes = freeNodes + Nodes[j] /\ Stopped(j).listed = listed
        /\ Stopped(j).executor = [executor EXCEPT ![j] = Killed(@)]
        /\ Stopped(j).alarm = alarm
    BY DEF Stopped, Current
  <2>2. /\ Over(j).queue = queue /\ Over(j).running = running \ {j}
        /\ Over(j).freeNodes = freeNodes + Nodes[j] /\ Over(j).listed = listed \ {j}
        /\ Over(j).executor = [executor EXCEPT ![j] = Killed(@)]
        /\ Over(j).alarm = [alarm EXCEPT ![j] = NoAlarm]
    BY DEF Over, Stopped, Current
  <2>3. CASE jobs = Stopped(j)
    BY <2>1, <2>3
  <2>4. CASE jobs = Over(j)
    BY <2>2, <2>4
  <2> QED
    BY <2>3, <2>4
<1>5. JobsFine(jobs)
  <2>1. /\ InOrder(queue) /\ running \subseteq allocated /\ freeNodes \in Nat
        /\ freeNodes + NodesOf(running) = NumNodes
    BY DEF BInv, JobsFine, Current
  <2>2. NodesOf(running) = NodesOf(running \ {j}) + Nodes[j] /\ NodesOf(running \ {j}) \in Nat
    <3>1. running \ {j} \in SUBSET Jobs
      BY <1>1
    <3> QED
      BY <1>1, <3>1, NodesAreSummed
  <2>3. Nodes[j] \in Nat /\ NumNodes \in Nat
    BY <1>1
  <2>4. freeNodes + Nodes[j] \in Nat /\ (freeNodes + Nodes[j]) + NodesOf(running \ {j}) = NumNodes
    BY <2>1, <2>2, <2>3
  <2>5. jobs.alarm \in [Jobs -> Nat] /\ jobs.listed \subseteq Jobs
        /\ jobs.executor \in [Jobs -> {"none", "running", "through", "killed"}]
    <3>1. NoAlarm \in Nat
      BY DEF NoAlarm
    <3>2. /\ alarm \in [Jobs -> Nat] /\ listed \subseteq Jobs
          /\ executor \in [Jobs -> {"none", "running", "through", "killed"}]
      BY DEF BInv, TypeOK
    <3>3. jobs.alarm \in [Jobs -> Nat]
      BY <1>4, <3>1, <3>2
    <3>4. jobs.executor \in [Jobs -> {"none", "running", "through", "killed"}]
      BY <1>4, <3>2 DEF Killed
    <3> QED
      BY <1>4, <3>2, <3>3, <3>4
  <2> QED
    BY <1>4, <2>1, <2>4, <2>5 DEF JobsFine
<1>6. ASSUME NEW k \in Jobs PROVE PlaceFine(k, known, queue, running \ {j}, ghosts)
  <2>1. PlaceFine(k, status, queue, running, ghosts)
    BY DEF BInv
  <2>2. running \subseteq allocated
    BY DEF BInv, JobsFine, Current
  <2> HIDE DEF known
  <2>3. CASE k = j
    BY <1>1, <1>3, <2>1, <2>2, <2>3 DEF PlaceFine, Ended, Waiting, Unknown
  <2>4. CASE k # j
    BY <1>3, <2>1, <2>4 DEF PlaceFine
  <2> QED
    BY <2>3, <2>4
<1>7. Accepted(status) \subseteq Accepted(known)
  <2> HIDE DEF known
  <2>1. known[j] \notin Unknown
    BY <1>3 DEF Ended, Unknown
  <2> QED
    BY <1>3, <2>1 DEF Accepted
<1>8. \A k \in Jobs : status[k] = "submitting" => known[k] = status[k]
  <2> HIDE DEF known
  <2> QED
    BY <1>3 DEF Unknown
<1> HIDE DEF known
<1> QED
  BY <1>3, <1>4, <1>5, <1>6, <1>7, <1>8 DEF known

\* The handlers of ends of jobs that run: they differ in the plan and in what is kept.
LEMMA EndKeeps ==
    ASSUME BInv, mailbox # <<>>, NEW j \in running, NEW s \in Ended \ {"rejected"},
           NEW jobs \in {Stopped(j), Over(j)}, NEW plan \in PlanFor(Accepted(status)),
           Notify(j, s), ProcessQueuedJobs(plan, jobs), mailbox' = Tail(mailbox),
           UNCHANGED <<clock, ghosts, aborted>>
    PROVE  BInv'
<1> DEFINE known == Notified(j, s)
<1>1. /\ known \in [Jobs -> Status]
      /\ Accepted(status) \subseteq Accepted(known)
      /\ \A k \in Jobs : status[k] = "submitting" => known[k] = status[k]
      /\ JobsFine(jobs)
      /\ \A k \in Jobs : PlaceFine(k, known, jobs.queue, jobs.running, ghosts)
  BY RunEnds
<1>2. status' = known /\ ghosts' = ghosts /\ ghosts \in SUBSET Jobs
  BY DEF Notify, Notified, BInv, TypeOK
<1> HIDE DEF known
<1>3. plan \in PlanFor(Accepted(known))
  BY <1>1, MorePlans
<1> QED
  BY <1>1, <1>2, <1>3, MessageIsHandled

\* The simulation ends with an error.
LEMMA AbortKeeps ==
    ASSUME BInv, NEW error \in {"executor not listed", "job not running"}, Abort(error)
    PROVE  BInv'
BY DEF Abort, BInv, TypeOK, jobVars, planVars, JobsFine, Current, PlaceFine, SubmitFine

LEMMA CompletionKeeps == ASSUME BInv, ProcessStandardJobCompletion PROVE BInv'
<1> DEFINE j == Head(mailbox).job
<1>1. mailbox # <<>> /\ Head(mailbox).type = "Done"
  BY DEF ProcessStandardJobCompletion, Received
<1>2. CASE j \notin listed
  BY <1>1, <1>2, IgnoredKeeps DEF ProcessStandardJobCompletion
<1>3. CASE j \in listed /\ j \notin running
  BY <1>3, AbortKeeps DEF ProcessStandardJobCompletion
<1>4. CASE j \in listed /\ j \in running
  <2>1. Without(Plan, j, queue) \in PlanFor(Accepted(status))
    BY CurrentIs, WithoutKeeps
  <2>2. /\ Notify(j, "done") /\ mailbox' = Tail(mailbox)
        /\ ProcessQueuedJobs(Without(Plan, j, queue), Over(j)) /\ UNCHANGED <<clock, ghosts, aborted>>
    BY <1>4 DEF ProcessStandardJobCompletion
  <2>3. "done" \in Ended \ {"rejected"}
    BY DEF Ended
  <2> HIDE DEF j
  <2> QED
    BY <1>1, <1>4, <2>1, <2>2, <2>3, EndKeeps
<1> QED
  BY <1>2, <1>3, <1>4

LEMMA FailureKeeps == ASSUME BInv, ProcessStandardJobFailure PROVE BInv'
<1> DEFINE j == Head(mailbox).job
           once == Without(Plan, j, queue)
<1>1. mailbox # <<>>
  BY DEF ProcessStandardJobFailure, Received
<1>2. CASE j \notin listed
  BY <1>2, AbortKeeps DEF ProcessStandardJobFailure
<1>3. CASE j \in listed /\ j \notin running
  BY <1>3, AbortKeeps DEF ProcessStandardJobFailure
<1>4. CASE j \in listed /\ j \in running
  <2>1. once \in PlanFor(Accepted(status))
    BY CurrentIs, WithoutKeeps
  <2>2. /\ Notify(j, "failed") /\ mailbox' = Tail(mailbox)
        /\ ProcessQueuedJobs(Without(once, j, queue), Over(j)) /\ UNCHANGED <<clock, ghosts, aborted>>
    BY <1>4 DEF ProcessStandardJobFailure
  <2>3. "failed" \in Ended \ {"rejected"}
    BY DEF Ended
  <2> HIDE DEF j, once
  <2>4. Without(once, j, queue) \in PlanFor(Accepted(status))
    BY <2>1, CurrentIs, WithoutKeeps
  <2> QED
    BY <1>1, <1>4, <2>2, <2>3, <2>4, EndKeeps
<1> QED
  BY <1>2, <1>3, <1>4

LEMMA TimeOutKeeps == ASSUME BInv, ProcessAlarmJobTimeout PROVE BInv'
<1> DEFINE j == Head(mailbox).job
<1>1. mailbox # <<>> /\ Head(mailbox).type = "TimeOut"
  BY DEF ProcessAlarmJobTimeout, Received
<1>2. CASE j \notin running
  BY <1>1, <1>2, IgnoredKeeps DEF ProcessAlarmJobTimeout
<1>3. CASE j \in running
  <2>1. Without(Plan, j, queue) \in PlanFor(Accepted(status))
    BY CurrentIs, WithoutKeeps
  <2>2. /\ Notify(j, "failed") /\ mailbox' = Tail(mailbox)
        /\ ProcessQueuedJobs(Without(Plan, j, queue), Over(j)) /\ UNCHANGED <<clock, ghosts, aborted>>
    BY <1>3 DEF ProcessAlarmJobTimeout
  <2>3. "failed" \in Ended \ {"rejected"}
    BY DEF Ended
  <2> HIDE DEF j
  <2> QED
    BY <1>1, <1>3, <2>1, <2>2, <2>3, EndKeeps
<1> QED
  BY <1>2, <1>3

\* A job is terminated while it is queued.
LEMMA QueuedJobLeaves ==
    ASSUME BInv, NEW j \in ToSet(queue)
    PROVE  /\ Notified(j, "terminated") \in [Jobs -> Status]
           /\ Accepted(status) \subseteq Accepted(Notified(j, "terminated"))
           /\ \A k \in Jobs : status[k] = "submitting"
                                => Notified(j, "terminated")[k] = status[k]
           /\ JobsFine([Current EXCEPT !.queue = RemoveFromQueue(@, {j})])
           /\ \A k \in Jobs : PlaceFine(k, Notified(j, "terminated"), RemoveFromQueue(queue, {j}),
                                        running, ghosts \cup {j})
<1> DEFINE known == Notified(j, "terminated")
           rest == RemoveFromQueue(queue, {j})
<1>1. InOrder(queue) /\ InOrder(rest) /\ ToSet(rest) = ToSet(queue) \ {j}
  BY QueueWithout DEF BInv, JobsFine, Current
<1>2. j \in Jobs
  BY <1>1 DEF InOrder, ToSet
<1>3. /\ j \notin running /\ status[j] \in Waiting /\ status \in [Jobs -> Status]
  BY <1>2 DEF BInv, PlaceFine, TypeOK
<1>4. known = [status EXCEPT ![j] = "terminated"]
  BY <1>2, <1>3 DEF Notified, Waiting, Ended
<1>5. known \in [Jobs -> Status]
  BY <1>2, <1>3, <1>4 DEF Status
<1>6. known[j] = "terminated" /\ \A k \in Jobs : k # j => known[k] = status[k]
  BY <1>2, <1>3, <1>4
<1> HIDE DEF known, rest
<1>7. Accepted(status) \subseteq Accepted(known)
  BY <1>6 DEF Accepted, Unknown
<1>8. \A k \in Jobs : status[k] = "submitting" => known[k] = status[k]
  BY <1>3, <1>6 DEF Waiting
<1>9. JobsFine([Current EXCEPT !.queue = rest])
  BY <1>1 DEF BInv, JobsFine, Current
<1>10. ASSUME NEW k \in Jobs PROVE PlaceFine(k, known, rest, running, ghosts \cup {j})
  <2>1. PlaceFine(k, status, queue, running, ghosts)
    BY DEF BInv
  <2>2. CASE k = j
    BY <1>1, <1>3, <1>6, <2>2 DEF PlaceFine, Waiting, Unknown
  <2>3. CASE k # j
    BY <1>1, <1>6, <2>1, <2>3 DEF PlaceFine
  <2> QED
    BY <2>2, <2>3
<1>11. [Current EXCEPT !.queue = rest] = [Current EXCEPT !.queue = RemoveFromQueue(@, {j})]
  BY DEF Current, rest
<1> QED
  BY <1>5, <1>7, <1>8, <1>9, <1>10, <1>11 DEF known, rest

LEMMA TerminationKeeps == ASSUME BInv, ProcessStandardJobTerminationRequest PROVE BInv'
<1> DEFINE j == Head(mailbox).job
<1>1. mailbox # <<>> /\ Head(mailbox).type = "Terminate"
  BY DEF ProcessStandardJobTerminationRequest, Received
<1>2. Without(Plan, j, queue) \in PlanFor(Accepted(status))
  BY CurrentIs, WithoutKeeps
<1>3. CASE j \notin running \cup ToSet(queue)
  BY <1>1, <1>3, IgnoredKeeps DEF ProcessStandardJobTerminationRequest
<1>4. CASE j \in running
  <2>1. /\ Notify(j, "terminated") /\ mailbox' = Tail(mailbox)
        /\ ProcessQueuedJobs(Without(Plan, j, queue), Stopped(j))
        /\ UNCHANGED <<clock, ghosts, aborted>>
    BY <1>4 DEF ProcessStandardJobTerminationRequest
  <2>2. "terminated" \in Ended \ {"rejected"}
    BY DEF Ended
  <2> HIDE DEF j
  <2> QED
    BY <1>1, <1>2, <1>4, <2>1, <2>2, EndKeeps
<1>5. CASE j \in ToSet(queue) /\ j \notin running
  <2> DEFINE known == Notified(j, "terminated")
             jobs == [Current EXCEPT !.queue = RemoveFromQueue(@, {j})]
             old == ghosts \cup {j}
  <2>1. /\ Notify(j, "terminated") /\ mailbox' = Tail(mailbox)
        /\ ProcessQueuedJobs(Without(Plan, j, queue), jobs)
        /\ ghosts' = old /\ UNCHANGED <<clock, aborted>>
    BY <1>5 DEF ProcessStandardJobTerminationRequest
  <2>2. status' = known
    BY <2>1 DEF Notify, Notified
  <2> HIDE DEF j
  <2>3. jobs.queue = RemoveFromQueue(queue, {j}) /\ jobs.running = running
    BY DEF Current
  <2>4. /\ known \in [Jobs -> Status]
        /\ Accepted(status) \subseteq Accepted(known)
        /\ \A k \in Jobs : status[k] = "submitting" => known[k] = status[k]
        /\ JobsFine(jobs)
        /\ \A k \in Jobs : PlaceFine(k, known, jobs.queue, jobs.running, old)
    BY <1>5, <2>3, QueuedJobLeaves
  <2>5. old \in SUBSET Jobs
    <3>1. queue \in Seq(Jobs) /\ ghosts \in SUBSET Jobs
      BY DEF BInv, TypeOK
    <3> QED
      BY <1>5, <3>1 DEF ToSet
  <2> HIDE DEF known, jobs, old
  <2>6. Without(Plan, j, queue) \in PlanFor(Accepted(known))
    BY <1>2, <2>4, MorePlans
  <2> QED
    BY <1>1, <2>1, <2>2, <2>4, <2>5, <2>6, MessageIsHandled
<1> QED
  BY <1>3, <1>4, <1>5

\* A job is submitted: it is rejected, or gets a reservation and joins the queue.
LEMMA SubmissionKeeps == ASSUME BInv, ProcessJobSubmission PROVE BInv'
<1> DEFINE j == Head(mailbox).job
           refused == [status EXCEPT ![j] = "rejected"]
           granted == [status EXCEPT ![j] = "waiting"]
           joined == [Current EXCEPT !.queue = Append(@, j)]
           plan == Reserve(FromNow(Plan), j)
<1>1. /\ mailbox # <<>> /\ Head(mailbox).type = "Submit" /\ mailbox \in Seq(Message)
      /\ status \in [Jobs -> Status] /\ ghosts \in SUBSET Jobs
  BY DEF ProcessJobSubmission, Received, BInv, TypeOK
<1>2. j \in Jobs /\ Head(mailbox) = [type |-> "Submit", job |-> j]
  <2>1. Head(mailbox) \in Message
    BY <1>1
  <2> QED
    BY <1>1, <2>1 DEF Message
<1>3. status[j] = "submitting"
  <2>1. 1 \in DOMAIN mailbox /\ mailbox[1] = Head(mailbox)
    BY <1>1
  <2>2. 1 \in Submits(mailbox, j)
    BY <1>2, <2>1 DEF Submits
  <2>3. SubmitFine(j)
    BY <1>2 DEF BInv
  <2> QED
    BY <2>2, <2>3 DEF SubmitFine
<1>4. j \notin ToSet(queue) /\ j \notin running
  BY <1>2, <1>3 DEF BInv, PlaceFine, Waiting, Unknown
<1>5. \A k \in Jobs : PlaceFine(k, status, queue, running, ghosts)
  BY DEF BInv
<1>6. CASE Nodes[j] > NumNodes
  <2>1. /\ status' = refused /\ mailbox' = Tail(mailbox)
        /\ ProcessQueuedJobs(Plan, Current) /\ UNCHANGED <<clock, ghosts, aborted>>
    BY <1>6 DEF ProcessJobSubmission
  <2>2. refused \in [Jobs -> Status] /\ refused[j] = "rejected"
        /\ \A k \in Jobs : k # j => refused[k] = status[k]
    BY <1>1, <1>2 DEF Status
  <2>3. \A k \in Jobs : status[k] = "submitting"
                          => refused[k] = status[k] \/ Head(mailbox) = [type |-> "Submit", job |-> k]
    BY <1>2, <2>2
  <2> HIDE DEF j, refused
  <2>4. Accepted(status) \subseteq Accepted(refused)
    BY <1>3, <2>2 DEF Accepted, Unknown
  <2>5. ASSUME NEW k \in Jobs PROVE PlaceFine(k, refused, Current.queue, Current.running, ghosts)
    <3>1. CASE k = j
      BY <1>4, <2>2, <3>1, CurrentIs DEF PlaceFine, Waiting, Unknown
    <3>2. CASE k # j
      BY <1>5, <2>2, <3>2, CurrentIs DEF PlaceFine
    <3> QED
      BY <3>1, <3>2
  <2>6. Plan \in PlanFor(Accepted(refused)) /\ JobsFine(Current)
    BY <2>4, CurrentIs, MorePlans
  <2>7. ghosts' = ghosts /\ UNCHANGED <<clock, aborted>>
    BY <2>1
  <2> QED
    BY <1>1, <2>1, <2>2, <2>3, <2>5, <2>6, <2>7, MessageIsHandled
<1>7. CASE ~(Nodes[j] > NumNodes)
  <2>1. /\ status' = granted /\ mailbox' = Tail(mailbox)
        /\ ProcessQueuedJobs(plan, joined) /\ UNCHANGED <<clock, ghosts, aborted>>
    BY <1>7 DEF ProcessJobSubmission
  <2>2. granted \in [Jobs -> Status] /\ granted[j] = "waiting"
        /\ \A k \in Jobs : k # j => granted[k] = status[k]
    BY <1>1, <1>2 DEF Status
  <2>3. \A k \in Jobs : status[k] = "submitting"
                          => granted[k] = status[k] \/ Head(mailbox) = [type |-> "Submit", job |-> k]
    BY <1>2, <2>2
  <2>4. InOrder(queue)
    BY DEF BInv, JobsFine, Current
  <2> HIDE DEF j
  <2>5. InOrder(Append(queue, j)) /\ ToSet(Append(queue, j)) = ToSet(queue) \cup {j}
    BY <1>2, <1>4, <2>4, QueueWith
  <2>6. joined.queue = Append(queue, j) /\ joined.running = running
    BY DEF Current
  <2>7. JobsFine(joined)
    BY <2>5 DEF BInv, JobsFine, Current
  <2> HIDE DEF granted, joined
  <2>8. Accepted(status) \subseteq Accepted(granted) /\ j \in Accepted(granted)
    BY <1>2, <1>3, <2>2 DEF Accepted, Unknown
  <2>9. plan \in PlanFor(Accepted(granted))
    <3>1. Plan \in PlanFor(Accepted(granted))
      BY <2>8, CurrentIs, MorePlans
    <3>2. Accepted(granted) \in SUBSET Jobs /\ Now \in Dates
      BY CurrentIs DEF Accepted
    <3> QED
      BY <2>8, <3>1, <3>2, ReserveKeeps
  <2>10. ASSUME NEW k \in Jobs PROVE PlaceFine(k, granted, joined.queue, joined.running, ghosts)
    <3>1. CASE k = j
      BY <1>4, <2>2, <2>5, <2>6, <3>1 DEF PlaceFine, Waiting, Unknown
    <3>2. CASE k # j
      BY <1>5, <2>2, <2>5, <2>6, <3>2 DEF PlaceFine
    <3> QED
      BY <3>1, <3>2
  <2>11. ghosts' = ghosts /\ UNCHANGED <<clock, aborted>>
    BY <2>1
  <2> HIDE DEF plan
  <2> QED
    BY <1>1, <2>1, <2>2, <2>3, <2>7, <2>9, <2>10, <2>11, MessageIsHandled
<1> QED
  BY <1>6, <1>7

-------------------------------------------------------------------------------
(* The senders of messages *)

LEMMA SendKeeps ==
    ASSUME BInv, NEW m \in Message, NEW known \in [Jobs -> Status],
           Accepted(known) = Accepted(status),
           \A j \in Jobs : PlaceFine(j, known, queue, running, ghosts),
           \A j \in Jobs : status[j] = "submitting" => known[j] = "submitting",
           m.type = "Submit" => status[m.job] = "new" /\ known[m.job] = "submitting",
           Send(m), status' = known, alarm' \in [Jobs -> Nat],
           executor' \in [Jobs -> {"none", "running", "through", "killed"}],
           UNCHANGED <<clock, queue, running, freeNodes, allocated, listed, planVars, ghosts, aborted>>
    PROVE  BInv'
<1>1. mailbox \in Seq(Message) /\ mailbox' = Append(mailbox, m) /\ mailbox' \in Seq(Message)
  <2>1. mailbox \in Seq(Message) /\ mailbox' = Append(mailbox, m)
    BY DEF Send, BInv, TypeOK
  <2> QED
    BY <2>1
<1>2. TypeOK'
  BY <1>1 DEF BInv, TypeOK, planVars
<1>3. JobsFine(Current)'
  BY DEF BInv, JobsFine, Current
<1>4. line' \in [Dates -> SUBSET Accepted(status')]
  BY DEF BInv, planVars
<1>5. ASSUME NEW j \in Jobs PROVE PlaceFine(j, status, queue, running, ghosts)'
  BY DEF PlaceFine
<1>6. ASSUME NEW j \in Jobs PROVE SubmitFine(j)'
  <2> DEFINE n == Len(mailbox)
  <2>1. /\ DOMAIN mailbox' = DOMAIN mailbox \cup {n + 1} /\ n \in Nat /\ DOMAIN mailbox = 1 .. n
        /\ \A i \in DOMAIN mailbox : mailbox'[i] = mailbox[i]
        /\ mailbox'[n + 1] = m
    BY <1>1
  <2>2. SubmitFine(j)
    BY DEF BInv
  <2> HIDE DEF n
  <2>3. CASE m = [type |-> "Submit", job |-> j]
    <3>1. status[j] = "new" /\ known[j] = "submitting"
      BY <2>3
    <3>2. Submits(mailbox, j) = {}
      BY <2>2, <3>1 DEF SubmitFine
    <3>3. Submits(mailbox', j) \subseteq {n + 1}
      BY <2>1, <3>2 DEF Submits
    <3> QED
      BY <3>1, <3>3 DEF SubmitFine
  <2>4. CASE m # [type |-> "Submit", job |-> j]
    <3>1. Submits(mailbox', j) = Submits(mailbox, j)
      BY <2>1, <2>4 DEF Submits
    <3> QED
      BY <2>2, <3>1 DEF SubmitFine
  <2> QED
    BY <2>3, <2>4
<1> QED
  BY <1>2, <1>3, <1>4, <1>5, <1>6 DEF BInv

LEMMA SubmitKeeps == ASSUME BInv, NEW j \in Jobs, Submit(j) PROVE BInv'
<1> DEFINE m == [type |-> "Submit", job |-> j]
           known == [status EXCEPT ![j] = "submitting"]
<1>1. /\ status \in [Jobs -> Status] /\ status[j] = "new" /\ Send(m) /\ status' = known
      /\ UNCHANGED <<clock, queue, running, freeNodes, allocated, executor, listed, alarm,
                     planVars, ghosts, aborted>>
  BY DEF BInv, TypeOK, Submit, jobVars
<1>2. m \in Message /\ m.type = "Submit" /\ m.job = j
  BY DEF Message
<1>3. /\ known \in [Jobs -> Status] /\ known[j] = "submitting"
      /\ \A k \in Jobs : k # j => known[k] = status[k]
  BY <1>1 DEF Status
<1>4. /\ alarm' \in [Jobs -> Nat]
      /\ executor' \in [Jobs -> {"none", "running", "through", "killed"}]
  BY <1>1 DEF BInv, TypeOK
<1> HIDE DEF m, known
<1>5. Accepted(known) = Accepted(status)
  BY <1>1, <1>3 DEF Accepted, Unknown
<1>6. ASSUME NEW k \in Jobs PROVE PlaceFine(k, known, queue, running, ghosts)
  <2>1. PlaceFine(k, status, queue, running, ghosts)
    BY DEF BInv
  <2>2. CASE k = j
    BY <1>1, <1>3, <2>1, <2>2 DEF PlaceFine, Waiting, Unknown
  <2>3. CASE k # j
    BY <1>3, <2>1, <2>3 DEF PlaceFine
  <2> QED
    BY <2>2, <2>3
<1>7. \A k \in Jobs : status[k] = "submitting" => known[k] = "submitting"
  BY <1>3
<1> QED
  BY <1>1, <1>2, <1>3, <1>4, <1>5, <1>6, <1>7, SendKeeps

LEMMA RequestKeeps == ASSUME BInv, NEW j \in Jobs, RequestTermination(j) PROVE BInv'
<1> DEFINE m == [type |-> "Terminate", job |-> j]
           known == [status EXCEPT ![j] = "terminating"]
<1>1. /\ status \in [Jobs -> Status] /\ status[j] = "waiting" /\ Send(m) /\ status' = known
      /\ UNCHANGED <<clock, queue, running, freeNodes, allocated, executor, listed, alarm,
                     planVars, ghosts, aborted>>
  BY DEF BInv, TypeOK, RequestTermination, jobVars
<1>2. m \in Message /\ m.type # "Submit"
  BY DEF Message
<1>3. /\ known \in [Jobs -> Status] /\ known[j] = "terminating"
      /\ \A k \in Jobs : k # j => known[k] = status[k]
  BY <1>1 DEF Status
<1>4. /\ alarm' \in [Jobs -> Nat]
      /\ executor' \in [Jobs -> {"none", "running", "through", "killed"}]
  BY <1>1 DEF BInv, TypeOK
<1> HIDE DEF m, known
<1>5. Accepted(known) = Accepted(status)
  BY <1>1, <1>3 DEF Accepted, Unknown
<1>6. ASSUME NEW k \in Jobs PROVE PlaceFine(k, known, queue, running, ghosts)
  <2>1. PlaceFine(k, status, queue, running, ghosts)
    BY DEF BInv
  <2>2. CASE k = j
    BY <1>1, <1>3, <2>1, <2>2 DEF PlaceFine, Waiting, Unknown
  <2>3. CASE k # j
    BY <1>3, <2>1, <2>3 DEF PlaceFine
  <2> QED
    BY <2>2, <2>3
<1>7. \A k \in Jobs : status[k] = "submitting" => known[k] = "submitting"
  BY <1>1, <1>3
<1> QED
  BY <1>1, <1>2, <1>3, <1>4, <1>5, <1>6, <1>7, SendKeeps

\* The messages of executors and alarms.
LEMMA ServicesKeep ==
    ASSUME BInv, NEW j \in Jobs,
           ExecutorSends(j, "Done") \/ ExecutorSends(j, "Failed") \/ AlarmRings(j)
    PROVE  BInv'
<1>1. PICK m \in Message : m.type # "Submit" /\ Send(m)
  <2>1. \A t \in {"Done", "Failed", "TimeOut"} :
           [type |-> t, job |-> j] \in Message /\ [type |-> t, job |-> j].type # "Submit"
    BY DEF Message
  <2> QED
    BY <2>1 DEF ExecutorSends, AlarmRings
<1>2. UNCHANGED <<clock, queue, running, freeNodes, allocated, listed, planVars, status, ghosts, aborted>>
  BY DEF ExecutorSends, AlarmRings
<1>3. alarm' \in [Jobs -> Nat]
  <2>1. alarm \in [Jobs -> Nat]
    BY DEF BInv, TypeOK
  <2>2. NoAlarm \in Nat
    BY DEF NoAlarm
  <2> QED
    BY <2>1, <2>2 DEF ExecutorSends, AlarmRings
<1>4. executor' \in [Jobs -> {"none", "running", "through", "killed"}]
  <2>1. executor \in [Jobs -> {"none", "running", "through", "killed"}]
    BY DEF BInv, TypeOK
  <2> QED
    BY <2>1 DEF ExecutorSends, AlarmRings
<1>5. /\ status \in [Jobs -> Status] /\ status' = status
      /\ \A k \in Jobs : PlaceFine(k, status, queue, running, ghosts)
  BY <1>2 DEF BInv, TypeOK
<1> QED
  BY <1>1, <1>2, <1>3, <1>4, <1>5, SendKeeps

-------------------------------------------------------------------------------
(* The theorems *)

LEMMA InitInv == Init => BInv
<1> SUFFICES ASSUME Init PROVE BInv
  OBVIOUS
<1>1. NumNodes \in Nat /\ NoAlarm \in Nat /\ Horizon \in Nat /\ MaxClock \in Nat
  BY DEF NoAlarm
<1>2. EmptyTimeLine \in [Dates -> SUBSET Accepted(status)] /\ EmptyTimeLine \in TimeLine
  BY DEF EmptyTimeLine, TimeLine
<1>3. <<>> \in Seq(Jobs) /\ <<>> \in Seq(Message) /\ ToSet(<<>>) = {} /\ DOMAIN <<>> = {}
      /\ InOrder(<<>>)
  BY DEF ToSet, InOrder, IsInjective
<1>4. TypeOK
  <2>1. /\ alarm \in [Jobs -> Nat] /\ end \in [Jobs -> Nat] /\ start \in [Jobs -> 0 .. Horizon]
        /\ clock \in 0 .. MaxClock /\ freeNodes \in 0 .. NumNodes
    BY <1>1 DEF Init
  <2>2. /\ executor \in [Jobs -> {"none", "running", "through", "killed"}]
        /\ status \in [Jobs -> Status]
    BY DEF Init, Status
  <2>3. line \in TimeLine /\ mailbox \in Seq(Message) /\ queue \in Seq(Jobs)
    BY <1>2, <1>3 DEF Init
  <2> QED
    BY <2>1, <2>2, <2>3 DEF TypeOK, Init
<1>5. JobsFine(Current)
  <2>1. NodesOf({}) = 0
    BY NodesAreSummed
  <2>2. freeNodes + NodesOf(running) = NumNodes
    BY <1>1, <2>1 DEF Init
  <2> QED
    BY <1>1, <1>3, <1>4, <2>2 DEF JobsFine, Current, Init, TypeOK
<1>6. line \in [Dates -> SUBSET Accepted(status)]
  BY <1>2 DEF Init
<1>7. ASSUME NEW j \in Jobs PROVE PlaceFine(j, status, queue, running, ghosts) /\ SubmitFine(j)
  <2>1. status[j] = "new" /\ ToSet(queue) = {} /\ running = {} /\ DOMAIN mailbox = {}
    BY <1>3 DEF Init
  <2>2. Submits(mailbox, j) = {}
    BY <2>1 DEF Submits
  <2> QED
    BY <2>1, <2>2 DEF PlaceFine, SubmitFine, Waiting
<1> QED
  BY <1>4, <1>5, <1>6, <1>7 DEF BInv

LEMMA NextInv == BInv /\ [Next]_vars => BInv'
<1> SUFFICES ASSUME BInv, [Next]_vars PROVE BInv'
  OBVIOUS
<1>1. ASSUME NEW j \in Jobs, Submit(j) PROVE BInv'
  BY <1>1, SubmitKeeps
<1>2. ASSUME NEW j \in Jobs, RequestTermination(j) PROVE BInv'
  BY <1>2, RequestKeeps
<1>3. ASSUME NEW j \in Jobs,
             ExecutorSends(j, "Done") \/ ExecutorSends(j, "Failed") \/ AlarmRings(j)
      PROVE  BInv'
  BY <1>3, ServicesKeep
<1>4. CASE Tick
  <2>1. clock' \in 0 .. MaxClock
    <3>1. clock \in 0 .. MaxClock /\ MaxClock \in Nat /\ clock < MaxClock /\ clock' = clock + 1
      BY <1>4 DEF Tick, BInv, TypeOK
    <3> QED
      BY <3>1
  <2>2. UNCHANGED <<mailbox, queue, running, freeNodes, allocated, executor, listed, alarm, line,
                    start, end, status, ghosts, aborted>>
    BY <1>4 DEF Tick, jobVars, planVars
  <2>3. TypeOK'
    BY <2>1, <2>2 DEF BInv, TypeOK
  <2> QED
    BY <2>2, <2>3 DEF BInv, JobsFine, Current, PlaceFine, SubmitFine
<1>5. CASE ServiceStep
  BY <1>5, SubmissionKeeps, CompletionKeeps, FailureKeeps, TimeOutKeeps, TerminationKeeps
     DEF ServiceStep
<1>6. CASE UNCHANGED vars
  <2>1. UNCHANGED <<clock, mailbox, queue, running, freeNodes, allocated, executor, listed, alarm,
                    line, start, end, status, ghosts, aborted>>
    BY <1>6 DEF vars, jobVars, planVars
  <2> QED
    BY <2>1 DEF BInv, TypeOK, JobsFine, Current, PlaceFine, SubmitFine
<1> QED
  BY <1>1, <1>2, <1>3, <1>4, <1>5, <1>6 DEF Next

\* The nodes that are not free are those of the running jobs, whichever of the messages
\* about a job come first and however late.
THEOREM NodesStayAccounted == Spec => []NodesAccounted
<1>1. BInv => NodesAccounted
  BY DEF BInv, JobsFine, Current, NodesOf, NodesAccounted
<1> QED
  BY <1>1, InitInv, NextInv, PTL DEF Spec

\* A job that was accepted is in the queue, once, or runs, not both, until its submitter is
\* told of its end, and one that was terminated as it ran does not run again.
THEOREM AcceptedJobsAreHeld == Spec => []NoLostJob
<1>1. BInv => NoLostJob
  <2> SUFFICES ASSUME BInv, NEW j \in Jobs
               PROVE  /\ status[j] \in {"waiting", "terminating"} => Held(j)
                      /\ Cardinality({i \in DOMAIN queue : queue[i] = j})
                           + (IF j \in running THEN 1 ELSE 0) <= 1
                      /\ status[j] = "terminated" /\ j \notin ghosts => j \notin running
    BY DEF NoLostJob
  <2> DEFINE places == {i \in DOMAIN queue : queue[i] = j}
  <2>1. PlaceFine(j, status, queue, running, ghosts) /\ InOrder(queue)
    BY DEF BInv, JobsFine, Current
  <2>2. \A i, k \in places : i = k
    BY <2>1 DEF InOrder, IsInjective
  <2>3. places # {} => j \notin running
    BY <2>1 DEF PlaceFine, ToSet
  <2> HIDE DEF places
  <2>4. Cardinality(places) = IF places = {} THEN 0 ELSE 1
    <3>1. CASE places = {}
      BY <3>1, FS_EmptySet
    <3>2. CASE places # {}
      <4>1. PICK i \in places : TRUE
        BY <3>2
      <4>2. places = {i}
        BY <2>2, <4>1
      <4> QED
        BY <3>2, <4>2, FS_Singleton
    <3> QED
      BY <3>1, <3>2
  <2>5. Cardinality(places) + (IF j \in running THEN 1 ELSE 0) <= 1
    BY <2>3, <2>4
  <2> QED
    BY <2>1, <2>5 DEF PlaceFine, Waiting, Held, places
<1> QED
  BY <1>1, InitInv, NextInv, PTL DEF Spec

-------------------------------------------------------------------------------
(* The virtual machines of a cloud *)

USE CoresAssumption, NowhereAssumption, VMsAssumption

AllMessages == Request \cup {EndOf(v) : v \in VMs}

\* The types of what decides whether a VM is served.
Types ==
    /\ state \in [VMs -> VMStates]
    /\ pm \in [VMs -> Hosts \cup {Nowhere}]
    /\ service \in [VMs -> {"none", "up", "suspended", "ended"}]
    /\ on \subseteq Hosts
    /\ vmMail \in Seq(AllMessages)

\* The news of an end is known until it is the first message and is handled.
LEMMA StaysKnown ==
    ASSUME NEW v \in VMs, vmMail \in Seq(AllMessages), EndIsKnown(v),
           NEW box \in Seq(AllMessages),
           \/ box = vmMail
           \/ vmMail # <<>> /\ box = Tail(vmMail) /\ Head(vmMail) # EndOf(v),
           NEW m \in AllMessages,
           vmMail' = box \/ vmMail' = Append(box, m)
    PROVE  EndIsKnown(v)'
<1>1. PICK i \in DOMAIN vmMail : vmMail[i] = EndOf(v)
  BY DEF EndIsKnown
<1>2. PICK k \in DOMAIN box : box[k] = EndOf(v)
  <2>1. CASE box = vmMail
    BY <1>1, <2>1
  <2>2. CASE vmMail # <<>> /\ box = Tail(vmMail) /\ Head(vmMail) # EndOf(v)
    <3>1. i \in 1 .. Len(vmMail) /\ i # 1
      BY <1>1, <2>2
    <3>2. i - 1 \in DOMAIN box /\ box[i - 1] = vmMail[i]
      BY <2>2, <3>1
    <3> QED
      BY <1>1, <3>2
  <2> QED
    BY <2>1, <2>2
<1>3. CASE vmMail' = box
  BY <1>2, <1>3 DEF EndIsKnown, EndOf
<1>4. CASE vmMail' = Append(box, m)
  <2>1. k \in DOMAIN vmMail' /\ vmMail'[k] = box[k]
    BY <1>2, <1>4
  <2> QED
    BY <1>2, <2>1 DEF EndIsKnown, EndOf
<1> QED
  BY <1>3, <1>4

\* The end that has just been reported is known.
LEMMA BecomesKnown ==
    ASSUME NEW v \in VMs, NEW box \in Seq(AllMessages), vmMail' = Append(box, EndOf(v))
    PROVE  EndIsKnown(v)'
<1>1. /\ Len(box) + 1 \in DOMAIN vmMail'
      /\ vmMail'[Len(box) + 1] = EndOf(v)
  <2>1. EndOf(v) \in AllMessages
    BY DEF AllMessages
  <2> QED
    BY <2>1
<1> QED
  BY <1>1 DEF EndIsKnown, EndOf

\* What is left of the mailbox when a message is handled, and what is added to it, are
\* messages.
LEMMA BoxType ==
    ASSUME vmMail \in Seq(AllMessages)
    PROVE  /\ vmMail # <<>> => Tail(vmMail) \in Seq(AllMessages) /\ Head(vmMail) \in AllMessages
           /\ \A box \in Seq(AllMessages), m \in AllMessages : Append(box, m) \in Seq(AllMessages)
           /\ \A v \in VMs : EndOf(v) \in AllMessages
           /\ Request \subseteq AllMessages
<1>1. vmMail # <<>> => Tail(vmMail) \in Seq(AllMessages) /\ Head(vmMail) \in AllMessages
  OBVIOUS
<1>2. \A box \in Seq(AllMessages), m \in AllMessages : Append(box, m) \in Seq(AllMessages)
  OBVIOUS
<1> QED
  BY <1>1, <1>2 DEF AllMessages

-------------------------------------------------------------------------------
\* Every step keeps the types.
LEMMA TypesInv ==
    ASSUME Types, [VMNext]_vmVars
    PROVE  Types'
<1> USE BoxType DEF Types
<1>1. ASSUME NEW r \in Request, Ask(r) PROVE Types'
  BY <1>1 DEF Ask
<1>2. ASSUME NEW v \in VMs, AskToCreate(v) PROVE Types'
  BY <1>1, <1>2 DEF AskToCreate, Request
<1>3. ASSUME NEW v \in VMs, AskAbout(v) PROVE Types'
  <2>1. CASE \E op \in {"Shutdown", "Suspend", "Resume", "Destroy"} : Ask([op |-> op, vm |-> v])
    BY <1>1, <2>1 DEF Request
  <2>2. CASE \E h \in Destinations \cup {Nowhere} : Ask([op |-> "Start", vm |-> v, host |-> h])
    BY <1>1, <2>2 DEF Request, Destinations
  <2>3. CASE \E h \in Destinations : Ask([op |-> "Migrate", vm |-> v, host |-> h])
    BY <1>1, <2>3 DEF Request, Destinations
  <2> QED
    BY <1>3, <2>1, <2>2, <2>3 DEF AskAbout
<1>4. CASE AskToStop
  BY <1>1, <1>4 DEF AskToStop, Request
<1>5. ASSUME NEW v \in VMs, ServiceEnds(v) PROVE Types'
  BY <1>5 DEF ServiceEnds, EndsInto
<1>6. ASSUME NEW h \in Hosts, HostTurnsOff(h) \/ HostTurnsOn(h) PROVE Types'
  BY <1>6 DEF HostTurnsOff, HostTurnsOn
<1>7. ASSUME NEW v \in VMs, ProcessCreateVM(v) PROVE Types'
  BY <1>7 DEF ProcessCreateVM, Receive, Refuse, VMStates
<1>8. ASSUME NEW v \in VMs, ProcessStartVM(v) PROVE Types'
  <2>1. /\ vmMail # <<>> /\ vmMail' = Tail(vmMail) /\ on' = on
        /\ \/ UNCHANGED <<state, pm, service>>
           \/ /\ state' = [state EXCEPT ![v] = "RUNNING"]
              /\ \E h \in on : pm' = [pm EXCEPT ![v] = h]
              /\ service' = [service EXCEPT ![v] = "up"]
    BY <1>8 DEF ProcessStartVM, ReceiveFor, Receive, Refuse, ServiceAborts, FindHost, ServiceStarted
  <2>2. vmMail' \in Seq(AllMessages)
    <3>1. Tail(vmMail) \in Seq(AllMessages)
      BY <2>1, BoxType DEF Types
    <3> QED
      BY <2>1, <3>1
  <2>3. /\ state' \in [VMs -> VMStates]
        /\ pm' \in [VMs -> Hosts \cup {Nowhere}]
        /\ service' \in [VMs -> {"none", "up", "suspended", "ended"}]
    <3>1. state' \in [VMs -> VMStates]
      BY <2>1 DEF VMStates
    <3>2. pm' \in [VMs -> Hosts \cup {Nowhere}]
      BY <2>1
    <3>3. service' \in [VMs -> {"none", "up", "suspended", "ended"}]
      BY <2>1
    <3> QED
      BY <3>1, <3>2, <3>3
  <2> QED
    BY <2>1, <2>2, <2>3
<1>9. ASSUME NEW v \in VMs, ProcessShutdownVM(v) PROVE Types'
  <2>1. /\ vmMail # <<>> /\ on' = on
        /\ vmMail' = Tail(vmMail) \/ vmMail' = Append(Tail(vmMail), EndOf(v))
    BY <1>9 DEF ProcessShutdownVM, ReceiveFor, Receive, Refuse, EndsInto
  <2>2. vmMail' \in Seq(AllMessages)
    <3>1. Tail(vmMail) \in Seq(AllMessages) /\ EndOf(v) \in AllMessages
      BY <2>1, BoxType DEF Types
    <3>2. Append(Tail(vmMail), EndOf(v)) \in Seq(AllMessages)
      BY <3>1, BoxType DEF Types
    <3> QED
      BY <2>1, <3>1, <3>2
  <2>3. /\ UNCHANGED <<state, pm>> \/ (/\ state' = [state EXCEPT ![v] = "DOWN"]
                                     /\ pm' = [pm EXCEPT ![v] = Nowhere])
        /\ UNCHANGED service \/ service' = [service EXCEPT ![v] = "ended"]
    BY <1>9 DEF ProcessShutdownVM, Refuse, GoesDown, EndsInto
  <2> QED
    BY <2>1, <2>2, <2>3 DEF VMStates
<1>10. ASSUME NEW v \in VMs, ProcessSuspendVM(v) PROVE Types'
  BY <1>10 DEF ProcessSuspendVM, ReceiveFor, Receive, Refuse, ServiceAborts, VMStates
<1>11. ASSUME NEW v \in VMs, ProcessResumeVM(v) PROVE Types'
  BY <1>11 DEF ProcessResumeVM, ReceiveFor, Receive, Refuse, ServiceAborts, VMStates
<1>12. ASSUME NEW v \in VMs, ProcessDestroyVM(v) PROVE Types'
  BY <1>12 DEF ProcessDestroyVM, ReceiveFor, Receive, Refuse, VMStates
<1>13. ASSUME NEW v \in VMs, ProcessMigrateVM(v) PROVE Types'
  <2>1. vmMail # <<>> /\ Head(vmMail).op = "Migrate" /\ Head(vmMail) \in AllMessages
    BY <1>13 DEF ProcessMigrateVM, ReceiveFor, Receive
  <2>2. Head(vmMail).host \in Hosts
    BY <2>1 DEF AllMessages, Request, EndOf
  <2> QED
    BY <1>13, <2>2 DEF ProcessMigrateVM, ReceiveFor, Receive, Refuse, ServiceAborts
<1>14. ASSUME NEW v \in VMs, ProcessServiceTermination(v) PROVE Types'
  BY <1>14 DEF ProcessServiceTermination, ReceiveFor, Receive, GoesDown, VMStates
<1>15. CASE ProcessRequestForDestroyedVM \/ ProcessUnknownTermination
  BY <1>15 DEF ProcessRequestForDestroyedVM, ProcessUnknownTermination, Receive, ServiceAborts
<1>16. CASE Stop
  <2>1. /\ vmMail # <<>> /\ on' = on
        /\ vmMail' = Tail(vmMail) \/ vmMail' = <<>>
    BY <1>16 DEF Stop, Receive, ServiceAborts
  <2>2. vmMail' \in Seq(AllMessages)
    <3>1. Tail(vmMail) \in Seq(AllMessages) /\ <<>> \in Seq(AllMessages)
      BY <2>1, BoxType DEF Types
    <3> QED
      BY <2>1, <3>1
  <2>3. /\ state' \in [VMs -> VMStates]
        /\ pm' \in [VMs -> Hosts \cup {Nowhere}]
        /\ service' \in [VMs -> {"none", "up", "suspended", "ended"}]
    BY <1>16 DEF Stop, ServiceAborts, VMStates
  <2> QED
    BY <2>1, <2>2, <2>3
<1>17. CASE UNCHANGED vmVars
  BY <1>17 DEF vmVars
<1> QED
  BY <1>2, <1>3, <1>4, <1>5, <1>6, <1>7, <1>8, <1>9, <1>10, <1>11, <1>12, <1>13, <1>14,
     <1>15, <1>16, <1>17 DEF VMNext, CloudStep

-------------------------------------------------------------------------------
(* A live VM is served. *)

\* LiveVMIsServed is inductive with the types: a VM only becomes live with a service
\* that is up, and the news of an end are only handled by taking the VM down.
IInv == Types /\ LiveVMIsServed

Served(v) == \/ service[v] = IF state[v] = "RUNNING" THEN "up" ELSE "suspended"
             \/ service[v] = "ended" /\ EndIsKnown(v)

\* A VM that a step leaves as it is remains served, as long as the step does not
\* handle the news of the end of its service.
LEMMA Frame ==
    ASSUME IInv, NEW v \in VMs, state'[v] = state[v], service'[v] = service[v],
           NEW box \in Seq(AllMessages),
           \/ box = vmMail
           \/ vmMail # <<>> /\ box = Tail(vmMail) /\ Head(vmMail) # EndOf(v),
           NEW m \in AllMessages, vmMail' = box \/ vmMail' = Append(box, m),
           (v \in Live)'
    PROVE  Served(v)'
<1>1. v \in Live /\ Served(v)
  BY DEF Live, IInv, LiveVMIsServed, Served
<1>2. EndIsKnown(v) => EndIsKnown(v)'
  BY StaysKnown DEF IInv, Types
<1> QED
  BY <1>1, <1>2 DEF Served

\* Of the clients' steps and those of the environment, only the end of a service
\* matters, and it makes itself known.
LEMMA EnvironmentInv ==
    ASSUME IInv,
           \/ \E v \in VMs : AskToCreate(v) \/ AskAbout(v) \/ ServiceEnds(v)
           \/ AskToStop
           \/ \E h \in Hosts : HostTurnsOff(h) \/ HostTurnsOn(h)
    PROVE  LiveVMIsServed'
<1> SUFFICES ASSUME NEW u \in VMs, (u \in Live)' PROVE Served(u)'
  BY DEF LiveVMIsServed, Served, Live
<1> USE DEF IInv, Types
<1>1. ASSUME NEW r \in Request, Ask(r) PROVE Served(u)'
  <2>1. UNCHANGED <<state, service>> /\ vmMail' = Append(vmMail, r) /\ r \in AllMessages
    BY <1>1, BoxType DEF Ask
  <2> QED
    BY <2>1, Frame
<1>2. ASSUME NEW v \in VMs, AskToCreate(v) \/ AskAbout(v) PROVE Served(u)'
  BY <1>1, <1>2 DEF AskToCreate, AskAbout, Request, Destinations
<1>3. CASE AskToStop
  BY <1>1, <1>3 DEF AskToStop, Request
<1>4. ASSUME NEW v \in VMs, ServiceEnds(v) PROVE Served(u)'
  <2>1. /\ state' = state /\ service' = [service EXCEPT ![v] = "ended"]
        /\ vmMail' = Append(vmMail, EndOf(v))
    BY <1>4 DEF ServiceEnds, EndsInto
  <2>2. CASE u = v
    BY <2>1, <2>2, BecomesKnown DEF Served
  <2>3. CASE u # v
    <3>1. state'[u] = state[u] /\ service'[u] = service[u]
      BY <2>1, <2>3
    <3> QED
      BY <2>1, <3>1, Frame, BoxType
  <2> QED
    BY <2>2, <2>3
<1>5. ASSUME NEW h \in Hosts, HostTurnsOff(h) \/ HostTurnsOn(h) PROVE Served(u)'
  <2>1. UNCHANGED <<state, service, vmMail>>
    BY <1>5 DEF HostTurnsOff, HostTurnsOn
  <2>2. EndOf(u) \in AllMessages
    BY BoxType
  <2> QED
    BY <2>1, <2>2, Frame
<1> QED
  BY <1>2, <1>3, <1>4, <1>5

\* The handler of a request about v removes it from the mailbox, and touches no other VM.
LEMMA HandledFrame ==
    ASSUME IInv, NEW v \in VMs, NEW u \in VMs, u # v, (u \in Live)',
           vmMail # <<>>, Head(vmMail) # EndOf(u),
           state'[u] = state[u], service'[u] = service[u],
           vmMail' = Tail(vmMail) \/ vmMail' = Append(Tail(vmMail), EndOf(v))
    PROVE  Served(u)'
<1>1. Tail(vmMail) \in Seq(AllMessages) /\ EndOf(v) \in AllMessages
  BY BoxType DEF IInv, Types
<1> QED
  BY <1>1, Frame

\* A request that is refused, that ends the simulation or that migrates a VM changes
\* neither the states of VMs nor their services.
LEMMA NothingDone ==
    ASSUME IInv, vmMail # <<>>,
           Refuse \/ ServiceAborts \/ (UNCHANGED <<state, service>> /\ vmMail' = Tail(vmMail)),
           \A u \in Live : Head(vmMail) # EndOf(u)
    PROVE  LiveVMIsServed'
<1> SUFFICES ASSUME NEW u \in VMs, (u \in Live)' PROVE Served(u)'
  BY DEF LiveVMIsServed, Served, Live
<1>1. UNCHANGED <<state, service>> /\ vmMail' = Tail(vmMail)
  BY DEF Refuse, ServiceAborts
<1>2. u \in Live
  BY <1>1 DEF Live
<1>3. Tail(vmMail) \in Seq(AllMessages) /\ EndOf(u) \in AllMessages
  BY BoxType DEF IInv, Types
<1> QED
  BY <1>1, <1>2, <1>3, Frame

\* The handlers of the daemon, one by one.
LEMMA CloudStepInv ==
    ASSUME IInv, CloudStep
    PROVE  LiveVMIsServed'
<1> USE DEF IInv
<1>1. ASSUME NEW v \in VMs, NEW op \in {"Create", "Start", "Shutdown", "Suspend", "Resume",
                                        "Destroy", "Migrate"},
             Receive(op), Head(vmMail).vm = v
      PROVE  vmMail # <<>> /\ \A u \in VMs : Head(vmMail) # EndOf(u)
  BY <1>1 DEF Receive, EndOf
<1>2. ASSUME NEW v \in VMs, ProcessCreateVM(v) PROVE LiveVMIsServed'
  <2>1. vmMail # <<>> /\ \A u \in VMs : Head(vmMail) # EndOf(u)
    BY <1>1, <1>2 DEF ProcessCreateVM
  <2>2. CASE Refuse
    BY <2>1, <2>2, NothingDone DEF Live
  <2>3. CASE /\ state' = [state EXCEPT ![v] = "DOWN"] /\ UNCHANGED service
             /\ vmMail' = Tail(vmMail)
    <3> SUFFICES ASSUME NEW u \in VMs, (u \in Live)' PROVE Served(u)'
      BY DEF LiveVMIsServed, Served, Live
    <3>1. u # v /\ state'[u] = state[u]
      BY <2>3 DEF Types, Live
    <3> QED
      BY <2>1, <2>3, <3>1, HandledFrame
  <2> QED
    BY <1>2, <2>2, <2>3 DEF ProcessCreateVM
<1>3. ASSUME NEW v \in VMs, ProcessStartVM(v) PROVE LiveVMIsServed'
  <2>1. vmMail # <<>> /\ \A u \in VMs : Head(vmMail) # EndOf(u)
    BY <1>1, <1>3 DEF ProcessStartVM, ReceiveFor
  <2>2. CASE Refuse \/ ServiceAborts
    BY <2>1, <2>2, NothingDone DEF Live
  <2>3. CASE /\ state' = [state EXCEPT ![v] = "RUNNING"]
             /\ service' = [service EXCEPT ![v] = "up"]
             /\ vmMail' = Tail(vmMail)
    <3> SUFFICES ASSUME NEW u \in VMs, (u \in Live)' PROVE Served(u)'
      BY DEF LiveVMIsServed, Served, Live
    <3>1. CASE u = v
      BY <2>3, <3>1 DEF Types, Served
    <3>2. CASE u # v
      <4>1. state'[u] = state[u] /\ service'[u] = service[u]
        BY <2>3, <3>2 DEF Types
      <4> QED
        BY <2>1, <2>3, <3>2, <4>1, HandledFrame
    <3> QED
      BY <3>1, <3>2
  <2> QED
    BY <1>3, <2>2, <2>3 DEF ProcessStartVM, ServiceStarted
<1>4. ASSUME NEW v \in VMs, ProcessShutdownVM(v) PROVE LiveVMIsServed'
  <2>1. vmMail # <<>> /\ \A u \in VMs : Head(vmMail) # EndOf(u)
    BY <1>1, <1>4 DEF ProcessShutdownVM, ReceiveFor
  <2>2. CASE Refuse
    BY <2>1, <2>2, NothingDone DEF Live
  <2>3. CASE /\ state' = [state EXCEPT ![v] = "DOWN"]
             /\ UNCHANGED service \/ service' = [service EXCEPT ![v] = "ended"]
             /\ vmMail' = Tail(vmMail) \/ vmMail' = Append(Tail(vmMail), EndOf(v))
    <3> SUFFICES ASSUME NEW u \in VMs, (u \in Live)' PROVE Served(u)'
      BY DEF LiveVMIsServed, Served, Live
    <3>1. u # v /\ state'[u] = state[u] /\ service'[u] = service[u]
      BY <2>3 DEF Types, Live
    <3> QED
      BY <2>1, <2>3, <3>1, HandledFrame
  <2> QED
    BY <1>4, <2>2, <2>3 DEF ProcessShutdownVM, GoesDown, EndsInto
<1>5. ASSUME NEW v \in VMs, ProcessSuspendVM(v) PROVE LiveVMIsServed'
  <2>1. vmMail # <<>> /\ \A u \in VMs : Head(vmMail) # EndOf(u)
    BY <1>1, <1>5 DEF ProcessSuspendVM, ReceiveFor
  <2>2. CASE Refuse \/ ServiceAborts
    BY <2>1, <2>2, NothingDone DEF Live
  <2>3. CASE /\ state[v] = "RUNNING" /\ state' = [state EXCEPT ![v] = "SUSPENDED"]
             /\ service' = [service EXCEPT ![v] = IF @ = "up" THEN "suspended" ELSE @]
             /\ vmMail' = Tail(vmMail)
    <3> SUFFICES ASSUME NEW u \in VMs, (u \in Live)' PROVE Served(u)'
      BY DEF LiveVMIsServed, Served, Live
    <3>1. CASE u = v
      <4>1. service[v] = "up" \/ (service[v] = "ended" /\ EndIsKnown(v))
        BY <2>3 DEF LiveVMIsServed, Live
      <4>2. CASE service[v] = "up"
        BY <2>3, <3>1, <4>2 DEF Types, Served
      <4>3. CASE service[v] = "ended" /\ EndIsKnown(v)
        <5>1. service'[v] = "ended"
          BY <2>3, <4>3 DEF Types
        <5>2. Tail(vmMail) \in Seq(AllMessages) /\ EndOf(v) \in AllMessages
          BY <2>1, BoxType DEF Types
        <5>3. EndIsKnown(v)'
          BY <2>1, <2>3, <4>3, <5>2, StaysKnown DEF Types
        <5> QED
          BY <3>1, <5>1, <5>3 DEF Served
      <4> QED
        BY <4>1, <4>2, <4>3
    <3>2. CASE u # v
      <4>1. state'[u] = state[u] /\ service'[u] = service[u]
        BY <2>3, <3>2 DEF Types
      <4> QED
        BY <2>1, <2>3, <3>2, <4>1, HandledFrame
    <3> QED
      BY <3>1, <3>2
  <2> QED
    BY <1>5, <2>2, <2>3 DEF ProcessSuspendVM
<1>6. ASSUME NEW v \in VMs, ProcessResumeVM(v) PROVE LiveVMIsServed'
  <2>1. vmMail # <<>> /\ \A u \in VMs : Head(vmMail) # EndOf(u)
    BY <1>1, <1>6 DEF ProcessResumeVM, ReceiveFor
  <2>2. CASE Refuse \/ ServiceAborts
    BY <2>1, <2>2, NothingDone DEF Live
  <2>3. CASE /\ state' = [state EXCEPT ![v] = "RUNNING"]
             /\ service' = [service EXCEPT ![v] = "up"]
             /\ vmMail' = Tail(vmMail)
    <3> SUFFICES ASSUME NEW u \in VMs, (u \in Live)' PROVE Served(u)'
      BY DEF LiveVMIsServed, Served, Live
    <3>1. CASE u = v
      BY <2>3, <3>1 DEF Types, Served
    <3>2. CASE u # v
      <4>1. state'[u] = state[u] /\ service'[u] = service[u]
        BY <2>3, <3>2 DEF Types
      <4> QED
        BY <2>1, <2>3, <3>2, <4>1, HandledFrame
    <3> QED
      BY <3>1, <3>2
  <2> QED
    BY <1>6, <2>2, <2>3 DEF ProcessResumeVM
<1>7. ASSUME NEW v \in VMs, ProcessDestroyVM(v) PROVE LiveVMIsServed'
  <2>1. vmMail # <<>> /\ \A u \in VMs : Head(vmMail) # EndOf(u)
    BY <1>1, <1>7 DEF ProcessDestroyVM, ReceiveFor
  <2>2. CASE Refuse
    BY <2>1, <2>2, NothingDone DEF Live
  <2>3. CASE /\ state' = [state EXCEPT ![v] = "destroyed"] /\ UNCHANGED service
             /\ vmMail' = Tail(vmMail)
    <3> SUFFICES ASSUME NEW u \in VMs, (u \in Live)' PROVE Served(u)'
      BY DEF LiveVMIsServed, Served, Live
    <3>1. u # v /\ state'[u] = state[u]
      BY <2>3 DEF Types, Live
    <3> QED
      BY <2>1, <2>3, <3>1, HandledFrame
  <2> QED
    BY <1>7, <2>2, <2>3 DEF ProcessDestroyVM
<1>8. ASSUME NEW v \in VMs, ProcessMigrateVM(v) PROVE LiveVMIsServed'
  <2>1. vmMail # <<>> /\ \A u \in VMs : Head(vmMail) # EndOf(u)
    BY <1>1, <1>8 DEF ProcessMigrateVM, ReceiveFor
  <2>2. Refuse \/ ServiceAborts \/ (UNCHANGED <<state, service>> /\ vmMail' = Tail(vmMail))
    BY <1>8 DEF ProcessMigrateVM
  <2> QED
    BY <2>1, <2>2, NothingDone DEF Live
<1>9. ASSUME NEW v \in VMs, ProcessServiceTermination(v) PROVE LiveVMIsServed'
  <2>1. /\ vmMail # <<>> /\ Head(vmMail).vm = v
        /\ state' = [state EXCEPT ![v] = "DOWN"] /\ UNCHANGED service
        /\ vmMail' = Tail(vmMail)
    BY <1>9 DEF ProcessServiceTermination, ReceiveFor, Receive, GoesDown
  <2> SUFFICES ASSUME NEW u \in VMs, (u \in Live)' PROVE Served(u)'
    BY DEF LiveVMIsServed, Served, Live
  <2>2. u # v /\ state'[u] = state[u]
    BY <2>1 DEF Types, Live
  <2>3. Head(vmMail) # EndOf(u)
    BY <2>1, <2>2 DEF EndOf
  <2> QED
    BY <2>1, <2>2, <2>3, HandledFrame
<1>10. CASE ProcessRequestForDestroyedVM
  <2>1. vmMail # <<>> /\ ServiceAborts /\ \A u \in VMs : Head(vmMail) # EndOf(u)
    BY <1>10 DEF ProcessRequestForDestroyedVM, Receive, EndOf
  <2> QED
    BY <2>1, NothingDone DEF Live
<1>11. CASE ProcessUnknownTermination
  <2>1. vmMail # <<>> /\ ServiceAborts /\ ~Listed(Head(vmMail).vm)
    BY <1>11 DEF ProcessUnknownTermination, Receive
  <2>2. \A u \in Live : Head(vmMail) # EndOf(u)
    BY <2>1 DEF Live, Listed, EndOf
  <2> QED
    BY <2>1, <2>2, NothingDone DEF Live
<1>12. CASE Stop
  <2>1. vmMail # <<>> /\ \A u \in VMs : Head(vmMail) # EndOf(u)
    BY <1>12 DEF Stop, Receive, EndOf
  <2>2. CASE ServiceAborts
    BY <2>1, <2>2, NothingDone DEF Live
  <2>3. CASE state' = [v \in VMs |->
                         IF state[v] \in {"RUNNING", "SUSPENDED"} THEN "DOWN" ELSE state[v]]
    BY <2>3 DEF LiveVMIsServed, Live
  <2> QED
    BY <1>12, <2>2, <2>3 DEF Stop
<1> QED
  BY <1>2, <1>3, <1>4, <1>5, <1>6, <1>7, <1>8, <1>9, <1>10, <1>11, <1>12 DEF CloudStep

\* CloudVMs: as long as the daemon has not been told of the end of a VM's service, the
\* VM's service is up (or suspended with the VM): the start, suspension, resumption,
\* shut down, migration and destruction of VMs, and processBareMetalComputeServiceTermination,
\* keep VMs and services together whatever requests wait.
THEOREM LiveVMsAreServed == VMSpec => []LiveVMIsServed
<1>1. VMInit => IInv
  <2> SUFFICES ASSUME VMInit PROVE IInv
    OBVIOUS
  <2>1. <<>> \in Seq(AllMessages)
    OBVIOUS
  <2> QED
    BY <2>1 DEF VMInit, IInv, Types, VMStates, LiveVMIsServed, Live
<1>2. IInv /\ [VMNext]_vmVars => IInv'
  <2> SUFFICES ASSUME IInv, [VMNext]_vmVars PROVE IInv'
    OBVIOUS
  <2>1. Types'
    BY TypesInv DEF IInv
  <2>2. CASE CloudStep
    BY <2>1, <2>2, CloudStepInv DEF IInv
  <2>3. CASE UNCHANGED vmVars
    BY <2>1, <2>3 DEF vmVars, IInv, LiveVMIsServed, Live, EndIsKnown, EndOf
  <2> QED
    BY <2>1, <2>2, <2>3, EnvironmentInv DEF VMNext, IInv
<1>3. IInv => LiveVMIsServed
  BY DEF IInv
<1> QED
  BY <1>1, <1>2, <1>3, PTL DEF VMSpec

-------------------------------------------------------------------------------
(* The cores of the hosts are accounted for. *)

Same(p, d, x) == d
Sums == INSTANCE FoldProofs WITH op <- Same

\* The VMs on a host, and the cores they use there.
OnHost(h) == {v \in Live : pm[v] = h}
CoresOn(S) == SumFunctionOnSet(Cores, S)

\* What sums over VMs need: they are those of FoldProofs.
LEMMA CoresAreSummed ==
    ASSUME NEW S \in SUBSET VMs
    PROVE  /\ IsFiniteSet(S)
           /\ CoresOn(S) \in Nat
           /\ CoresOn({}) = 0
           /\ \A v \in S : CoresOn(S) = CoresOn(S \ {v}) + Cores[v]
<1>1. \A R : /\ CoresOn(R) = Sums!SumFunctionOnSet(Cores, R)
             /\ IsFiniteSet(R) <=> Sums!IsFiniteSet(R)
  BY DEF CoresOn, SumFunctionOnSet, Sums!SumFunctionOnSet, FoldFunctionOnSet,
         Sums!FoldFunctionOnSet, MapThenFoldSet, Sums!MapThenFoldSet, IsFiniteSet,
         Sums!IsFiniteSet
<1>2. /\ IsFiniteSet(S) /\ \A v \in S : Cores[v] \in Nat
      /\ \A v \in S : IsFiniteSet(S \ {v})
  BY FS_Subset
<1>3. CoresOn(S) \in Int /\ CoresOn(S) >= 0
  BY <1>1, <1>2, Sums!SumType
<1>4. ASSUME NEW v \in S PROVE CoresOn(S) = CoresOn(S \ {v}) + Cores[v]
  <2>1. CoresOn(S) = Cores[v] + CoresOn(S \ {v})
    BY <1>1, <1>2, Sums!SumAdds
  <2>2. CoresOn(S \ {v}) \in Int
    BY <1>1, <1>2, Sums!SumType
  <2> QED
    BY <1>2, <2>1, <2>2
<1>5. CoresOn({}) = 0
  BY <1>1, <1>2, Sums!SumUnfolds
<1> QED
  BY <1>1, <1>2, <1>3, <1>4, <1>5

\* A name is not used before the request to create the VM is handled, and that request
\* comes once.
Create(v) == [op |-> "Create", vm |-> v]
NewNames == \A v \in VMs : \A i \in DOMAIN vmMail : vmMail[i] = Create(v) =>
    state[v] = "absent" /\ \A k \in DOMAIN vmMail : vmMail[k] = Create(v) => k = i

\* A name comes into use when that request is handled.
LEMMA StaysAbsent ==
    ASSUME Types, [VMNext]_vmVars, NEW u \in VMs, state[u] = "absent"
    PROVE  \/ state'[u] = "absent"
           \/ vmMail # <<>> /\ vmMail' = Tail(vmMail) /\ Head(vmMail) = Create(u)
<1> USE DEF Types
<1>1. ASSUME NEW v \in VMs, ProcessCreateVM(v)
      PROVE  state'[u] = "absent" \/ (vmMail # <<>> /\ vmMail' = Tail(vmMail) /\ Head(vmMail) = Create(u))
  <2>1. vmMail # <<>> /\ Head(vmMail) \in AllMessages /\ Head(vmMail).op = "Create" /\ Head(vmMail).vm = v
    BY <1>1 DEF ProcessCreateVM, Receive
  <2>2. Head(vmMail) = Create(v)
    BY <2>1 DEF AllMessages, Request, EndOf, Create
  <2>3. CASE u = v
    BY <1>1, <2>1, <2>2, <2>3 DEF ProcessCreateVM, Refuse
  <2>4. CASE u # v
    BY <1>1, <2>4 DEF ProcessCreateVM, Refuse
  <2> QED
    BY <2>3, <2>4
<1>2. ASSUME NEW v \in VMs, Listed(v),
             \/ ProcessStartVM(v) \/ ProcessShutdownVM(v)
             \/ ProcessSuspendVM(v) \/ ProcessResumeVM(v) \/ ProcessDestroyVM(v)
             \/ ProcessMigrateVM(v) \/ ProcessServiceTermination(v)
      PROVE  state'[u] = "absent"
  <2>1. u # v
    BY <1>2 DEF Listed
  <2>2. state' = state \/ \E x : state' = [state EXCEPT ![v] = x]
    BY <1>2 DEF ProcessStartVM, ProcessShutdownVM, ProcessSuspendVM, ProcessResumeVM,
         ProcessDestroyVM, ProcessMigrateVM, ProcessServiceTermination, Refuse, ServiceAborts, GoesDown
  <2> QED
    BY <2>1, <2>2
<1>3. ASSUME NEW v \in VMs,
             \/ ProcessStartVM(v) \/ ProcessShutdownVM(v)
             \/ ProcessSuspendVM(v) \/ ProcessResumeVM(v) \/ ProcessDestroyVM(v)
             \/ ProcessMigrateVM(v) \/ ProcessServiceTermination(v)
      PROVE  Listed(v)
  BY <1>3 DEF ProcessStartVM, ProcessShutdownVM, ProcessSuspendVM, ProcessResumeVM,
       ProcessDestroyVM, ProcessMigrateVM, ProcessServiceTermination, ReceiveFor
<1>4. CASE Stop
  BY <1>4 DEF Stop, ServiceAborts
<1>5. CASE ProcessRequestForDestroyedVM \/ ProcessUnknownTermination
  BY <1>5 DEF ProcessRequestForDestroyedVM, ProcessUnknownTermination, ServiceAborts
<1>6. ASSUME \/ \E v \in VMs : AskToCreate(v) \/ AskAbout(v) \/ ServiceEnds(v)
             \/ AskToStop \/ \E h \in Hosts : HostTurnsOff(h) \/ HostTurnsOn(h)
             \/ UNCHANGED vmVars
      PROVE  state'[u] = "absent"
  BY <1>6 DEF AskToCreate, AskAbout, AskToStop, Ask, ServiceEnds, HostTurnsOff, HostTurnsOn, vmVars
<1> QED
  BY <1>1, <1>2, <1>3, <1>4, <1>5, <1>6 DEF VMNext, CloudStep

\* What a step does to the mailbox.
LEMMA Boxes ==
    ASSUME Types, [VMNext]_vmVars
    PROVE  \/ vmMail' = vmMail \/ vmMail' = <<>>
           \/ vmMail # <<>> /\ vmMail' = Tail(vmMail)
           \/ vmMail # <<>> /\ \E v \in VMs : vmMail' = Append(Tail(vmMail), EndOf(v))
           \/ \E m \in AllMessages :
                 /\ vmMail' = Append(vmMail, m) /\ state' = state
                 /\ \A v \in VMs : m = Create(v) =>
                       state[v] = "absent" /\ \A i \in DOMAIN vmMail : vmMail[i] # Create(v)
<1> DEFINE Adds(m) ==
      /\ vmMail' = Append(vmMail, m) /\ state' = state
      /\ \A v \in VMs : m = Create(v) =>
            state[v] = "absent" /\ \A i \in DOMAIN vmMail : vmMail[i] # Create(v)
<1>1. ASSUME NEW v \in VMs, AskToCreate(v) PROVE \E m \in AllMessages : Adds(m)
  <2>1. Create(v) \in AllMessages /\ \A u \in VMs : Create(v) = Create(u) => u = v
    BY DEF Create, AllMessages, Request
  <2>2. Adds(Create(v))
    BY <1>1, <2>1 DEF AskToCreate, Ask, Create
  <2> QED
    BY <2>1, <2>2
<1>2. ASSUME NEW m \in AllMessages, m.op # "Create", Ask(m) PROVE Adds(m)
  BY <1>2 DEF Ask, Create
<1>3. ASSUME NEW v \in VMs, AskAbout(v) PROVE \E m \in AllMessages : Adds(m)
  <2>1. CASE \E op \in {"Shutdown", "Suspend", "Resume", "Destroy"} : Ask([op |-> op, vm |-> v])
    BY <1>2, <2>1 DEF Request, AllMessages
  <2>2. CASE \E h \in Destinations \cup {Nowhere} : Ask([op |-> "Start", vm |-> v, host |-> h])
    BY <1>2, <2>2 DEF Request, Destinations, AllMessages
  <2>3. CASE \E h \in Destinations : Ask([op |-> "Migrate", vm |-> v, host |-> h])
    BY <1>2, <2>3 DEF Request, Destinations, AllMessages
  <2> QED
    BY <1>3, <2>1, <2>2, <2>3 DEF AskAbout
<1>4. ASSUME AskToStop PROVE \E m \in AllMessages : Adds(m)
  BY <1>2, <1>4 DEF AskToStop, AllMessages, Request
<1>5. ASSUME NEW v \in VMs, ServiceEnds(v) PROVE Adds(EndOf(v)) /\ EndOf(v) \in AllMessages
  BY <1>5 DEF ServiceEnds, EndsInto, EndOf, Create, AllMessages
<1>6. ASSUME \/ \E h \in Hosts : HostTurnsOff(h) \/ HostTurnsOn(h)
             \/ UNCHANGED vmVars
      PROVE  vmMail' = vmMail
  BY <1>6 DEF HostTurnsOff, HostTurnsOn, vmVars
<1>7. ASSUME CloudStep
      PROVE  \/ vmMail' = <<>>
             \/ vmMail # <<>> /\ vmMail' = Tail(vmMail)
             \/ vmMail # <<>> /\ \E v \in VMs : vmMail' = Append(Tail(vmMail), EndOf(v))
  <2>1. vmMail # <<>>
    BY <1>7 DEF CloudStep, ProcessCreateVM, ProcessStartVM, ProcessShutdownVM, ProcessSuspendVM,
         ProcessResumeVM, ProcessDestroyVM, ProcessMigrateVM, ProcessServiceTermination,
         ProcessRequestForDestroyedVM, ProcessUnknownTermination, Stop, ReceiveFor, Receive
  <2>2. ASSUME NEW v \in VMs,
               \/ ProcessCreateVM(v) \/ ProcessStartVM(v)
               \/ ProcessSuspendVM(v) \/ ProcessResumeVM(v) \/ ProcessDestroyVM(v)
               \/ ProcessMigrateVM(v) \/ ProcessServiceTermination(v)
        PROVE  vmMail' = Tail(vmMail)
    BY <2>2 DEF ProcessCreateVM, ProcessStartVM, ProcessSuspendVM, ProcessResumeVM,
         ProcessDestroyVM, ProcessMigrateVM, ProcessServiceTermination, Refuse, ServiceAborts
  <2>3. ASSUME NEW v \in VMs, ProcessShutdownVM(v)
        PROVE  vmMail' = Tail(vmMail) \/ vmMail' = Append(Tail(vmMail), EndOf(v))
    BY <2>3 DEF ProcessShutdownVM, Refuse, EndsInto
  <2>4. ASSUME ProcessRequestForDestroyedVM \/ ProcessUnknownTermination \/ Stop
        PROVE  vmMail' = Tail(vmMail) \/ vmMail' = <<>>
    BY <2>4 DEF ProcessRequestForDestroyedVM, ProcessUnknownTermination, Stop, ServiceAborts
  <2> QED
    BY <1>7, <2>1, <2>2, <2>3, <2>4 DEF CloudStep
<1> HIDE DEF Adds
<1>8. \/ vmMail' = vmMail \/ vmMail' = <<>>
      \/ vmMail # <<>> /\ vmMail' = Tail(vmMail)
      \/ vmMail # <<>> /\ \E v \in VMs : vmMail' = Append(Tail(vmMail), EndOf(v))
      \/ \E m \in AllMessages : Adds(m)
  BY <1>1, <1>3, <1>4, <1>5, <1>6, <1>7 DEF VMNext
<1> QED
  BY <1>8 DEF Adds

\* So names stay new.
LEMMA NewNamesInv ==
    ASSUME Types, NewNames, [VMNext]_vmVars
    PROVE  NewNames'
<1> SUFFICES ASSUME NEW v \in VMs, NEW i \in DOMAIN vmMail', vmMail'[i] = Create(v)
             PROVE  state'[v] = "absent" /\ \A k \in DOMAIN vmMail' : vmMail'[k] = Create(v) => k = i
  BY DEF NewNames, Create
<1> USE DEF Types
<1>1. CASE vmMail' = vmMail
  <2>1. state[v] = "absent" /\ \A k \in DOMAIN vmMail : vmMail[k] = Create(v) => k = i
    BY <1>1 DEF NewNames
  <2>2. CASE vmMail = <<>>
    BY <1>1, <2>2
  <2>3. CASE vmMail # <<>>
    <3>1. vmMail' # Tail(vmMail)
      BY <1>1, <2>3
    <3> QED
      BY <1>1, <2>1, <3>1, StaysAbsent
  <2> QED
    BY <2>2, <2>3
<1>2. CASE vmMail' = <<>>
  BY <1>2
<1>3. ASSUME vmMail # <<>>, NEW box \in Seq(AllMessages), vmMail' = Tail(vmMail) \/ vmMail' = box,
             \E u \in VMs : box = Append(Tail(vmMail), EndOf(u))
      PROVE  state'[v] = "absent" /\ \A k \in DOMAIN vmMail' : vmMail'[k] = Create(v) => k = i
  <2>1. \A k \in DOMAIN vmMail' : vmMail'[k] = Create(v) =>
           k + 1 \in DOMAIN vmMail /\ vmMail[k + 1] = Create(v) /\ k \in Nat
    <3> SUFFICES ASSUME NEW k \in DOMAIN vmMail', vmMail'[k] = Create(v)
                 PROVE  k + 1 \in DOMAIN vmMail /\ vmMail[k + 1] = Create(v) /\ k \in Nat
      OBVIOUS
    <3>1. PICK u \in VMs : box = Append(Tail(vmMail), EndOf(u))
      BY <1>3
    <3>2. EndOf(u) # Create(v)
      BY DEF EndOf, Create
    <3>3. Tail(vmMail) \in Seq(AllMessages)
      BY <1>3
    <3>4. k \in 1 .. Len(Tail(vmMail)) /\ vmMail'[k] = Tail(vmMail)[k]
      BY <1>3, <3>1, <3>2, <3>3
    <3> QED
      BY <1>3, <3>4
  <2>2. i + 1 \in DOMAIN vmMail /\ vmMail[i + 1] = Create(v) /\ i + 1 # 1
    <3>1. i + 1 \in DOMAIN vmMail /\ vmMail[i + 1] = Create(v) /\ i \in Nat
      BY <2>1
    <3>2. i # 0
      BY <1>3
    <3> QED
      BY <3>1, <3>2
  <2>3. state[v] = "absent" /\ \A k \in DOMAIN vmMail : vmMail[k] = Create(v) => k = i + 1
    BY <2>2 DEF NewNames
  <2>4. Head(vmMail) # Create(v)
    BY <1>3, <2>2, <2>3
  <2> QED
    BY <2>1, <2>3, <2>4, StaysAbsent
<1>4. CASE vmMail # <<>> /\ vmMail' = Tail(vmMail)
  <2>1. Append(Tail(vmMail), EndOf(v)) \in Seq(AllMessages)
    BY <1>4, BoxType
  <2> QED
    BY <1>3, <1>4, <2>1
<1>5. CASE vmMail # <<>> /\ \E u \in VMs : vmMail' = Append(Tail(vmMail), EndOf(u))
  <2>1. vmMail' \in Seq(AllMessages)
    BY <1>5, BoxType
  <2> QED
    BY <1>3, <1>5, <2>1
<1>6. ASSUME NEW m \in AllMessages, vmMail' = Append(vmMail, m), state' = state,
             \A u \in VMs : m = Create(u) =>
                 state[u] = "absent" /\ \A k \in DOMAIN vmMail : vmMail[k] # Create(u)
      PROVE  state'[v] = "absent" /\ \A k \in DOMAIN vmMail' : vmMail'[k] = Create(v) => k = i
  <2>1. CASE m = Create(v)
    <3>1. state[v] = "absent" /\ \A k \in DOMAIN vmMail : vmMail[k] # Create(v)
      BY <1>6, <2>1
    <3>2. \A k \in DOMAIN vmMail' : vmMail'[k] = Create(v) => k = Len(vmMail) + 1
      BY <1>6, <3>1
    <3> QED
      BY <1>6, <3>1, <3>2
  <2>2. CASE m # Create(v)
    <3>1. \A k \in DOMAIN vmMail' : vmMail'[k] = Create(v) =>
             k \in DOMAIN vmMail /\ vmMail[k] = Create(v)
      BY <1>6, <2>2
    <3>2. state[v] = "absent" /\ \A k \in DOMAIN vmMail : vmMail[k] = Create(v) => k = i
      BY <3>1 DEF NewNames
    <3> QED
      BY <1>6, <3>1, <3>2
  <2> QED
    BY <2>1, <2>2
<1> QED
  BY <1>1, <1>2, <1>4, <1>5, <1>6, Boxes

\* What is counted on a host no VM has been migrated from or to; a VM that does not live
\* is on no host, so that what goes down once more releases nothing.
Accounted(h) == used[h] = CoresOn(OnHost(h)) /\ used[h] <= Capacity[h]
NotLiveIsNowhere == \A v \in VMs \ Live : pm[v] = Nowhere
Counters == /\ used \in [Hosts -> Int] /\ migrated \subseteq Hosts
            /\ requests \in 0 .. MaxRequests /\ condition \in {"up", "down", "aborted"}
AInv == /\ Types /\ Counters /\ NotLiveIsNowhere
        /\ \A h \in Hosts \ migrated : Accounted(h)

\* What steps do to the VMs that live, to their hosts and to the counters.
NothingMoves == Live' = Live /\ UNCHANGED <<pm, used, migrated>>
StartsVM(v, h) == /\ v \notin Live /\ Cores[v] <= Capacity[h] - used[h]
                /\ Live' = Live \cup {v} /\ pm' = [pm EXCEPT ![v] = h]
                /\ used' = [used EXCEPT ![h] = @ + Cores[v]] /\ UNCHANGED migrated
Leaves(v) == /\ Live' = Live \ {v} /\ pm' = [pm EXCEPT ![v] = Nowhere]
             /\ used' = CoresReleased(v) /\ UNCHANGED migrated
Moves(v, h) == /\ v \in Live /\ pm[v] \in Hosts /\ pm' = [pm EXCEPT ![v] = h]
               /\ Live' = Live /\ migrated' = migrated \cup {h, pm[v]} /\ UNCHANGED used
AllLeave == /\ Live' = {} /\ pm' = [v \in VMs |-> Nowhere] /\ UNCHANGED migrated
            /\ used' = [h \in Hosts |-> used[h] - CoresOn(OnHost(h))]

\* Every step does one of these.
LEMMA Effects ==
    ASSUME AInv, NewNames, [VMNext]_vmVars
    PROVE  \/ NothingMoves \/ AllLeave
           \/ \E v \in VMs : Leaves(v) \/ \E h \in Hosts : StartsVM(v, h) \/ Moves(v, h)
<1> USE DEF Types, Live, AInv
<1>1. ASSUME UNCHANGED <<state, pm, used, migrated>> PROVE NothingMoves
  BY <1>1 DEF NothingMoves
<1>2. CASE Refuse \/ ServiceAborts
  BY <1>1, <1>2 DEF Refuse, ServiceAborts
<1>3. ASSUME NEW v \in VMs, AskToCreate(v) \/ AskAbout(v) \/ ServiceEnds(v) PROVE NothingMoves
  BY <1>1, <1>3 DEF AskToCreate, AskAbout, ServiceEnds, Ask
<1>4. CASE AskToStop
  BY <1>1, <1>4 DEF AskToStop, Ask
<1>5. ASSUME NEW h \in Hosts, HostTurnsOff(h) \/ HostTurnsOn(h) PROVE NothingMoves
  BY <1>1, <1>5 DEF HostTurnsOff, HostTurnsOn
<1>6. ASSUME NEW v \in VMs, ProcessCreateVM(v) PROVE NothingMoves
  <2>1. CASE Refuse
    BY <1>1, <2>1 DEF Refuse
  <2>2. CASE state' = [state EXCEPT ![v] = "DOWN"] /\ UNCHANGED <<pm, used, migrated>>
    <3>1. /\ vmMail # <<>> /\ Head(vmMail) \in AllMessages
          /\ Head(vmMail).op = "Create" /\ Head(vmMail).vm = v
      BY <1>6 DEF ProcessCreateVM, Receive
    <3>2. 1 \in DOMAIN vmMail /\ vmMail[1] = Create(v)
      BY <3>1 DEF AllMessages, Request, EndOf, Create
    <3>3. state[v] = "absent"
      BY <3>2 DEF NewNames
    <3> QED
      BY <2>2, <3>3 DEF NothingMoves
  <2> QED
    BY <1>6, <2>1, <2>2 DEF ProcessCreateVM
<1>7. ASSUME NEW v \in VMs, ProcessStartVM(v)
      PROVE  NothingMoves \/ \E h \in Hosts : StartsVM(v, h)
  <2>1. CASE Refuse \/ ServiceAborts
    BY <1>2, <1>1, <2>1 DEF Refuse, ServiceAborts
  <2>2. ASSUME state[v] = "DOWN", NEW h \in on, Cores[v] <= Capacity[h] - used[h],
               state' = [state EXCEPT ![v] = "RUNNING"], pm' = [pm EXCEPT ![v] = h],
               used' = [used EXCEPT ![h] = @ + Cores[v]], UNCHANGED migrated
        PROVE  \E k \in Hosts : StartsVM(v, k)
    BY <2>2 DEF StartsVM
  <2> QED
    BY <1>7, <2>1, <2>2 DEF ProcessStartVM, FindHost
<1>8. ASSUME NEW v \in VMs, GoesDown(v), UNCHANGED migrated PROVE Leaves(v)
  BY <1>8 DEF GoesDown, Leaves
<1>9. ASSUME NEW v \in VMs, ProcessShutdownVM(v) PROVE NothingMoves \/ Leaves(v)
  BY <1>1, <1>8, <1>9 DEF ProcessShutdownVM, Refuse
<1>10. ASSUME NEW v \in VMs, ProcessSuspendVM(v) PROVE NothingMoves
  <2>1. CASE Refuse \/ ServiceAborts
    BY <1>1, <2>1 DEF Refuse, ServiceAborts
  <2>2. CASE /\ state[v] = "RUNNING" /\ state' = [state EXCEPT ![v] = "SUSPENDED"]
             /\ UNCHANGED <<pm, used, migrated>>
    BY <2>2 DEF NothingMoves
  <2> QED
    BY <1>10, <2>1, <2>2 DEF ProcessSuspendVM
<1>11. ASSUME NEW v \in VMs, ProcessResumeVM(v) PROVE NothingMoves
  <2>1. CASE Refuse \/ ServiceAborts
    BY <1>1, <2>1 DEF Refuse, ServiceAborts
  <2>2. CASE /\ state[v] = "SUSPENDED" /\ state' = [state EXCEPT ![v] = "RUNNING"]
             /\ UNCHANGED <<pm, used, migrated>>
    BY <2>2 DEF NothingMoves
  <2> QED
    BY <1>11, <2>1, <2>2 DEF ProcessResumeVM
<1>12. ASSUME NEW v \in VMs, ProcessDestroyVM(v) PROVE NothingMoves
  <2>1. CASE Refuse
    BY <1>1, <2>1 DEF Refuse
  <2>2. CASE /\ state[v] = "DOWN" /\ state' = [state EXCEPT ![v] = "destroyed"]
             /\ UNCHANGED <<pm, used, migrated>>
    BY <2>2 DEF NothingMoves
  <2> QED
    BY <1>12, <2>1, <2>2 DEF ProcessDestroyVM
<1>13. ASSUME NEW v \in VMs, ProcessMigrateVM(v)
       PROVE  NothingMoves \/ \E h \in Hosts : Moves(v, h)
  <2>1. vmMail # <<>> /\ Head(vmMail).op = "Migrate" /\ Head(vmMail) \in AllMessages
    BY <1>13 DEF ProcessMigrateVM, ReceiveFor, Receive
  <2>2. Head(vmMail).host \in Hosts
    BY <2>1 DEF AllMessages, Request, EndOf
  <2>3. CASE Refuse \/ ServiceAborts
    BY <1>1, <2>3 DEF Refuse, ServiceAborts
  <2>4. ASSUME NEW h \in Hosts, state[v] = "RUNNING", {h, pm[v]} \subseteq on,
               pm' = [pm EXCEPT ![v] = h], migrated' = migrated \cup {h, pm[v]},
               UNCHANGED <<state, used>>
        PROVE  Moves(v, h)
    BY <2>4 DEF Moves
  <2> QED
    BY <1>13, <2>2, <2>3, <2>4 DEF ProcessMigrateVM
<1>14. ASSUME NEW v \in VMs, ProcessServiceTermination(v) PROVE Leaves(v)
  BY <1>8, <1>14 DEF ProcessServiceTermination
<1>15. CASE ProcessRequestForDestroyedVM \/ ProcessUnknownTermination
  BY <1>2, <1>15 DEF ProcessRequestForDestroyedVM, ProcessUnknownTermination
<1>16. CASE Stop
  <2>1. ASSUME state' = [v \in VMs |-> IF v \in Live THEN "DOWN" ELSE state[v]],
               pm' = [v \in VMs |-> Nowhere], UNCHANGED migrated,
               used' = [h \in Hosts |->
                          used[h] - SumFunctionOnSet(Cores, {v \in Live : pm[v] = h})]
        PROVE  AllLeave
    BY <2>1 DEF AllLeave, CoresOn, OnHost
  <2> QED
    BY <1>2, <1>16, <2>1 DEF Stop
<1>17. CASE UNCHANGED vmVars
  BY <1>1, <1>17 DEF vmVars
<1> QED
  BY <1>3, <1>4, <1>5, <1>6, <1>7, <1>9, <1>10, <1>11, <1>12, <1>13, <1>14, <1>15, <1>16,
     <1>17 DEF VMNext, CloudStep

\* Each effect keeps the counters right.
LEMMA AccountedInv ==
    ASSUME AInv, \/ NothingMoves \/ AllLeave
                 \/ \E v \in VMs : Leaves(v) \/ \E h \in Hosts : StartsVM(v, h) \/ Moves(v, h)
    PROVE  /\ NotLiveIsNowhere' /\ used' \in [Hosts -> Int] /\ migrated' \subseteq Hosts
           /\ \A h \in Hosts \ migrated' : Accounted(h)'
<1> USE DEF AInv, Counters, Types
<1>1. \A h \in Hosts : OnHost(h) \in SUBSET VMs /\ Capacity[h] \in Nat
  BY DEF OnHost, Live
<1>2. Live \subseteq VMs
  BY DEF Live
<1> DEFINE Goal == /\ NotLiveIsNowhere' /\ used' \in [Hosts -> Int] /\ migrated' \subseteq Hosts
                   /\ \A h \in Hosts \ migrated' : Accounted(h)'
<1>3. CASE NothingMoves
  <2>1. \A h \in Hosts : OnHost(h)' = OnHost(h)
    BY <1>3 DEF NothingMoves, OnHost
  <2>2. NotLiveIsNowhere' /\ used' = used /\ migrated' \subseteq Hosts /\ migrated \subseteq migrated'
    BY <1>3 DEF NothingMoves, NotLiveIsNowhere
  <2> QED
    BY <2>1, <2>2 DEF Accounted
<1>4. ASSUME NEW v \in VMs, NEW h \in Hosts, StartsVM(v, h) PROVE Goal
  <2>1. \A k \in Hosts : OnHost(k)' = IF k = h THEN OnHost(k) \cup {v} ELSE OnHost(k)
    BY <1>2, <1>4 DEF StartsVM, OnHost, NotLiveIsNowhere
  <2>2. CoresOn(OnHost(h) \cup {v}) = CoresOn(OnHost(h)) + Cores[v]
    <3>1. OnHost(h) \cup {v} \in SUBSET VMs /\ (OnHost(h) \cup {v}) \ {v} = OnHost(h)
      BY <1>1, <1>4 DEF StartsVM, OnHost
    <3> QED
      BY <3>1, CoresAreSummed
  <2>3. ASSUME NEW k \in Hosts \ migrated' PROVE Accounted(k)'
    <3>1. Accounted(k) /\ used'[k] = IF k = h THEN used[k] + Cores[v] ELSE used[k]
      BY <1>4, <2>3 DEF StartsVM
    <3>2. CASE k = h
      <4>1. used'[k] = CoresOn(OnHost(k)') /\ used'[k] <= Capacity[k]
        <5>1. used[h] \in Int /\ Cores[v] \in Int /\ Capacity[h] \in Int
          BY <1>1
        <5>2. used[h] = CoresOn(OnHost(h)) /\ Cores[v] <= Capacity[h] - used[h]
          BY <1>4, <3>1, <3>2 DEF Accounted, StartsVM
        <5>3. OnHost(k)' = OnHost(h) \cup {v}
          BY <2>1, <3>2
        <5> QED
          BY <2>2, <3>1, <3>2, <5>1, <5>2, <5>3
      <4> QED
        BY <4>1 DEF Accounted, CoresOn
    <3>3. CASE k # h
      <4>1. used'[k] = CoresOn(OnHost(k)') /\ used'[k] <= Capacity[k]
        BY <2>1, <3>1, <3>3 DEF Accounted
      <4> QED
        BY <4>1 DEF Accounted, CoresOn
    <3> QED
      BY <3>2, <3>3
  <2> QED
    BY <1>4, <2>3 DEF StartsVM, NotLiveIsNowhere
<1>5. ASSUME NEW v \in VMs, Leaves(v) PROVE Goal
  <2>1. \A k \in Hosts : OnHost(k)' = OnHost(k) \ {v}
    BY <1>2, <1>5 DEF Leaves, OnHost
  <2>2. ASSUME NEW k \in Hosts \ migrated' PROVE Accounted(k)'
    <3>1. Accounted(k) /\ used'[k] = IF k = pm[v] THEN used[k] - Cores[v] ELSE used[k]
      BY <1>5, <2>2 DEF Leaves, CoresReleased
    <3>2. CASE pm[v] = k
      <4>1. v \in OnHost(k)
        BY <3>2 DEF OnHost, NotLiveIsNowhere
      <4>2. CoresOn(OnHost(k)) = CoresOn(OnHost(k) \ {v}) + Cores[v]
        BY <1>1, <4>1, CoresAreSummed
      <4>3. CoresOn(OnHost(k) \ {v}) \in Nat
        <5>1. OnHost(k) \ {v} \in SUBSET VMs
          BY <1>1
        <5> QED
          BY <5>1, CoresAreSummed
      <4>4. used'[k] = CoresOn(OnHost(k)') /\ used'[k] <= Capacity[k]
        <5>1. used[k] \in Int /\ Cores[v] \in Nat /\ Capacity[k] \in Int
          BY <1>1
        <5>2. used[k] = CoresOn(OnHost(k)) /\ used[k] <= Capacity[k]
          BY <3>1 DEF Accounted
        <5>3. OnHost(k)' = OnHost(k) \ {v}
          BY <2>1
        <5> QED
          BY <3>1, <3>2, <4>2, <4>3, <5>1, <5>2, <5>3
      <4> QED
        BY <4>4 DEF Accounted, CoresOn
    <3>3. CASE pm[v] # k
      <4>1. OnHost(k)' = OnHost(k)
        BY <2>1, <3>3 DEF OnHost
      <4>2. used'[k] = CoresOn(OnHost(k)') /\ used'[k] <= Capacity[k]
        BY <3>1, <3>3, <4>1 DEF Accounted
      <4> QED
        BY <4>2 DEF Accounted, CoresOn
    <3> QED
      BY <3>2, <3>3
  <2> QED
    BY <1>5, <2>2 DEF Leaves, NotLiveIsNowhere, CoresReleased
<1>6. ASSUME NEW v \in VMs, NEW h \in Hosts, Moves(v, h) PROVE Goal
  <2>1. ASSUME NEW k \in Hosts \ migrated' PROVE Accounted(k)'
    <3>1. k # h /\ k # pm[v] /\ Accounted(k)
      BY <1>6, <2>1 DEF Moves
    <3>2. OnHost(k)' = OnHost(k)
      BY <1>2, <1>6, <3>1 DEF Moves, OnHost
    <3> QED
      BY <1>6, <3>1, <3>2 DEF Moves, Accounted
  <2> QED
    BY <1>6, <2>1 DEF Moves, NotLiveIsNowhere
<1>7. CASE AllLeave
  <2>1. \A k \in Hosts : OnHost(k)' = {}
    BY <1>7 DEF AllLeave, OnHost
  <2>2. ASSUME NEW k \in Hosts \ migrated' PROVE Accounted(k)'
    <3>1. Accounted(k) /\ used'[k] = used[k] - CoresOn(OnHost(k))
      BY <1>7, <2>2 DEF AllLeave
    <3>2. CoresOn({}) = 0 /\ CoresOn(OnHost(k)) \in Nat
      BY <1>1, CoresAreSummed
    <3>3. used'[k] = CoresOn(OnHost(k)') /\ used'[k] <= Capacity[k]
      <4>1. Capacity[k] \in Nat /\ OnHost(k)' = {} /\ used[k] = CoresOn(OnHost(k))
        BY <1>1, <2>1, <3>1 DEF Accounted
      <4> QED
        BY <3>1, <3>2, <4>1
    <3> QED
      BY <3>3 DEF Accounted, CoresOn
  <2>3. used' \in [Hosts -> Int]
    <3>1. \A k \in Hosts : CoresOn(OnHost(k)) \in Nat
      BY <1>1, CoresAreSummed
    <3> QED
      BY <1>7, <3>1 DEF AllLeave
  <2> QED
    BY <1>7, <2>2, <2>3 DEF AllLeave, NotLiveIsNowhere
<1> QED
  BY <1>3, <1>4, <1>5, <1>6, <1>7

\* CloudVMs: used_cores_per_execution_host is what the running and suspended VMs use, and
\* VMs fit on their hosts, except where VMs have been migrated: the start, shut down and
\* stopping of VMs and processBareMetalComputeServiceTermination release what was taken,
\* once, whatever requests wait.
THEOREM CoresAreAccounted == VMSpec => []CoresAccounted
<1> DEFINE Inv == AInv /\ NewNames
<1>1. VMInit => Inv
  <2> SUFFICES ASSUME VMInit PROVE Inv
    OBVIOUS
  <2>1. <<>> \in Seq(AllMessages)
    OBVIOUS
  <2>2. Types /\ Counters /\ NotLiveIsNowhere /\ NewNames
    BY <2>1 DEF VMInit, Types, VMStates, Counters, NotLiveIsNowhere, NewNames
  <2>3. \A h \in Hosts : Accounted(h)
    <3>1. CoresOn({}) = 0
      BY CoresAreSummed
    <3>2. ASSUME NEW h \in Hosts PROVE Accounted(h)
      <4>1. OnHost(h) = {}
        BY DEF VMInit, OnHost, Live
      <4>2. Capacity[h] \in Nat
        OBVIOUS
      <4>3. used[h] = 0
        BY DEF VMInit
      <4> QED
        BY <3>1, <4>1, <4>2, <4>3 DEF Accounted
    <3> QED
      BY <3>2
  <2> QED
    BY <2>2, <2>3 DEF AInv
<1>2. Inv /\ [VMNext]_vmVars => Inv'
  <2> SUFFICES ASSUME Inv, [VMNext]_vmVars PROVE Inv'
    OBVIOUS
  <2>1. Types' /\ NewNames'
    BY TypesInv, NewNamesInv DEF AInv
  <2>2. requests' \in 0 .. MaxRequests /\ condition' \in {"up", "down", "aborted"}
    <3>1. requests' = requests \/ (requests < MaxRequests /\ requests' = requests + 1)
      BY DEF VMNext, CloudStep, AskToCreate, AskAbout, AskToStop, Ask, ServiceEnds, HostTurnsOff,
         HostTurnsOn, ProcessCreateVM, ProcessStartVM, ProcessShutdownVM, ProcessSuspendVM,
         ProcessResumeVM, ProcessDestroyVM, ProcessMigrateVM, ProcessServiceTermination,
         ProcessRequestForDestroyedVM, ProcessUnknownTermination, Stop, ReceiveFor, Receive, vmVars
    <3>2. condition' = condition \/ condition' \in {"down", "aborted"}
      BY DEF VMNext, CloudStep, AskToCreate, AskAbout, AskToStop, Ask, ServiceEnds, HostTurnsOff,
         HostTurnsOn, ProcessCreateVM, ProcessStartVM, ProcessShutdownVM, ProcessSuspendVM,
         ProcessResumeVM, ProcessDestroyVM, ProcessMigrateVM, ProcessServiceTermination,
         ProcessRequestForDestroyedVM, ProcessUnknownTermination, Stop, Refuse, ServiceAborts, vmVars
    <3> QED
      BY <3>1, <3>2 DEF AInv, Counters
  <2>3. /\ NotLiveIsNowhere' /\ used' \in [Hosts -> Int] /\ migrated' \subseteq Hosts
        /\ \A h \in Hosts \ migrated' : Accounted(h)'
    BY Effects, AccountedInv
  <2> QED
    BY <2>1, <2>2, <2>3 DEF AInv, Counters
<1>3. Inv => CoresAccounted
  <2> SUFFICES ASSUME Inv PROVE CoresAccounted
    OBVIOUS
  <2>1. \A h \in Hosts \ migrated :
           /\ used[h] = SumFunctionOnSet(Cores, {v \in Live : pm[v] = h})
           /\ used[h] <= Capacity[h] /\ used[h] \in Nat
    <3>1. \A h \in Hosts : OnHost(h) \in SUBSET VMs
      BY DEF OnHost, Live
    <3> QED
      BY <3>1, CoresAreSummed DEF AInv, Accounted, CoresOn, OnHost
  <2>2. VMTypeOK
    <3>1. used \in [Hosts -> Int] /\ \A h \in Hosts \ migrated : used[h] \in 0 .. Capacity[h]
      <4>1. \A h \in Hosts : Capacity[h] \in Nat
        OBVIOUS
      <4>2. ASSUME NEW h \in Hosts \ migrated PROVE used[h] \in 0 .. Capacity[h]
        <5>1. used[h] <= Capacity[h] /\ used[h] \in Nat /\ Capacity[h] \in Nat
          BY <2>1, <4>1
        <5> QED
          BY <5>1
      <4> QED
        BY <4>2 DEF AInv, Counters
    <3>2. vmMail \in Seq(Request \cup {EndOf(v) : v \in VMs})
      BY DEF AInv, Types, AllMessages
    <3> QED
      BY <3>1, <3>2 DEF AInv, Types, Counters, VMTypeOK
  <2> QED
    BY <2>1, <2>2 DEF CoresAccounted
<1> HIDE DEF Inv
<1> QED
  BY <1>1, <1>2, <1>3, PTL DEF VMSpec
===============================================================================
