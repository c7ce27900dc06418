---------------------------- MODULE BareMetalProofs ----------------------------
(* Proofs about BareMetal.tla, for every set of hosts, jobs and workunits, whatever they
   ask for and depend on, and whatever fails, is terminated or turned off. *)
EXTENDS BareMetal, FiniteSetTheorems, SequenceTheorems, TLAPS

USE HostsAssumption, WorkunitsAssumption

-------------------------------------------------------------------------------
(* The host that is picked *)

\* Products keep the order.
LEMMA Products ==
    ASSUME NEW a \in Nat, NEW b \in Nat, NEW c \in Nat, c > 0
    PROVE  a * c \in Nat /\ (a < b <=> a * c < b * c)
<1>1. a * c \in Nat
  OBVIOUS
<1>2. ASSUME a < b PROVE a * c < b * c
  <2>1. (b - a) * c > 0
    BY <1>2
  <2>2. (b - a) * c = b * c - a * c
    OBVIOUS
  <2> QED
    BY <2>1, <2>2
<1>3. ASSUME ~(a < b) PROVE ~(a * c < b * c)
  <2>1. (a - b) * c >= 0
    BY <1>3
  <2>2. (a - b) * c = a * c - b * c
    OBVIOUS
  <2> QED
    BY <2>1, <2>2
<1> QED
  BY <1>1, <1>2, <1>3

\* Ratios x / c are ordered.
LEMMA Ratios ==
    ASSUME NEW x \in Nat, NEW y \in Nat, NEW z \in Nat,
           NEW a \in Nat, NEW b \in Nat, NEW c \in Nat, a > 0, b > 0, c > 0
    PROVE  /\ ~(y * a < x * b) /\ y * c < z * b => x * c < z * a
           /\ x * b < y * a /\ ~(z * b < y * c) => x * c < z * a
           /\ ~(y * a < x * b) /\ ~(z * b < y * c) => ~(z * a < x * c)
<1>1. /\ x * b \in Nat /\ y * a \in Nat /\ y * c \in Nat /\ z * b \in Nat
      /\ x * c \in Nat /\ z * a \in Nat
  OBVIOUS
<1>2. /\ y * a < x * b <=> (y * a) * c < (x * b) * c
      /\ x * b < y * a <=> (x * b) * c < (y * a) * c
      /\ y * c < z * b <=> (y * c) * a < (z * b) * a
      /\ z * b < y * c <=> (z * b) * a < (y * c) * a
      /\ x * c < z * a <=> (x * c) * b < (z * a) * b
      /\ z * a < x * c <=> (z * a) * b < (x * c) * b
  BY <1>1, Products
<1>3. (y * a) * c = (y * c) * a /\ (x * b) * c = (x * c) * b /\ (z * b) * a = (z * a) * b
  OBVIOUS
<1>4. (y * a) * c \in Nat /\ (x * b) * c \in Nat /\ (z * b) * a \in Nat
  BY <1>1
<1> QED
  BY <1>2, <1>3, <1>4

\* Host h is picked rather than k.
Better(w, d, h, k) == LessLoaded(w, h, k, d) \/ (~LessLoaded(w, k, h, d) /\ h < k)

\* It is an order on the hosts.
LEMMA HostsAreOrdered ==
    ASSUME NEW w \in Workunits, NEW d, d.threads \in [Hosts -> Nat]
    PROVE  /\ \A h, k \in Hosts : h = k \/ Better(w, d, h, k) \/ Better(w, d, k, h)
           /\ \A h, k, l \in Hosts : Better(w, d, h, k) /\ Better(w, d, k, l) => Better(w, d, h, l)
<1>1. \A h \in Hosts : h \in Nat /\ UsedCores(w, h) \in Nat
  BY DEF UsedCores
<1>2. ASSUME NEW h \in Hosts, NEW k \in Hosts
      PROVE  LessLoaded(w, h, k, d) <=>
               (d.threads[h] + UsedCores(w, h)) * (NumCores[k] * FlopRate[k])
                  < (d.threads[k] + UsedCores(w, k)) * (NumCores[h] * FlopRate[h])
  <2>1. /\ d.threads[h] \in Nat /\ d.threads[k] \in Nat
        /\ NumCores[h] \in Nat /\ NumCores[k] \in Nat /\ FlopRate[h] \in Nat /\ FlopRate[k] \in Nat
    OBVIOUS
  <2> DEFINE x == d.threads[h] + UsedCores(w, h)
             y == d.threads[k] + UsedCores(w, k)
  <2>2. x \in Nat /\ y \in Nat
    BY <1>1, <2>1
  <2> HIDE DEF x, y
  <2>3. (x * NumCores[k]) * FlopRate[k] = x * (NumCores[k] * FlopRate[k])
    BY <2>1, <2>2
  <2>4. (y * NumCores[h]) * FlopRate[h] = y * (NumCores[h] * FlopRate[h])
    BY <2>1, <2>2
  <2> QED
    BY <2>3, <2>4 DEF LessLoaded, x, y
<1> DEFINE x(h) == d.threads[h] + UsedCores(w, h)
           c(h) == NumCores[h] * FlopRate[h]
<1>3. \A h \in Hosts : x(h) \in Nat /\ c(h) \in Nat /\ c(h) > 0
  <2>1. ASSUME NEW h \in Hosts PROVE x(h) \in Nat /\ c(h) \in Nat /\ c(h) > 0
    <3>1. /\ d.threads[h] \in Nat /\ UsedCores(w, h) \in Nat
          /\ NumCores[h] \in Nat \ {0} /\ FlopRate[h] \in Nat \ {0}
      BY <1>1
    <3> QED
      BY <3>1
  <2> QED
    BY <2>1
<1>4. \A h, k \in Hosts : LessLoaded(w, h, k, d) <=> x(h) * c(k) < x(k) * c(h)
  BY <1>2
<1> HIDE DEF x, c
<1>5. ASSUME NEW h \in Hosts, NEW k \in Hosts
      PROVE  /\ ~(LessLoaded(w, h, k, d) /\ LessLoaded(w, k, h, d))
             /\ h = k \/ h < k \/ k < h
  <2>1. /\ x(h) \in Nat /\ c(k) \in Nat /\ x(k) \in Nat /\ c(h) \in Nat
        /\ h \in Nat /\ k \in Nat
    BY <1>1, <1>3
  <2>2. x(h) * c(k) \in Nat /\ x(k) * c(h) \in Nat
    BY <2>1
  <2>3. /\ LessLoaded(w, h, k, d) <=> x(h) * c(k) < x(k) * c(h)
        /\ LessLoaded(w, k, h, d) <=> x(k) * c(h) < x(h) * c(k)
    BY <1>4
  <2> QED
    BY <2>1, <2>2, <2>3
<1>6. ASSUME NEW h \in Hosts, NEW k \in Hosts, NEW l \in Hosts,
             Better(w, d, h, k), Better(w, d, k, l)
      PROVE  Better(w, d, h, l)
  <2>1. /\ ~LessLoaded(w, k, h, d) /\ LessLoaded(w, k, l, d) => LessLoaded(w, h, l, d)
        /\ LessLoaded(w, h, k, d) /\ ~LessLoaded(w, l, k, d) => LessLoaded(w, h, l, d)
        /\ ~LessLoaded(w, k, h, d) /\ ~LessLoaded(w, l, k, d) => ~LessLoaded(w, l, h, d)
    <3>1. /\ x(h) \in Nat /\ x(k) \in Nat /\ x(l) \in Nat
          /\ c(h) \in Nat /\ c(k) \in Nat /\ c(l) \in Nat /\ c(h) > 0 /\ c(k) > 0 /\ c(l) > 0
      BY <1>3
    <3>2. /\ ~(x(k) * c(h) < x(h) * c(k)) /\ x(k) * c(l) < x(l) * c(k) => x(h) * c(l) < x(l) * c(h)
          /\ x(h) * c(k) < x(k) * c(h) /\ ~(x(l) * c(k) < x(k) * c(l)) => x(h) * c(l) < x(l) * c(h)
          /\ ~(x(k) * c(h) < x(h) * c(k)) /\ ~(x(l) * c(k) < x(k) * c(l)) => ~(x(l) * c(h) < x(h) * c(l))
      BY <3>1, Ratios
    <3>3. /\ LessLoaded(w, h, k, d) <=> x(h) * c(k) < x(k) * c(h)
          /\ LessLoaded(w, k, h, d) <=> x(k) * c(h) < x(h) * c(k)
          /\ LessLoaded(w, k, l, d) <=> x(k) * c(l) < x(l) * c(k)
          /\ LessLoaded(w, l, k, d) <=> x(l) * c(k) < x(k) * c(l)
          /\ LessLoaded(w, h, l, d) <=> x(h) * c(l) < x(l) * c(h)
          /\ LessLoaded(w, l, h, d) <=> x(l) * c(h) < x(h) * c(l)
      BY <1>4
    <3> QED
      BY <3>2, <3>3
  <2>2. ~LessLoaded(w, k, h, d) /\ ~LessLoaded(w, l, k, d)
    BY <1>5, <1>6 DEF Better
  <2> QED
    BY <1>1, <1>6, <2>1, <2>2 DEF Better
<1> QED
  BY <1>5, <1>6 DEF Better

-------------------------------------------------------------------------------
(* Dispatching *)

DispatchWith(p, d, w) == DispatchOne(d, w)
Dispatching == INSTANCE FoldProofs WITH op <- DispatchWith

\* Of some hosts, one is picked.
LEMMA BestHost ==
    ASSUME NEW w \in Workunits, NEW d, d.threads \in [Hosts -> Nat],
           NEW S \in SUBSET Hosts, S # {}
    PROVE  \E h \in S : \A k \in S \ {h} : Better(w, d, h, k)
<1> DEFINE Best(U) == \E h \in U : \A k \in U \ {h} : Better(w, d, h, k)
           T == {U \in SUBSET S : U # {} /\ ~Best(U)}
<1>1. SUFFICES ASSUME T # {} PROVE FALSE
  <2>1. S \in SUBSET S
    OBVIOUS
  <2> QED
    BY <2>1
<1>2. PICK U \in T : \A V \in SUBSET U : V # U => V \notin T
  <2>1. T \in SUBSET SUBSET S /\ IsFiniteSet(S)
    BY FS_Subset
  <2>2. Dispatching!IsFiniteSet(S)
    BY <2>1 DEF IsFiniteSet, Dispatching!IsFiniteSet
  <2> HIDE DEF T
  <2> QED
    BY <1>1, <2>1, <2>2, Dispatching!MinimalSubset
<1>3. PICK e \in U : TRUE
  OBVIOUS
<1>4. U \subseteq Hosts
  OBVIOUS
<1>5. CASE U = {e}
  BY <1>5
<1>6. CASE U # {e}
  <2>1. Best(U \ {e})
    <3>1. U \ {e} \in SUBSET U /\ U \ {e} # U /\ U \ {e} # {} /\ U \ {e} \in SUBSET S
      BY <1>3, <1>6
    <3>2. U \ {e} \notin T
      BY <1>2, <3>1
    <3> HIDE DEF Best
    <3> QED
      BY <3>1, <3>2
  <2>2. PICK b \in U \ {e} : \A k \in (U \ {e}) \ {b} : Better(w, d, b, k)
    BY <2>1
  <2>3. CASE Better(w, d, b, e)
    BY <2>2, <2>3
  <2>4. CASE Better(w, d, e, b)
    <3>1. \A k \in U \ {e} : Better(w, d, e, k)
      BY <1>4, <2>2, <2>4, HostsAreOrdered
    <3> QED
      BY <3>1
  <2> QED
    BY <1>4, <2>2, <2>3, <2>4, HostsAreOrdered
<1> QED
  BY <1>5, <1>6

\* A workunit is given to a host that is possible.
LEMMA PickedIsPossible ==
    ASSUME NEW w \in Workunits, NEW d, d.threads \in [Hosts -> Nat],
           isOn \subseteq Hosts, PossibleHosts(w, d) # {}
    PROVE  PickedHost(w, d) \in PossibleHosts(w, d)
<1>1. PossibleHosts(w, d) \in SUBSET Hosts
  BY DEF PossibleHosts, Suitable
<1>2. \E h \in PossibleHosts(w, d) : \A k \in PossibleHosts(w, d) \ {h} : Better(w, d, h, k)
  BY <1>1, BestHost
<1> QED
  BY <1>2 DEF PickedHost, Better

-------------------------------------------------------------------------------
(* The resources *)

\* The workunits on host h, with executors e; what they use.
On(e, h) == {w \in Workunits : e[w] # NoExecutor /\ e[w].host = h}
RamOf(S) == SumFunctionOnSet(Ram, S)
ThreadsOf(S, h) == SumFunctionOnSet([w \in Workunits |-> UsedCores(w, h)], S)

\* The RAM and the threads are those of the executors.
RamAccounted(e, ram) == \A h \in Hosts : ram[h] = RamCapacity[h] - RamOf(On(e, h))
ThreadsAccounted(e, threads) == \A h \in Hosts : threads[h] = ThreadsOf(On(e, h), h)

\* Executors and resources that a dispatch can start from.
ResourcesFine(e, ram, threads) ==
    /\ ram \in [Hosts -> Nat] /\ threads \in [Hosts -> 0 .. WordSize - 1]
    /\ e \in [Workunits -> Executor \cup {NoExecutor}]
    /\ \A w \in Workunits : e[w] # NoExecutor => e[w].cores = UsedCores(w, e[w].host)
    /\ RamAccounted(e, ram)

\* What workunits use is a sum.
LEMMA UseIsSummed ==
    ASSUME NEW S \in SUBSET Workunits, NEW h \in Hosts, NEW R \in SUBSET S
    PROVE  /\ RamOf(S) \in Nat /\ ThreadsOf(S, h) \in Nat
           /\ \A w \in S : /\ RamOf(S) = RamOf(S \ {w}) + Ram[w]
                           /\ ThreadsOf(S, h) = ThreadsOf(S \ {w}, h) + UsedCores(w, h)
           /\ RamOf(S) = RamOf(R) + RamOf(S \ R)
           /\ ThreadsOf(S, h) = ThreadsOf(R, h) + ThreadsOf(S \ R, h)
           /\ RamOf({}) = 0 /\ ThreadsOf({}, h) = 0
<1>1. \A f, T : /\ SumFunctionOnSet(f, T) = Dispatching!SumFunctionOnSet(f, T)
                /\ IsFiniteSet(T) <=> Dispatching!IsFiniteSet(T)
  BY DEF SumFunctionOnSet, Dispatching!SumFunctionOnSet, FoldFunctionOnSet,
         Dispatching!FoldFunctionOnSet, MapThenFoldSet, Dispatching!MapThenFoldSet,
         IsFiniteSet, Dispatching!IsFiniteSet
<1>2. IsFiniteSet(S) /\ IsFiniteSet({}) /\ \A T \in SUBSET S : IsFiniteSet(T)
  BY FS_Subset, FS_EmptySet
<1>3. ASSUME NEW f, \A w \in Workunits : f[w] \in Nat
      PROVE  /\ SumFunctionOnSet(f, S) \in Nat
             /\ \A w \in S : SumFunctionOnSet(f, S) = SumFunctionOnSet(f, S \ {w}) + f[w]
             /\ SumFunctionOnSet(f, S) = SumFunctionOnSet(f, R) + SumFunctionOnSet(f, S \ R)
             /\ SumFunctionOnSet(f, {}) = 0
  <2>1. \A w \in S : f[w] \in Int /\ f[w] >= 0
    BY <1>3
  <2>2. SumFunctionOnSet(f, S) \in Int /\ SumFunctionOnSet(f, S) >= 0
    BY <1>1, <1>2, <2>1, Dispatching!SumType
  <2>3. ASSUME NEW w \in S PROVE SumFunctionOnSet(f, S) = SumFunctionOnSet(f, S \ {w}) + f[w]
    <3>1. SumFunctionOnSet(f, S) = f[w] + SumFunctionOnSet(f, S \ {w})
      BY <1>1, <1>2, <2>1, Dispatching!SumAdds
    <3>2. SumFunctionOnSet(f, S \ {w}) \in Int
      <4>1. S \ {w} \in SUBSET S
        OBVIOUS
      <4>2. IsFiniteSet(S \ {w})
        BY <1>2, <4>1
      <4> QED
        BY <1>1, <4>2, <2>1, Dispatching!SumType
    <3> QED
      BY <2>1, <3>1, <3>2
  <2>4. SumFunctionOnSet(f, S) = SumFunctionOnSet(f, R) + SumFunctionOnSet(f, S \ R)
    BY <1>1, <1>2, <2>1, Dispatching!SumSplits
  <2>5. SumFunctionOnSet(f, {}) = 0
    BY <1>1, <1>2, Dispatching!SumUnfolds
  <2>6. SumFunctionOnSet(f, S) \in Nat
    BY <2>2
  <2> QED
    BY <2>3, <2>4, <2>5, <2>6
<1> DEFINE used == [w \in Workunits |-> UsedCores(w, h)]
<1>4. \A w \in Workunits : Ram[w] \in Nat /\ used[w] \in Nat /\ used[w] = UsedCores(w, h)
  BY DEF UsedCores
<1>5. \A T : ThreadsOf(T, h) = SumFunctionOnSet(used, T) /\ RamOf(T) = SumFunctionOnSet(Ram, T)
  BY DEF ThreadsOf, RamOf
<1> HIDE DEF used
<1>6. /\ RamOf(S) \in Nat
      /\ \A w \in S : RamOf(S) = RamOf(S \ {w}) + Ram[w]
      /\ RamOf(S) = RamOf(R) + RamOf(S \ R)
      /\ RamOf({}) = 0
  BY <1>3, <1>4, <1>5
<1>7. /\ ThreadsOf(S, h) \in Nat
      /\ \A w \in S : ThreadsOf(S, h) = ThreadsOf(S \ {w}, h) + used[w]
      /\ ThreadsOf(S, h) = ThreadsOf(R, h) + ThreadsOf(S \ R, h)
      /\ ThreadsOf({}, h) = 0
  <2>1. /\ SumFunctionOnSet(used, S) \in Nat
        /\ \A w \in S : SumFunctionOnSet(used, S) = SumFunctionOnSet(used, S \ {w}) + used[w]
        /\ SumFunctionOnSet(used, S) = SumFunctionOnSet(used, R) + SumFunctionOnSet(used, S \ R)
        /\ SumFunctionOnSet(used, {}) = 0
    BY <1>3, <1>4
  <2> QED
    BY <1>5, <2>1
<1> QED
  BY <1>4, <1>6, <1>7

LEMMA UseAdds ==
    ASSUME NEW S \in SUBSET Workunits, NEW h \in Hosts, NEW w \in S
    PROVE  /\ RamOf(S) = RamOf(S \ {w}) + Ram[w]
           /\ ThreadsOf(S, h) = ThreadsOf(S \ {w}, h) + UsedCores(w, h)
<1>1. S \in SUBSET S
  OBVIOUS
<1> QED
  BY <1>1, UseIsSummed

LEMMA UseSplits ==
    ASSUME NEW S \in SUBSET Workunits, NEW R \in SUBSET S
    PROVE  /\ Hosts # {} => RamOf(S) = RamOf(R) + RamOf(S \ R)
           /\ \A h \in Hosts : ThreadsOf(S, h) = ThreadsOf(R, h) + ThreadsOf(S \ R, h)
BY UseIsSummed

\* A count of threads does not wrap around.
LEMMA WordFits ==
    ASSUME NEW h \in Hosts
    PROVE  /\ WordSize \in Nat \ {0}
           /\ \A S \in SUBSET Workunits : ThreadsOf(S, h) \in 0 .. WordSize - 1
           /\ \A n \in Int : n % WordSize \in 0 .. WordSize - 1
           /\ \A n \in 0 .. WordSize - 1 : n % WordSize = n
<1>1. ASSUME NEW S \in SUBSET Workunits PROVE ThreadsOf(S, h) \in 0 .. WordSize - 1
  <2>1. /\ ThreadsOf(Workunits, h) = ThreadsOf(S, h) + ThreadsOf(Workunits \ S, h)
        /\ ThreadsOf(S, h) \in Nat /\ ThreadsOf(Workunits \ S, h) \in Nat
    <3>1. ThreadsOf(Workunits, h) = ThreadsOf(S, h) + ThreadsOf(Workunits \ S, h)
      BY UseSplits
    <3>2. S \in SUBSET Workunits /\ Workunits \ S \in SUBSET Workunits
      OBVIOUS
    <3>3. ThreadsOf(S, h) \in Nat /\ ThreadsOf(Workunits \ S, h) \in Nat
      BY <3>2, UseIsSummed
    <3> QED
      BY <3>1, <3>3
  <2>2. ThreadsOf(Workunits, h) < WordSize /\ WordSize \in Nat
    BY ThreadsAssumption DEF ThreadsOf
  <2> QED
    BY <2>1, <2>2
<1>2. WordSize \in Nat \ {0}
  <2>1. ThreadsOf({}, h) \in 0 .. WordSize - 1 /\ WordSize \in Nat
    BY <1>1, ThreadsAssumption
  <2> QED
    BY <2>1
<1>3. ASSUME NEW n \in Int PROVE n % WordSize \in 0 .. WordSize - 1
  BY <1>2
<1>4. ASSUME NEW n \in 0 .. WordSize - 1 PROVE n % WordSize = n
  BY <1>2
<1> QED
  BY <1>1, <1>2, <1>3, <1>4

\* A workunit is placed on a host with enough RAM.
LEMMA PlacedIsAccounted ==
    ASSUME NEW e, NEW ram, NEW threads, ResourcesFine(e, ram, threads),
           NEW w \in Workunits, NEW h \in Hosts, e[w] = NoExecutor, ram[h] >= Ram[w],
           NEW x, x = [state |-> "running", host |-> h, cores |-> UsedCores(w, h)]
    PROVE  /\ ResourcesFine([e EXCEPT ![w] = x], [ram EXCEPT ![h] = @ - Ram[w]],
                            [threads EXCEPT ![h] = (@ + UsedCores(w, h)) % WordSize])
           /\ ThreadsAccounted(e, threads) =>
                ThreadsAccounted([e EXCEPT ![w] = x],
                                 [threads EXCEPT ![h] = (@ + UsedCores(w, h)) % WordSize])
<1> DEFINE e1 == [e EXCEPT ![w] = x]
           ram1 == [ram EXCEPT ![h] = @ - Ram[w]]
           threads1 == [threads EXCEPT ![h] = (@ + UsedCores(w, h)) % WordSize]
<1>0. /\ e1 = [e EXCEPT ![w] = x] /\ ram1 = [ram EXCEPT ![h] = @ - Ram[w]]
      /\ threads1 = [threads EXCEPT ![h] = (@ + UsedCores(w, h)) % WordSize]
  OBVIOUS
<1> HIDE DEF e1, ram1, threads1
<1>1. /\ e \in [Workunits -> Executor \cup {NoExecutor}]
      /\ threads \in [Hosts -> 0 .. WordSize - 1] /\ UsedCores(w, h) \in Nat
  BY DEF ResourcesFine, UsedCores
<1>2. x \in Executor
  BY <1>1 DEF Executor
<1>3. x # NoExecutor
  BY DEF NoExecutor
<1>4. e1[w] = x /\ \A v \in Workunits \ {w} : e1[v] = e[v]
  BY <1>0, <1>1
<1>5. e1 \in [Workunits -> Executor \cup {NoExecutor}]
  BY <1>0, <1>1, <1>2
<1>6. \A k \in Hosts : /\ On(e1, k) = IF k = h THEN On(e, h) \cup {w} ELSE On(e, k)
                       /\ w \notin On(e, k) /\ On(e, k) \in SUBSET Workunits
  BY <1>3, <1>4 DEF On
<1>7. /\ (On(e, h) \cup {w}) \ {w} = On(e, h)
      /\ On(e, h) \cup {w} \in SUBSET Workunits
  BY <1>6
<1>8. /\ RamOf(On(e1, h)) = RamOf(On(e, h)) + Ram[w]
      /\ ThreadsOf(On(e1, h), h) = ThreadsOf(On(e, h), h) + UsedCores(w, h)
      /\ RamOf(On(e, h)) \in Nat
  <2>1. /\ RamOf(On(e, h) \cup {w}) = RamOf(On(e, h)) + Ram[w]
        /\ ThreadsOf(On(e, h) \cup {w}, h) = ThreadsOf(On(e, h), h) + UsedCores(w, h)
    <3> DEFINE S == On(e, h) \cup {w}
    <3>1. w \in S /\ S \in SUBSET Workunits /\ S \ {w} = On(e, h)
      BY <1>7
    <3> HIDE DEF S
    <3>2. /\ RamOf(S) = RamOf(S \ {w}) + Ram[w]
          /\ ThreadsOf(S, h) = ThreadsOf(S \ {w}, h) + UsedCores(w, h)
      BY <3>1, UseAdds
    <3> QED
      BY <3>1, <3>2 DEF S
  <2>2. RamOf(On(e, h)) \in Nat
    BY <1>6, UseIsSummed
  <2> QED
    BY <1>6, <2>1, <2>2
<1>9. ram1 \in [Hosts -> Nat] /\ RamAccounted(e1, ram1)
  <2>1. Ram[w] \in Nat /\ ram \in [Hosts -> Nat] /\ ram1[h] = ram[h] - Ram[w]
    BY <1>0 DEF ResourcesFine
  <2>2. ram1 \in [Hosts -> Nat] /\ \A k \in Hosts \ {h} : ram1[k] = ram[k]
    BY <1>0, <2>1
  <2>3. ram1[h] = RamCapacity[h] - RamOf(On(e1, h))
    <3>1. ram[h] = RamCapacity[h] - RamOf(On(e, h)) /\ RamCapacity[h] \in Nat
      BY DEF ResourcesFine, RamAccounted
    <3> QED
      BY <1>8, <2>1, <3>1
  <2>4. ASSUME NEW k \in Hosts, k # h PROVE ram1[k] = RamCapacity[k] - RamOf(On(e1, k))
    BY <1>6, <2>2, <2>4 DEF ResourcesFine, RamAccounted
  <2> QED
    BY <2>2, <2>3, <2>4 DEF RamAccounted
<1>10. threads1 \in [Hosts -> 0 .. WordSize - 1]
  <2>1. threads[h] + UsedCores(w, h) \in Int
    BY <1>1
  <2>2. (threads[h] + UsedCores(w, h)) % WordSize \in 0 .. WordSize - 1
    BY <2>1, WordFits
  <2> QED
    BY <1>0, <1>1, <2>2
<1>11. ASSUME NEW v \in Workunits, e1[v] # NoExecutor PROVE e1[v].cores = UsedCores(v, e1[v].host)
  BY <1>4, <1>11 DEF ResourcesFine
<1>12. ASSUME ThreadsAccounted(e, threads) PROVE ThreadsAccounted(e1, threads1)
  <2>1. ThreadsOf(On(e1, h), h) = (threads[h] + UsedCores(w, h)) % WordSize
    <3>1. ThreadsOf(On(e1, h), h) \in 0 .. WordSize - 1
      BY <1>6, <1>7, WordFits
    <3>2. ThreadsOf(On(e1, h), h) = threads[h] + UsedCores(w, h)
      BY <1>8, <1>12 DEF ThreadsAccounted
    <3> QED
      BY <3>1, <3>2, WordFits
  <2> QED
    BY <1>0, <1>1, <1>6, <1>12, <2>1 DEF ThreadsAccounted
<1> QED
  BY <1>5, <1>9, <1>10, <1>11, <1>12 DEF ResourcesFine, e1, ram1, threads1

-------------------------------------------------------------------------------
(* Dispatching *)

\* The states of a dispatch.
Dispatch0 == [ram : [Hosts -> Nat], threads : [Hosts -> 0 .. WordSize - 1],
              avoid : SUBSET Hosts, executor : [Workunits -> Executor \cup {NoExecutor}],
              waiting : Seq(Workunits)]

\* After the first workunits of the queue, those in done: each has been given to a host or
\* waits, once; and the first that waits fits nowhere.
DispatchFine(e, threads, done, d) ==
    /\ ResourcesFine(d.executor, d.ram, d.threads)
    /\ ThreadsAccounted(e, threads) => ThreadsAccounted(d.executor, d.threads)
    /\ IsInjective(d.waiting) /\ ToSet(d.waiting) \subseteq done
    /\ \A w \in Workunits :
         IF w \in done \ ToSet(d.waiting)
         THEN d.executor[w] # NoExecutor /\ d.executor[w].state = "running"
         ELSE d.executor[w] = e[w]
    /\ d.waiting = <<>> => d.avoid = {}
    /\ d.waiting # <<>> =>
         PossibleHosts(Head(d.waiting), [ram |-> d.ram, avoid |-> {}]) = {}

\* A sequence with an element it does not have.
LEMMA AppendNew ==
    ASSUME NEW S, NEW q \in Seq(S), NEW x \in S
    PROVE  /\ Append(q, x) \in Seq(S) /\ Append(q, x) # <<>>
           /\ ToSet(Append(q, x)) = ToSet(q) \cup {x}
           /\ Head(Append(q, x)) = IF q = <<>> THEN x ELSE Head(q)
           /\ IsInjective(q) /\ x \notin ToSet(q) => IsInjective(Append(q, x))
<1>1. /\ DOMAIN Append(q, x) = DOMAIN q \cup {Len(q) + 1}
      /\ \A k \in DOMAIN q : Append(q, x)[k] = q[k]
      /\ Append(q, x)[Len(q) + 1] = x
      /\ Append(q, x) \in Seq(S)
  OBVIOUS
<1>2. ToSet(Append(q, x)) = ToSet(q) \cup {x}
  BY <1>1 DEF ToSet
<1>3. IsInjective(q) /\ x \notin ToSet(q) => IsInjective(Append(q, x))
  BY <1>1 DEF ToSet, IsInjective
<1>4. Head(Append(q, x)) = IF q = <<>> THEN x ELSE Head(q)
  BY HeadTailAppend
<1> QED
  BY <1>1, <1>2, <1>3, <1>4, AppendProperties

\* The first element of a sequence is one of its elements.
LEMMA HeadIsIn ==
    ASSUME NEW S, NEW q \in Seq(S), q # <<>>
    PROVE  Head(q) \in ToSet(q) /\ Head(q) \in S
<1>1. 1 \in DOMAIN q /\ Head(q) = q[1] /\ q[1] \in S
  OBVIOUS
<1> QED
  BY <1>1 DEF ToSet

\* A host that was possible with less RAM still is with more.
LEMMA LessRam ==
    ASSUME NEW w \in Workunits, NEW ram \in [Hosts -> Nat], NEW less \in [Hosts -> Nat],
           \A h \in Hosts : less[h] <= ram[h], isOn \subseteq Hosts,
           PossibleHosts(w, [ram |-> ram, avoid |-> {}]) = {}
    PROVE  PossibleHosts(w, [ram |-> less, avoid |-> {}]) = {}
<1> SUFFICES ASSUME NEW h \in PossibleHosts(w, [ram |-> less, avoid |-> {}])
             PROVE  h \in PossibleHosts(w, [ram |-> ram, avoid |-> {}])
  OBVIOUS
<1>1. h \in Suitable(w) /\ h \in Hosts /\ (Ram[w] = 0 \/ less[h] >= Ram[w])
  BY DEF PossibleHosts, EnoughRam, Suitable
<1>2. Ram[w] \in Nat /\ less[h] \in Nat /\ ram[h] \in Nat /\ less[h] <= ram[h]
  BY <1>1
<1>3. Ram[w] = 0 \/ ram[h] >= Ram[w]
  BY <1>1, <1>2
<1> QED
  BY <1>1, <1>3 DEF PossibleHosts, EnoughRam

\* One workunit is considered.
LEMMA DispatchOneKeeps ==
    ASSUME NEW e, NEW threads, NEW done, NEW d \in Dispatch0, DispatchFine(e, threads, done, d),
           NEW w \in Workunits, w \notin done, e[w] = NoExecutor, isOn \subseteq Hosts
    PROVE  /\ DispatchOne(d, w) \in Dispatch0
           /\ DispatchFine(e, threads, done \cup {w}, DispatchOne(d, w))
<1>1. /\ d.ram \in [Hosts -> Nat] /\ d.threads \in [Hosts -> 0 .. WordSize - 1]
      /\ d.avoid \in SUBSET Hosts /\ d.waiting \in Seq(Workunits)
      /\ d.executor \in [Workunits -> Executor \cup {NoExecutor}]
  BY DEF Dispatch0
<1>2. w \notin ToSet(d.waiting) /\ d.executor[w] = NoExecutor
  BY DEF DispatchFine
<1>3. CASE PossibleHosts(w, d) = {}
  <2> DEFINE n == [d EXCEPT !.avoid = @ \cup HostToAvoid(w, d), !.waiting = Append(@, w)]
  <2>1. /\ n.ram = d.ram /\ n.threads = d.threads /\ n.executor = d.executor
        /\ n.waiting = Append(d.waiting, w) /\ n \in Dispatch0
    <3>1. HostToAvoid(w, d) \in SUBSET Hosts
      BY DEF HostToAvoid, Suitable
    <3>2. Append(d.waiting, w) \in Seq(Workunits)
      BY <1>1, AppendNew
    <3> QED
      BY <1>1, <3>1, <3>2 DEF Dispatch0
  <2>2. n = DispatchOne(d, w)
    BY <1>3 DEF DispatchOne
  <2> HIDE DEF n
  <2>3. /\ n.waiting # <<>> /\ ToSet(n.waiting) = ToSet(d.waiting) \cup {w}
        /\ IsInjective(n.waiting)
        /\ Head(n.waiting) = IF d.waiting = <<>> THEN w ELSE Head(d.waiting)
    BY <1>1, <1>2, <2>1, AppendNew DEF DispatchFine
  <2>4. PossibleHosts(Head(n.waiting), [ram |-> n.ram, avoid |-> {}]) = {}
    <3>1. CASE d.waiting = <<>>
      <4>1. d.avoid = {}
        BY <3>1 DEF DispatchFine
      <4>2. PossibleHosts(w, [ram |-> d.ram, avoid |-> {}]) = PossibleHosts(w, d)
        BY <4>1 DEF PossibleHosts, EnoughRam
      <4> QED
        BY <1>3, <2>1, <2>3, <3>1, <4>2
    <3>2. CASE d.waiting # <<>>
      BY <2>1, <2>3, <3>2 DEF DispatchFine
    <3> QED
      BY <3>1, <3>2
  <2>5. ASSUME NEW v \in Workunits
        PROVE  IF v \in (done \cup {w}) \ ToSet(n.waiting)
               THEN n.executor[v] # NoExecutor /\ n.executor[v].state = "running"
               ELSE n.executor[v] = e[v]
    BY <1>2, <2>1, <2>3 DEF DispatchFine
  <2> QED
    BY <2>1, <2>2, <2>3, <2>4, <2>5 DEF DispatchFine
<1>4. CASE PossibleHosts(w, d) # {}
  <2> DEFINE h == PickedHost(w, d)
             x == [state |-> "running", host |-> h, cores |-> UsedCores(w, h)]
             n == Placed(d, w, h)
  <2>1. h \in PossibleHosts(w, d)
    <3>1. d.threads \in [Hosts -> Nat]
      BY <1>1, ThreadsAssumption
    <3> QED
      BY <1>4, <3>1, PickedIsPossible
  <2>2. h \in Hosts /\ d.ram[h] >= Ram[w] /\ Ram[w] \in Nat
    <3>1. h \in Hosts /\ (Ram[w] = 0 \/ d.ram[h] >= Ram[w])
      BY <2>1 DEF PossibleHosts, EnoughRam, Suitable
    <3>2. d.ram[h] \in Nat /\ Ram[w] \in Nat
      BY <1>1, <3>1
    <3> QED
      BY <3>1, <3>2
  <2> HIDE DEF h
  <2>3. /\ n.ram = [d.ram EXCEPT ![h] = @ - Ram[w]]
        /\ n.threads = [d.threads EXCEPT ![h] = (@ + UsedCores(w, h)) % WordSize]
        /\ n.executor = [d.executor EXCEPT ![w] = x]
        /\ n.waiting = d.waiting /\ n.avoid = d.avoid
        /\ n = [ram |-> n.ram, threads |-> n.threads, avoid |-> n.avoid, executor |-> n.executor,
                waiting |-> n.waiting]
    <3> DEFINE ram == [d.ram EXCEPT ![h] = @ - Ram[w]]
               threads1 == [d.threads EXCEPT ![h] = (@ + UsedCores(w, h)) % WordSize]
               executor1 == [d.executor EXCEPT ![w] = x]
    <3>1. n = [d EXCEPT !.ram = ram, !.threads = threads1, !.executor = executor1]
      BY DEF Placed
    <3>2. d = [ram |-> d.ram, threads |-> d.threads, avoid |-> d.avoid, executor |-> d.executor,
               waiting |-> d.waiting]
      BY DEF Dispatch0
    <3> HIDE DEF ram, threads1, executor1, n
    <3>3. n = [ram |-> ram, threads |-> threads1, avoid |-> d.avoid, executor |-> executor1,
               waiting |-> d.waiting]
      BY <3>1, <3>2
    <3> QED
      BY <3>3 DEF ram, threads1, executor1
  <2>4. n = DispatchOne(d, w)
    BY <1>4 DEF DispatchOne, h
  <2> HIDE DEF n
  <2>5. /\ ResourcesFine(n.executor, n.ram, n.threads)
        /\ ThreadsAccounted(d.executor, d.threads) => ThreadsAccounted(n.executor, n.threads)
    <3>1. ResourcesFine(d.executor, d.ram, d.threads)
      BY DEF DispatchFine
    <3>2. x = [state |-> "running", host |-> h, cores |-> UsedCores(w, h)]
      OBVIOUS
    <3> HIDE DEF x
    <3>3. /\ ResourcesFine([d.executor EXCEPT ![w] = x], [d.ram EXCEPT ![h] = @ - Ram[w]],
                           [d.threads EXCEPT ![h] = (@ + UsedCores(w, h)) % WordSize])
          /\ ThreadsAccounted(d.executor, d.threads) =>
                ThreadsAccounted([d.executor EXCEPT ![w] = x],
                                 [d.threads EXCEPT ![h] = (@ + UsedCores(w, h)) % WordSize])
      <4>1. d.executor[w] = NoExecutor /\ d.ram[h] >= Ram[w] /\ h \in Hosts
        BY <1>2, <2>2
      <4> HIDE DEF h
      <4> QED
        BY <3>1, <3>2, <4>1, PlacedIsAccounted
    <3> QED
      BY <2>3, <3>3
  <2>6. n \in Dispatch0
    BY <1>1, <2>3, <2>5 DEF Dispatch0, ResourcesFine
  <2>7. d.waiting # <<>> => PossibleHosts(Head(n.waiting), [ram |-> n.ram, avoid |-> {}]) = {}
    <3> SUFFICES ASSUME d.waiting # <<>>
                 PROVE  PossibleHosts(Head(d.waiting), [ram |-> n.ram, avoid |-> {}]) = {}
      BY <2>3
    <3>1. Head(d.waiting) \in Workunits
      BY <1>1, HeadIsIn
    <3>2. n.ram \in [Hosts -> Nat] /\ \A k \in Hosts : n.ram[k] <= d.ram[k]
      <4>1. n.ram \in [Hosts -> Nat]
        BY <2>5 DEF ResourcesFine
      <4>2. d.ram[h] \in Nat /\ n.ram[h] = d.ram[h] - Ram[w]
        BY <1>1, <2>2, <2>3
      <4>3. n.ram[h] <= d.ram[h]
        BY <2>2, <4>2
      <4>4. ASSUME NEW k \in Hosts, k # h PROVE n.ram[k] <= d.ram[k]
        <5>1. n.ram[k] = d.ram[k] /\ d.ram[k] \in Nat
          BY <1>1, <2>3, <4>4
        <5> QED
          BY <5>1
      <4> QED
        BY <4>1, <4>3, <4>4
    <3> QED
      BY <1>1, <3>1, <3>2, LessRam DEF DispatchFine
  <2>8. ASSUME NEW v \in Workunits
        PROVE  IF v \in (done \cup {w}) \ ToSet(n.waiting)
               THEN n.executor[v] # NoExecutor /\ n.executor[v].state = "running"
               ELSE n.executor[v] = e[v]
    <3>1. CASE v = w
      <4>1. n.executor[v] = x /\ x # NoExecutor /\ x.state = "running"
        BY <1>1, <2>3, <3>1 DEF NoExecutor
      <4> QED
        BY <1>2, <2>3, <3>1, <4>1
    <3>2. CASE v # w
      BY <1>1, <2>3, <3>2 DEF DispatchFine
    <3> QED
      BY <3>1, <3>2
  <2> QED
    BY <2>3, <2>4, <2>5, <2>6, <2>7, <2>8 DEF DispatchFine
<1> QED
  BY <1>3, <1>4

\* All the workunits of the queue are considered.
LEMMA DispatchKeeps ==
    ASSUME NEW q \in Seq(Workunits), IsInjective(q), isOn \subseteq Hosts,
           NEW ram, NEW threads, NEW e, ResourcesFine(e, ram, threads),
           \A w \in ToSet(q) : e[w] = NoExecutor
    PROVE  /\ Dispatched(q, ram, threads, e) \in Dispatch0
           /\ DispatchFine(e, threads, ToSet(q), Dispatched(q, ram, threads, e))
<1> DEFINE n == Len(q)
           Done(i) == {q[k] : k \in 1 .. i}
           base == [ram |-> ram, threads |-> threads, avoid |-> {}, executor |-> e, waiting |-> <<>>]
           I == [i \in 0 .. n |-> {d \in Dispatch0 : DispatchFine(e, threads, Done(i), d)}]
<1>1. n \in Nat /\ DOMAIN q = 1 .. n /\ \A i \in 1 .. n : q[i] \in Workunits
  OBVIOUS
<1>2. ToSet(q) = Done(n)
  BY <1>1 DEF ToSet
<1>3. base \in I[0]
  <2>1. <<>> \in Seq(Workunits) /\ ToSet(<<>>) = {} /\ IsInjective(<<>>)
    BY DEF ToSet, IsInjective
  <2>2. base \in Dispatch0
    BY <2>1 DEF Dispatch0, ResourcesFine
  <2>3. Done(0) = {} /\ 0 \in 0 .. n
    BY <1>1
  <2>4. DispatchFine(e, threads, {}, base)
    BY <2>1 DEF DispatchFine
  <2> HIDE DEF n, base
  <2> QED
    BY <2>2, <2>3, <2>4
<1>4. ASSUME NEW i \in 1 .. n, NEW d \in I[i - 1] PROVE DispatchWith(n, d, q[i]) \in I[i]
  <2>1. i - 1 \in 0 .. n /\ i \in 0 .. n /\ q[i] \in Workunits /\ e[q[i]] = NoExecutor
    <3>1. q[i] \in ToSet(q)
      BY <1>1 DEF ToSet
    <3> QED
      BY <1>1, <3>1
  <2>2. d \in Dispatch0 /\ DispatchFine(e, threads, Done(i - 1), d)
    BY <2>1
  <2>3. Done(i) = Done(i - 1) \cup {q[i]}
    <3>1. 1 .. i = (1 .. i - 1) \cup {i}
      BY <1>1
    <3> QED
      BY <3>1
  <2>4. q[i] \notin Done(i - 1)
    <3>1. \A k \in 1 .. i - 1 : k \in DOMAIN q /\ i \in DOMAIN q /\ k # i
      BY <1>1
    <3> QED
      BY <3>1 DEF IsInjective
  <2> HIDE DEF Done, n
  <2>5. DispatchOne(d, q[i]) \in Dispatch0 /\ DispatchFine(e, threads, Done(i), DispatchOne(d, q[i]))
    <3>1. /\ DispatchOne(d, q[i]) \in Dispatch0
          /\ DispatchFine(e, threads, Done(i - 1) \cup {q[i]}, DispatchOne(d, q[i]))
      BY <2>1, <2>2, <2>4, DispatchOneKeeps
    <3> QED
      BY <2>3, <3>1
  <2> QED
    BY <2>1, <2>5 DEF DispatchWith
<1> HIDE DEF I
<1>5. Dispatching!Folded(n, base, q) \in I[n]
  <2> HIDE DEF n, base
  <2> QED
    BY <1>1, <1>3, <1>4, Dispatching!FoldKeeps
<1>6. Dispatching!Folded(n, base, q) = Dispatched(q, ram, threads, e)
  BY DEF Dispatching!Folded, Dispatched, DispatchWith, FoldLeft, Dispatching!FoldLeft,
         MapThenFoldSet, Dispatching!MapThenFoldSet, Max, Dispatching!Max
<1> QED
  BY <1>1, <1>2, <1>5, <1>6 DEF I

\* The workunits of some jobs are taken out of the queue.
KeptUnless(S, kept, w) == IF JobOf[w] \in S THEN kept ELSE Append(kept, w)
Keeping == INSTANCE FoldProofs WITH op <- KeptUnless

LEMMA ReadyAfterKillIs ==
    ASSUME NEW S, readyWorkunits \in Seq(Workunits), IsInjective(readyWorkunits)
    PROVE  /\ ReadyAfterKill(S) \in Seq(Workunits) /\ IsInjective(ReadyAfterKill(S))
           /\ ToSet(ReadyAfterKill(S)) = {w \in ToSet(readyWorkunits) : JobOf[w] \notin S}
<1> DEFINE q == readyWorkunits
           n == Len(q)
           Done(i) == {q[k] : k \in 1 .. i}
           I == [i \in 0 .. n |-> {d \in Seq(Workunits) :
                   IsInjective(d) /\ ToSet(d) = {w \in Done(i) : JobOf[w] \notin S}}]
<1>1. /\ n \in Nat /\ DOMAIN q = 1 .. n /\ \A i \in 1 .. n : q[i] \in Workunits
      /\ IsInjective(q)
  OBVIOUS
<1>2. ToSet(q) = Done(n)
  BY <1>1 DEF ToSet
<1>3. <<>> \in I[0]
  <2>1. <<>> \in Seq(Workunits) /\ ToSet(<<>>) = {} /\ IsInjective(<<>>)
    BY DEF ToSet, IsInjective
  <2>2. Done(0) = {} /\ 0 \in 0 .. n
    BY <1>1
  <2> HIDE DEF n, q
  <2> QED
    BY <2>1, <2>2
<1> HIDE DEF q
<1>4. ASSUME NEW i \in 1 .. n, NEW d \in I[i - 1] PROVE KeptUnless(S, d, q[i]) \in I[i]
  <2>1. i - 1 \in 0 .. n /\ i \in 0 .. n /\ q[i] \in Workunits
    BY <1>1
  <2>2. d \in Seq(Workunits) /\ IsInjective(d) /\ ToSet(d) = {w \in Done(i - 1) : JobOf[w] \notin S}
    BY <2>1
  <2>3. Done(i) = Done(i - 1) \cup {q[i]}
    <3>1. 1 .. i = (1 .. i - 1) \cup {i}
      BY <1>1
    <3> QED
      BY <3>1
  <2>4. q[i] \notin Done(i - 1)
    <3>1. \A k \in 1 .. i - 1 : k \in DOMAIN q /\ i \in DOMAIN q /\ k # i
      BY <1>1
    <3> QED
      BY <1>1, <3>1 DEF IsInjective
  <2> HIDE DEF Done, n
  <2>5. /\ KeptUnless(S, d, q[i]) \in Seq(Workunits) /\ IsInjective(KeptUnless(S, d, q[i]))
        /\ ToSet(KeptUnless(S, d, q[i])) = {w \in Done(i) : JobOf[w] \notin S}
    <3>1. CASE JobOf[q[i]] \in S
      BY <2>2, <2>3, <3>1 DEF KeptUnless
    <3>2. CASE JobOf[q[i]] \notin S
      <4>1. /\ Append(d, q[i]) \in Seq(Workunits) /\ ToSet(Append(d, q[i])) = ToSet(d) \cup {q[i]}
            /\ IsInjective(Append(d, q[i]))
        BY <2>1, <2>2, <2>4, AppendNew
      <4> QED
        BY <2>2, <2>3, <3>2, <4>1 DEF KeptUnless
    <3> QED
      BY <3>1, <3>2
  <2> QED
    BY <2>1, <2>5
<1> HIDE DEF I
<1>5. Keeping!Folded(S, <<>>, q) \in I[n]
  <2> HIDE DEF n
  <2> QED
    BY <1>1, <1>3, <1>4, Keeping!FoldKeeps
<1>6. Keeping!Folded(S, <<>>, q) = ReadyAfterKill(S)
  BY DEF Keeping!Folded, ReadyAfterKill, KeptUnless, FoldLeft, Keeping!FoldLeft,
         MapThenFoldSet, Keeping!MapThenFoldSet, Max, Keeping!Max, q
<1> QED
  BY <1>1, <1>2, <1>5, <1>6 DEF I, q

\* A set in some order, and a queue it is added to.
LEMMA Ordered ==
    ASSUME NEW S \in SUBSET Workunits, NEW p \in SetToSeqs(S)
    PROVE  p \in Seq(Workunits) /\ IsInjective(p) /\ ToSet(p) = S
<1> DEFINE n == Cardinality(S)
<1>1. IsFiniteSet(S) /\ n \in Nat
  BY FS_Subset, FS_CardinalityType
<1>2. /\ p \in [1 .. n -> S] /\ \A i, j \in 1 .. n : i # j => p[i] # p[j]
  BY DEF SetToSeqs
<1>3. p \in Injection(1 .. n, S)
  BY <1>2 DEF Injection, IsInjective
<1>4. IsFiniteSet(1 .. n) /\ Cardinality(1 .. n) = n
  <2>1. 1 \in Int /\ n \in Int
    BY <1>1
  <2> HIDE DEF n
  <2>2. IsFiniteSet(1 .. n) /\ Cardinality(1 .. n) = IF 1 > n THEN 0 ELSE n - 1 + 1
    BY <2>1, FS_Interval
  <2> QED
    BY <1>1, <2>2
<1>5. p \in Surjection(1 .. n, S)
  BY <1>1, <1>3, <1>4, FS_Injection
<1>6. ToSet(p) = S
  BY <1>2, <1>5 DEF ToSet, Surjection
<1>7. p \in Seq(Workunits)
  <2> HIDE DEF n
  <2>1. p \in [1 .. n -> Workunits]
    BY <1>2
  <2> QED
    BY <1>1, <2>1
<1> QED
  BY <1>2, <1>6, <1>7 DEF IsInjective

LEMMA QueueWith ==
    ASSUME NEW q \in Seq(Workunits), NEW p \in Seq(Workunits), IsInjective(q), IsInjective(p),
           ToSet(q) \cap ToSet(p) = {}
    PROVE  /\ q \o p \in Seq(Workunits) /\ IsInjective(q \o p)
           /\ ToSet(q \o p) = ToSet(q) \cup ToSet(p)
<1> DEFINE s == q \o p
           a == Len(q)
           b == Len(p)
<1>1. /\ s \in Seq(Workunits) /\ DOMAIN s = 1 .. a + b /\ a \in Nat /\ b \in Nat
      /\ DOMAIN q = 1 .. a /\ DOMAIN p = 1 .. b
      /\ \A i \in 1 .. a + b : s[i] = IF i <= a THEN q[i] ELSE p[i - a]
  BY ConcatProperties
<1> HIDE DEF s, a, b
<1>2. ASSUME NEW i \in 1 .. a + b
      PROVE  \/ i \in DOMAIN q /\ s[i] = q[i]
             \/ i - a \in DOMAIN p /\ s[i] = p[i - a] /\ ~(i <= a)
  BY <1>1
<1>3. /\ \A i \in DOMAIN q : i \in 1 .. a + b /\ s[i] = q[i]
      /\ \A i \in DOMAIN p : i + a \in 1 .. a + b /\ s[i + a] = p[i]
  <2>1. ASSUME NEW i \in DOMAIN q PROVE i \in 1 .. a + b /\ s[i] = q[i]
    BY <1>1
  <2>2. ASSUME NEW i \in DOMAIN p PROVE i + a \in 1 .. a + b /\ s[i + a] = p[i]
    <3>1. i + a \in 1 .. a + b /\ ~(i + a <= a) /\ (i + a) - a = i
      BY <1>1
    <3> QED
      BY <1>1, <3>1
  <2> QED
    BY <2>1, <2>2
<1>4. ToSet(s) = ToSet(q) \cup ToSet(p)
  <2>1. ToSet(s) \subseteq ToSet(q) \cup ToSet(p)
    <3>1. ASSUME NEW i \in 1 .. a + b PROVE s[i] \in ToSet(q) \cup ToSet(p)
      BY <1>2 DEF ToSet
    <3>2. ASSUME NEW x \in ToSet(s) PROVE x \in ToSet(q) \cup ToSet(p)
      <4>1. PICK i \in DOMAIN s : x = s[i]
        BY DEF ToSet
      <4>2. i \in 1 .. a + b
        BY <1>1
      <4> QED
        BY <3>1, <4>1, <4>2
    <3> QED
      BY <3>2
  <2>2. ToSet(q) \cup ToSet(p) \subseteq ToSet(s)
    <3>1. DOMAIN s = 1 .. a + b
      BY <1>1
    <3> QED
      BY <1>3, <3>1 DEF ToSet
  <2> QED
    BY <2>1, <2>2
<1>5. ASSUME NEW i \in DOMAIN s, NEW k \in DOMAIN s, s[i] = s[k] PROVE i = k
  <2>1. i \in 1 .. a + b /\ k \in 1 .. a + b /\ i \in Int /\ k \in Int
    BY <1>1
  <2>2. CASE i \in DOMAIN q /\ k \in DOMAIN q
    BY <1>3, <1>5, <2>2 DEF IsInjective
  <2>3. CASE i \notin DOMAIN q /\ k \notin DOMAIN q
    <3>1. i - a \in DOMAIN p /\ s[i] = p[i - a] /\ k - a \in DOMAIN p /\ s[k] = p[k - a]
      BY <1>2, <2>1, <2>3
    <3>2. i - a = k - a
      BY <1>5, <3>1 DEF IsInjective
    <3> QED
      BY <1>1, <2>1, <3>2
  <2>4. ASSUME NEW x \in 1 .. a + b, NEW y \in 1 .. a + b, x \in DOMAIN q, y \notin DOMAIN q
        PROVE  s[x] # s[y]
    <3>1. s[x] \in ToSet(q)
      BY <1>3, <2>4 DEF ToSet
    <3>2. s[y] \in ToSet(p)
      BY <1>2, <2>4 DEF ToSet
    <3> QED
      BY <3>1, <3>2
  <2> QED
    BY <1>5, <2>1, <2>2, <2>3, <2>4
<1> QED
  BY <1>1, <1>4, <1>5 DEF IsInjective, s

-------------------------------------------------------------------------------
(* Executors that are forgotten *)

\* The cores of executors are the threads of their workunits.
LEMMA CoresAreThreads ==
    ASSUME ResourcesFine(executor, ramAvailabilities, runningThreadCounts),
           NEW h \in Hosts, NEW K \in SUBSET On(executor, h)
    PROVE  SumFunctionOnSet(CoresOf, K) = ThreadsOf(K, h)
<1> DEFINE f == [w \in Workunits |-> UsedCores(w, h)]
<1>1. \A w \in K : CoresOf[w] = f[w]
  BY DEF CoresOf, On, Executing, ResourcesFine
<1>2. Dispatching!IsFiniteSet(K)
  <2>1. K \subseteq Workunits
    BY DEF On
  <2>2. IsFiniteSet(K)
    BY <2>1, FS_Subset
  <2> QED
    BY <2>2 DEF IsFiniteSet, Dispatching!IsFiniteSet
<1> HIDE DEF f
<1>3. Dispatching!SumFunctionOnSet(CoresOf, K) = Dispatching!SumFunctionOnSet(f, K)
  BY <1>1, <1>2, Dispatching!SumAgrees
<1>4. SumFunctionOnSet(CoresOf, K) = SumFunctionOnSet(f, K)
  BY <1>3 DEF SumFunctionOnSet, Dispatching!SumFunctionOnSet, FoldFunctionOnSet,
     Dispatching!FoldFunctionOnSet, MapThenFoldSet, Dispatching!MapThenFoldSet
<1> QED
  BY <1>4 DEF ThreadsOf, f

\* What they used is given back.
LEMMA Forgotten ==
    ASSUME NEW S \in SUBSET Workunits, NEW R \in SUBSET Workunits,
           ResourcesFine(executor, ramAvailabilities, runningThreadCounts)
    PROVE  /\ ResourcesFine(ExecutorsAfter(S), RamAfter(S), ThreadsAfter(R))
           /\ S \cap Executing = R \cap Executing /\ ThreadsAccounted(executor, runningThreadCounts) =>
                ThreadsAccounted(ExecutorsAfter(S), ThreadsAfter(R))
<1> DEFINE e == ExecutorsAfter(S)
<1>1. /\ executor \in [Workunits -> Executor \cup {NoExecutor}]
      /\ ramAvailabilities \in [Hosts -> Nat] /\ runningThreadCounts \in [Hosts -> 0 .. WordSize - 1]
      /\ RamAccounted(executor, ramAvailabilities)
      /\ \A w \in Workunits : executor[w] # NoExecutor =>
            executor[w].cores = UsedCores(w, executor[w].host)
  BY DEF ResourcesFine
<1>2. /\ e \in [Workunits -> Executor \cup {NoExecutor}]
      /\ \A w \in Workunits : e[w] = IF w \in S THEN NoExecutor ELSE executor[w]
  BY <1>1 DEF ExecutorsAfter
<1> HIDE DEF e
<1>3. \A h : /\ ExecutingOn(h) = On(executor, h) /\ On(executor, h) \in SUBSET Workunits
             /\ On(e, h) = On(executor, h) \ (S \cap On(executor, h))
  BY <1>2 DEF On, ExecutingOn, Executing
<1>4. ASSUME NEW h \in Hosts
      PROVE  /\ RamAfter(S)[h] \in Nat
             /\ RamAfter(S)[h] = RamCapacity[h] - RamOf(On(e, h))
  <2> DEFINE T == On(executor, h)
             K == S \cap On(executor, h)
  <2>1. T \in SUBSET Workunits /\ K \in SUBSET T /\ T \ K \in SUBSET Workunits
        /\ K \in SUBSET Workunits
    BY <1>3
  <2>2. RamAfter(S)[h] = ramAvailabilities[h] + RamOf(K)
    BY <1>3 DEF RamAfter, RamOf
  <2>3. On(e, h) = T \ K
    BY <1>3
  <2>4. ramAvailabilities[h] \in Nat /\ RamCapacity[h] \in Nat
        /\ ramAvailabilities[h] = RamCapacity[h] - RamOf(T)
    BY <1>1 DEF RamAccounted
  <2> HIDE DEF T, K
  <2>5. RamOf(T) = RamOf(K) + RamOf(T \ K)
    BY <2>1, UseSplits
  <2>6. RamOf(K) \in Nat /\ RamOf(T \ K) \in Nat
    BY <2>1, UseIsSummed
  <2> QED
    BY <2>2, <2>3, <2>4, <2>5, <2>6
<1>5. RamAfter(S) \in [Hosts -> Nat] /\ RamAccounted(e, RamAfter(S))
  BY <1>4 DEF RamAfter, RamAccounted
<1>6. ASSUME NEW h \in Hosts, S \cap Executing = R \cap Executing,
             ThreadsAccounted(executor, runningThreadCounts)
      PROVE  ThreadsAfter(R)[h] = ThreadsOf(On(e, h), h)
  <2> DEFINE T == On(executor, h)
             K == S \cap On(executor, h)
  <2>1. T \in SUBSET Workunits /\ K \in SUBSET T /\ T \ K \in SUBSET Workunits
        /\ K \in SUBSET Workunits
    BY <1>3
  <2>2. R \cap ExecutingOn(h) = K
    BY <1>3, <1>6 DEF ExecutingOn
  <2>3. SumFunctionOnSet(CoresOf, K) = ThreadsOf(K, h)
    BY CoresAreThreads
  <2>4. ThreadsAfter(R)[h] = (runningThreadCounts[h] - ThreadsOf(K, h)) % WordSize
    BY <2>2, <2>3 DEF ThreadsAfter
  <2>5. runningThreadCounts[h] = ThreadsOf(T, h) /\ On(e, h) = T \ K
    BY <1>3, <1>6 DEF ThreadsAccounted
  <2> HIDE DEF T, K
  <2>6. ThreadsOf(T, h) = ThreadsOf(K, h) + ThreadsOf(T \ K, h)
    BY <2>1, UseSplits
  <2>7. ThreadsOf(K, h) \in Nat /\ ThreadsOf(T \ K, h) \in 0 .. WordSize - 1
    BY <2>1, UseIsSummed, WordFits
  <2>8. runningThreadCounts[h] - ThreadsOf(K, h) = ThreadsOf(T \ K, h)
    BY <2>5, <2>6, <2>7
  <2> QED
    BY <2>4, <2>5, <2>7, <2>8, WordFits
<1>7. ThreadsAfter(R) \in [Hosts -> 0 .. WordSize - 1]
  <2> SUFFICES ASSUME NEW h \in Hosts PROVE ThreadsAfter(R)[h] \in 0 .. WordSize - 1
    BY DEF ThreadsAfter
  <2> DEFINE K == R \cap ExecutingOn(h)
  <2>1. SumFunctionOnSet(CoresOf, K) \in Int
    <3>1. \A w \in K : CoresOf[w] \in Int
      BY <1>1 DEF CoresOf, ExecutingOn, Executing, UsedCores
    <3>2. Dispatching!IsFiniteSet(K)
      <4>1. IsFiniteSet(K)
        BY FS_Subset DEF ExecutingOn, Executing
      <4> QED
        BY <4>1 DEF IsFiniteSet, Dispatching!IsFiniteSet
    <3> HIDE DEF K
    <3>3. Dispatching!SumFunctionOnSet(CoresOf, K) \in Int
      BY <3>1, <3>2, Dispatching!SumType
    <3> QED
      BY <3>3 DEF SumFunctionOnSet, Dispatching!SumFunctionOnSet, FoldFunctionOnSet,
         Dispatching!FoldFunctionOnSet, MapThenFoldSet, Dispatching!MapThenFoldSet
  <2>2. ThreadsAfter(R)[h] = (runningThreadCounts[h] - SumFunctionOnSet(CoresOf, K)) % WordSize
    BY DEF ThreadsAfter
  <2> HIDE DEF K
  <2>3. runningThreadCounts[h] - SumFunctionOnSet(CoresOf, K) \in Int
    <3>1. runningThreadCounts[h] \in 0 .. WordSize - 1
      BY <1>1
    <3> QED
      BY <2>1, <3>1
  <2> QED
    BY <2>2, <2>3, WordFits
<1>8. \A w \in Workunits : e[w] # NoExecutor => e[w].cores = UsedCores(w, e[w].host)
  BY <1>1, <1>2
<1> QED
  BY <1>2, <1>5, <1>6, <1>7, <1>8 DEF ResourcesFine, ThreadsAccounted, e

-------------------------------------------------------------------------------
(* The mailbox *)

\* The messages of M in a mailbox: there is one, there is at most one.
At(mail, M) == {i \in DOMAIN mail : mail[i] \in M}
Has(mail, M) == At(mail, M) # {}
One(mail, M) == \A i, k \in At(mail, M) : i = k

\* Of an executor the service knows; of a submission, of a termination; of a host.
Known(w) == [type : {"Done", "Failed", "Crashed"}, workunit : {w}, known : {TRUE}]
FailedBy(w) == {[type |-> "Failed", workunit |-> w, known |-> TRUE]}
Submits(j) == {[type |-> "Submit", job |-> j]}
Terminates(j) == {[type |-> "Terminate", job |-> j]}
HostOns == {[type |-> "HostOn"]}

\* What a message that is added changes.
LEMMA HasAppend ==
    ASSUME NEW S, NEW mail \in Seq(S), NEW m \in S, NEW M
    PROVE  /\ Has(Append(mail, m), M) <=> Has(mail, M) \/ m \in M
           /\ One(mail, M) /\ ~(Has(mail, M) /\ m \in M) => One(Append(mail, m), M)
<1>1. /\ DOMAIN Append(mail, m) = DOMAIN mail \cup {Len(mail) + 1}
      /\ \A i \in DOMAIN mail : Append(mail, m)[i] = mail[i]
      /\ Append(mail, m)[Len(mail) + 1] = m
  OBVIOUS
<1>2. At(Append(mail, m), M) = At(mail, M) \cup (IF m \in M THEN {Len(mail) + 1} ELSE {})
  BY <1>1 DEF At
<1> QED
  BY <1>2 DEF Has, One

\* What is left when the first message is handled.
LEMMA HasTail ==
    ASSUME NEW S, NEW mail \in Seq(S), mail # <<>>, NEW M
    PROVE  /\ Has(mail, M) <=> Has(Tail(mail), M) \/ Head(mail) \in M
           /\ One(mail, M) => /\ One(Tail(mail), M)
                              /\ ~(Has(Tail(mail), M) /\ Head(mail) \in M)
<1>1. /\ \A i \in DOMAIN Tail(mail) : i \in Nat /\ i > 0 /\ i + 1 \in DOMAIN mail
                                      /\ Tail(mail)[i] = mail[i + 1]
      /\ \A i \in DOMAIN mail : i # 1 => i - 1 \in DOMAIN Tail(mail) /\ Tail(mail)[i - 1] = mail[i]
      /\ 1 \in DOMAIN mail /\ mail[1] = Head(mail)
  OBVIOUS
<1>2. /\ \A i \in At(Tail(mail), M) : i \in Nat /\ i > 0 /\ i + 1 \in At(mail, M)
      /\ \A i \in At(mail, M) : i # 1 => i - 1 \in At(Tail(mail), M)
      /\ 1 \in At(mail, M) <=> Head(mail) \in M
  BY <1>1 DEF At
<1>3. ASSUME One(mail, M), NEW i \in At(Tail(mail), M)
      PROVE  (\A k \in At(Tail(mail), M) : i = k) /\ 1 \notin At(mail, M)
  <2>1. i + 1 \in At(mail, M) /\ i \in Nat /\ i > 0
    BY <1>2
  <2>2. ASSUME NEW k \in At(Tail(mail), M) PROVE i = k
    <3>1. k \in Nat /\ i + 1 = k + 1
      BY <1>2, <1>3, <2>1 DEF One
    <3> QED
      BY <2>1, <3>1
  <2>3. ASSUME 1 \in At(mail, M) PROVE FALSE
    <3>1. i + 1 = 1
      BY <1>3, <2>1, <2>3 DEF One
    <3> QED
      BY <2>1, <3>1
  <2> QED
    BY <2>2, <2>3
<1> QED
  BY <1>2, <1>3 DEF Has, One

\* What these messages are about.
LEMMA AboutWorkunits ==
    ASSUME NEW w \in Workunits, NEW M \in {Known(w), FailedBy(w)}, NEW m \in M
    PROVE  m.known = TRUE /\ m.workunit = w /\ m.type \in {"Done", "Failed", "Crashed"}
<1>1. CASE M = Known(w)
  BY <1>1 DEF Known
<1>2. CASE M = FailedBy(w)
  BY <1>2 DEF FailedBy
<1> QED
  BY <1>1, <1>2

LEMMA AboutJobs ==
    ASSUME NEW j \in Jobs, NEW M \in {Submits(j), Terminates(j)}, NEW m \in M
    PROVE  m.job = j /\ m.type \in {"Submit", "Terminate"}
<1>1. CASE M = Submits(j)
  BY <1>1 DEF Submits
<1>2. CASE M = Terminates(j)
  BY <1>2 DEF Terminates
<1> QED
  BY <1>1, <1>2

\* What is left when the executors of some jobs are killed.
LEMMA MailIsMarked ==
    ASSUME NEW S, NEW box \in Seq(Message)
    PROVE  /\ MailboxAfterKill(box, S) \in Seq(Message)
           /\ \A w \in Workunits : \A M \in {Known(w), FailedBy(w)} :
                At(MailboxAfterKill(box, S), M) = IF JobOf[w] \in S THEN {} ELSE At(box, M)
           /\ \A j \in Jobs : \A M \in {Submits(j), Terminates(j)} :
                At(MailboxAfterKill(box, S), M) = At(box, M)
<1> DEFINE mark(m) == IF m.type \in {"Done", "Failed", "Crashed"} /\ JobOf[m.workunit] \in S
                      THEN [m EXCEPT !.known = FALSE] ELSE m
           late == {[type |-> "Crashed", workunit |-> w, known |-> FALSE] :
                       w \in {v \in Executing : JobOf[v] \in S /\ executor[v].state = "crashed"}}
           marked == [i \in DOMAIN box |-> mark(box[i])]
           more == SetToSeq(late)
           Late == [type : {"Crashed"}, workunit : Workunits, known : {FALSE}]
<1>1. MailboxAfterKill(box, S) = marked \o more
  BY DEF MailboxAfterKill
<1>2. \A i \in DOMAIN box : box[i] \in Message /\ DOMAIN box = 1 .. Len(box) /\ Len(box) \in Nat
  OBVIOUS
<1>3. ASSUME NEW m \in Message
      PROVE  /\ mark(m) \in Message
             /\ \A w \in Workunits : \A M \in {Known(w), FailedBy(w)} :
                  mark(m) \in M <=> JobOf[w] \notin S /\ m \in M
             /\ \A j \in Jobs : \A M \in {Submits(j), Terminates(j)} : mark(m) \in M <=> m \in M
  <2>1. CASE m.type \in {"Done", "Failed", "Crashed"} /\ JobOf[m.workunit] \in S
    <3>1. /\ mark(m) = [m EXCEPT !.known = FALSE]
          /\ m \in [type : {"Done", "Failed", "Crashed"}, workunit : Workunits, known : BOOLEAN]
      BY <2>1 DEF Message
    <3> HIDE DEF mark
    <3>2. mark(m) \in [type : {"Done", "Failed", "Crashed"}, workunit : Workunits, known : {FALSE}]
      BY <3>1
    <3>3. mark(m).type \in {"Done", "Failed", "Crashed"} /\ mark(m).known = FALSE
      BY <3>2
    <3>4. ASSUME NEW w \in Workunits, NEW M \in {Known(w), FailedBy(w)}
          PROVE  mark(m) \in M <=> JobOf[w] \notin S /\ m \in M
      <4>1. \A x \in M : x.known = TRUE /\ x.workunit = w /\ x.type \in {"Done", "Failed", "Crashed"}
        BY AboutWorkunits, Zenon
      <4>2. mark(m) \notin M
        BY <3>3, <4>1
      <4>3. m \in M => JobOf[w] \in S
        BY <2>1, <4>1
      <4> QED
        BY <4>2, <4>3
    <3>5. ASSUME NEW j \in Jobs, NEW M \in {Submits(j), Terminates(j)}
          PROVE  mark(m) \in M <=> m \in M
      <4>1. ASSUME NEW x \in M PROVE x.type \in {"Submit", "Terminate"}
        BY AboutJobs
      <4>2. mark(m) \notin M
        BY <3>3, <4>1
      <4>3. m \notin M
        BY <2>1, <4>1
      <4> QED
        BY <4>2, <4>3
    <3>6. mark(m) \in Message
      BY <3>2 DEF Message
    <3> QED
      BY <3>4, <3>5, <3>6
  <2>2. CASE ~(m.type \in {"Done", "Failed", "Crashed"} /\ JobOf[m.workunit] \in S)
    <3>1. mark(m) = m
      BY <2>2
    <3> HIDE DEF mark
    <3>2. ASSUME NEW w \in Workunits, NEW M \in {Known(w), FailedBy(w)}
          PROVE  m \in M => JobOf[w] \notin S
      <4>1. \A x \in M : x.known = TRUE /\ x.workunit = w /\ x.type \in {"Done", "Failed", "Crashed"}
        BY AboutWorkunits, Zenon
      <4> QED
        BY <2>2, <4>1
    <3> QED
      BY <3>1, <3>2
  <2> QED
    BY <2>1, <2>2
<1>4. more \in Seq(Late)
  <2>1. \A m \in late : /\ m \in Late /\ m.workunit \in Workunits
                         /\ m = [type |-> "Crashed", workunit |-> m.workunit, known |-> FALSE]
    <3>1. ASSUME NEW m \in late PROVE m \in Late /\ m.workunit \in Workunits
                         /\ m = [type |-> "Crashed", workunit |-> m.workunit, known |-> FALSE]
      <4>1. PICK w \in Workunits : m = [type |-> "Crashed", workunit |-> w, known |-> FALSE]
        BY DEF Executing
      <4> QED
        BY <4>1
    <3> HIDE DEF late, Late
    <3> QED
      BY <3>1
  <2>2. IsFiniteSet(late)
    <3> DEFINE of == [m \in late |-> m.workunit]
    <3> HIDE DEF late, Late
    <3>1. of \in [late -> Workunits] /\ \A m, n \in late : of[m] = of[n] => m = n
      <4>1. ASSUME NEW m \in late, NEW n \in late, of[m] = of[n] PROVE m = n
        <5>1. m.workunit = n.workunit
          BY <4>1
        <5>2. /\ m = [type |-> "Crashed", workunit |-> m.workunit, known |-> FALSE]
              /\ n = [type |-> "Crashed", workunit |-> n.workunit, known |-> FALSE]
          BY <2>1
        <5> QED
          BY <5>1, <5>2
      <4> QED
        BY <2>1, <4>1
    <3>2. of \in Injection(late, Workunits)
      BY <3>1 DEF Injection, IsInjective
    <3> QED
      BY <3>2, FS_Injection
  <2> HIDE DEF late, Late
  <2>3. Cardinality(late) \in Nat /\ ExistsBijection(1 .. Cardinality(late), late)
    BY <2>2, FS_CardinalityType
  <2>4. \E f \in [1 .. Cardinality(late) -> late] : IsInjective(f)
    BY <2>3 DEF ExistsBijection, Bijection, Injection, IsInjective
  <2>5. more \in [1 .. Cardinality(late) -> late]
    BY <2>4 DEF SetToSeq
  <2> HIDE DEF more
  <2>6. more \in [1 .. Cardinality(late) -> Late]
    BY <2>1, <2>5
  <2> QED
    BY <2>3, <2>6
<1>5. marked \in Seq(Message) /\ Len(marked) = Len(box)
  <2> HIDE DEF mark
  <2>1. marked \in [1 .. Len(box) -> Message] /\ Len(box) \in Nat
    BY <1>2, <1>3
  <2> QED
    BY <2>1
<1> HIDE DEF mark, more, late
<1>6. more \in Seq(Message)
  <2>1. \A m \in Late : m \in Message
    BY DEF Message
  <2> HIDE DEF Late
  <2>2. Len(more) \in Nat /\ more \in [1 .. Len(more) -> Late]
    BY <1>4
  <2>3. more \in [1 .. Len(more) -> Message]
    BY <2>1, <2>2
  <2> QED
    BY <2>2, <2>3
<1> DEFINE mail == marked \o more
<1>7. /\ mail \in Seq(Message)
      /\ \A i \in DOMAIN mail : \/ i \in DOMAIN box /\ mail[i] = mark(box[i])
                                \/ i \notin DOMAIN box /\ mail[i] \in Late
      /\ DOMAIN box \subseteq DOMAIN mail
  <2>1. /\ mail \in Seq(Message) /\ Len(mail) = Len(marked) + Len(more)
        /\ \A i \in 1 .. Len(marked) + Len(more) :
              mail[i] = IF i <= Len(marked) THEN marked[i] ELSE more[i - Len(marked)]
    BY <1>5, <1>6, ConcatProperties
  <2>5. \A i \in DOMAIN box : marked[i] = mark(box[i])
    OBVIOUS
  <2> HIDE DEF mail, marked, Late
  <2>2. /\ Len(marked) \in Nat /\ Len(more) \in Nat
        /\ \A i \in 1 .. Len(more) : more[i] \in Late
        /\ DOMAIN mail = 1 .. Len(mail) /\ DOMAIN box = 1 .. Len(box)
    BY <1>4, <1>5, <2>1
  <2>3. DOMAIN box \subseteq DOMAIN mail
    BY <1>5, <2>1, <2>2
  <2>4. ASSUME NEW i \in DOMAIN mail
        PROVE  \/ i \in DOMAIN box /\ mail[i] = mark(box[i])
               \/ i \notin DOMAIN box /\ mail[i] \in Late
    <3>1. CASE i <= Len(marked)
      BY <1>5, <2>1, <2>2, <2>5, <3>1
    <3>2. CASE ~(i <= Len(marked))
      <4>1. i - Len(marked) \in 1 .. Len(more) /\ i \notin DOMAIN box
        BY <1>5, <2>1, <2>2, <3>2
      <4> QED
        BY <2>1, <2>2, <3>2, <4>1
    <3> QED
      BY <3>1, <3>2
  <2> QED
    BY <2>1, <2>3, <2>4
<1> HIDE DEF mail
<1>8. ASSUME NEW w \in Workunits, NEW M \in {Known(w), FailedBy(w)}
      PROVE  At(mail, M) = IF JobOf[w] \in S THEN {} ELSE At(box, M)
  <2>1. \A i \in DOMAIN mail : mail[i] \in M <=> i \in DOMAIN box /\ JobOf[w] \notin S /\ box[i] \in M
    <3>1. (\A m \in M : m.known = TRUE) /\ (\A m \in Late : m.known = FALSE)
      BY AboutWorkunits
    <3>2. \A m \in Message : mark(m) \in M <=> JobOf[w] \notin S /\ m \in M
      BY <1>3
    <3> HIDE DEF Late
    <3> QED
      BY <1>2, <1>7, <3>1, <3>2
  <2> QED
    BY <1>7, <2>1 DEF At
<1>9. ASSUME NEW j \in Jobs, NEW M \in {Submits(j), Terminates(j)}
      PROVE  At(mail, M) = At(box, M)
  <2>1. \A i \in DOMAIN mail : mail[i] \in M <=> i \in DOMAIN box /\ box[i] \in M
    <3>1. (\A m \in M : m.type \in {"Submit", "Terminate"}) /\ (\A m \in Late : m.type = "Crashed")
      BY AboutJobs
    <3>2. \A m \in Message : mark(m) \in M <=> m \in M
      BY <1>3
    <3> HIDE DEF Late
    <3> QED
      BY <1>2, <1>7, <3>1, <3>2
  <2> QED
    BY <1>7, <2>1 DEF At
<1> QED
  BY <1>1, <1>7, <1>8, <1>9 DEF mail

-------------------------------------------------------------------------------
(* The invariant *)

\* An executor is through when its message is in the mailbox, and there is one.
MailFine(w, mail, e) ==
    /\ One(mail, Known(w))
    /\ Has(mail, FailedBy(w)) => w \in FailingWorkunits
    /\ e[w].state = "through" <=> Has(mail, Known(w))

\* A workunit the service holds waits for the parents that are not completed; without any,
\* it is in the queue, with an executor or completed. Others are nowhere.
PlaceFine(w, q, e, done, jobs, pending) ==
    /\ JobOf[w] \in jobs => pending[w] = Cardinality(ParentsOf[w] \ done)
    /\ w \in ToSet(q) \/ e[w] # NoExecutor \/ w \in done <=> JobOf[w] \in jobs /\ pending[w] = 0
    /\ w \in ToSet(q) => e[w] = NoExecutor /\ w \notin done
    /\ e[w] # NoExecutor => w \notin done

WorkunitFine(w) ==
    /\ MailFine(w, mailbox, executor)
    /\ ~up => executor[w] = NoExecutor
    /\ up => PlaceFine(w, readyWorkunits, executor, completed, allWorkunits, numPendingParents)

\* One call of the submitter is in the mailbox at a time, and a job of running_jobs has not
\* been notified of its end.
JobFine(j) ==
    /\ One(mailbox, Submits(j)) /\ One(mailbox, Terminates(j))
    /\ Has(mailbox, Submits(j)) => client[j] = "submitting"
    /\ Has(mailbox, Terminates(j)) => client[j] = "terminating"
    /\ client[j] = "terminating" => j \in Terminable
    /\ notified[j] <= 1
    /\ up => /\ client[j] \in {"new", "submitting", "through"} => j \notin allWorkunits
             /\ j \in allWorkunits => j \in runningJobs
             /\ j \in runningJobs \/ client[j] = "submitting" => notified[j] = 0

FitsNowhere == PossibleHosts(Head(readyWorkunits), [ram |-> ramAvailabilities, avoid |-> {}]) = {}

\* The first ready workunit fits nowhere, unless a host has just been turned on.
QueueFine ==
    /\ readyWorkunits \in Seq(Workunits) /\ IsInjective(readyWorkunits)
    /\ ~up => mailbox = <<>>
    /\ up /\ readyWorkunits # <<>> /\ ~Has(mailbox, HostOns) => FitsNowhere

StateTypes ==
    /\ isOn \subseteq Hosts
    /\ troubles \in 0 .. MaxTroubles
    /\ up \in BOOLEAN
    /\ mailbox \in Seq(Message)
    /\ numPendingParents \in [Workunits -> Nat]
    /\ allWorkunits \subseteq Jobs
    /\ completed \subseteq Workunits
    /\ runningJobs \subseteq Jobs
    /\ client \in [Jobs -> {"new", "submitting", "waiting", "terminating", "through"}]
    /\ notified \in [Jobs -> Nat]
    /\ aborted \in {"no", "executor not found", "null task"}

Resources == ResourcesFine(executor, ramAvailabilities, runningThreadCounts)

Inv == /\ StateTypes /\ Resources /\ QueueFine
       /\ \A w \in Workunits : WorkunitFine(w)
       /\ \A j \in Jobs : JobFine(j)

\* The threads are accounted for while the service is up, if no workunit without a task
\* belongs to a job that may fail or be terminated: nobody gives its threads back then.
ThreadsFine == up => ThreadsAccounted(executor, runningThreadCounts)
TasksAreKilled == \A w \in WithoutTask \cap Workunits :
    JobOf[w] \notin Terminable /\ WorkunitsOf(JobOf[w]) \cap FailingWorkunits = {}

\* What a dispatch does to the queue and the executors, from what the handling of a
\* message has left.
LEMMA AfterDispatch ==
    ASSUME NEW q \in Seq(Workunits), IsInjective(q), isOn \subseteq Hosts, isOn' = isOn,
           NEW ram, NEW threads, NEW e, ResourcesFine(e, ram, threads),
           NEW mail, NEW done, NEW jobs, NEW pending,
           \A w \in Workunits : MailFine(w, mail, e) /\ PlaceFine(w, q, e, done, jobs, pending),
           Dispatch(q, ram, threads, e)
    PROVE  /\ Resources'
           /\ readyWorkunits' \in Seq(Workunits) /\ IsInjective(readyWorkunits')
           /\ readyWorkunits' # <<>> => FitsNowhere'
           /\ \A w \in Workunits : /\ MailFine(w, mail, executor')
                                   /\ PlaceFine(w, readyWorkunits', executor', done, jobs, pending)
           /\ ThreadsAccounted(e, threads) => ThreadsAccounted(executor', runningThreadCounts')
<1> DEFINE d == Dispatched(q, ram, threads, e)
<1>1. /\ ramAvailabilities' = d.ram /\ runningThreadCounts' = d.threads
      /\ executor' = d.executor /\ readyWorkunits' = d.waiting
  BY DEF Dispatch
<1>2. \A w \in Workunits : w \in ToSet(q) => e[w] = NoExecutor
  BY DEF PlaceFine
<1>3. ToSet(q) \subseteq Workunits
  BY DEF ToSet
<1>4. d \in Dispatch0 /\ DispatchFine(e, threads, ToSet(q), d)
  BY <1>2, <1>3, DispatchKeeps
<1> HIDE DEF d
<1>5. /\ ResourcesFine(d.executor, d.ram, d.threads)
      /\ ThreadsAccounted(e, threads) => ThreadsAccounted(d.executor, d.threads)
      /\ IsInjective(d.waiting) /\ ToSet(d.waiting) \subseteq ToSet(q) /\ d.waiting \in Seq(Workunits)
      /\ d.waiting # <<>> => PossibleHosts(Head(d.waiting), [ram |-> d.ram, avoid |-> {}]) = {}
  BY <1>4 DEF Dispatch0, DispatchFine
<1>6. ASSUME NEW w \in Workunits
      PROVE  IF w \in ToSet(q) \ ToSet(d.waiting)
             THEN d.executor[w] # NoExecutor /\ d.executor[w].state = "running"
             ELSE d.executor[w] = e[w]
  BY <1>4 DEF DispatchFine
<1>7. Resources'
  BY <1>1, <1>5 DEF Resources, ResourcesFine, RamAccounted
<1>8. readyWorkunits' # <<>> => FitsNowhere'
  BY <1>1, <1>5 DEF FitsNowhere, PossibleHosts, Suitable, EnoughRam
<1>9. ASSUME NEW w \in Workunits
      PROVE  /\ MailFine(w, mail, d.executor)
             /\ PlaceFine(w, d.waiting, d.executor, done, jobs, pending)
  <2>1. MailFine(w, mail, e) /\ PlaceFine(w, q, e, done, jobs, pending)
    OBVIOUS
  <2>2. e[w] = NoExecutor => e[w].state = "none"
    BY DEF NoExecutor
  <2>3. e[w].state = "through" <=> d.executor[w].state = "through"
    BY <1>2, <1>6, <2>2
  <2> HIDE DEF NoExecutor
  <2>4. MailFine(w, mail, d.executor)
    BY <2>1, <2>3 DEF MailFine
  <2>5. PlaceFine(w, d.waiting, d.executor, done, jobs, pending)
    BY <1>5, <1>6, <2>1 DEF PlaceFine
  <2> QED
    BY <2>4, <2>5
<1> QED
  BY <1>1, <1>5, <1>7, <1>8, <1>9

-------------------------------------------------------------------------------
(* The steps of submitters, executors, detectors and hosts *)

LEMMA MessageKinds ==
    ASSUME NEW m \in Message
    PROVE  /\ \A w \in Workunits :
                /\ m \in Known(w) <=> /\ m.type \in {"Done", "Failed", "Crashed"}
                                      /\ m.workunit = w /\ m.known = TRUE
                /\ m \in FailedBy(w) <=> m.type = "Failed" /\ m.workunit = w /\ m.known = TRUE
           /\ \A j \in Jobs : /\ m \in Submits(j) <=> m.type = "Submit" /\ m.job = j
                              /\ m \in Terminates(j) <=> m.type = "Terminate" /\ m.job = j
           /\ m \in HostOns <=> m.type = "HostOn"
<1>1. CASE m \in [type : {"Submit", "Terminate"}, job : Jobs]
  <2>1. /\ m.type \in {"Submit", "Terminate"} /\ m = [type |-> m.type, job |-> m.job]
    BY <1>1
  <2>2. ASSUME NEW w \in Workunits PROVE m \notin Known(w) /\ m \notin FailedBy(w)
    <3>1. \A M \in {Known(w), FailedBy(w)} : \A x \in M : x.type \in {"Done", "Failed", "Crashed"}
      BY AboutWorkunits, Zenon
    <3> QED
      BY <2>1, <3>1
  <2>3. ASSUME NEW j \in Jobs
        PROVE  /\ m \in Submits(j) <=> m.type = "Submit" /\ m.job = j
               /\ m \in Terminates(j) <=> m.type = "Terminate" /\ m.job = j
    BY <2>1 DEF Submits, Terminates
  <2>4. m \notin HostOns
    BY <2>1 DEF HostOns
  <2> QED
    BY <2>1, <2>2, <2>3, <2>4
<1>2. CASE m \in [type : {"Done", "Failed", "Crashed"}, workunit : Workunits, known : BOOLEAN]
  <2>1. /\ m.type \in {"Done", "Failed", "Crashed"}
        /\ m = [type |-> m.type, workunit |-> m.workunit, known |-> m.known]
    BY <1>2
  <2>2. ASSUME NEW w \in Workunits
        PROVE  /\ m \in Known(w) <=> m.workunit = w /\ m.known = TRUE
               /\ m \in FailedBy(w) <=> m.type = "Failed" /\ m.workunit = w /\ m.known = TRUE
    <3>1. m \in Known(w) <=> m.workunit = w /\ m.known = TRUE
      BY <2>1 DEF Known
    <3>2. m \in FailedBy(w) <=> m.type = "Failed" /\ m.workunit = w /\ m.known = TRUE
      BY <2>1 DEF FailedBy
    <3> QED
      BY <3>1, <3>2
  <2>3. ASSUME NEW j \in Jobs PROVE m \notin Submits(j) /\ m \notin Terminates(j)
    BY <2>1 DEF Submits, Terminates
  <2>4. m \notin HostOns
    BY <2>1 DEF HostOns
  <2> QED
    BY <2>1, <2>2, <2>3, <2>4
<1>3. CASE m \in [type : {"HostOn", "HostOff", "Stop"}]
  <2>1. m.type \in {"HostOn", "HostOff", "Stop"} /\ m = [type |-> m.type]
    BY <1>3
  <2>2. ASSUME NEW w \in Workunits PROVE m \notin Known(w) /\ m \notin FailedBy(w)
    <3>1. \A M \in {Known(w), FailedBy(w)} : \A x \in M : x.type \in {"Done", "Failed", "Crashed"}
      BY AboutWorkunits, Zenon
    <3> QED
      BY <2>1, <3>1
  <2>3. ASSUME NEW j \in Jobs PROVE m \notin Submits(j) /\ m \notin Terminates(j)
    BY <2>1 DEF Submits, Terminates
  <2>4. m \in HostOns <=> m.type = "HostOn"
    BY <2>1 DEF HostOns
  <2> QED
    BY <2>1, <2>2, <2>3, <2>4
<1> QED
  BY <1>1, <1>2, <1>3 DEF Message

\* A message that is not about the end of w, or not about a call of j, changes nothing for it.
LEMMA OtherMessage ==
    ASSUME NEW m \in Message, mailbox \in Seq(Message), Send(m)
    PROVE  /\ mailbox' \in Seq(Message)
           /\ \A w \in Workunits : m \notin Known(w) =>
                \A M \in {Known(w), FailedBy(w)} : /\ Has(mailbox', M) <=> Has(mailbox, M)
                                                   /\ One(mailbox, M) => One(mailbox', M)
           /\ \A j \in Jobs : \A M \in {Submits(j), Terminates(j)} : m \notin M =>
                /\ Has(mailbox', M) <=> Has(mailbox, M)
                /\ One(mailbox, M) => One(mailbox', M)
           /\ Has(mailbox', HostOns) <=> Has(mailbox, HostOns) \/ m.type = "HostOn"
<1>1. mailbox' = Append(mailbox, m)
  BY DEF Send
<1>2. mailbox' \in Seq(Message)
  BY <1>1
<1>3. \A M : /\ Has(mailbox', M) <=> Has(mailbox, M) \/ m \in M
             /\ One(mailbox, M) /\ ~(Has(mailbox, M) /\ m \in M) => One(mailbox', M)
  BY <1>1, HasAppend
<1>4. \A w \in Workunits : m \notin Known(w) => m \notin FailedBy(w)
  BY MessageKinds
<1>5. m \in HostOns <=> m.type = "HostOn"
  BY MessageKinds
<1> QED
  BY <1>2, <1>3, <1>4, <1>5

LEMMA SubmitterKeeps ==
    ASSUME Inv, NEW j \in Jobs, Submit(j) \/ RequestTermination(j)
    PROVE  Inv' /\ (ThreadsFine => ThreadsFine')
<1>0. /\ StateTypes /\ Resources /\ QueueFine
      /\ \A w \in Workunits : WorkunitFine(w)
      /\ \A k \in Jobs : JobFine(k)
  BY DEF Inv
<1>1. PICK m \in [type : {"Submit", "Terminate"}, job : {j}] : Send(m) /\
           \/ Submit(j) /\ m = [type |-> "Submit", job |-> j]
           \/ RequestTermination(j) /\ m = [type |-> "Terminate", job |-> j]
  BY DEF Submit, RequestTermination
<1>2. m \in Message /\ m.job = j /\ m.type \in {"Submit", "Terminate"}
  BY DEF Message
<1>3. UNCHANGED <<isOn, up, ramAvailabilities, runningThreadCounts, readyWorkunits, executor,
                  numPendingParents, allWorkunits, completed, runningJobs, aborted>>
  BY DEF Submit, RequestTermination, resourceVars, jobVars
<1>4. up
  BY DEF Submit, RequestTermination
<1>5. mailbox \in Seq(Message)
  BY <1>0 DEF StateTypes
<1>6. /\ mailbox' \in Seq(Message)
      /\ Has(mailbox', HostOns) <=> Has(mailbox, HostOns)
  BY <1>1, <1>2, <1>5, OtherMessage
<1>7. StateTypes'
  <2>1. troubles' \in 0 .. MaxTroubles
    <3>1. troubles \in 0 .. MaxTroubles
      BY <1>0 DEF StateTypes
    <3> QED
      BY <3>1, BoundAssumption DEF Submit, RequestTermination, Trouble
  <2>2. /\ client' \in [Jobs -> {"new", "submitting", "waiting", "terminating", "through"}]
        /\ notified' \in [Jobs -> Nat]
    <3>1. /\ client \in [Jobs -> {"new", "submitting", "waiting", "terminating", "through"}]
          /\ notified \in [Jobs -> Nat]
      BY <1>0 DEF StateTypes
    <3>2. CASE Submit(j)
      BY <3>1, <3>2 DEF Submit
    <3>3. CASE RequestTermination(j)
      BY <3>1, <3>3 DEF RequestTermination
    <3> QED
      BY <3>2, <3>3
  <2> QED
    BY <1>0, <1>3, <1>6, <2>1, <2>2 DEF StateTypes
<1>8. Resources' /\ (ThreadsFine => ThreadsFine')
  BY <1>0, <1>3 DEF Resources, ResourcesFine, RamAccounted, ThreadsFine, ThreadsAccounted
<1>9. QueueFine'
  BY <1>0, <1>3, <1>4, <1>6 DEF QueueFine, FitsNowhere, PossibleHosts, Suitable, EnoughRam
<1>10. ASSUME NEW w \in Workunits PROVE WorkunitFine(w)'
  <2>1. \A M \in {Known(w), FailedBy(w)} : /\ Has(mailbox', M) <=> Has(mailbox, M)
                                           /\ One(mailbox, M) => One(mailbox', M)
    <3>1. m \notin Known(w)
      BY <1>2, MessageKinds
    <3> QED
      BY <1>1, <1>2, <1>5, <3>1, OtherMessage
  <2>2. WorkunitFine(w)
    BY <1>0
  <2>3. MailFine(w, mailbox, executor)'
    BY <1>3, <2>1, <2>2 DEF WorkunitFine, MailFine
  <2> QED
    BY <1>3, <2>2, <2>3 DEF WorkunitFine, PlaceFine
<1>11. ASSUME NEW k \in Jobs, k # j PROVE JobFine(k)'
  <2>1. m \notin Submits(k) /\ m \notin Terminates(k)
    BY <1>2, <1>11, MessageKinds
  <2>2. \A M \in {Submits(k), Terminates(k)} : /\ Has(mailbox', M) <=> Has(mailbox, M)
                                               /\ One(mailbox, M) => One(mailbox', M)
    BY <1>1, <1>2, <1>5, <2>1, OtherMessage
  <2>3. client'[k] = client[k] /\ notified'[k] = notified[k]
    BY <1>0, <1>11 DEF Submit, RequestTermination, StateTypes
  <2> QED
    BY <1>0, <1>3, <2>2, <2>3 DEF JobFine
<1>12. JobFine(j)'
  <2>1. \A M \in {Submits(j), Terminates(j)} :
           /\ Has(mailbox', M) <=> Has(mailbox, M) \/ m \in M
           /\ One(mailbox, M) /\ ~(Has(mailbox, M) /\ m \in M) => One(mailbox', M)
    BY <1>1, <1>2, <1>5, HasAppend DEF Send
  <2>2. JobFine(j)
    BY <1>0
  <2>3. CASE Submit(j) /\ m = [type |-> "Submit", job |-> j]
    <3>1. /\ client[j] \in {"new", "through"} /\ client'[j] = "submitting" /\ notified'[j] = 0
      BY <1>0, <2>3 DEF Submit, StateTypes
    <3>2. m \in Submits(j) /\ m \notin Terminates(j)
      <4>1. m.type = "Submit" /\ m.job = j
        BY <2>3
      <4>2. /\ m \in Submits(j) <=> m.type = "Submit" /\ m.job = j
            /\ m \in Terminates(j) <=> m.type = "Terminate" /\ m.job = j
        BY <1>2, MessageKinds
      <4> QED
        BY <4>1, <4>2
    <3> QED
      BY <1>3, <1>4, <2>1, <2>2, <3>1, <3>2 DEF JobFine
  <2>4. CASE RequestTermination(j) /\ m = [type |-> "Terminate", job |-> j]
    <3>1. /\ client[j] = "waiting" /\ client'[j] = "terminating" /\ notified'[j] = notified[j]
          /\ j \in Terminable
      BY <1>0, <2>4 DEF RequestTermination, StateTypes
    <3>2. m \notin Submits(j) /\ m \in Terminates(j)
      <4>1. m.type = "Terminate" /\ m.job = j
        BY <2>4
      <4>2. /\ m \in Submits(j) <=> m.type = "Submit" /\ m.job = j
            /\ m \in Terminates(j) <=> m.type = "Terminate" /\ m.job = j
        BY <1>2, MessageKinds
      <4> QED
        BY <4>1, <4>2
    <3> QED
      BY <1>3, <1>4, <2>1, <2>2, <3>1, <3>2 DEF JobFine
  <2> QED
    BY <1>1, <2>3, <2>4
<1> QED
  BY <1>7, <1>8, <1>9, <1>10, <1>11, <1>12 DEF Inv

LEMMA CallsStay ==
    ASSUME StateTypes, \A j \in Jobs : JobFine(j),
           NEW m \in Message, m.type \notin {"Submit", "Terminate"}, Send(m),
           UNCHANGED <<up, client, notified, allWorkunits, runningJobs>>
    PROVE  \A j \in Jobs : JobFine(j)'
<1> SUFFICES ASSUME NEW j \in Jobs PROVE JobFine(j)'
  OBVIOUS
<1>1. m \notin Submits(j) /\ m \notin Terminates(j)
  BY MessageKinds
<1>2. \A M \in {Submits(j), Terminates(j)} : /\ Has(mailbox', M) <=> Has(mailbox, M)
                                             /\ One(mailbox, M) => One(mailbox', M)
  <2>1. mailbox \in Seq(Message)
    BY DEF StateTypes
  <2>2. \A M \in {Submits(j), Terminates(j)} : m \notin M =>
           (Has(mailbox', M) <=> Has(mailbox, M)) /\ (One(mailbox, M) => One(mailbox', M))
    BY <2>1, OtherMessage
  <2> QED
    BY <1>1, <2>2
<1>3. JobFine(j)
  OBVIOUS
<1> QED
  BY <1>2, <1>3 DEF JobFine

\* Executors that only change state keep their cores.
LEMMA SameUse ==
    ASSUME Resources, UNCHANGED resourceVars,
           executor' \in [Workunits -> Executor \cup {NoExecutor}],
           \A w \in Workunits :
              \/ executor'[w] = executor[w]
              \/ /\ executor[w] # NoExecutor /\ executor'[w] # NoExecutor
                 /\ executor'[w].host = executor[w].host /\ executor'[w].cores = executor[w].cores
    PROVE  Resources' /\ (up' = up /\ ThreadsFine => ThreadsFine')
<1>1. \A h \in Hosts : On(executor', h) = On(executor, h)
  BY DEF On
<1>2. /\ ramAvailabilities' = ramAvailabilities /\ runningThreadCounts' = runningThreadCounts
      /\ ResourcesFine(executor, ramAvailabilities, runningThreadCounts)
  BY DEF resourceVars, Resources
<1>3. ResourcesFine(executor', ramAvailabilities, runningThreadCounts)
  <2>1. \A w \in Workunits :
           executor'[w] # NoExecutor => executor'[w].cores = UsedCores(w, executor'[w].host)
    BY <1>2 DEF ResourcesFine
  <2> QED
    BY <1>1, <1>2, <2>1 DEF ResourcesFine, RamAccounted
<1>4. Resources'
  BY <1>2, <1>3 DEF Resources, ResourcesFine, RamAccounted
<1> QED
  BY <1>1, <1>2, <1>4 DEF ThreadsFine, ThreadsAccounted

\* An executor is through when a message about its end is sent.
LEMMA EndIsSent ==
    ASSUME Inv, NEW w \in Workunits, NEW type \in {"Done", "Failed", "Crashed"},
           type = "Failed" => w \in FailingWorkunits,
           executor[w].state \in {"running", "crashed"},
           executor' = [executor EXCEPT ![w].state = "through"],
           Send([type |-> type, workunit |-> w, known |-> TRUE]),
           UNCHANGED <<isOn, troubles, up, resourceVars, readyWorkunits, jobVars, client,
                       notified, aborted>>
    PROVE  Inv' /\ (ThreadsFine => ThreadsFine')
<1> DEFINE m == [type |-> type, workunit |-> w, known |-> TRUE]
<1>0. /\ StateTypes /\ Resources /\ QueueFine
      /\ \A v \in Workunits : WorkunitFine(v)
      /\ \A k \in Jobs : JobFine(k)
  BY DEF Inv
<1>1. m \in Message /\ m.type = type /\ m.workunit = w /\ m.known = TRUE /\ Send(m)
  BY DEF Message
<1> HIDE DEF m
<1>2. UNCHANGED <<isOn, troubles, up, ramAvailabilities, runningThreadCounts, readyWorkunits,
                  numPendingParents, allWorkunits, completed, runningJobs, client, notified, aborted>>
  BY DEF resourceVars, jobVars
<1>3. executor \in [Workunits -> Executor \cup {NoExecutor}] /\ mailbox \in Seq(Message)
  BY <1>0 DEF Resources, ResourcesFine, StateTypes
<1>4. executor[w] # NoExecutor /\ executor[w] \in Executor
  BY <1>3 DEF NoExecutor
<1>5. /\ executor' \in [Workunits -> Executor \cup {NoExecutor}]
      /\ \A v \in Workunits : v # w => executor'[v] = executor[v]
      /\ executor'[w] # NoExecutor /\ executor'[w].state = "through"
      /\ executor'[w].host = executor[w].host /\ executor'[w].cores = executor[w].cores
  <2>1. executor'[w] = [executor[w] EXCEPT !.state = "through"]
    BY <1>3
  <2>2. /\ executor'[w] \in Executor /\ executor'[w].state = "through"
        /\ executor'[w].host = executor[w].host /\ executor'[w].cores = executor[w].cores
    BY <1>4, <2>1 DEF Executor
  <2> QED
    BY <1>3, <2>2 DEF NoExecutor
<1>6. Resources' /\ (ThreadsFine => ThreadsFine')
  BY <1>0, <1>2, <1>4, <1>5, SameUse DEF resourceVars
<1>7. /\ mailbox' \in Seq(Message) /\ m.type # "HostOn"
      /\ Has(mailbox', HostOns) <=> Has(mailbox, HostOns)
  BY <1>1, <1>3, OtherMessage
<1>8. StateTypes'
  BY <1>0, <1>2, <1>7 DEF StateTypes
<1>9. QueueFine'
  <2>1. up
    <3>1. WorkunitFine(w) /\ up \in BOOLEAN
      BY <1>0 DEF StateTypes
    <3> QED
      BY <1>4, <3>1 DEF WorkunitFine
  <2> QED
    BY <1>0, <1>2, <1>7, <2>1 DEF QueueFine, FitsNowhere, PossibleHosts, Suitable, EnoughRam
<1>10. ASSUME NEW v \in Workunits PROVE WorkunitFine(v)'
  <2>1. WorkunitFine(v)
    BY <1>0
  <2>2. MailFine(v, mailbox, executor)'
    <3>1. CASE v # w
      <4>1. m \notin Known(v)
        BY <1>1, <3>1, MessageKinds
      <4>2. \A M \in {Known(v), FailedBy(v)} : /\ Has(mailbox', M) <=> Has(mailbox, M)
                                               /\ One(mailbox, M) => One(mailbox', M)
        BY <1>1, <1>3, <4>1, OtherMessage
      <4> QED
        BY <1>5, <2>1, <3>1, <4>2 DEF WorkunitFine, MailFine
    <3>2. CASE v = w
      <4>1. m \in Known(w) /\ (m \in FailedBy(w) => type = "Failed")
        BY <1>1, MessageKinds
      <4>2. \A M \in {Known(w), FailedBy(w)} :
               /\ Has(mailbox', M) <=> Has(mailbox, M) \/ m \in M
               /\ One(mailbox, M) /\ ~(Has(mailbox, M) /\ m \in M) => One(mailbox', M)
        BY <1>1, <1>3, HasAppend DEF Send
      <4>3. MailFine(w, mailbox, executor) /\ executor[w].state # "through"
        BY <2>1, <3>2 DEF WorkunitFine
      <4> QED
        BY <1>5, <3>2, <4>1, <4>2, <4>3 DEF MailFine
    <3> QED
      BY <3>1, <3>2
  <2>3. executor'[v] = NoExecutor <=> executor[v] = NoExecutor
    BY <1>4, <1>5
  <2> QED
    BY <1>2, <2>1, <2>2, <2>3 DEF WorkunitFine, PlaceFine
<1>11. \A j \in Jobs : JobFine(j)'
  BY <1>0, <1>1, <1>2, CallsStay
<1> QED
  BY <1>6, <1>8, <1>9, <1>10, <1>11 DEF Inv

\* The service is asked to stop, a host is turned off or on.
LEMMA HostOrStopKeeps ==
    ASSUME Inv, RequestStop \/ \E h \in Hosts : HostTurnsOff(h) \/ HostTurnsOn(h)
    PROVE  Inv' /\ (ThreadsFine => ThreadsFine')
<1>0. /\ StateTypes /\ Resources /\ QueueFine
      /\ \A w \in Workunits : WorkunitFine(w)
      /\ \A k \in Jobs : JobFine(k)
  BY DEF Inv
<1>1. PICK m \in [type : {"HostOn", "HostOff", "Stop"}] :
           /\ Send(m)
           /\ \/ m.type = "Stop" /\ RequestStop
              \/ m.type = "HostOff" /\ \E h \in Hosts : HostTurnsOff(h)
              \/ m.type = "HostOn" /\ \E h \in Hosts : HostTurnsOn(h)
  <2>1. CASE RequestStop
    <3>1. Send([type |-> "Stop"])
      BY <2>1 DEF RequestStop
    <3> QED
      BY <2>1, <3>1
  <2>2. CASE \E h \in Hosts : HostTurnsOff(h)
    <3>1. Send([type |-> "HostOff"])
      BY <2>2 DEF HostTurnsOff
    <3> QED
      BY <2>2, <3>1
  <2>3. CASE \E h \in Hosts : HostTurnsOn(h)
    <3>1. Send([type |-> "HostOn"])
      BY <2>3 DEF HostTurnsOn
    <3> QED
      BY <2>3, <3>1
  <2> QED
    BY <2>1, <2>2, <2>3
<1>2. m \in Message
  BY DEF Message
<1>3. /\ UNCHANGED <<up, ramAvailabilities, runningThreadCounts, readyWorkunits, numPendingParents,
                     allWorkunits, completed, runningJobs, client, notified, aborted>>
      /\ up
  BY <1>1 DEF RequestStop, HostTurnsOff, HostTurnsOn, resourceVars, jobVars
<1>4. executor \in [Workunits -> Executor \cup {NoExecutor}] /\ mailbox \in Seq(Message)
      /\ isOn \subseteq Hosts
  BY <1>0 DEF Resources, ResourcesFine, StateTypes
<1>5. /\ executor' \in [Workunits -> Executor \cup {NoExecutor}]
      /\ \A w \in Workunits :
            \/ executor'[w] = executor[w]
            \/ /\ executor[w] # NoExecutor /\ executor[w].state = "running"
               /\ executor'[w] # NoExecutor /\ executor'[w].state = "crashed"
               /\ executor'[w].host = executor[w].host /\ executor'[w].cores = executor[w].cores
  <2>1. CASE executor' = executor
    BY <1>4, <2>1
  <2>2. CASE \E h \in Hosts : HostTurnsOff(h)
    <3>1. PICK h \in Hosts : executor' = [w \in Workunits |->
                IF w \in ExecutingOn(h) /\ executor[w].state = "running"
                THEN [executor[w] EXCEPT !.state = "crashed"] ELSE executor[w]]
      BY <2>2 DEF HostTurnsOff
    <3>2. ASSUME NEW w \in Workunits, executor'[w] # executor[w]
          PROVE  /\ executor[w] # NoExecutor /\ executor[w].state = "running"
                 /\ executor'[w] \in Executor /\ executor'[w].state = "crashed"
                 /\ executor'[w].host = executor[w].host /\ executor'[w].cores = executor[w].cores
      <4>1. /\ w \in ExecutingOn(h) /\ executor[w].state = "running"
            /\ executor'[w] = [executor[w] EXCEPT !.state = "crashed"]
        BY <3>1, <3>2
      <4>2. executor[w] # NoExecutor /\ executor[w] \in Executor
        BY <1>4, <4>1 DEF ExecutingOn, Executing
      <4> QED
        BY <4>1, <4>2 DEF Executor
    <3>3. \A x \in Executor : x # NoExecutor
      BY DEF Executor, NoExecutor
    <3> QED
      BY <1>4, <3>1, <3>2, <3>3
  <2> QED
    BY <1>1, <2>1, <2>2 DEF RequestStop, HostTurnsOn
<1>6. Resources' /\ (ThreadsFine => ThreadsFine')
  BY <1>0, <1>3, <1>5, SameUse DEF resourceVars
<1>7. /\ mailbox' \in Seq(Message)
      /\ Has(mailbox', HostOns) <=> Has(mailbox, HostOns) \/ m.type = "HostOn"
  BY <1>1, <1>2, <1>4, OtherMessage
<1>8. StateTypes'
  <2>1. troubles' \in 0 .. MaxTroubles
    <3>1. troubles \in 0 .. MaxTroubles
      BY <1>0 DEF StateTypes
    <3> QED
      BY <1>1, <3>1, BoundAssumption DEF RequestStop, HostTurnsOff, HostTurnsOn, Trouble
  <2>2. isOn' \subseteq Hosts
    BY <1>1, <1>4 DEF RequestStop, HostTurnsOff, HostTurnsOn
  <2> QED
    BY <1>0, <1>3, <1>7, <2>1, <2>2 DEF StateTypes
<1>9. QueueFine'
  <2>1. m.type # "HostOn" => isOn' \subseteq isOn
    BY <1>1 DEF RequestStop, HostTurnsOff
  <2>2. isOn' \subseteq isOn /\ FitsNowhere => FitsNowhere'
    BY <1>3 DEF FitsNowhere, PossibleHosts, Suitable, EnoughRam
  <2> QED
    BY <1>0, <1>3, <1>7, <2>1, <2>2 DEF QueueFine
<1>10. ASSUME NEW w \in Workunits PROVE WorkunitFine(w)'
  <2>1. WorkunitFine(w)
    BY <1>0
  <2>2. m \notin Known(w)
    BY <1>2, MessageKinds
  <2>3. \A M \in {Known(w), FailedBy(w)} : /\ Has(mailbox', M) <=> Has(mailbox, M)
                                           /\ One(mailbox, M) => One(mailbox', M)
    BY <1>1, <1>2, <1>4, <2>2, OtherMessage
  <2>4. MailFine(w, mailbox, executor)'
    BY <1>5, <2>1, <2>3 DEF WorkunitFine, MailFine
  <2> QED
    BY <1>3, <1>5, <2>1, <2>4 DEF WorkunitFine, PlaceFine
<1>11. \A j \in Jobs : JobFine(j)'
  BY <1>0, <1>1, <1>2, <1>3, CallsStay
<1> QED
  BY <1>6, <1>8, <1>9, <1>10, <1>11 DEF Inv

-------------------------------------------------------------------------------
(* The steps of the daemon *)

\* What is left to show of a step that ends with a dispatch.
LEMMA DispatchEnds ==
    ASSUME up, up' = up, isOn \subseteq Hosts, isOn' = isOn,
           StateTypes', \A j \in Jobs : JobFine(j)',
           NEW q \in Seq(Workunits), IsInjective(q),
           NEW ram, NEW threads, NEW e, ResourcesFine(e, ram, threads),
           \A w \in Workunits :
              /\ MailFine(w, mailbox', e)
              /\ PlaceFine(w, q, e, completed', allWorkunits', numPendingParents'),
           Dispatch(q, ram, threads, e)
    PROVE  Inv' /\ (ThreadsAccounted(e, threads) => ThreadsFine')
<1>1. /\ Resources'
      /\ readyWorkunits' \in Seq(Workunits) /\ IsInjective(readyWorkunits')
      /\ readyWorkunits' # <<>> => FitsNowhere'
      /\ \A w \in Workunits :
            /\ MailFine(w, mailbox', executor')
            /\ PlaceFine(w, readyWorkunits', executor', completed', allWorkunits', numPendingParents')
      /\ ThreadsAccounted(e, threads) => ThreadsAccounted(executor', runningThreadCounts')
  BY AfterDispatch
<1>2. QueueFine'
  BY <1>1 DEF QueueFine
<1>3. ASSUME NEW w \in Workunits PROVE WorkunitFine(w)'
  <2>1. MailFine(w, mailbox, executor)'
    BY <1>1 DEF MailFine
  <2>2. PlaceFine(w, readyWorkunits, executor, completed, allWorkunits, numPendingParents)'
    BY <1>1 DEF PlaceFine
  <2> QED
    BY <2>1, <2>2 DEF WorkunitFine
<1>4. ThreadsAccounted(e, threads) => ThreadsFine'
  BY <1>1 DEF ThreadsFine, ThreadsAccounted
<1> QED
  BY <1>1, <1>2, <1>3, <1>4 DEF Inv

\* When the first message is handled, calls are as before, without that one.
LEMMA CallIsHandled ==
    ASSUME Inv, mailbox # <<>>, NEW S,
           mailbox' = Tail(mailbox) \/ mailbox' = MailboxAfterKill(Tail(mailbox), S)
    PROVE  /\ mailbox' \in Seq(Message) /\ Head(mailbox) \in Message
           /\ \A j \in Jobs : \A M \in {Submits(j), Terminates(j)} :
                 /\ Has(mailbox', M) => Has(mailbox, M) /\ Head(mailbox) \notin M
                 /\ Head(mailbox) \in M => Has(mailbox, M)
                 /\ One(mailbox', M)
<1>1. mailbox \in Seq(Message) /\ \A j \in Jobs : JobFine(j)
  BY DEF Inv, StateTypes
<1>2. Tail(mailbox) \in Seq(Message) /\ Head(mailbox) \in Message
  BY <1>1
<1>3. MailboxAfterKill(Tail(mailbox), S) \in Seq(Message)
  BY <1>2, MailIsMarked
<1>4. ASSUME NEW j \in Jobs, NEW M \in {Submits(j), Terminates(j)}
      PROVE  /\ Has(mailbox', M) => Has(mailbox, M) /\ Head(mailbox) \notin M
             /\ Head(mailbox) \in M => Has(mailbox, M)
             /\ One(mailbox', M)
  <2>1. At(mailbox', M) = At(Tail(mailbox), M)
    <3> DEFINE box == Tail(mailbox)
    <3> HIDE DEF box
    <3>2. box \in Seq(Message)
      BY <1>2 DEF box
    <3>3. \A k \in Jobs : \A N \in {Submits(k), Terminates(k)} : At(MailboxAfterKill(box, S), N) = At(box, N)
      BY <3>2, MailIsMarked
    <3>1. At(MailboxAfterKill(Tail(mailbox), S), M) = At(Tail(mailbox), M)
      BY <3>3 DEF box
    <3> QED
      BY <3>1
  <2>2. One(mailbox, M)
    BY <1>1 DEF JobFine
  <2>3. /\ Has(mailbox, M) <=> Has(Tail(mailbox), M) \/ Head(mailbox) \in M
        /\ One(Tail(mailbox), M) /\ ~(Has(Tail(mailbox), M) /\ Head(mailbox) \in M)
    BY <1>1, <2>2, HasTail
  <2>4. (Has(mailbox', M) <=> Has(Tail(mailbox), M)) /\ (One(mailbox', M) <=> One(Tail(mailbox), M))
    BY <2>1 DEF Has, One
  <2> QED
    BY <2>3, <2>4
<1> QED
  BY <1>2, <1>3, <1>4

\* When the first message is handled, the executors that are through are those it is not
\* about, or, if their job is killed, none.
LEMMA EndIsHandled ==
    ASSUME Inv, mailbox # <<>>, NEW w \in Workunits
    PROVE  /\ Head(mailbox) \in Known(w) => executor[w] # NoExecutor
           /\ Head(mailbox) \in FailedBy(w) => w \in FailingWorkunits
           /\ \A e : e[w] = (IF Head(mailbox) \in Known(w) THEN NoExecutor ELSE executor[w])
                => MailFine(w, Tail(mailbox), e)
           /\ \A S, e :
                /\ e[w] = IF JobOf[w] \in S THEN NoExecutor ELSE executor[w]
                /\ Head(mailbox) \in Known(w) => JobOf[w] \in S
                => MailFine(w, MailboxAfterKill(Tail(mailbox), S), e)
<1>1. mailbox \in Seq(Message) /\ WorkunitFine(w)
  BY DEF Inv, StateTypes
<1>2. MailFine(w, mailbox, executor)
  BY <1>1 DEF WorkunitFine
<1>3. Tail(mailbox) \in Seq(Message) /\ Head(mailbox) \in Message
  BY <1>1
<1>4. /\ Has(mailbox, Known(w)) <=> Has(Tail(mailbox), Known(w)) \/ Head(mailbox) \in Known(w)
      /\ One(Tail(mailbox), Known(w))
      /\ ~(Has(Tail(mailbox), Known(w)) /\ Head(mailbox) \in Known(w))
  BY <1>1, <1>2, HasTail DEF MailFine
<1>5. Has(mailbox, FailedBy(w)) <=> Has(Tail(mailbox), FailedBy(w)) \/ Head(mailbox) \in FailedBy(w)
  BY <1>1, HasTail
<1>6. NoExecutor.state # "through"
  BY DEF NoExecutor
<1> HIDE DEF NoExecutor
<1>7. Head(mailbox) \in Known(w) => executor[w] # NoExecutor
  BY <1>2, <1>4, <1>6 DEF MailFine
<1>8. ASSUME NEW e, e[w] = (IF Head(mailbox) \in Known(w) THEN NoExecutor ELSE executor[w])
      PROVE  MailFine(w, Tail(mailbox), e)
  BY <1>2, <1>4, <1>5, <1>6, <1>8 DEF MailFine
<1>9. ASSUME NEW S, NEW e, e[w] = IF JobOf[w] \in S THEN NoExecutor ELSE executor[w],
             Head(mailbox) \in Known(w) => JobOf[w] \in S
      PROVE  MailFine(w, MailboxAfterKill(Tail(mailbox), S), e)
  <2>1. \A M \in {Known(w), FailedBy(w)} :
           At(MailboxAfterKill(Tail(mailbox), S), M) = IF JobOf[w] \in S THEN {} ELSE At(Tail(mailbox), M)
    <3> DEFINE box == Tail(mailbox)
    <3> HIDE DEF box
    <3>1. box \in Seq(Message)
      BY <1>3 DEF box
    <3>2. \A v \in Workunits : \A N \in {Known(v), FailedBy(v)} :
             At(MailboxAfterKill(box, S), N) = IF JobOf[v] \in S THEN {} ELSE At(box, N)
      BY <3>1, MailIsMarked
    <3> QED
      BY <3>2 DEF box
  <2>2. \A M \in {Known(w), FailedBy(w)} :
           /\ Has(MailboxAfterKill(Tail(mailbox), S), M) <=> JobOf[w] \notin S /\ Has(Tail(mailbox), M)
           /\ One(Tail(mailbox), M) => One(MailboxAfterKill(Tail(mailbox), S), M)
    BY <2>1 DEF Has, One
  <2> QED
    BY <1>2, <1>4, <1>5, <1>6, <1>9, <2>2 DEF MailFine
<1>10. Head(mailbox) \in FailedBy(w) => w \in FailingWorkunits
  BY <1>2, <1>5 DEF MailFine
<1> QED
  BY <1>7, <1>8, <1>9, <1>10

\* Messages that move no workunit.
LEMMA JustDispatches ==
    ASSUME Inv, up, mailbox # <<>>, Head(mailbox).type \notin {"Done", "Failed", "Crashed"},
           mailbox' = Tail(mailbox),
           Dispatch(readyWorkunits, ramAvailabilities, runningThreadCounts, executor),
           UNCHANGED <<isOn, troubles, up, jobVars, notified, aborted>>,
           client' \in [Jobs -> {"new", "submitting", "waiting", "terminating", "through"}],
           \A j \in Jobs : JobFine(j)'
    PROVE  Inv' /\ (ThreadsFine => ThreadsFine')
<1>0. /\ StateTypes /\ Resources /\ QueueFine
      /\ \A w \in Workunits : WorkunitFine(w)
  BY DEF Inv
<1>1. UNCHANGED <<numPendingParents, allWorkunits, completed, runningJobs>>
  BY DEF jobVars
<1>2. mailbox' \in Seq(Message) /\ Head(mailbox) \in Message
  BY CallIsHandled
<1>3. StateTypes'
  BY <1>0, <1>1, <1>2 DEF StateTypes
<1>4. ASSUME NEW w \in Workunits
      PROVE  /\ MailFine(w, mailbox', executor)
             /\ PlaceFine(w, readyWorkunits, executor, completed', allWorkunits', numPendingParents')
  <2>1. Head(mailbox) \notin Known(w)
    BY <1>2, MessageKinds
  <2>2. MailFine(w, mailbox', executor)
    BY <2>1, EndIsHandled
  <2>3. WorkunitFine(w)
    BY <1>0
  <2> QED
    BY <1>1, <2>2, <2>3 DEF WorkunitFine
<1>5. /\ readyWorkunits \in Seq(Workunits) /\ IsInjective(readyWorkunits) /\ isOn \subseteq Hosts
      /\ ResourcesFine(executor, ramAvailabilities, runningThreadCounts)
  BY <1>0 DEF QueueFine, Resources, StateTypes
<1>6. Inv' /\ (ThreadsAccounted(executor, runningThreadCounts) => ThreadsFine')
  BY <1>3, <1>4, <1>5, DispatchEnds
<1> QED
  BY <1>6 DEF ThreadsFine

LEMMA HostChangeKeeps ==
    ASSUME Inv, ProcessHostChange
    PROVE  Inv' /\ (ThreadsFine => ThreadsFine')
<1>1. /\ up /\ mailbox # <<>> /\ Head(mailbox).type \in {"HostOn", "HostOff"}
      /\ mailbox' = Tail(mailbox)
      /\ UNCHANGED <<isOn, troubles, up, jobVars, client, notified, aborted>>
      /\ Dispatch(readyWorkunits, ramAvailabilities, runningThreadCounts, executor)
  BY DEF ProcessHostChange, Received
<1>2. ASSUME NEW j \in Jobs PROVE JobFine(j)'
  <2>1. JobFine(j)
    BY DEF Inv
  <2>2. \A M \in {Submits(j), Terminates(j)} : /\ Has(mailbox', M) => Has(mailbox, M)
                                               /\ One(mailbox', M)
    BY <1>1, CallIsHandled
  <2> QED
    BY <1>1, <2>1, <2>2 DEF JobFine, jobVars
<1>3. client' \in [Jobs -> {"new", "submitting", "waiting", "terminating", "through"}]
  BY <1>1 DEF Inv, StateTypes
<1> QED
  BY <1>1, <1>2, <1>3, JustDispatches

\* A job is accepted: its workunits without parents are added to the queue.
LEMMA SubmissionKeeps ==
    ASSUME Inv, ProcessSubmitStandardJob
    PROVE  Inv' /\ (ThreadsFine => ThreadsFine')
<1>0. /\ StateTypes /\ Resources /\ QueueFine
      /\ \A w \in Workunits : WorkunitFine(w)
      /\ \A k \in Jobs : JobFine(k)
  BY DEF Inv
<1> DEFINE j == Head(mailbox).job
<1>1. /\ up /\ mailbox # <<>> /\ Head(mailbox).type = "Submit" /\ mailbox' = Tail(mailbox)
      /\ UNCHANGED <<isOn, troubles, up, completed, notified, aborted>>
  BY DEF ProcessSubmitStandardJob, Received
<1>2. mailbox' \in Seq(Message) /\ Head(mailbox) \in Message
  BY <1>1, CallIsHandled
<1>3. j \in Jobs /\ Head(mailbox) \in Submits(j)
  <2>1. j \in Jobs
    BY <1>1, <1>2 DEF Message
  <2> QED
    BY <1>1, <1>2, <2>1, MessageKinds
<1>4. /\ \A k \in Jobs : \A M \in {Submits(k), Terminates(k)} :
           (Has(mailbox', M) => Has(mailbox, M)) /\ One(mailbox', M)
      /\ Has(mailbox, Submits(j)) /\ ~Has(mailbox', Submits(j))
  BY <1>1, <1>3, CallIsHandled
<1>5. \/ /\ allWorkunits' = allWorkunits \cup {j}
         /\ runningJobs' = runningJobs \cup {j}
         /\ numPendingParents' = [w \in Workunits |->
               IF JobOf[w] = j THEN Cardinality(ParentsOf[w]) ELSE numPendingParents[w]]
         /\ client' = [client EXCEPT ![j] = "waiting"]
         /\ \E first \in SetToSeqs(InitiallyReady(j)) :
               Dispatch(readyWorkunits \o first, ramAvailabilities, runningThreadCounts, executor)
      \/ /\ client' = [client EXCEPT ![j] = "through"]
         /\ Dispatch(readyWorkunits, ramAvailabilities, runningThreadCounts, executor)
         /\ UNCHANGED <<allWorkunits, runningJobs, numPendingParents>>
  BY DEF ProcessSubmitStandardJob
<1> HIDE DEF j
<1>6. /\ client \in [Jobs -> {"new", "submitting", "waiting", "terminating", "through"}]
      /\ client[j] = "submitting" /\ j \notin allWorkunits /\ notified[j] = 0
  <2>1. JobFine(j)
    BY <1>0, <1>3
  <2> QED
    BY <1>0, <1>1, <1>3, <1>4, <2>1 DEF JobFine, StateTypes
<1>7. ASSUME NEW k \in Jobs, client'[j] \in {"waiting", "through"},
             client' = [client EXCEPT ![j] = client'[j]],
             \/ allWorkunits' = allWorkunits /\ runningJobs' = runningJobs
             \/ /\ allWorkunits' = allWorkunits \cup {j} /\ runningJobs' = runningJobs \cup {j}
                /\ client'[j] = "waiting"
      PROVE  JobFine(k)'
  <2>1. JobFine(k)
    BY <1>0
  <2>2. k # j => client'[k] = client[k]
    BY <1>6, <1>7
  <2>3. \A M \in {Submits(k), Terminates(k)} : (Has(mailbox', M) => Has(mailbox, M)) /\ One(mailbox', M)
    BY <1>4
  <2>4. k = j => ~Has(mailbox', Terminates(k)) /\ ~Has(mailbox', Submits(k))
    BY <1>4, <1>6, <2>1, <2>3 DEF JobFine
  <2> QED
    BY <1>1, <1>6, <1>7, <2>1, <2>2, <2>3, <2>4 DEF JobFine
<1>8. ASSUME NEW w \in Workunits PROVE MailFine(w, mailbox', executor)
  <2>1. Head(mailbox) \notin Known(w)
    BY <1>1, <1>2, MessageKinds
  <2> QED
    BY <1>1, <2>1, EndIsHandled
<1>9. CASE /\ client' = [client EXCEPT ![j] = "through"]
           /\ Dispatch(readyWorkunits, ramAvailabilities, runningThreadCounts, executor)
           /\ UNCHANGED <<allWorkunits, runningJobs, numPendingParents>>
  <2>1. client'[j] = "through" /\ client' = [client EXCEPT ![j] = client'[j]]
    BY <1>3, <1>6, <1>9
  <2>2. \A k \in Jobs : JobFine(k)'
    BY <1>7, <1>9, <2>1
  <2>3. client' \in [Jobs -> {"new", "submitting", "waiting", "terminating", "through"}]
    BY <1>3, <1>6, <1>9
  <2> QED
    BY <1>1, <1>9, <2>2, <2>3, JustDispatches DEF jobVars
<1>10. CASE /\ allWorkunits' = allWorkunits \cup {j}
            /\ runningJobs' = runningJobs \cup {j}
            /\ numPendingParents' = [w \in Workunits |->
                  IF JobOf[w] = j THEN Cardinality(ParentsOf[w]) ELSE numPendingParents[w]]
            /\ client' = [client EXCEPT ![j] = "waiting"]
            /\ \E first \in SetToSeqs(InitiallyReady(j)) :
                  Dispatch(readyWorkunits \o first, ramAvailabilities, runningThreadCounts, executor)
  <2>1. client'[j] = "waiting" /\ client' = [client EXCEPT ![j] = client'[j]]
    BY <1>3, <1>6, <1>10
  <2>2. \A k \in Jobs : JobFine(k)'
    BY <1>7, <1>10, <2>1
  <2>3. \A w \in Workunits : /\ IsFiniteSet(ParentsOf[w]) /\ Cardinality(ParentsOf[w]) \in Nat
                             /\ Cardinality(ParentsOf[w]) = 0 <=> ParentsOf[w] = {}
    BY FS_Subset, FS_CardinalityType, FS_EmptySet
  <2>4. StateTypes'
    <3>1. client' \in [Jobs -> {"new", "submitting", "waiting", "terminating", "through"}]
      BY <1>3, <1>6, <1>10
    <3>2. numPendingParents' \in [Workunits -> Nat]
      BY <1>0, <1>10, <2>3 DEF StateTypes
    <3> QED
      BY <1>0, <1>1, <1>2, <1>3, <1>10, <3>1, <3>2 DEF StateTypes
  <2>5. PICK first \in SetToSeqs(InitiallyReady(j)) :
           Dispatch(readyWorkunits \o first, ramAvailabilities, runningThreadCounts, executor)
    BY <1>10
  <2>6. InitiallyReady(j) \subseteq Workunits
    BY DEF InitiallyReady, WorkunitsOf
  <2>7. first \in Seq(Workunits) /\ IsInjective(first) /\ ToSet(first) = InitiallyReady(j)
    BY <2>6, Ordered
  <2>8. ASSUME NEW w \in Workunits, JobOf[w] = j
        PROVE  w \notin ToSet(readyWorkunits) /\ executor[w] = NoExecutor /\ w \notin completed
    <3>1. PlaceFine(w, readyWorkunits, executor, completed, allWorkunits, numPendingParents)
      BY <1>0, <1>1 DEF WorkunitFine
    <3> QED
      BY <1>6, <2>8, <3>1 DEF PlaceFine
  <2> DEFINE q == readyWorkunits \o first
  <2>9. readyWorkunits \in Seq(Workunits) /\ IsInjective(readyWorkunits)
    BY <1>0 DEF QueueFine
  <2>10. ToSet(readyWorkunits) \cap ToSet(first) = {}
    BY <2>7, <2>8 DEF InitiallyReady, WorkunitsOf
  <2>11. /\ q \in Seq(Workunits) /\ IsInjective(q)
         /\ ToSet(q) = ToSet(readyWorkunits) \cup InitiallyReady(j)
    BY <2>7, <2>9, <2>10, QueueWith
  <2> HIDE DEF q
  <2>12. ASSUME NEW w \in Workunits
         PROVE  PlaceFine(w, q, executor, completed', allWorkunits', numPendingParents')
    <3>1. PlaceFine(w, readyWorkunits, executor, completed, allWorkunits, numPendingParents)
      BY <1>0, <1>1 DEF WorkunitFine
    <3>2. CASE JobOf[w] = j
      <4>1. ParentsOf[w] \ completed = ParentsOf[w]
        BY <2>8, <3>2
      <4>2. w \in InitiallyReady(j) <=> ParentsOf[w] = {}
        BY <3>2 DEF InitiallyReady, WorkunitsOf
      <4>3. numPendingParents'[w] = Cardinality(ParentsOf[w]) /\ j \in allWorkunits' /\ completed' = completed
        BY <1>1, <1>10, <3>2
      <4> QED
        BY <2>3, <2>8, <2>11, <3>2, <4>1, <4>2, <4>3 DEF PlaceFine
    <3>3. CASE JobOf[w] # j
      <4>1. w \notin InitiallyReady(j)
        BY <3>3 DEF InitiallyReady, WorkunitsOf
      <4>2. /\ numPendingParents'[w] = numPendingParents[w] /\ completed' = completed
            /\ JobOf[w] \in allWorkunits' <=> JobOf[w] \in allWorkunits
        BY <1>1, <1>10, <3>3
      <4> QED
        BY <2>11, <3>1, <4>1, <4>2 DEF PlaceFine
    <3> QED
      BY <3>2, <3>3
  <2>13. /\ isOn \subseteq Hosts /\ Dispatch(q, ramAvailabilities, runningThreadCounts, executor)
         /\ ResourcesFine(executor, ramAvailabilities, runningThreadCounts)
    BY <1>0, <2>5 DEF Resources, StateTypes, q
  <2>14. Inv' /\ (ThreadsAccounted(executor, runningThreadCounts) => ThreadsFine')
    BY <1>1, <1>8, <2>2, <2>4, <2>11, <2>12, <2>13, DispatchEnds
  <2> QED
    BY <1>1, <2>14 DEF ThreadsFine
<1> QED
  BY <1>5, <1>9, <1>10

\* The message of an executor the service knows.
LEMMA EndIsKnown ==
    ASSUME Inv, up, mailbox # <<>>, Head(mailbox).type \in {"Done", "Failed", "Crashed"},
           Head(mailbox).known
    PROVE  LET w == Head(mailbox).workunit IN
           /\ w \in Workunits /\ Head(mailbox) \in Known(w) /\ executor[w] # NoExecutor
           /\ JobOf[w] \in allWorkunits /\ numPendingParents[w] = 0
           /\ w \notin ToSet(readyWorkunits) /\ w \notin completed
           /\ \A v \in Workunits : Head(mailbox) \in Known(v) => v = w
           /\ Head(mailbox).type = "Failed" => w \in FailingWorkunits
<1> DEFINE w == Head(mailbox).workunit
<1>1. mailbox \in Seq(Message) /\ \A v \in Workunits : WorkunitFine(v)
  BY DEF Inv, StateTypes
<1>2. Head(mailbox) \in Message
  BY <1>1
<1>3. /\ w \in Workunits /\ Head(mailbox).known = TRUE
  BY <1>2 DEF Message
<1> HIDE DEF w
<1>4. /\ Head(mailbox) \in Known(w)
      /\ Head(mailbox).type = "Failed" => Head(mailbox) \in FailedBy(w)
      /\ \A v \in Workunits : Head(mailbox) \in Known(v) => v = w
  BY <1>2, <1>3, MessageKinds DEF w
<1>5. executor[w] # NoExecutor /\ (Head(mailbox).type = "Failed" => w \in FailingWorkunits)
  BY <1>3, <1>4, EndIsHandled
<1>6. PlaceFine(w, readyWorkunits, executor, completed, allWorkunits, numPendingParents)
  BY <1>1, <1>3 DEF WorkunitFine
<1> QED
  BY <1>3, <1>4, <1>5, <1>6 DEF PlaceFine, w

\* What is left of the resources when the executors in S are forgotten.
LEMMA ForgottenFine ==
    ASSUME Inv, up, NEW S \in SUBSET Workunits, NEW R \in SUBSET Workunits
    PROVE  /\ ResourcesFine(ExecutorsAfter(S), RamAfter(S), ThreadsAfter(R))
           /\ S \cap Executing = R \cap Executing /\ ThreadsFine =>
                ThreadsAccounted(ExecutorsAfter(S), ThreadsAfter(R))
BY Forgotten DEF Inv, Resources, ThreadsFine

\* A workunit whose host was turned off is put back in the queue.
LEMMA CrashKeeps ==
    ASSUME Inv, ProcessWorkunitExecutorCrash
    PROVE  Inv' /\ (ThreadsFine => ThreadsFine')
<1>0. /\ StateTypes /\ Resources /\ QueueFine
      /\ \A w \in Workunits : WorkunitFine(w)
      /\ \A k \in Jobs : JobFine(k)
  BY DEF Inv
<1> DEFINE w == Head(mailbox).workunit
<1>1. /\ up /\ mailbox # <<>> /\ Head(mailbox).type = "Crashed" /\ Head(mailbox).known
      /\ UNCHANGED <<isOn, troubles, up, jobVars, client, notified>>
  BY DEF ProcessWorkunitExecutorCrash, Received
<1>2. /\ w \in Workunits /\ Head(mailbox) \in Known(w) /\ executor[w] # NoExecutor
      /\ JobOf[w] \in allWorkunits /\ numPendingParents[w] = 0
      /\ w \notin ToSet(readyWorkunits) /\ w \notin completed
      /\ \A v \in Workunits : Head(mailbox) \in Known(v) => v = w
  BY <1>1, EndIsKnown
<1>3. \/ /\ aborted' = "null task"
         /\ UNCHANGED <<mailbox, resourceVars, readyWorkunits, executor>>
      \/ /\ mailbox' = Tail(mailbox) /\ aborted' = aborted
         /\ Dispatch(Append(readyWorkunits, w), RamAfter({w}), ThreadsAfter({w}), ExecutorsAfter({w}))
  BY <1>1 DEF ProcessWorkunitExecutorCrash
<1> HIDE DEF w
<1>4. CASE /\ aborted' = "null task"
           /\ UNCHANGED <<mailbox, resourceVars, readyWorkunits, executor>>
  <2>1. UNCHANGED <<isOn, troubles, up, jobVars, client, notified,
                    mailbox, resourceVars, readyWorkunits, executor>>
    BY <1>1, <1>4
  <2>2. StateTypes' /\ Resources' /\ QueueFine' /\ (ThreadsFine => ThreadsFine')
    <3>1. StateTypes'
      BY <1>0, <1>4, <2>1 DEF StateTypes, jobVars, resourceVars
    <3>2. Resources' /\ (ThreadsFine => ThreadsFine')
      BY <1>0, <2>1 DEF Resources, ResourcesFine, RamAccounted, ThreadsFine, ThreadsAccounted,
         resourceVars
    <3>3. QueueFine'
      BY <1>0, <2>1 DEF QueueFine, FitsNowhere, PossibleHosts, Suitable, EnoughRam, jobVars,
         resourceVars
    <3> QED
      BY <3>1, <3>2, <3>3
  <2>3. \A v \in Workunits : WorkunitFine(v)'
    BY <1>0, <2>1 DEF WorkunitFine, MailFine, PlaceFine, jobVars
  <2>4. \A j \in Jobs : JobFine(j)'
    BY <1>0, <2>1 DEF JobFine, jobVars
  <2> QED
    BY <2>2, <2>3, <2>4 DEF Inv
<1>5. CASE /\ mailbox' = Tail(mailbox) /\ aborted' = aborted
           /\ Dispatch(Append(readyWorkunits, w), RamAfter({w}), ThreadsAfter({w}), ExecutorsAfter({w}))
  <2> DEFINE q == Append(readyWorkunits, w)
             e == ExecutorsAfter({w})
  <2>1. /\ mailbox' \in Seq(Message)
        /\ \A k \in Jobs : \A M \in {Submits(k), Terminates(k)} :
              (Has(mailbox', M) => Has(mailbox, M)) /\ One(mailbox', M)
    BY <1>1, <1>5, CallIsHandled
  <2>2. StateTypes'
    BY <1>0, <1>1, <1>5, <2>1 DEF StateTypes, jobVars
  <2>3. \A k \in Jobs : JobFine(k)'
    BY <1>0, <1>1, <2>1 DEF JobFine, jobVars
  <2>4. /\ q \in Seq(Workunits) /\ IsInjective(q) /\ ToSet(q) = ToSet(readyWorkunits) \cup {w}
    BY <1>0, <1>2, AppendNew DEF QueueFine
  <2>5. /\ ResourcesFine(e, RamAfter({w}), ThreadsAfter({w}))
        /\ ThreadsFine => ThreadsAccounted(e, ThreadsAfter({w}))
    BY <1>1, <1>2, ForgottenFine
  <2>6. \A v \in Workunits : e[v] = IF v = w THEN NoExecutor ELSE executor[v]
    BY DEF ExecutorsAfter
  <2> HIDE DEF q, e
  <2>7. ASSUME NEW v \in Workunits
        PROVE  /\ MailFine(v, mailbox', e)
               /\ PlaceFine(v, q, e, completed', allWorkunits', numPendingParents')
    <3>1. e[v] = IF Head(mailbox) \in Known(v) THEN NoExecutor ELSE executor[v]
      BY <1>2, <2>6
    <3>2. MailFine(v, mailbox', e)
      BY <1>1, <1>5, <3>1, EndIsHandled
    <3>3. PlaceFine(v, readyWorkunits, executor, completed, allWorkunits, numPendingParents)
      BY <1>0, <1>1 DEF WorkunitFine
    <3>4. PlaceFine(v, q, e, completed', allWorkunits', numPendingParents')
      <4>1. UNCHANGED <<completed, allWorkunits, numPendingParents>>
        BY <1>1 DEF jobVars
      <4>2. CASE v = w
        BY <1>2, <2>4, <2>6, <3>3, <4>1, <4>2 DEF PlaceFine
      <4>3. CASE v # w
        BY <2>4, <2>6, <3>3, <4>1, <4>3 DEF PlaceFine
      <4> QED
        BY <4>2, <4>3
    <3> QED
      BY <3>2, <3>4
  <2>8. isOn \subseteq Hosts /\ Dispatch(q, RamAfter({w}), ThreadsAfter({w}), e)
    BY <1>0, <1>5 DEF StateTypes, q, e
  <2>9. Inv' /\ (ThreadsAccounted(e, ThreadsAfter({w})) => ThreadsFine')
    BY <1>1, <2>2, <2>3, <2>4, <2>5, <2>7, <2>8, DispatchEnds
  <2> QED
    BY <2>5, <2>9
<1> QED
  BY <1>3, <1>4, <1>5

\* A workunit is completed: those that waited for it only are added to the queue, and its
\* job ends with its last workunit.
LEMMA CompletionKeeps ==
    ASSUME Inv, ProcessWorkunitExecutorCompletion
    PROVE  Inv' /\ (ThreadsFine => ThreadsFine')
<1>0. /\ StateTypes /\ Resources /\ QueueFine
      /\ \A v \in Workunits : WorkunitFine(v)
      /\ \A k \in Jobs : JobFine(k)
  BY DEF Inv
<1> DEFINE w == Head(mailbox).workunit
           j == JobOf[w]
           last == WorkunitsOf(j) \subseteq completed \cup {w}
           e == ExecutorsAfter({w})
<1>1. /\ up /\ mailbox # <<>> /\ Head(mailbox).type = "Done" /\ Head(mailbox).known
      /\ mailbox' = Tail(mailbox)
      /\ UNCHANGED <<isOn, troubles, up, aborted>>
  BY DEF ProcessWorkunitExecutorCompletion, Received
<1>2. /\ w \in Workunits /\ Head(mailbox) \in Known(w) /\ executor[w] # NoExecutor
      /\ j \in allWorkunits /\ numPendingParents[w] = 0
      /\ w \notin ToSet(readyWorkunits) /\ w \notin completed
      /\ \A v \in Workunits : Head(mailbox) \in Known(v) => v = w
  BY <1>1, EndIsKnown
<1>3. /\ numPendingParents' = [c \in Workunits |->
            IF c \in ChildrenOf(w) THEN numPendingParents[c] - 1 ELSE numPendingParents[c]]
      /\ \E freed \in SetToSeqs(Released(w)) :
            Dispatch(readyWorkunits \o freed, RamAfter({w}), ThreadsAfter({w}), e)
  BY DEF ProcessWorkunitExecutorCompletion
<1>4. IF last
      THEN /\ completed' = completed \ WorkunitsOf(j)
           /\ allWorkunits' = allWorkunits \ {j}
           /\ runningJobs' = runningJobs \ {j}
           /\ NotifyAll({j})
      ELSE /\ completed' = completed \cup {w}
           /\ UNCHANGED <<allWorkunits, runningJobs, client, notified>>
  BY DEF ProcessWorkunitExecutorCompletion
<1>5. \A v \in Workunits : e[v] = IF v = w THEN NoExecutor ELSE executor[v]
  BY DEF ExecutorsAfter
<1>6. /\ ResourcesFine(e, RamAfter({w}), ThreadsAfter({w}))
      /\ ThreadsFine => ThreadsAccounted(e, ThreadsAfter({w}))
  BY <1>1, <1>2, ForgottenFine
<1> HIDE DEF w, last, e
<1>7. j \in Jobs /\ \A v \in Workunits : v \in WorkunitsOf(j) <=> JobOf[v] = j
  BY <1>2 DEF WorkunitsOf
<1>8. ASSUME NEW v \in Workunits
      PROVE  PlaceFine(v, readyWorkunits, executor, completed, allWorkunits, numPendingParents)
  BY <1>0, <1>1 DEF WorkunitFine
<1>9. ASSUME NEW v \in Workunits
      PROVE  /\ IsFiniteSet(ParentsOf[v] \ completed) /\ numPendingParents[v] \in Nat
             /\ ParentsOf[v] \subseteq Workunits
             /\ v \in ChildrenOf(w) <=> w \in ParentsOf[v]
  <2>1. ParentsOf[v] \ completed \subseteq Workunits /\ ParentsOf[v] \subseteq Workunits
    OBVIOUS
  <2> QED
    BY <1>0, <2>1, FS_Subset DEF StateTypes, ChildrenOf
\* A child waits for it.
<1>10. ASSUME NEW v \in ChildrenOf(w)
       PROVE  /\ v \in Workunits /\ v # w /\ JobOf[v] = j
              /\ numPendingParents[v] > 0
              /\ numPendingParents[v] - 1 = Cardinality(ParentsOf[v] \ (completed \cup {w}))
              /\ v \notin ToSet(readyWorkunits) /\ executor[v] = NoExecutor /\ v \notin completed
  <2>1. v \in Workunits /\ w \in ParentsOf[v]
    BY DEF ChildrenOf
  <2>2. JobOf[v] = j
    BY <1>2, <2>1
  <2>3. numPendingParents[v] = Cardinality(ParentsOf[v] \ completed)
    BY <1>2, <1>8, <2>1, <2>2 DEF PlaceFine
  <2>4. w \in ParentsOf[v] \ completed
    BY <1>2, <2>1
  <2>5. /\ Cardinality((ParentsOf[v] \ completed) \ {w}) = Cardinality(ParentsOf[v] \ completed) - 1
        /\ Cardinality((ParentsOf[v] \ completed) \ {w}) \in Nat
    <3>1. IsFiniteSet(ParentsOf[v] \ completed)
      BY <1>9, <2>1
    <3>2. IsFiniteSet((ParentsOf[v] \ completed) \ {w})
      BY <3>1, FS_Subset
    <3> QED
      BY <2>4, <3>1, <3>2, FS_RemoveElement, FS_CardinalityType
  <2>6. (ParentsOf[v] \ completed) \ {w} = ParentsOf[v] \ (completed \cup {w})
    OBVIOUS
  <2>7. numPendingParents[v] \in Nat /\ numPendingParents[v] > 0
    <3>1. numPendingParents[v] \in Nat
      BY <1>9, <2>1
    <3> QED
      BY <2>3, <2>5, <3>1
  <2>8. v \notin ToSet(readyWorkunits) /\ executor[v] = NoExecutor /\ v \notin completed
    <3>1. PlaceFine(v, readyWorkunits, executor, completed, allWorkunits, numPendingParents)
      BY <1>8, <2>1
    <3> QED
      BY <2>7, <3>1 DEF PlaceFine
  <2>9. v # w
    BY <1>2, <2>7
  <2> QED
    BY <2>1, <2>2, <2>3, <2>5, <2>6, <2>7, <2>8, <2>9
<1>11. last => ChildrenOf(w) = {}
  <2>1. ASSUME NEW v \in ChildrenOf(w), last PROVE FALSE
    <3>1. v \in Workunits /\ v # w /\ JobOf[v] = j /\ v \notin completed
      BY <1>10
    <3> QED
      BY <1>7, <2>1, <3>1 DEF last
  <2> QED
    BY <2>1
<1>12. /\ numPendingParents' \in [Workunits -> Nat]
       /\ \A v \in Workunits : numPendingParents'[v] =
             IF v \in ChildrenOf(w) THEN numPendingParents[v] - 1 ELSE numPendingParents[v]
  <2>1. \A v \in Workunits : numPendingParents[v] \in Nat
    BY <1>9
  <2>2. \A v \in ChildrenOf(w) : numPendingParents[v] > 0
    BY <1>10
  <2>3. \A v \in Workunits :
           (IF v \in ChildrenOf(w) THEN numPendingParents[v] - 1 ELSE numPendingParents[v]) \in Nat
    BY <2>1, <2>2
  <2> QED
    BY <1>3, <2>3
\* The queue.
<1>13. PICK freed \in SetToSeqs(Released(w)) :
          Dispatch(readyWorkunits \o freed, RamAfter({w}), ThreadsAfter({w}), e)
  BY <1>3
<1>14. /\ Released(w) \subseteq ChildrenOf(w) /\ Released(w) \subseteq Workunits
       /\ \A v \in ChildrenOf(w) : v \in Released(w) <=> numPendingParents[v] = 1
  BY DEF Released, ChildrenOf
<1>15. freed \in Seq(Workunits) /\ IsInjective(freed) /\ ToSet(freed) = Released(w)
  BY <1>14, Ordered
<1> DEFINE q == readyWorkunits \o freed
<1>16. q \in Seq(Workunits) /\ IsInjective(q) /\ ToSet(q) = ToSet(readyWorkunits) \cup Released(w)
  <2>1. readyWorkunits \in Seq(Workunits) /\ IsInjective(readyWorkunits)
    BY <1>0 DEF QueueFine
  <2>2. ToSet(readyWorkunits) \cap ToSet(freed) = {}
    BY <1>10, <1>14, <1>15
  <2> QED
    BY <1>15, <2>1, <2>2, QueueWith
<1>17. isOn \subseteq Hosts /\ Dispatch(q, RamAfter({w}), ThreadsAfter({w}), e)
  BY <1>0, <1>13 DEF StateTypes
<1> HIDE DEF q
\* The workunits.
<1>18. ASSUME NEW v \in Workunits PROVE MailFine(v, mailbox', e)
  <2>1. e[v] = IF Head(mailbox) \in Known(v) THEN NoExecutor ELSE executor[v]
    BY <1>2, <1>5
  <2> QED
    BY <1>1, <2>1, EndIsHandled
<1>19. ASSUME NEW v \in Workunits
       PROVE  PlaceFine(v, q, e, completed', allWorkunits', numPendingParents')
  <2>1. PlaceFine(v, readyWorkunits, executor, completed, allWorkunits, numPendingParents)
    BY <1>8
  <2>2. CASE last
    <3>1. /\ numPendingParents'[v] = numPendingParents[v] /\ ToSet(q) = ToSet(readyWorkunits)
      BY <1>11, <1>12, <1>14, <1>16, <2>2
    <3>2. completed' = completed \ WorkunitsOf(j) /\ allWorkunits' = allWorkunits \ {j}
      BY <1>4, <2>2
    <3>3. CASE JobOf[v] = j
      <4>1. v \in completed \/ v = w
        BY <1>7, <2>2, <3>3 DEF last
      <4>2. v \notin ToSet(q) /\ e[v] = NoExecutor /\ v \notin completed' /\ JobOf[v] \notin allWorkunits'
        BY <1>2, <1>5, <1>7, <2>1, <3>1, <3>2, <3>3, <4>1 DEF PlaceFine
      <4> QED
        BY <4>2 DEF PlaceFine
    <3>4. CASE JobOf[v] # j
      <4>1. \A p \in ParentsOf[v] : p \in Workunits /\ JobOf[p] = JobOf[v]
        BY <1>9
      <4>2. ParentsOf[v] \ completed' = ParentsOf[v] \ completed
        BY <1>7, <3>2, <3>4, <4>1
      <4>3. /\ v \in completed' <=> v \in completed
            /\ JobOf[v] \in allWorkunits' <=> JobOf[v] \in allWorkunits
            /\ e[v] = executor[v]
        BY <1>5, <1>7, <3>2, <3>4
      <4> QED
        BY <2>1, <3>1, <4>2, <4>3 DEF PlaceFine
    <3> QED
      BY <3>3, <3>4
  <2>3. CASE ~last
    <3>1. completed' = completed \cup {w} /\ allWorkunits' = allWorkunits
      BY <1>4, <2>3
    <3>2. CASE v \in ChildrenOf(w)
      <4>1. /\ numPendingParents'[v] = Cardinality(ParentsOf[v] \ completed')
            /\ numPendingParents'[v] = 0 <=> v \in ToSet(q)
        <5>1. numPendingParents'[v] = numPendingParents[v] - 1
          BY <1>12, <3>2
        <5>2. v \in ToSet(q) <=> numPendingParents[v] = 1
          BY <1>10, <1>14, <1>16, <3>2
        <5>3. numPendingParents[v] \in Nat
          BY <1>9
        <5> QED
          BY <1>10, <3>1, <3>2, <5>1, <5>2, <5>3
      <4>2. /\ e[v] = NoExecutor /\ v \notin completed' /\ JobOf[v] \in allWorkunits'
        <5>1. v # w /\ JobOf[v] = j /\ executor[v] = NoExecutor /\ v \notin completed
          BY <1>10, <3>2
        <5> QED
          BY <1>2, <1>5, <3>1, <5>1
      <4> QED
        BY <4>1, <4>2 DEF PlaceFine
    <3>3. CASE v \notin ChildrenOf(w)
      <4>1. ParentsOf[v] \ completed' = ParentsOf[v] \ completed
        BY <1>9, <3>1, <3>3
      <4>2. numPendingParents'[v] = numPendingParents[v] /\ v \notin Released(w)
        BY <1>12, <1>14, <3>3
      <4>3. CASE v = w
        BY <1>2, <1>5, <1>16, <2>1, <3>1, <4>1, <4>2, <4>3 DEF PlaceFine
      <4>4. CASE v # w
        BY <1>5, <1>16, <2>1, <3>1, <4>1, <4>2, <4>4 DEF PlaceFine
      <4> QED
        BY <4>3, <4>4
    <3> QED
      BY <3>2, <3>3
  <2> QED
    BY <2>2, <2>3
\* The jobs.
<1>20. /\ mailbox' \in Seq(Message)
       /\ \A k \in Jobs : \A M \in {Submits(k), Terminates(k)} :
             (Has(mailbox', M) => Has(mailbox, M)) /\ One(mailbox', M)
  BY <1>1, CallIsHandled
<1>21. StateTypes' /\ \A k \in Jobs : JobFine(k)'
  <2>1. /\ client \in [Jobs -> {"new", "submitting", "waiting", "terminating", "through"}]
        /\ notified \in [Jobs -> Nat]
    BY <1>0 DEF StateTypes
  <2>2. CASE last
    <3>1. /\ notified' = [k \in Jobs |-> IF k = j THEN notified[k] + 1 ELSE notified[k]]
          /\ client' = [k \in Jobs |-> IF k = j /\ client[k] = "waiting" THEN "through" ELSE client[k]]
      BY <1>4, <2>2 DEF NotifyAll
    <3>2. allWorkunits' = allWorkunits \ {j} /\ runningJobs' = runningJobs \ {j}
          /\ completed' \subseteq completed
      BY <1>4, <2>2
    <3>3. StateTypes'
      <4>1. /\ client' \in [Jobs -> {"new", "submitting", "waiting", "terminating", "through"}]
            /\ notified' \in [Jobs -> Nat]
        BY <2>1, <3>1
      <4> QED
        BY <1>0, <1>1, <1>12, <1>20, <3>2, <4>1 DEF StateTypes
    <3>4. ASSUME NEW k \in Jobs PROVE JobFine(k)'
      <4>1. JobFine(k)
        BY <1>0
      <4>2. \A M \in {Submits(k), Terminates(k)} : (Has(mailbox', M) => Has(mailbox, M)) /\ One(mailbox', M)
        BY <1>20
      <4>3. CASE k = j
        <5>1. notified[j] = 0 /\ client[j] \in {"waiting", "terminating"}
          BY <1>1, <1>2, <1>7, <2>1, <4>1, <4>3 DEF JobFine
        <5>2. notified'[j] = 1 /\ client'[j] = (IF client[j] = "waiting" THEN "through" ELSE client[j])
              /\ j \notin allWorkunits' /\ j \notin runningJobs'
          BY <1>7, <3>1, <3>2, <5>1
        <5> QED
          BY <1>1, <4>1, <4>2, <4>3, <5>1, <5>2 DEF JobFine
      <4>4. CASE k # j
        <5>1. notified'[k] = notified[k] /\ client'[k] = client[k]
              /\ (k \in allWorkunits' <=> k \in allWorkunits)
              /\ (k \in runningJobs' <=> k \in runningJobs)
          BY <3>1, <3>2, <4>4
        <5> QED
          BY <1>1, <4>1, <4>2, <5>1 DEF JobFine
      <4> QED
        BY <4>3, <4>4
    <3> QED
      BY <3>3, <3>4
  <2>3. CASE ~last
    <3>1. /\ completed' = completed \cup {w}
          /\ UNCHANGED <<allWorkunits, runningJobs, client, notified>>
      BY <1>4, <2>3
    <3>2. StateTypes'
      BY <1>0, <1>1, <1>2, <1>12, <1>20, <3>1 DEF StateTypes
    <3>3. \A k \in Jobs : JobFine(k)'
      BY <1>0, <1>1, <1>20, <3>1 DEF JobFine
    <3> QED
      BY <3>2, <3>3
  <2> QED
    BY <2>2, <2>3
<1>22. Inv' /\ (ThreadsAccounted(e, ThreadsAfter({w})) => ThreadsFine')
  BY <1>1, <1>6, <1>16, <1>17, <1>18, <1>19, <1>21, DispatchEnds
<1> QED
  BY <1>6, <1>22

\* The executors of a job are killed and all that is known of it is dropped.
LEMMA JobIsKilled ==
    ASSUME Inv, up, mailbox # <<>>, NEW j \in Jobs, TerminateAndDispatch({j}),
           \A w \in Workunits : Head(mailbox) \in Known(w) => JobOf[w] = j,
           UNCHANGED <<isOn, up>>, StateTypes', \A k \in Jobs : JobFine(k)'
    PROVE  Inv' /\ ((\A w \in WithoutTask \cap Workunits : JobOf[w] # j) /\ ThreadsFine => ThreadsFine')
<1>0. /\ StateTypes /\ Resources /\ QueueFine
      /\ \A v \in Workunits : WorkunitFine(v)
  BY DEF Inv
<1> DEFINE killed == KilledWorkunits({j})
           q == ReadyAfterKill({j})
           e == ExecutorsAfter(killed)
<1>1. /\ mailbox' = MailboxAfterKill(Tail(mailbox), {j})
      /\ completed' = completed \ killed
      /\ allWorkunits' = allWorkunits \ {j}
      /\ numPendingParents' = numPendingParents
      /\ Dispatch(q, RamAfter(killed), ThreadsAfter(killed \ WithoutTask), e)
  BY DEF TerminateAndDispatch, DropJobs
<1>2. killed \in SUBSET Workunits /\ \A w \in Workunits : w \in killed <=> JobOf[w] = j
  BY DEF KilledWorkunits
<1>3. /\ q \in Seq(Workunits) /\ IsInjective(q)
      /\ ToSet(q) = {w \in ToSet(readyWorkunits) : JobOf[w] \notin {j}}
  BY <1>0, ReadyAfterKillIs DEF QueueFine
<1>4. \A w \in Workunits : e[w] = IF JobOf[w] \in {j} THEN NoExecutor ELSE executor[w]
  BY <1>2 DEF ExecutorsAfter
<1> HIDE DEF killed, q
<1>5. /\ ResourcesFine(e, RamAfter(killed), ThreadsAfter(killed \ WithoutTask))
      /\ killed \cap Executing = (killed \ WithoutTask) \cap Executing /\ ThreadsFine =>
            ThreadsAccounted(e, ThreadsAfter(killed \ WithoutTask))
  <2>1. killed \ WithoutTask \in SUBSET Workunits
    BY <1>2
  <2> QED
    BY <1>2, <2>1, ForgottenFine
<1> HIDE DEF e
<1>6. ASSUME NEW w \in Workunits
      PROVE  /\ MailFine(w, mailbox', e)
             /\ PlaceFine(w, q, e, completed', allWorkunits', numPendingParents')
  <2>1. MailFine(w, mailbox', e)
    BY <1>1, <1>4, EndIsHandled
  <2>2. PlaceFine(w, readyWorkunits, executor, completed, allWorkunits, numPendingParents)
    BY <1>0 DEF WorkunitFine
  <2>3. CASE JobOf[w] = j
    BY <1>1, <1>2, <1>3, <1>4, <2>1, <2>3 DEF PlaceFine
  <2>4. CASE JobOf[w] # j
    <3>1. \A p \in ParentsOf[w] : p \in Workunits /\ JobOf[p] = JobOf[w]
      OBVIOUS
    <3>2. ParentsOf[w] \ completed' = ParentsOf[w] \ completed
      BY <1>1, <1>2, <2>4, <3>1
    <3>3. /\ w \in completed' <=> w \in completed
          /\ JobOf[w] \in allWorkunits' <=> JobOf[w] \in allWorkunits
          /\ e[w] = executor[w] /\ (w \in ToSet(q) <=> w \in ToSet(readyWorkunits))
          /\ numPendingParents'[w] = numPendingParents[w]
      BY <1>1, <1>2, <1>3, <1>4, <2>4
    <3> QED
      BY <2>1, <2>2, <3>2, <3>3 DEF PlaceFine
  <2> QED
    BY <2>1, <2>3, <2>4
<1>7. isOn \subseteq Hosts
  BY <1>0 DEF StateTypes
<1>8. Inv' /\ (ThreadsAccounted(e, ThreadsAfter(killed \ WithoutTask)) => ThreadsFine')
  BY <1>1, <1>3, <1>5, <1>6, <1>7, DispatchEnds
<1>9. (\A w \in WithoutTask \cap Workunits : JobOf[w] # j) => killed \ WithoutTask = killed
  BY <1>2
<1> QED
  BY <1>5, <1>8, <1>9

LEMMA FailureKeeps ==
    ASSUME Inv, ProcessWorkunitExecutorFailure
    PROVE  Inv' /\ (TasksAreKilled /\ ThreadsFine => ThreadsFine')
<1>0. /\ StateTypes /\ \A v \in Workunits : WorkunitFine(v)
      /\ \A k \in Jobs : JobFine(k)
  BY DEF Inv
<1> DEFINE w == Head(mailbox).workunit
           j == JobOf[w]
<1>1. /\ up /\ mailbox # <<>> /\ Head(mailbox).type = "Failed" /\ Head(mailbox).known
      /\ UNCHANGED <<isOn, troubles, up, aborted>>
  BY DEF ProcessWorkunitExecutorFailure, Received
<1>2. /\ w \in Workunits /\ j \in allWorkunits /\ w \in FailingWorkunits
      /\ \A v \in Workunits : Head(mailbox) \in Known(v) => v = w
  BY <1>1, EndIsKnown
<1>3. TerminateAndDispatch({j}) /\ runningJobs' = runningJobs \ {j} /\ NotifyAll({j})
  BY DEF ProcessWorkunitExecutorFailure
<1> HIDE DEF w
<1>4. j \in Jobs
  BY <1>2
<1>5. /\ mailbox' \in Seq(Message)
      /\ \A k \in Jobs : \A M \in {Submits(k), Terminates(k)} :
            (Has(mailbox', M) => Has(mailbox, M)) /\ One(mailbox', M)
  <2>1. mailbox' = MailboxAfterKill(Tail(mailbox), {j})
    BY <1>3 DEF TerminateAndDispatch
  <2> QED
    BY <1>1, <2>1, CallIsHandled
<1>6. /\ completed' \subseteq completed /\ allWorkunits' = allWorkunits \ {j}
      /\ numPendingParents' = numPendingParents
      /\ notified' = [k \in Jobs |-> IF k = j THEN notified[k] + 1 ELSE notified[k]]
      /\ client' = [k \in Jobs |-> IF k = j /\ client[k] = "waiting" THEN "through" ELSE client[k]]
  BY <1>3 DEF TerminateAndDispatch, DropJobs, NotifyAll
<1>7. /\ client \in [Jobs -> {"new", "submitting", "waiting", "terminating", "through"}]
      /\ notified \in [Jobs -> Nat]
  BY <1>0 DEF StateTypes
<1>8. StateTypes'
  <2>1. /\ client' \in [Jobs -> {"new", "submitting", "waiting", "terminating", "through"}]
        /\ notified' \in [Jobs -> Nat]
    BY <1>6, <1>7
  <2> QED
    BY <1>0, <1>1, <1>3, <1>5, <1>6, <2>1 DEF StateTypes
<1>9. ASSUME NEW k \in Jobs PROVE JobFine(k)'
  <2>1. JobFine(k)
    BY <1>0
  <2>2. \A M \in {Submits(k), Terminates(k)} : (Has(mailbox', M) => Has(mailbox, M)) /\ One(mailbox', M)
    BY <1>5
  <2>3. CASE k = j
    <3>1. notified[j] = 0 /\ client[j] \in {"waiting", "terminating"}
      BY <1>1, <1>2, <1>4, <1>7, <2>1, <2>3 DEF JobFine
    <3>2. notified'[j] = 1 /\ client'[j] = (IF client[j] = "waiting" THEN "through" ELSE client[j])
          /\ j \notin allWorkunits' /\ j \notin runningJobs'
      BY <1>3, <1>4, <1>6, <3>1
    <3> QED
      BY <1>1, <2>1, <2>2, <2>3, <3>1, <3>2 DEF JobFine
  <2>4. CASE k # j
    <3>1. notified'[k] = notified[k] /\ client'[k] = client[k]
          /\ (k \in allWorkunits' <=> k \in allWorkunits)
          /\ (k \in runningJobs' <=> k \in runningJobs)
      BY <1>3, <1>6, <2>4
    <3> QED
      BY <1>1, <2>1, <2>2, <3>1 DEF JobFine
  <2> QED
    BY <2>3, <2>4
<1>10. Inv' /\ ((\A v \in WithoutTask \cap Workunits : JobOf[v] # j) /\ ThreadsFine => ThreadsFine')
  BY <1>1, <1>2, <1>3, <1>4, <1>8, <1>9, JobIsKilled
<1>11. TasksAreKilled => \A v \in WithoutTask \cap Workunits : JobOf[v] # j
  BY <1>2 DEF TasksAreKilled, WorkunitsOf
<1> QED
  BY <1>10, <1>11

LEMMA TerminationKeeps ==
    ASSUME Inv, ProcessStandardJobTerminationRequest
    PROVE  Inv' /\ (TasksAreKilled /\ ThreadsFine => ThreadsFine')
<1>0. /\ StateTypes /\ \A k \in Jobs : JobFine(k)
  BY DEF Inv
<1> DEFINE j == Head(mailbox).job
<1>1. /\ up /\ mailbox # <<>> /\ Head(mailbox).type = "Terminate"
      /\ UNCHANGED <<isOn, troubles, up, runningJobs, notified, aborted>>
  BY DEF ProcessStandardJobTerminationRequest, Received
<1>2. IF j \in allWorkunits
      THEN /\ TerminateAndDispatch({j})
           /\ client' = [client EXCEPT ![j] = "through"]
      ELSE /\ mailbox' = Tail(mailbox)
           /\ client' = [client EXCEPT ![j] = IF notified[j] > 0 THEN "through" ELSE "waiting"]
           /\ Dispatch(readyWorkunits, ramAvailabilities, runningThreadCounts, executor)
           /\ UNCHANGED <<numPendingParents, allWorkunits, completed>>
  BY DEF ProcessStandardJobTerminationRequest
<1>3. mailbox' = Tail(mailbox) \/ mailbox' = MailboxAfterKill(Tail(mailbox), {j})
  BY <1>2 DEF TerminateAndDispatch
<1>4. /\ mailbox' \in Seq(Message) /\ Head(mailbox) \in Message
      /\ \A k \in Jobs : \A M \in {Submits(k), Terminates(k)} :
            /\ Has(mailbox', M) => Has(mailbox, M) /\ Head(mailbox) \notin M
            /\ Head(mailbox) \in M => Has(mailbox, M)
            /\ One(mailbox', M)
  BY <1>1, <1>3, CallIsHandled
<1>5. j \in Jobs /\ Head(mailbox) \in Terminates(j)
  <2>1. j \in Jobs
    BY <1>1, <1>4 DEF Message
  <2> QED
    BY <1>1, <1>4, <2>1, MessageKinds
<1> HIDE DEF j
<1>6. /\ client \in [Jobs -> {"new", "submitting", "waiting", "terminating", "through"}]
      /\ client[j] = "terminating" /\ j \in Terminable
      /\ ~Has(mailbox', Terminates(j)) /\ ~Has(mailbox', Submits(j))
  <2>1. JobFine(j)
    BY <1>0, <1>5
  <2>2. Has(mailbox, Terminates(j)) /\ ~Has(mailbox', Terminates(j))
    BY <1>4, <1>5
  <2>3. client[j] = "terminating" /\ j \in Terminable /\ ~Has(mailbox, Submits(j))
    BY <2>1, <2>2 DEF JobFine
  <2> QED
    BY <1>0, <1>4, <1>5, <2>2, <2>3 DEF StateTypes
<1>7. /\ allWorkunits' \in {allWorkunits, allWorkunits \ {j}} /\ completed' \subseteq completed
      /\ numPendingParents' = numPendingParents
      /\ client' = [client EXCEPT ![j] = client'[j]] /\ client'[j] \in {"through", "waiting"}
      /\ j \notin allWorkunits'
  <2>1. CASE j \in allWorkunits
    BY <1>2, <1>5, <1>6, <2>1 DEF TerminateAndDispatch, DropJobs
  <2>2. CASE j \notin allWorkunits
    BY <1>2, <1>5, <1>6, <2>2
  <2> QED
    BY <2>1, <2>2
<1>8. StateTypes'
  <2>1. client' \in [Jobs -> {"new", "submitting", "waiting", "terminating", "through"}]
    BY <1>6, <1>7
  <2> QED
    BY <1>0, <1>1, <1>4, <1>7, <2>1 DEF StateTypes
<1>9. ASSUME NEW k \in Jobs PROVE JobFine(k)'
  <2>1. JobFine(k)
    BY <1>0
  <2>2. \A M \in {Submits(k), Terminates(k)} : (Has(mailbox', M) => Has(mailbox, M)) /\ One(mailbox', M)
    BY <1>4
  <2>3. CASE k = j
    BY <1>1, <1>6, <1>7, <2>1, <2>2, <2>3 DEF JobFine
  <2>4. CASE k # j
    <3>1. client'[k] = client[k] /\ (k \in allWorkunits' <=> k \in allWorkunits)
      BY <1>6, <1>7, <2>4
    <3> QED
      BY <1>1, <2>1, <2>2, <3>1 DEF JobFine
  <2> QED
    BY <2>3, <2>4
<1>10. CASE j \in allWorkunits
  <2>1. \A w \in Workunits : Head(mailbox) \notin Known(w)
    BY <1>1, <1>4, MessageKinds
  <2>2. TerminateAndDispatch({j})
    BY <1>2, <1>10
  <2>3. Inv' /\ ((\A w \in WithoutTask \cap Workunits : JobOf[w] # j) /\ ThreadsFine => ThreadsFine')
    BY <1>1, <1>5, <1>8, <1>9, <2>1, <2>2, JobIsKilled
  <2>4. TasksAreKilled => \A w \in WithoutTask \cap Workunits : JobOf[w] # j
    BY <1>6 DEF TasksAreKilled
  <2> QED
    BY <2>3, <2>4
<1>11. CASE j \notin allWorkunits
  <2>1. client' \in [Jobs -> {"new", "submitting", "waiting", "terminating", "through"}]
    BY <1>6, <1>7
  <2> QED
    BY <1>1, <1>2, <1>9, <1>11, <2>1, JustDispatches DEF jobVars
<1> QED
  BY <1>10, <1>11

\* The service stops.
LEMMA StopKeeps ==
    ASSUME Inv, up, Terminate
    PROVE  Inv' /\ ThreadsFine'
<1>0. /\ StateTypes /\ Resources /\ QueueFine
      /\ \A v \in Workunits : WorkunitFine(v)
      /\ \A k \in Jobs : JobFine(k)
  BY DEF Inv
<1> DEFINE killed == KilledWorkunits(runningJobs)
           e == ExecutorsAfter(killed)
<1>1. /\ up' = FALSE /\ mailbox' = <<>>
      /\ completed' = completed \ killed /\ allWorkunits' = allWorkunits \ runningJobs
      /\ UNCHANGED <<isOn, troubles, runningJobs, aborted, numPendingParents>>
      /\ ramAvailabilities' = RamAfter(killed)
      /\ runningThreadCounts' = ThreadsAfter(killed \ WithoutTask)
      /\ executor' = e
      /\ readyWorkunits' = ReadyAfterKill(runningJobs)
      /\ notified' = [j \in Jobs |-> IF j \in runningJobs THEN notified[j] + 1 ELSE notified[j]]
      /\ client' = [j \in Jobs |-> IF j \in runningJobs /\ client[j] = "waiting" THEN "through" ELSE client[j]]
  BY DEF Terminate, DropJobs, NotifyAll
<1>2. killed \in SUBSET Workunits /\ \A w \in Workunits : w \in killed <=> JobOf[w] \in runningJobs
  BY DEF KilledWorkunits
<1>3. ResourcesFine(e, RamAfter(killed), ThreadsAfter(killed \ WithoutTask))
  <2>1. killed \ WithoutTask \in SUBSET Workunits
    BY <1>2
  <2> QED
    BY <1>2, <2>1, ForgottenFine
<1>4. Resources'
  BY <1>1, <1>3 DEF Resources, ResourcesFine, RamAccounted
<1>5. readyWorkunits' \in Seq(Workunits) /\ IsInjective(readyWorkunits')
  BY <1>0, <1>1, ReadyAfterKillIs DEF QueueFine
<1>6. QueueFine'
  BY <1>1, <1>5 DEF QueueFine
<1>7. StateTypes'
  <2> HIDE DEF killed, e
  <2>1. /\ client \in [Jobs -> {"new", "submitting", "waiting", "terminating", "through"}]
        /\ notified \in [Jobs -> Nat]
    BY <1>0 DEF StateTypes
  <2>2. /\ client' \in [Jobs -> {"new", "submitting", "waiting", "terminating", "through"}]
        /\ notified' \in [Jobs -> Nat]
    BY <1>1, <2>1
  <2>3. mailbox' \in Seq(Message)
    BY <1>1
  <2>4. /\ isOn' \subseteq Hosts /\ troubles' \in 0 .. MaxTroubles /\ up' \in BOOLEAN
        /\ numPendingParents' \in [Workunits -> Nat] /\ runningJobs' \subseteq Jobs
        /\ allWorkunits' \subseteq Jobs /\ completed' \subseteq Workunits
        /\ aborted' \in {"no", "executor not found", "null task"}
    BY <1>0, <1>1 DEF StateTypes
  <2> QED
    BY <2>2, <2>3, <2>4 DEF StateTypes
<1>8. ASSUME NEW w \in Workunits PROVE executor'[w] = NoExecutor
  <2>1. PlaceFine(w, readyWorkunits, executor, completed, allWorkunits, numPendingParents)
    BY <1>0 DEF WorkunitFine
  <2>2. JobFine(JobOf[w])
    BY <1>0
  <2>3. executor[w] # NoExecutor => w \in killed
    BY <1>2, <2>1, <2>2 DEF PlaceFine, JobFine
  <2> QED
    BY <1>1, <2>3 DEF ExecutorsAfter
<1>9. \A M : ~Has(mailbox', M) /\ One(mailbox', M)
  BY <1>1 DEF Has, One, At
<1>10. ASSUME NEW w \in Workunits PROVE WorkunitFine(w)'
  <2>1. executor'[w].state # "through"
    BY <1>8 DEF NoExecutor
  <2> QED
    BY <1>1, <1>8, <1>9, <2>1 DEF WorkunitFine, MailFine
<1>11. ASSUME NEW j \in Jobs PROVE JobFine(j)'
  <2>1. JobFine(j) /\ notified[j] \in Nat
    BY <1>0 DEF StateTypes
  <2>2. notified'[j] <= 1
    BY <1>1, <2>1 DEF JobFine
  <2>3. client'[j] = "terminating" => client[j] = "terminating"
    BY <1>1
  <2> QED
    BY <1>1, <1>9, <2>1, <2>2, <2>3 DEF JobFine
<1>12. ThreadsFine'
  BY <1>1 DEF ThreadsFine
<1> QED
  BY <1>4, <1>6, <1>7, <1>10, <1>11, <1>12 DEF Inv

-------------------------------------------------------------------------------
(* The theorems *)

LEMMA InvAtFirst == Init => Inv /\ ThreadsFine
<1> SUFFICES ASSUME Init PROVE Inv /\ ThreadsFine
  OBVIOUS
<1> USE DEF Init
<1>1. StateTypes
  BY BoundAssumption DEF StateTypes
<1>2. /\ \A h \in Hosts : On(executor, h) = {} /\ RamOf({}) = 0 /\ ThreadsOf({}, h) = 0
      /\ \A h \in Hosts : 0 \in 0 .. WordSize - 1 /\ RamCapacity[h] \in Nat
  <2>1. ASSUME NEW h \in Hosts
        PROVE  On(executor, h) = {} /\ RamOf({}) = 0 /\ ThreadsOf({}, h) = 0 /\ 0 \in 0 .. WordSize - 1
    <3>1. RamOf({}) = 0 /\ ThreadsOf({}, h) = 0
      BY UseIsSummed
    <3>2. WordSize \in Nat \ {0}
      BY WordFits
    <3> QED
      BY <3>1, <3>2 DEF On
  <2> QED
    BY <2>1
<1>3. Resources
  <2>1. ramAvailabilities \in [Hosts -> Nat] /\ runningThreadCounts \in [Hosts -> 0 .. WordSize - 1]
    BY <1>2
  <2>2. /\ executor \in [Workunits -> Executor \cup {NoExecutor}]
        /\ \A w \in Workunits : executor[w] = NoExecutor
    OBVIOUS
  <2>3. ASSUME NEW h \in Hosts PROVE ramAvailabilities[h] = RamCapacity[h] - RamOf(On(executor, h))
    <3>1. RamCapacity[h] \in Nat /\ RamOf(On(executor, h)) = 0
      BY <1>2
    <3> QED
      BY <3>1
  <2> QED
    BY <2>1, <2>2, <2>3 DEF Resources, ResourcesFine, RamAccounted
<1>4. ThreadsFine
  BY <1>2 DEF ThreadsFine, ThreadsAccounted
<1>5. QueueFine
  BY DEF QueueFine, IsInjective
<1>6. \A M : ~Has(mailbox, M) /\ One(mailbox, M)
  BY DEF Has, One, At
<1>7. ASSUME NEW w \in Workunits PROVE WorkunitFine(w)
  <2>1. MailFine(w, mailbox, executor)
    BY <1>6 DEF MailFine, NoExecutor
  <2>2. ToSet(readyWorkunits) = {}
    BY DEF ToSet
  <2> QED
    BY <2>1, <2>2 DEF WorkunitFine, PlaceFine
<1>8. ASSUME NEW j \in Jobs PROVE JobFine(j)
  BY <1>6 DEF JobFine
<1> QED
  BY <1>1, <1>3, <1>4, <1>5, <1>7, <1>8 DEF Inv

LEMMA InvIsKept ==
    ASSUME Inv, [Next]_vars
    PROVE  Inv' /\ (TasksAreKilled /\ ThreadsFine => ThreadsFine')
<1>1. CASE \E j \in Jobs : Submit(j) \/ RequestTermination(j)
  BY <1>1, SubmitterKeeps
<1>2. CASE RequestStop \/ \E h \in Hosts : HostTurnsOff(h) \/ HostTurnsOn(h)
  BY <1>2, HostOrStopKeeps
<1>3. CASE \E w \in Workunits : ExecutorStep(w) \/ DetectorSends(w)
  <2>1. PICK w \in Workunits : \/ ExecutorSends(w, "Done") \/ ExecutorSends(w, "Failed")
                               \/ DetectorSends(w)
    BY <1>3 DEF ExecutorStep
  <2>2. ASSUME NEW type \in {"Done", "Failed"}, ExecutorSends(w, type)
        PROVE  Inv' /\ (ThreadsFine => ThreadsFine')
    BY <2>2, EndIsSent DEF ExecutorSends
  <2>3. CASE DetectorSends(w)
    BY <2>3, EndIsSent DEF DetectorSends
  <2> QED
    BY <2>1, <2>2, <2>3
<1>4. CASE ServiceStep
  <2>1. CASE ProcessMessageOfForgottenExecutor \/ UNCHANGED vars
    <3>1. UNCHANGED <<isOn, troubles, up, mailbox, ramAvailabilities, runningThreadCounts,
                      readyWorkunits, executor, numPendingParents, allWorkunits, completed,
                      runningJobs, client, notified>>
      BY <2>1 DEF ProcessMessageOfForgottenExecutor, vars, resourceVars, jobVars
    <3>2. aborted' \in {aborted, "executor not found"}
      BY <2>1 DEF ProcessMessageOfForgottenExecutor, vars
    <3>3. StateTypes' /\ Resources' /\ QueueFine' /\ (ThreadsFine => ThreadsFine')
      BY <3>1, <3>2 DEF Inv, StateTypes, Resources, ResourcesFine, RamAccounted, QueueFine, FitsNowhere,
         PossibleHosts, Suitable, EnoughRam, ThreadsFine, ThreadsAccounted
    <3>4. \A w \in Workunits : WorkunitFine(w)'
      BY <3>1 DEF Inv, WorkunitFine, MailFine, PlaceFine
    <3>5. \A j \in Jobs : JobFine(j)'
      BY <3>1 DEF Inv, JobFine
    <3> QED
      BY <3>3, <3>4, <3>5 DEF Inv
  <2>2. CASE ProcessStop \/ ProcessLastHostOff \/ ProcessLastCrash
    <3>1. up /\ Terminate
      BY <2>2 DEF ProcessStop, ProcessLastHostOff, ProcessLastCrash, Received
    <3> QED
      BY <3>1, StopKeeps
  <2> QED
    BY <1>4, <2>1, <2>2, HostChangeKeeps, SubmissionKeeps, CrashKeeps, CompletionKeeps, FailureKeeps,
       TerminationKeeps DEF ServiceStep
<1>5. CASE UNCHANGED vars
  <2>1. UNCHANGED <<isOn, troubles, up, mailbox, ramAvailabilities, runningThreadCounts,
                    readyWorkunits, executor, numPendingParents, allWorkunits, completed,
                    runningJobs, client, notified, aborted>>
    BY <1>5 DEF vars, resourceVars, jobVars
  <2>2. StateTypes' /\ Resources' /\ QueueFine' /\ (ThreadsFine => ThreadsFine')
    BY <2>1 DEF Inv, StateTypes, Resources, ResourcesFine, RamAccounted, QueueFine, FitsNowhere,
       PossibleHosts, Suitable, EnoughRam, ThreadsFine, ThreadsAccounted
  <2>3. \A w \in Workunits : WorkunitFine(w)'
    BY <2>1 DEF Inv, WorkunitFine, MailFine, PlaceFine
  <2>4. \A j \in Jobs : JobFine(j)'
    BY <2>1 DEF Inv, JobFine
  <2> QED
    BY <2>2, <2>3, <2>4 DEF Inv
<1> QED
  BY <1>1, <1>2, <1>3, <1>4, <1>5 DEF Next

LEMMA InvTypes == Inv => TypeOK
BY DEF Inv, StateTypes, Resources, ResourcesFine, QueueFine, TypeOK

\* The state keeps its types: in particular the free RAM of a host is never negative, whatever
\* fails, is terminated or turned off (dispatchReadyWorkunits and the handlers of the ends of
\* executors). That the counts of threads do not wrap around is ResourcesStayAccounted.
THEOREM TypeCorrect == Spec => []TypeOK
<1>1. Spec => []Inv
  <2>1. Init => Inv
    BY InvAtFirst
  <2>2. Inv /\ [Next]_vars => Inv'
    BY InvIsKept
  <2> QED
    BY <2>1, <2>2, PTL DEF Spec
<1> QED
  BY <1>1, InvTypes, PTL

\* What is available on a host is its capacity less what its executors use, when no workunit
\* without a task is in a job that may fail or be terminated while the service is up (the
\* code only gives its threads back when it is done: processWorkunitExecutorFailure,
\* terminateRunningStandardJob).
THEOREM ResourcesStayAccounted == ASSUME TasksAreKilled PROVE Spec => []ResourcesAccounted
<1>1. Init => Inv /\ ThreadsFine
  BY InvAtFirst
<1>2. Inv /\ ThreadsFine /\ [Next]_vars => Inv' /\ ThreadsFine'
  BY InvIsKept
<1>3. Inv /\ ThreadsFine => ResourcesAccounted
  <2> SUFFICES ASSUME Inv, ThreadsFine, up, NEW h \in Hosts
               PROVE  /\ ramAvailabilities[h] = RamCapacity[h] - SumFunctionOnSet(Ram, ExecutingOn(h))
                      /\ runningThreadCounts[h] = SumFunctionOnSet(CoresOf, ExecutingOn(h))
    BY InvTypes DEF ResourcesAccounted
  <2>1. On(executor, h) = ExecutingOn(h)
    BY DEF On, ExecutingOn, Executing
  <2>2. /\ ramAvailabilities[h] = RamCapacity[h] - RamOf(ExecutingOn(h))
        /\ runningThreadCounts[h] = ThreadsOf(ExecutingOn(h), h)
    BY <2>1 DEF Inv, Resources, ResourcesFine, RamAccounted, ThreadsFine, ThreadsAccounted
  <2>3. ThreadsOf(ExecutingOn(h), h) = SumFunctionOnSet(CoresOf, ExecutingOn(h))
    BY <2>1, CoresAreThreads DEF Inv, Resources
  <2> QED
    BY <2>2, <2>3 DEF RamOf
<1> QED
  BY <1>1, <1>2, <1>3, PTL DEF Spec

\* The service keeps each workunit of its jobs in one place, starts it after its parents and
\* tells the submitter of the end of a job once (the handlers of BareMetalComputeService,
\* dispatchReadyWorkunits, Workunit::addDependency).
THEOREM JobsStayTracked == Spec => []JobsAreTracked
<1>1. Init => Inv
  BY InvAtFirst
<1>2. Inv /\ [Next]_vars => Inv'
  BY InvIsKept
<1>3. Inv => JobsAreTracked
  <2> SUFFICES ASSUME Inv PROVE JobsAreTracked
    OBVIOUS
  <2>1. /\ StateTypes /\ QueueFine /\ \A w \in Workunits : WorkunitFine(w)
        /\ \A j \in Jobs : JobFine(j)
    BY DEF Inv
  <2>2. WorkunitsInOnePlace
    <3> SUFFICES ASSUME up, NEW w \in Workunits
                 PROVE LET places == Cardinality(InReadyQueue(w))
                             + (IF w \in Executing THEN 1 ELSE 0) + (IF w \in completed THEN 1 ELSE 0)
                       IN  IF JobOf[w] \in allWorkunits
                           THEN places = IF numPendingParents[w] > 0 THEN 0 ELSE 1
                           ELSE places = 0
      BY DEF WorkunitsInOnePlace
    <3>1. PlaceFine(w, readyWorkunits, executor, completed, allWorkunits, numPendingParents)
      BY <2>1 DEF WorkunitFine
    <3>2. numPendingParents[w] \in Nat /\ (w \in Executing <=> executor[w] # NoExecutor)
      BY <2>1 DEF StateTypes, Executing
    <3>3. Cardinality(InReadyQueue(w)) = IF w \in ToSet(readyWorkunits) THEN 1 ELSE 0
      <4>1. CASE w \in ToSet(readyWorkunits)
        <5>1. PICK i \in DOMAIN readyWorkunits : readyWorkunits[i] = w
          BY <2>1, <4>1 DEF ToSet
        <5>2. InReadyQueue(w) = {i}
          BY <2>1, <5>1 DEF InReadyQueue, QueueFine, IsInjective
        <5> QED
          BY <4>1, <5>2, FS_Singleton
      <4>2. CASE w \notin ToSet(readyWorkunits)
        <5>1. InReadyQueue(w) = {}
          BY <4>2 DEF InReadyQueue, ToSet
        <5> QED
          BY <4>2, <5>1, FS_EmptySet
      <4> QED
        BY <4>1, <4>2
    <3> QED
      BY <3>1, <3>2, <3>3 DEF PlaceFine
  <2>3. ParentsCompletedFirst
    <3> SUFFICES ASSUME NEW w \in Executing PROVE ParentsOf[w] \subseteq completed
      BY DEF ParentsCompletedFirst
    <3>1. w \in Workunits /\ executor[w] # NoExecutor /\ up \in BOOLEAN
      BY <2>1 DEF Executing, StateTypes
    <3>2. PlaceFine(w, readyWorkunits, executor, completed, allWorkunits, numPendingParents)
      BY <2>1, <3>1 DEF WorkunitFine
    <3>3. Cardinality(ParentsOf[w] \ completed) = 0
      BY <3>1, <3>2 DEF PlaceFine
    <3>4. IsFiniteSet(ParentsOf[w] \ completed)
      <4>1. ParentsOf[w] \ completed \subseteq Workunits
        BY <3>1
      <4> QED
        BY <4>1, FS_Subset
    <3>5. ParentsOf[w] \ completed = {}
      BY <3>3, <3>4, FS_EmptySet
    <3> QED
      BY <3>5
  <2>4. AtMostOneNotification
    BY <2>1 DEF AtMostOneNotification, JobFine
  <2> QED
    BY <2>2, <2>3, <2>4 DEF JobsAreTracked
<1> QED
  BY <1>1, <1>2, <1>3, PTL DEF Spec

\* When no message is left, the first ready workunit fits on none of the hosts that are on
\* (dispatchReadyWorkunits is called after every message that could make room).
THEOREM WorkIsConserved == Spec => []WorkConserving
<1>1. Init => Inv
  BY InvAtFirst
<1>2. Inv /\ [Next]_vars => Inv'
  BY InvIsKept
<1>3. Inv => WorkConserving
  <2>1. mailbox = <<>> => ~Has(mailbox, HostOns)
    BY DEF Has, At
  <2> QED
    BY <2>1 DEF Inv, QueueFine, FitsNowhere, WorkConserving
<1> QED
  BY <1>1, <1>2, <1>3, PTL DEF Spec
===============================================================================
