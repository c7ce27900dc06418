------------------------------- MODULE WMSProofs -------------------------------
(* Proofs about what a WMS drives: the workflow it builds and changes (WorkflowGraph.tla),
   for every set of tasks and files and any number of changes and executions; its JobManager
   (JobManager.tla), for every workflow, set of jobs and services; and its data movement
   manager (DataMovement.tla), for every set of files and storage services, whichever of
   them are down, and any number of calls. The specifications of the first and the last have
   names of their own (GraphSpec, DataSpec), so that all are seen here. *)
EXTENDS JobManager, DataMovement, WorkflowGraph, FiniteSetTheorems, SequenceTheorems, TLAPS

-------------------------------------------------------------------------------
(* The graph of a workflow: finite sets of numbers *)

LevelsAfter(g, levels, c) == UpdatedTopLevel(c, levels, g)
Relevelling == INSTANCE FoldProofs WITH op <- LevelsAfter

\* Of a family of subsets of a finite set, one is minimal.
LEMMA OneIsMinimal ==
    ASSUME NEW S, IsFiniteSet(S), NEW T \in SUBSET SUBSET S, T # {}
    PROVE  \E U \in T : \A V \in SUBSET U : V # U => V \notin T
<1>1. Relevelling!IsFiniteSet(S)
  BY DEF IsFiniteSet, Relevelling!IsFiniteSet
<1> QED
  BY <1>1, Relevelling!MinimalSubset

\* A finite set of numbers has a last one.
LEMMA MaxOfFinite ==
    ASSUME NEW S \in SUBSET Int, IsFiniteSet(S), S # {}
    PROVE  Max(S) \in S /\ \A y \in S : Max(S) >= y
<1> DEFINE HasLast(U) == \E x \in U : \A y \in U : x >= y
           T == {U \in SUBSET S : U # {} /\ ~HasLast(U)}
<1>1. SUFFICES ASSUME T # {} PROVE FALSE
  <2>1. HasLast(S)
    BY <1>1
  <2> QED
    BY <2>1 DEF Max
<1>2. PICK U \in T : \A V \in SUBSET U : V # U => V \notin T
  <2>1. T \in SUBSET SUBSET S
    OBVIOUS
  <2> HIDE DEF T
  <2> QED
    BY <1>1, <2>1, OneIsMinimal
<1>3. PICK e \in U : TRUE
  OBVIOUS
<1> DEFINE V == U \ {e}
<1>4. V \in SUBSET U /\ V # U
  BY <1>3
<1>5. V = {} \/ HasLast(V)
  BY <1>2, <1>4
<1>6. CASE V = {}
  BY <1>3, <1>6
<1>7. CASE HasLast(V)
  <2>1. PICK x \in V : \A y \in V : x >= y
    BY <1>7
  <2>2. x \in Int /\ e \in Int /\ \A y \in V : y \in Int
    OBVIOUS
  <2>3. CASE x >= e
    BY <2>1, <2>2, <2>3
  <2>4. CASE e > x
    BY <2>1, <2>2, <2>4
  <2> QED
    BY <2>2, <2>3, <2>4
<1> QED
  BY <1>5, <1>6, <1>7

\* The image of a finite set is finite.
LEMMA ImageIsFinite ==
    ASSUME NEW S, IsFiniteSet(S), NEW f
    PROVE  IsFiniteSet({f[x] : x \in S})
<1> DEFINE T == {f[x] : x \in S}
           g == [x \in S |-> f[x]]
<1>1. g \in Surjection(S, T)
  BY DEF Surjection
<1> HIDE DEF g, T
<1>2. IsFiniteSet(T)
  BY <1>1, FS_Surjection
<1> QED
  BY <1>2 DEF T

\* It is the only one that is not before another.
LEMMA MaxIsLast ==
    ASSUME NEW S \in SUBSET Int, NEW x \in S, \A y \in S : x >= y
    PROVE  Max(S) = x
<1>1. Max(S) \in S /\ \A y \in S : Max(S) >= y
  BY DEF Max
<1>2. Max(S) \in Int /\ x \in Int /\ Max(S) >= x /\ x >= Max(S)
  BY <1>1
<1> QED
  BY <1>2

\* A finite set of numbers is listed in order.
LEMMA InOrderExists ==
    ASSUME NEW S \in SUBSET Nat, IsFiniteSet(S)
    PROVE  \E q \in [1 .. Cardinality(S) -> S] : \A i, j \in DOMAIN q : i < j => q[i] < q[j]
<1> DEFINE Listed(U) == \E q \in [1 .. Cardinality(U) -> U] :
                            \A i, j \in 1 .. Cardinality(U) : i < j => q[i] < q[j]
           T == {U \in SUBSET S : ~Listed(U)}
<1>1. SUFFICES ASSUME T # {} PROVE FALSE
  <2>1. S \in SUBSET S
    OBVIOUS
  <2>2. Listed(S)
    BY <1>1, <2>1
  <2> QED
    BY <2>2
<1>2. PICK U \in T : \A V \in SUBSET U : V # U => V \notin T
  <2>1. T \in SUBSET SUBSET S
    OBVIOUS
  <2> HIDE DEF T
  <2> QED
    BY <1>1, <2>1, OneIsMinimal
<1>3. U \in SUBSET S /\ ~Listed(U) /\ IsFiniteSet(U)
  BY FS_Subset
<1>4. U # {}
  <2>1. ASSUME U = {} PROVE FALSE
    <3>1. Cardinality(U) = 0
      BY <2>1, FS_EmptySet
    <3>2. [i \in 1 .. 0 |-> i] \in [1 .. 0 -> U] /\ 1 .. 0 = {}
      OBVIOUS
    <3>3. Listed(U)
      BY <3>1, <3>2
    <3> QED
      BY <1>3, <3>3
  <2> QED
    BY <2>1
<1> DEFINE m == Max(U)
           V == U \ {m}
           n == Cardinality(V)
<1>5. m \in U /\ \A y \in U : m >= y
  <2>1. U \in SUBSET Int
    BY <1>3
  <2> HIDE DEF T
  <2> QED
    BY <1>3, <1>4, <2>1, MaxOfFinite
<1> HIDE DEF m
<1>6. n \in Nat /\ Cardinality(U) = n + 1
  <2>1. IsFiniteSet(V) /\ Cardinality(V) = Cardinality(U) - 1
    BY <1>3, <1>5, FS_RemoveElement
  <2>2. Cardinality(V) \in Nat /\ Cardinality(U) \in Nat
    BY <1>3, <2>1, FS_CardinalityType
  <2> QED
    BY <2>1, <2>2
<1>7. PICK q \in [1 .. n -> V] : \A i, j \in 1 .. n : i < j => q[i] < q[j]
  <2>1. V \in SUBSET U /\ V # U
    BY <1>5
  <2>2. V \notin T
    BY <1>2, <2>1
  <2> QED
    BY <1>3, <2>1, <2>2
<1>8. \A y \in V : y < m
  <2>1. \A y \in V : y \in Nat /\ m \in Nat /\ m >= y /\ y # m
    BY <1>3, <1>5
  <2> QED
    BY <2>1
<1> DEFINE p == [i \in 1 .. n + 1 |-> IF i = n + 1 THEN m ELSE q[i]]
<1> HIDE DEF n, T, Listed
<1>9. p \in [1 .. n + 1 -> U]
  <2>1. ASSUME NEW i \in 1 .. n + 1 PROVE p[i] \in U
    <3>1. i = n + 1 \/ i \in 1 .. n
      BY <1>6
    <3> QED
      BY <1>5, <1>7, <3>1
  <2> QED
    BY <2>1
<1>10. ASSUME NEW i \in 1 .. n + 1, NEW j \in 1 .. n + 1, i < j PROVE p[i] < p[j]
  <2>1. i \in 1 .. n /\ p[i] = q[i] /\ q[i] \in V
    BY <1>6, <1>7, <1>10
  <2>2. CASE j = n + 1
    BY <1>8, <2>1, <2>2
  <2>3. CASE j \in 1 .. n
    <3>1. p[j] = q[j]
      BY <1>6, <2>3
    <3> QED
      BY <1>7, <1>10, <2>1, <2>3, <3>1
  <2> QED
    BY <1>6, <2>2, <2>3
<1> HIDE DEF p
<1>11. Listed(U)
  BY <1>6, <1>9, <1>10 DEF Listed
<1> QED
  BY <1>3, <1>11

\* All of its elements are.
LEMMA InOrderLists ==
    ASSUME NEW S \in SUBSET Nat, IsFiniteSet(S)
    PROVE  /\ Cardinality(S) \in Nat
           /\ InOrder(S) \in [1 .. Cardinality(S) -> S]
           /\ \A x \in S : \E i \in 1 .. Cardinality(S) : InOrder(S)[i] = x
<1> DEFINE n == Cardinality(S)
           q == InOrder(S)
<1>1. n \in Nat
  BY FS_CardinalityType
<1>2. q \in [1 .. n -> S] /\ \A i, j \in DOMAIN q : i < j => q[i] < q[j]
  BY InOrderExists DEF InOrder
<1>3. ASSUME NEW x \in S, \A i \in 1 .. n : q[i] # x PROVE FALSE
  <2> DEFINE D == 1 .. n
             R == S \ {x}
  <2>1. IsFiniteSet(R) /\ Cardinality(R) = n - 1
    BY FS_RemoveElement
  <2>2. IsFiniteSet(D) /\ Cardinality(D) = n
    BY <1>1, FS_Interval
  <2> HIDE DEF n, q
  <2>3. q \in [D -> R]
    BY <1>2, <1>3
  <2>4. Cardinality(R) < Cardinality(D)
    BY <1>1, <2>1, <2>2
  <2> HIDE DEF D, R
  <2>5. \E i, j \in D : i # j /\ q[i] = q[j]
    BY <2>1, <2>2, <2>3, <2>4, FS_PigeonHole
  <2> USE DEF D
  <2>7. PICK i \in 1 .. n, j \in 1 .. n : i # j /\ q[i] = q[j]
    BY <2>5
  <2>6. q[i] \in Nat /\ q[j] \in Nat /\ (i < j \/ j < i)
    <3>1. q[i] \in S /\ q[j] \in S
      BY <1>2
    <3>2. i \in Nat /\ j \in Nat
      BY <1>1
    <3>3. i < j \/ j < i
      BY <2>7, <3>2
    <3>4. q[i] \in Nat /\ q[j] \in Nat
      BY <3>1
    <3> QED
      BY <3>3, <3>4
  <2> QED
    BY <1>2, <2>7, <2>6
<1> HIDE DEF n, q
<1>4. \A x \in S : \E i \in 1 .. n : q[i] = x
  BY <1>3
<1> QED
  BY <1>1, <1>2, <1>4 DEF n, q

-------------------------------------------------------------------------------
(* The graph of a workflow: vertices V and arcs R *)

\* What a search along the arcs finds from s, s included.
Behind(s, V, R) ==
    {d \in V : \A S \in SUBSET V :
        (s \in S /\ \A t \in S : \A u \in V : <<t, u>> \in R => u \in S) => d \in S}

\* Each set of vertices has one that no arc enters from the set.
Acyclic(V, R) == \A S \in SUBSET V : S # {} => \E x \in S : \A p \in S : <<p, x>> \notin R

\* What is behind a vertex is the least set with it that no arc leaves.
LEMMA BehindIsClosed ==
    ASSUME NEW V, NEW R, NEW s \in V
    PROVE  /\ Behind(s, V, R) \in SUBSET V /\ s \in Behind(s, V, R)
           /\ \A t \in Behind(s, V, R) : \A u \in V : <<t, u>> \in R => u \in Behind(s, V, R)
  BY DEF Behind

\* More vertices and arcs lead to no fewer vertices.
LEMMA BehindGrows ==
    ASSUME NEW V, NEW R, NEW W, NEW Q, V \subseteq W,
           \A a, b \in V : <<a, b>> \in R => <<a, b>> \in Q, NEW s \in V
    PROVE  Behind(s, V, R) \subseteq Behind(s, W, Q)
<1> SUFFICES ASSUME NEW d \in Behind(s, V, R), NEW S \in SUBSET W,
                    s \in S, \A t \in S : \A u \in W : <<t, u>> \in Q => u \in S
             PROVE  d \in S
  BY DEF Behind
<1> DEFINE U == S \cap V
<1>1. U \in SUBSET V /\ s \in U /\ \A t \in U : \A u \in V : <<t, u>> \in R => u \in U
  OBVIOUS
<1> HIDE DEF U
<1>2. d \in U
  BY <1>1 DEF Behind
<1> QED
  BY <1>2 DEF U

\* Fewer vertices and arcs make no cycle, nor does an arc to a vertex from which its
\* source is not reached, nor a vertex without arcs.
LEMMA AcyclicShrinks ==
    ASSUME NEW V, NEW R, Acyclic(V, R), NEW W, NEW Q, W \subseteq V,
           \A a, b \in W : <<a, b>> \in Q => <<a, b>> \in R
    PROVE  Acyclic(W, Q)
<1> SUFFICES ASSUME NEW S \in SUBSET W, S # {}
             PROVE  \E x \in S : \A p \in S : <<p, x>> \notin Q
  BY DEF Acyclic
<1>1. PICK x \in S : \A p \in S : <<p, x>> \notin R
  BY DEF Acyclic
<1> QED
  BY <1>1

LEMMA AcyclicWithArc ==
    ASSUME NEW V, NEW R, Acyclic(V, R), NEW s \in V, NEW d \in V, s \notin Behind(d, V, R),
           NEW Q, \A a, b \in V : <<a, b>> \in Q => <<a, b>> \in R \/ (a = s /\ b = d)
    PROVE  Acyclic(V, Q)
<1> SUFFICES ASSUME NEW S \in SUBSET V, S # {}
             PROVE  \E x \in S : \A p \in S : <<p, x>> \notin Q
  BY DEF Acyclic
<1>1. CASE s \in S
  <2> DEFINE B == Behind(d, V, R)
             U == S \ B
  <2>1. U \in SUBSET V /\ U # {}
    BY <1>1
  <2>2. PICK x \in U : \A p \in U : <<p, x>> \notin R
    BY <2>1 DEF Acyclic
  <2>3. d \in B /\ \A t \in B : \A u \in V : <<t, u>> \in R => u \in B
    BY BehindIsClosed
  <2> HIDE DEF B
  <2>4. \A p \in S : <<p, x>> \notin Q
    BY <2>2, <2>3
  <2> QED
    BY <2>2, <2>4
<1>2. CASE s \notin S
  <2>1. PICK x \in S : \A p \in S : <<p, x>> \notin R
    BY DEF Acyclic
  <2> QED
    BY <1>2, <2>1
<1> QED
  BY <1>1, <1>2

LEMMA AcyclicWithVertex ==
    ASSUME NEW V, NEW R, Acyclic(V, R), NEW t, NEW Q,
           \A a, b \in V \cup {t} : <<a, b>> \in Q => a # t /\ b # t /\ <<a, b>> \in R
    PROVE  Acyclic(V \cup {t}, Q)
<1> SUFFICES ASSUME NEW S \in SUBSET (V \cup {t}), S # {}
             PROVE  \E x \in S : \A p \in S : <<p, x>> \notin Q
  BY DEF Acyclic
<1>1. CASE t \in S
  BY <1>1
<1>2. CASE t \notin S
  <2>1. S \in SUBSET V
    BY <1>2
  <2>2. PICK x \in S : \A p \in S : <<p, x>> \notin R
    BY <2>1 DEF Acyclic
  <2> QED
    BY <2>2
<1> QED
  BY <1>1, <1>2

-------------------------------------------------------------------------------
(* The graph of a workflow: levels *)

ParentsIn(u, V, R) == {p \in V : <<p, u>> \in R}
Depth(u, V, R, of) == IF ParentsIn(u, V, R) = {} THEN 0
                      ELSE 1 + Max({of[p] : p \in ParentsIn(u, V, R)})

\* The levels of the vertices D, given those of the others.
Below(D, levels, f) == [p \in DOMAIN levels |-> IF p \in D THEN f[p] ELSE levels[p]]
IsLevel(D, V, R, levels, f) == f = [u \in D |-> Depth(u, V, R, Below(D, levels, f))]

\* The depth of a vertex is a number, one more than that of a deepest parent.
LEMMA DepthType ==
    ASSUME NEW V, IsFiniteSet(V), NEW R, NEW of, NEW u,
           \A p \in ParentsIn(u, V, R) : of[p] \in Nat
    PROVE  /\ Depth(u, V, R, of) \in Nat
           /\ ParentsIn(u, V, R) = {} <=> Depth(u, V, R, of) = 0
           /\ \A p \in ParentsIn(u, V, R) : of[p] < Depth(u, V, R, of)
<1> DEFINE P == ParentsIn(u, V, R)
           L == {of[p] : p \in P}
<1>1. CASE P = {}
  BY <1>1 DEF Depth
<1>2. CASE P # {}
  <2>1. IsFiniteSet(L)
    <3>1. IsFiniteSet(P)
      BY FS_Subset DEF ParentsIn
    <3> HIDE DEF P
    <3> QED
      BY <3>1, ImageIsFinite
  <2>2. L \in SUBSET Int /\ L # {}
    BY <1>2
  <2> HIDE DEF L
  <2>3. Max(L) \in L /\ \A y \in L : Max(L) >= y
    BY <2>1, <2>2, MaxOfFinite
  <2>4. Depth(u, V, R, of) = 1 + Max(L)
    BY <1>2 DEF Depth, L
  <2>5. Max(L) \in Nat
    BY <2>3 DEF L
  <2>6. ASSUME NEW p \in P PROVE of[p] < 1 + Max(L)
    <3>1. of[p] \in L /\ of[p] \in Nat
      BY DEF L
    <3> QED
      BY <2>3, <2>5, <3>1
  <2> QED
    BY <1>2, <2>4, <2>5, <2>6
<1> QED
  BY <1>1, <1>2

\* It depends on the levels of its parents.
LEMMA DepthAgrees ==
    ASSUME NEW V, NEW R, NEW W, NEW Q, NEW f, NEW g, NEW u,
           ParentsIn(u, V, R) = ParentsIn(u, W, Q), \A p \in ParentsIn(u, V, R) : f[p] = g[p]
    PROVE  Depth(u, V, R, f) = Depth(u, W, Q, g)
<1>1. {f[p] : p \in ParentsIn(u, V, R)} = {g[p] : p \in ParentsIn(u, W, Q)}
  OBVIOUS
<1> QED
  BY <1>1 DEF Depth

\* One function gives the levels of the vertices of D.
LEMMA LevelIsUnique ==
    ASSUME NEW V, NEW R, Acyclic(V, R), NEW D \in SUBSET V, NEW levels, V \subseteq DOMAIN levels,
           NEW f, IsLevel(D, V, R, levels, f), NEW g, IsLevel(D, V, R, levels, g)
    PROVE  f = g
<1> DEFINE S == {u \in D : f[u] # g[u]}
<1>1. SUFFICES ASSUME S # {} PROVE FALSE
  <2>1. f = [u \in D |-> f[u]] /\ g = [u \in D |-> g[u]]
    BY DEF IsLevel
  <2> QED
    BY <1>1, <2>1
<1>2. PICK x \in S : \A p \in S : <<p, x>> \notin R
  <2>1. S \in SUBSET V
    OBVIOUS
  <2> HIDE DEF S
  <2> QED
    BY <1>1, <2>1 DEF Acyclic
<1>3. ASSUME NEW p \in ParentsIn(x, V, R)
      PROVE  Below(D, levels, f)[p] = Below(D, levels, g)[p]
  <2>1. p \in V /\ p \notin S
    BY <1>2 DEF ParentsIn
  <2> QED
    BY <2>1 DEF Below
<1>4. Depth(x, V, R, Below(D, levels, f)) = Depth(x, V, R, Below(D, levels, g))
  BY <1>3, DepthAgrees
<1>5. f[x] = g[x]
  BY <1>4 DEF IsLevel
<1> QED
  BY <1>2, <1>5

\* It exists.
LEMMA LevelExists ==
    ASSUME NEW V, IsFiniteSet(V), NEW R, Acyclic(V, R), NEW D \in SUBSET V, NEW levels,
           V \subseteq DOMAIN levels
    PROVE  \E f : IsLevel(D, V, R, levels, f)
<1> DEFINE Entered(U) == \A u \in U : \A p \in ParentsIn(u, V, R) : p \in D => p \in U
           T == {M \in SUBSET D : Entered(D \ M) /\ \E f : IsLevel(D \ M, V, R, levels, f)}
<1>1. T # {}
  <2>1. D \ D = {}
    OBVIOUS
  <2>2. IsLevel({}, V, R, levels, [u \in {} |-> Depth(u, V, R, Below({}, levels, <<>>))])
    BY DEF IsLevel
  <2>3. D \in T
    BY <2>1, <2>2
  <2> QED
    BY <2>3
<1>2. PICK M \in T : \A N \in SUBSET M : N # M => N \notin T
  <2>1. T \in SUBSET SUBSET D /\ IsFiniteSet(D)
    BY FS_Subset
  <2> HIDE DEF T
  <2> QED
    BY <1>1, <2>1, OneIsMinimal
<1>3. M \in SUBSET D /\ Entered(D \ M)
  OBVIOUS
<1>4. PICK f : IsLevel(D \ M, V, R, levels, f)
  BY <1>2
<1>5. CASE M = {}
  <2>1. D \ M = D
    BY <1>5
  <2> QED
    BY <1>4, <2>1
<1>6. ASSUME M # {} PROVE FALSE
  <2>1. PICK x \in M : \A p \in M : <<p, x>> \notin R
    <3>1. M \in SUBSET V
      BY <1>3
    <3> HIDE DEF T
    <3> QED
      BY <1>6, <3>1 DEF Acyclic
  <2> DEFINE N == M \ {x}
             U == D \ M
             W == D \ N
             of == Below(U, levels, f)
             g == [u \in W |-> Depth(u, V, R, of)]
             ofg == Below(W, levels, g)
  <2>2. W = U \cup {x} /\ x \notin U /\ N \in SUBSET M /\ N # M /\ N \in SUBSET D /\ U \subseteq D
    BY <1>3, <2>1
  <2>3. \A u \in U : f[u] = g[u]
    BY <1>4, <2>2 DEF IsLevel
  <2>4. ASSUME NEW u \in W, NEW p \in ParentsIn(u, V, R) PROVE p \in U \/ p \notin D
    <3>1. CASE u = x
      BY <2>1, <3>1 DEF ParentsIn
    <3>2. CASE u \in U
      BY <1>3, <3>2
    <3> QED
      BY <2>2, <3>1, <3>2
  <2> HIDE DEF g, T, U, W
  <2>5. ASSUME NEW u \in W PROVE Depth(u, V, R, of) = Depth(u, V, R, ofg)
    <3>1. ASSUME NEW p \in ParentsIn(u, V, R) PROVE of[p] = ofg[p]
      <4>1. p \in DOMAIN levels
        BY DEF ParentsIn
      <4>2. CASE p \in U
        BY <2>2, <2>3, <4>1, <4>2 DEF Below
      <4>3. CASE p \notin D
        <5>1. p \notin U /\ p \notin W
          BY <4>3 DEF U, W
        <5> QED
          BY <4>1, <5>1 DEF Below
      <4> QED
        BY <2>4, <4>2, <4>3
    <3> HIDE DEF of, ofg
    <3> QED
      BY <3>1, DepthAgrees
  <2>6. IsLevel(W, V, R, levels, g)
    BY <2>5 DEF IsLevel, g
  <2>7. Entered(W)
    BY <2>2, <2>4
  <2>8. N \in T
    BY <2>2, <2>6, <2>7 DEF T, W
  <2> QED
    BY <1>2, <2>2, <2>8
<1> QED
  BY <1>5, <1>6

\* Its values are numbers.
LEMMA LevelType ==
    ASSUME NEW V, IsFiniteSet(V), NEW R, Acyclic(V, R), NEW D \in SUBSET V, NEW levels,
           V \subseteq DOMAIN levels, \A p \in V : levels[p] \in Nat,
           NEW f, IsLevel(D, V, R, levels, f)
    PROVE  \A u \in D : f[u] \in Nat
<1> DEFINE S == {u \in D : f[u] \notin Nat}
<1>1. SUFFICES ASSUME S # {} PROVE FALSE
  OBVIOUS
<1>2. PICK x \in S : \A p \in S : <<p, x>> \notin R
  <2>1. S \in SUBSET V
    OBVIOUS
  <2> HIDE DEF S
  <2> QED
    BY <1>1, <2>1 DEF Acyclic
<1> DEFINE of == Below(D, levels, f)
<1>3. ASSUME NEW p \in ParentsIn(x, V, R) PROVE of[p] \in Nat
  <2>1. p \in V /\ p \notin S
    BY <1>2 DEF ParentsIn
  <2> QED
    BY <2>1 DEF Below
<1> HIDE DEF of
<1>4. Depth(x, V, R, of) \in Nat
  BY <1>3, DepthType
<1>5. f[x] = Depth(x, V, R, of)
  BY DEF IsLevel, of
<1> QED
  BY <1>2, <1>4, <1>5

\* When no arc leaves D, the vertices of D get the levels they should have, and the
\* others keep them.
LEMMA LevelsAreRight ==
    ASSUME NEW V, NEW R, NEW D \in SUBSET V, NEW levels, V \subseteq DOMAIN levels,
           \A t \in D : \A u \in V : <<t, u>> \in R => u \in D,
           NEW f, IsLevel(D, V, R, levels, f), NEW u \in V,
           u \in D \/ levels[u] = Depth(u, V, R, levels)
    PROVE  Below(D, levels, f)[u] = Depth(u, V, R, Below(D, levels, f))
<1>1. CASE u \in D
  BY <1>1 DEF IsLevel, Below
<1>2. CASE u \notin D
  <2> DEFINE of == Below(D, levels, f)
  <2>1. ASSUME NEW p \in ParentsIn(u, V, R) PROVE levels[p] = of[p]
    BY <1>2 DEF ParentsIn, Below
  <2>2. of[u] = levels[u]
    BY <1>2 DEF Below
  <2> HIDE DEF of
  <2>3. Depth(u, V, R, levels) = Depth(u, V, R, of)
    BY <2>1, DepthAgrees
  <2> QED
    BY <1>2, <2>2, <2>3 DEF of
<1> QED
  BY <1>1, <1>2

-------------------------------------------------------------------------------
(* The graph of a workflow: its numbers *)

USE IdentifiersAssumption

TasksOf(g) == ToSet(g.vertices)
Arcs(g) == {e \in TasksOf(g) \X TasksOf(g) : DoesEdgeExist(e[1], e[2], g)}

Dags == [vertices : Seq(Identifiers), edges : [Vertices \X Vertices -> Nat],
         list : Seq(Identifiers), map : [Identifiers -> Nat]]

Indexed(g) ==
    /\ g \in Dags /\ g.list = g.vertices
    /\ \A i \in DOMAIN g.vertices : g.map[g.vertices[i]] = i
    /\ \A e \in DOMAIN g.edges :
          g.edges[e] > 0 => e[1] \in DOMAIN g.vertices /\ e[2] \in DOMAIN g.vertices

\* Distinct tasks are no more than there are identifiers.
LEMMA NoMoreVertices ==
    ASSUME NEW q \in Seq(Identifiers), NEW map, \A i \in DOMAIN q : map[q[i]] = i
    PROVE  /\ Len(q) \in Nat /\ DOMAIN q = 1 .. Len(q)
           /\ Cardinality(Identifiers) \in Nat /\ Len(q) <= Cardinality(Identifiers)
           /\ DOMAIN q \subseteq Vertices
<1> DEFINE n == Len(q)
<1>1. n \in Nat /\ DOMAIN q = 1 .. n /\ q \in [1 .. n -> Identifiers]
  OBVIOUS
<1>2. Cardinality(Identifiers) \in Nat
  BY FS_CardinalityType
<1>3. q \in Injection(1 .. n, Identifiers)
  <2>1. \A i, j \in 1 .. n : q[i] = q[j] => i = j
    BY <1>1
  <2> HIDE DEF n
  <2> QED
    BY <1>1, <2>1 DEF Injection, IsInjective
<1> HIDE DEF n
<1> DEFINE D == 1 .. n
<1>4. IsFiniteSet(D) /\ Cardinality(D) = n
  BY <1>1, FS_Interval
<1>5. Cardinality(D) <= Cardinality(Identifiers)
  <2>1. q \in Injection(D, Identifiers)
    BY <1>3
  <2> HIDE DEF D
  <2> QED
    BY <2>1, FS_Injection
<1>6. n <= Cardinality(Identifiers)
  BY <1>4, <1>5
<1>7. 1 .. n \subseteq Vertices
  BY <1>1, <1>2, <1>6 DEF Vertices
<1> QED
  BY <1>1, <1>2, <1>6, <1>7 DEF n

\* A task is found by its number.
LEMMA TasksAreIndexed ==
    ASSUME NEW g, Indexed(g)
    PROVE  /\ Len(g.vertices) \in Nat /\ DOMAIN g.vertices = 1 .. Len(g.vertices)
           /\ DOMAIN g.vertices \subseteq Vertices
           /\ Len(g.vertices) <= Cardinality(Identifiers)
           /\ TasksOf(g) \in SUBSET Identifiers /\ IsFiniteSet(TasksOf(g))
           /\ \A i \in DOMAIN g.vertices : g.vertices[i] \in TasksOf(g)
           /\ \A t \in TasksOf(g) : g.map[t] \in DOMAIN g.vertices /\ g.vertices[g.map[t]] = t
<1>1. g.vertices \in Seq(Identifiers) /\ \A i \in DOMAIN g.vertices : g.map[g.vertices[i]] = i
  BY DEF Indexed, Dags
<1>2. TasksOf(g) \in SUBSET Identifiers
  BY <1>1 DEF TasksOf, ToSet
<1>3. IsFiniteSet(TasksOf(g))
  BY <1>2, FS_Subset
<1>4. \A t \in TasksOf(g) : g.map[t] \in DOMAIN g.vertices /\ g.vertices[g.map[t]] = t
  BY <1>1 DEF TasksOf, ToSet
<1>5. \A i \in DOMAIN g.vertices : g.vertices[i] \in TasksOf(g)
  BY DEF TasksOf, ToSet
<1> QED
  BY <1>1, <1>2, <1>3, <1>4, <1>5, NoMoreVertices

\* No two tasks have the same index.
LEMMA TasksAreDistinct ==
    ASSUME NEW g, Indexed(g)
    PROVE  \A x, y \in TasksOf(g) : g.map[x] = g.map[y] => x = y
<1>1. \A x \in TasksOf(g) : g.vertices[g.map[x]] = x
  BY TasksAreIndexed
<1> QED
  BY <1>1

\* A sum of natural numbers is 0 when all of them are.
LEMMA ZeroSum ==
    ASSUME NEW F, IsFiniteSet(DOMAIN F), \A x \in DOMAIN F : F[x] \in Nat
    PROVE  SumFunction(F) = 0 <=> \A x \in DOMAIN F : F[x] = 0
<1> DEFINE Sum(S) == SumFunctionOnSet(F, S)
<1>1. \A S : /\ Sum(S) = Relevelling!SumFunctionOnSet(F, S)
             /\ IsFiniteSet(S) <=> Relevelling!IsFiniteSet(S)
  BY DEF SumFunctionOnSet, Relevelling!SumFunctionOnSet, FoldFunctionOnSet,
         Relevelling!FoldFunctionOnSet, MapThenFoldSet, Relevelling!MapThenFoldSet, IsFiniteSet,
         Relevelling!IsFiniteSet
<1>2. SumFunction(F) = Sum(DOMAIN F)
  BY DEF SumFunction
<1> DEFINE T == {S \in SUBSET DOMAIN F :
                    ~(Sum(S) \in Nat /\ (Sum(S) = 0 <=> \A x \in S : F[x] = 0))}
<1>3. SUFFICES ASSUME T # {} PROVE FALSE
  <2>1. DOMAIN F \in SUBSET DOMAIN F
    OBVIOUS
  <2> HIDE DEF Sum
  <2> QED
    BY <1>2, <1>3, <2>1
<1>4. PICK U \in T : \A V \in SUBSET U : V # U => V \notin T
  <2>1. T \in SUBSET SUBSET DOMAIN F
    OBVIOUS
  <2> HIDE DEF T
  <2> QED
    BY <1>3, <2>1, OneIsMinimal
<1>5. U \in SUBSET DOMAIN F /\ IsFiniteSet(U)
  BY FS_Subset
<1>6. /\ Sum({}) = 0
      /\ U # {} => \E y \in U : Sum(U) = F[y] + Sum(U \ {y})
  <2>1. Relevelling!IsFiniteSet(U)
    BY <1>1, <1>5
  <2>2. /\ Relevelling!SumFunctionOnSet(F, {}) = 0
        /\ U # {} => \E y \in U : Relevelling!SumFunctionOnSet(F, U)
                                    = F[y] + Relevelling!SumFunctionOnSet(F, U \ {y})
    BY <2>1, Relevelling!SumUnfolds
  <2> HIDE DEF Sum
  <2> QED
    BY <1>1, <2>2
<1> HIDE DEF Sum
<1>7. CASE U = {}
  BY <1>6, <1>7
<1>8. CASE U # {}
  <2>1. PICK y \in U : Sum(U) = F[y] + Sum(U \ {y})
    BY <1>6, <1>8
  <2> DEFINE W == U \ {y}
  <2>2. W \in SUBSET U /\ W # U /\ W \in SUBSET DOMAIN F
    BY <1>5
  <2>3. Sum(W) \in Nat /\ (Sum(W) = 0 <=> \A x \in W : F[x] = 0)
    BY <1>4, <2>2
  <2>4. F[y] \in Nat /\ Sum(U) = F[y] + Sum(W) /\ Sum(U) \in Nat
    BY <1>5, <2>1, <2>3
  <2>5. Sum(U) = 0 <=> F[y] = 0 /\ Sum(W) = 0
    <3> HIDE DEF W
    <3> QED
      BY <2>3, <2>4
  <2>6. (\A x \in U : F[x] = 0) <=> F[y] = 0 /\ \A x \in W : F[x] = 0
    OBVIOUS
  <2> QED
    BY <2>3, <2>4, <2>5, <2>6
<1> QED
  BY <1>7, <1>8

\* What the graph is asked for, in terms of its tasks and arcs.
LEMMA Queries ==
    ASSUME NEW g, Indexed(g), NEW t \in TasksOf(g)
    PROVE  /\ GetChildren(t, g) = {c \in TasksOf(g) : <<t, c>> \in Arcs(g)}
           /\ GetParents(t, g) = ParentsIn(t, TasksOf(g), Arcs(g))
           /\ GetNumberOfParents(t, g) = 0 <=> GetParents(t, g) = {}
           /\ GetNumberOfChildren(t, g) = 0 <=> GetChildren(t, g) = {}
<1> DEFINE q == g.vertices
           V == TasksOf(g)
           v == g.map[t]
<1>1. /\ DOMAIN q \subseteq Vertices /\ IsFiniteSet(DOMAIN q)
      /\ \A i \in DOMAIN q : q[i] \in V /\ g.map[q[i]] = i
      /\ \A u \in V : g.map[u] \in DOMAIN q /\ q[g.map[u]] = u
  <2>1. IsFiniteSet(Vertices)
    <3>1. Cardinality(Identifiers) \in Nat
      BY FS_CardinalityType
    <3> QED
      BY <3>1, FS_Interval DEF Vertices
  <2>2. DOMAIN q \subseteq Vertices
    BY TasksAreIndexed
  <2>3. IsFiniteSet(DOMAIN q)
    BY <2>1, <2>2, FS_Subset
  <2>4. \A i \in DOMAIN q : g.map[q[i]] = i
    BY DEF Indexed
  <2> QED
    BY <2>2, <2>3, <2>4, TasksAreIndexed
<1>2. v \in DOMAIN q /\ \A u \in DOMAIN q : g.edges[<<v, u>>] \in Nat /\ g.edges[<<u, v>>] \in Nat
  <2>1. g.edges \in [Vertices \X Vertices -> Nat]
    BY DEF Indexed, Dags
  <2> QED
    BY <1>1, <2>1
<1>3. \A u \in V : /\ <<t, u>> \in Arcs(g) <=> g.edges[<<v, g.map[u]>>] > 0
                   /\ <<u, t>> \in Arcs(g) <=> g.edges[<<g.map[u], v>>] > 0
  BY DEF Arcs, DoesEdgeExist, EdgesFrom
<1>4. GetChildren(t, g) = {q[u] : u \in {w \in DOMAIN q : g.edges[<<v, w>>] > 0}}
  BY DEF GetChildren
<1>5. GetParents(t, g) = {q[u] : u \in {w \in DOMAIN q : g.edges[<<w, v>>] > 0}}
  BY DEF GetParents
<1> DEFINE out == [u \in DOMAIN q |-> g.edges[<<v, u>>]]
           in == [u \in DOMAIN q |-> g.edges[<<u, v>>]]
<1>6. GetNumberOfChildren(t, g) = SumFunction(out) /\ GetNumberOfParents(t, g) = SumFunction(in)
  BY DEF GetNumberOfChildren, GetNumberOfParents
<1> HIDE DEF q, V, v
<1>7. /\ SumFunction(out) = 0 <=> \A u \in DOMAIN q : out[u] = 0
      /\ SumFunction(in) = 0 <=> \A u \in DOMAIN q : in[u] = 0
  <2>1. /\ DOMAIN out = DOMAIN q /\ DOMAIN in = DOMAIN q
        /\ \A u \in DOMAIN q : out[u] \in Nat /\ in[u] \in Nat
    BY <1>2
  <2> HIDE DEF out, in
  <2> QED
    BY <1>1, <2>1, ZeroSum
<1>8. GetChildren(t, g) = {c \in V : <<t, c>> \in Arcs(g)}
  <2>1. ASSUME NEW c \in V, <<t, c>> \in Arcs(g) PROVE c \in GetChildren(t, g)
    BY <1>1, <1>3, <1>4, <2>1
  <2>2. ASSUME NEW c \in GetChildren(t, g) PROVE c \in V /\ <<t, c>> \in Arcs(g)
    <3>1. PICK u \in DOMAIN q : g.edges[<<v, u>>] > 0 /\ c = q[u]
      BY <1>4
    <3>2. c \in V /\ g.map[c] = u
      BY <1>1, <3>1
    <3> QED
      BY <1>3, <3>1, <3>2
  <2> QED
    BY <2>1, <2>2
<1>9. GetParents(t, g) = {p \in V : <<p, t>> \in Arcs(g)}
  <2>1. ASSUME NEW c \in V, <<c, t>> \in Arcs(g) PROVE c \in GetParents(t, g)
    BY <1>1, <1>3, <1>5, <2>1
  <2>2. ASSUME NEW c \in GetParents(t, g) PROVE c \in V /\ <<c, t>> \in Arcs(g)
    <3>1. PICK u \in DOMAIN q : g.edges[<<u, v>>] > 0 /\ c = q[u]
      BY <1>5
    <3>2. c \in V /\ g.map[c] = u
      BY <1>1, <3>1
    <3> QED
      BY <1>3, <3>1, <3>2
  <2> QED
    BY <2>1, <2>2
<1>10. GetNumberOfChildren(t, g) = 0 <=> GetChildren(t, g) = {}
  <2>1. GetChildren(t, g) = {} <=> \A u \in DOMAIN q : ~(g.edges[<<v, u>>] > 0)
    BY <1>4
  <2>2. ASSUME NEW u \in DOMAIN q PROVE ~(g.edges[<<v, u>>] > 0) <=> g.edges[<<v, u>>] = 0
    <3>1. g.edges[<<v, u>>] \in Nat
      BY <1>2
    <3> QED
      BY <3>1
  <2> QED
    BY <1>6, <1>7, <2>1, <2>2
<1>11. GetNumberOfParents(t, g) = 0 <=> GetParents(t, g) = {}
  <2>1. GetParents(t, g) = {} <=> \A u \in DOMAIN q : ~(g.edges[<<u, v>>] > 0)
    BY <1>5
  <2>2. ASSUME NEW u \in DOMAIN q PROVE ~(g.edges[<<u, v>>] > 0) <=> g.edges[<<u, v>>] = 0
    <3>1. g.edges[<<u, v>>] \in Nat
      BY <1>2
    <3> QED
      BY <3>1
  <2> QED
    BY <1>6, <1>7, <2>1, <2>2
<1> QED
  BY <1>8, <1>9, <1>10, <1>11 DEF V, ParentsIn

\* The breadth-first search finds what is behind a task.
LEMMA ReachedIsBehind ==
    ASSUME NEW g, Indexed(g), NEW s \in TasksOf(g)
    PROVE  Reached(s, g) = Behind(s, TasksOf(g), Arcs(g))
<1> DEFINE V == TasksOf(g)
<1>1. ASSUME NEW S \in SUBSET V
      PROVE  (\A t \in S : GetChildren(t, g) \subseteq S)
               <=> (\A t \in S : \A u \in V : <<t, u>> \in Arcs(g) => u \in S)
  <2>1. \A t \in S : GetChildren(t, g) = {c \in V : <<t, c>> \in Arcs(g)}
    BY Queries
  <2> QED
    BY <2>1
<1>2. Reached(s, g) = {d \in V : \A S \in SUBSET V :
                          (s \in S /\ \A t \in S : GetChildren(t, g) \subseteq S) => d \in S}
  BY DEF Reached, TasksOf
<1> HIDE DEF V
<1>3. Reached(s, g) = Behind(s, V, Arcs(g))
  BY <1>1, <1>2 DEF Behind
<1> QED
  BY <1>3 DEF V

-------------------------------------------------------------------------------
(* The graph of a workflow: changes *)

\* An arc more.
LEMMA ArcAdded ==
    ASSUME NEW g, Indexed(g), NEW s \in TasksOf(g), NEW d \in TasksOf(g)
    PROVE  /\ Indexed(AddEdge(s, d, g)) /\ TasksOf(AddEdge(s, d, g)) = TasksOf(g)
           /\ \A a, b \in TasksOf(g) :
                 <<a, b>> \in Arcs(AddEdge(s, d, g)) <=> <<a, b>> \in Arcs(g) \/ (a = s /\ b = d)
<1> DEFINE h == AddEdge(s, d, g)
           V == TasksOf(g)
           e == <<g.map[s], g.map[d]>>
<1>1. g \in Dags /\ g.list = g.vertices /\ e \in Vertices \X Vertices
      /\ e[1] \in DOMAIN g.vertices /\ e[2] \in DOMAIN g.vertices
  BY TasksAreIndexed DEF Indexed
<1>2. /\ h.vertices = g.vertices /\ h.list = g.list /\ h.map = g.map
      /\ h.edges = [g.edges EXCEPT ![e] = @ + 1]
      /\ h = [vertices |-> h.vertices, edges |-> h.edges, list |-> h.list, map |-> h.map]
  <2>1. g = [vertices |-> g.vertices, edges |-> g.edges, list |-> g.list, map |-> g.map]
    BY <1>1 DEF Dags
  <2>2. h = [vertices |-> g.vertices, edges |-> [g.edges EXCEPT ![e] = @ + 1], list |-> g.list, map |-> g.map]
    BY <2>1 DEF AddEdge
  <2> HIDE DEF h
  <2> QED
    BY <2>2
<1>3. g.edges \in [Vertices \X Vertices -> Nat]
  BY <1>1 DEF Dags
<1>4. h.edges \in [Vertices \X Vertices -> Nat]
  BY <1>1, <1>2, <1>3
<1> HIDE DEF h
<1>5. h \in Dags
  BY <1>1, <1>2, <1>4 DEF Dags
<1>6. TasksOf(h) = V
  BY <1>2 DEF TasksOf
<1>7. \A x \in Vertices \X Vertices : h.edges[x] > 0 <=> g.edges[x] > 0 \/ x = e
  BY <1>1, <1>2, <1>3
<1>8. Indexed(h)
  <2>1. \A x \in DOMAIN h.edges :
            h.edges[x] > 0 => x[1] \in DOMAIN h.vertices /\ x[2] \in DOMAIN h.vertices
    BY <1>1, <1>2, <1>3, <1>7 DEF Indexed
  <2> QED
    BY <1>2, <1>5, <2>1 DEF Indexed
<1>9. ASSUME NEW a \in V, NEW b \in V
      PROVE  <<a, b>> \in Arcs(h) <=> <<a, b>> \in Arcs(g) \/ (a = s /\ b = d)
  <2>1. /\ <<a, b>> \in Arcs(h) <=> h.edges[<<g.map[a], g.map[b]>>] > 0
        /\ <<a, b>> \in Arcs(g) <=> g.edges[<<g.map[a], g.map[b]>>] > 0
    BY <1>2, <1>6 DEF Arcs, DoesEdgeExist, EdgesFrom
  <2>2. <<g.map[a], g.map[b]>> \in Vertices \X Vertices
    BY TasksAreIndexed
  <2>3. (g.map[a] = g.map[s] <=> a = s) /\ (g.map[b] = g.map[d] <=> b = d)
    <3>1. s \in V /\ d \in V
      OBVIOUS
    <3>2. \A x, y \in V : g.map[x] = g.map[y] => x = y
      BY TasksAreDistinct
    <3> HIDE DEF V
    <3> QED
      BY <3>1, <3>2
  <2>4. h.edges[<<g.map[a], g.map[b]>>] > 0
          <=> g.edges[<<g.map[a], g.map[b]>>] > 0 \/ <<g.map[a], g.map[b]>> = e
    BY <1>7, <2>2
  <2>5. <<g.map[a], g.map[b]>> = e <=> a = s /\ b = d
    BY <2>3
  <2> QED
    BY <2>1, <2>4, <2>5
<1> QED
  BY <1>6, <1>8, <1>9 DEF h

\* An arc less.
LEMMA ArcRemoved ==
    ASSUME NEW g, Indexed(g), NEW s \in TasksOf(g), NEW d \in TasksOf(g)
    PROVE  /\ Indexed(RemoveEdge(s, d, g)) /\ TasksOf(RemoveEdge(s, d, g)) = TasksOf(g)
           /\ \A a, b \in TasksOf(g) :
                 <<a, b>> \in Arcs(RemoveEdge(s, d, g))
                   <=> <<a, b>> \in Arcs(g) /\ ~(a = s /\ b = d)
<1> DEFINE h == RemoveEdge(s, d, g)
           V == TasksOf(g)
           e == <<g.map[s], g.map[d]>>
<1>1. g \in Dags /\ g.list = g.vertices /\ e \in Vertices \X Vertices
  BY TasksAreIndexed DEF Indexed
<1>2. /\ h.vertices = g.vertices /\ h.list = g.list /\ h.map = g.map
      /\ h.edges = [g.edges EXCEPT ![e] = 0]
      /\ h = [vertices |-> h.vertices, edges |-> h.edges, list |-> h.list, map |-> h.map]
  <2>1. g = [vertices |-> g.vertices, edges |-> g.edges, list |-> g.list, map |-> g.map]
    BY <1>1 DEF Dags
  <2>2. h = [vertices |-> g.vertices, edges |-> [g.edges EXCEPT ![e] = 0], list |-> g.list, map |-> g.map]
    BY <2>1 DEF RemoveEdge
  <2> HIDE DEF h
  <2> QED
    BY <2>2
<1>3. g.edges \in [Vertices \X Vertices -> Nat]
  BY <1>1 DEF Dags
<1>4. h.edges \in [Vertices \X Vertices -> Nat]
  BY <1>1, <1>2, <1>3
<1> HIDE DEF h
<1>5. h \in Dags
  BY <1>1, <1>2, <1>4 DEF Dags
<1>6. TasksOf(h) = V
  BY <1>2 DEF TasksOf
<1>7. \A x \in Vertices \X Vertices : h.edges[x] > 0 <=> g.edges[x] > 0 /\ x # e
  BY <1>1, <1>2, <1>3
<1>8. Indexed(h)
  <2>1. \A x \in DOMAIN h.edges :
            h.edges[x] > 0 => x[1] \in DOMAIN h.vertices /\ x[2] \in DOMAIN h.vertices
    BY <1>2, <1>3, <1>4, <1>7 DEF Indexed
  <2> QED
    BY <1>2, <1>5, <2>1 DEF Indexed
<1>9. ASSUME NEW a \in V, NEW b \in V
      PROVE  <<a, b>> \in Arcs(h) <=> <<a, b>> \in Arcs(g) /\ ~(a = s /\ b = d)
  <2>1. /\ <<a, b>> \in Arcs(h) <=> h.edges[<<g.map[a], g.map[b]>>] > 0
        /\ <<a, b>> \in Arcs(g) <=> g.edges[<<g.map[a], g.map[b]>>] > 0
    BY <1>2, <1>6 DEF Arcs, DoesEdgeExist, EdgesFrom
  <2>2. <<g.map[a], g.map[b]>> \in Vertices \X Vertices
    BY TasksAreIndexed
  <2>3. (g.map[a] = g.map[s] <=> a = s) /\ (g.map[b] = g.map[d] <=> b = d)
    <3>1. s \in V /\ d \in V
      OBVIOUS
    <3>2. \A x, y \in V : g.map[x] = g.map[y] => x = y
      BY TasksAreDistinct
    <3> HIDE DEF V
    <3> QED
      BY <3>1, <3>2
  <2>4. h.edges[<<g.map[a], g.map[b]>>] > 0
          <=> g.edges[<<g.map[a], g.map[b]>>] > 0 /\ <<g.map[a], g.map[b]>> # e
    BY <1>7, <2>2
  <2>5. <<g.map[a], g.map[b]>> = e <=> a = s /\ b = d
    BY <2>3
  <2> QED
    BY <2>1, <2>4, <2>5
<1> QED
  BY <1>6, <1>8, <1>9 DEF h

\* A vertex more, without arcs.
LEMMA VertexAdded ==
    ASSUME NEW g, Indexed(g), NEW t \in Identifiers, t \notin TasksOf(g)
    PROVE  /\ Indexed(AddVertex(t, g)) /\ TasksOf(AddVertex(t, g)) = TasksOf(g) \cup {t}
           /\ \A a, b \in TasksOf(g) \cup {t} :
                 <<a, b>> \in Arcs(AddVertex(t, g)) <=> a # t /\ b # t /\ <<a, b>> \in Arcs(g)
<1> DEFINE h == AddVertex(t, g)
           V == TasksOf(g)
           n == Len(g.vertices)
<1>1. g \in Dags /\ g.list = g.vertices
  BY DEF Indexed
<1>2. /\ h.vertices = Append(g.vertices, t) /\ h.list = Append(g.vertices, t)
      /\ h.map = [g.map EXCEPT ![t] = n + 1] /\ h.edges = g.edges
      /\ h = [vertices |-> h.vertices, edges |-> h.edges, list |-> h.list, map |-> h.map]
  <2>1. g = [vertices |-> g.vertices, edges |-> g.edges, list |-> g.list, map |-> g.map]
    BY <1>1 DEF Dags
  <2>2. h = [vertices |-> Append(g.vertices, t), edges |-> g.edges,
             list |-> Append(g.vertices, t), map |-> [g.map EXCEPT ![t] = n + 1]]
    <3>1. h = [vertices |-> Append(g.vertices, t), edges |-> g.edges,
               list |-> Append(g.list, t), map |-> [g.map EXCEPT ![t] = Len(g.list) + 1]]
      <4>1. h.vertices = Append(g.vertices, t) /\ h.edges = g.edges
        BY <2>1 DEF AddVertex
      <4>2. h.list = Append(g.list, t)
        BY <2>1 DEF AddVertex
      <4>3. h.map = [g.map EXCEPT ![t] = Len(g.list) + 1]
        BY <2>1 DEF AddVertex
      <4>4. h = [vertices |-> h.vertices, edges |-> h.edges, list |-> h.list, map |-> h.map]
        <5>1. DOMAIN h = {"vertices", "edges", "list", "map"} /\ h = [x \in DOMAIN h |-> h[x]]
          BY <2>1 DEF AddVertex
        <5> HIDE DEF h
        <5> QED
          BY <5>1
      <4> QED
        BY <4>1, <4>2, <4>3, <4>4
    <3> QED
      BY <1>1, <3>1
  <2> HIDE DEF h
  <2> QED
    BY <2>2
<1>3. /\ g.vertices \in Seq(Identifiers) /\ g.map \in [Identifiers -> Nat]
      /\ g.edges \in [Vertices \X Vertices -> Nat] /\ n \in Nat /\ DOMAIN g.vertices = 1 .. n
  BY <1>1 DEF Dags
<1> HIDE DEF h
<1>4. h \in Dags
  <2>1. h.vertices \in Seq(Identifiers) /\ h.map \in [Identifiers -> Nat]
    BY <1>2, <1>3
  <2> QED
    BY <1>2, <1>3, <2>1 DEF Dags
<1>5. /\ DOMAIN h.vertices = 1 .. n + 1 /\ h.vertices[n + 1] = t
      /\ \A i \in 1 .. n : h.vertices[i] = g.vertices[i]
  BY <1>2, <1>3
<1>6. TasksOf(h) = V \cup {t}
  <2>1. 1 .. n + 1 = (1 .. n) \cup {n + 1}
    BY <1>3
  <2>2. TasksOf(h) = {h.vertices[i] : i \in 1 .. n + 1} /\ V = {g.vertices[i] : i \in 1 .. n}
    BY <1>3, <1>5 DEF TasksOf, ToSet
  <2>3. \A i \in 1 .. n : i \in 1 .. n + 1 /\ h.vertices[i] = g.vertices[i]
    BY <1>5, <2>1
  <2>4. n + 1 \in 1 .. n + 1 /\ h.vertices[n + 1] = t
    BY <1>5, <2>1
  <2> HIDE DEF V, n
  <2> QED
    BY <2>1, <2>2, <2>3, <2>4
<1>7. \A i \in 1 .. n + 1 : h.map[h.vertices[i]] = i
  <2>1. ASSUME NEW i \in 1 .. n PROVE h.map[h.vertices[i]] = i
    <3>1. g.vertices[i] \in V /\ g.map[g.vertices[i]] = i /\ g.vertices[i] \in Identifiers
      BY <1>3, TasksAreIndexed DEF Indexed
    <3>2. h.vertices[i] = g.vertices[i] /\ g.vertices[i] # t
      BY <1>2, <1>3, <3>1
    <3>3. h.map[g.vertices[i]] = g.map[g.vertices[i]]
      BY <1>2, <1>5, <3>1, <3>2
    <3> QED
      BY <3>1, <3>2, <3>3
  <2>2. h.map[t] = n + 1
    BY <1>2, <1>3
  <2>3. \A i \in 1 .. n + 1 : i \in 1 .. n \/ i = n + 1
    BY <1>3
  <2> QED
    BY <1>5, <2>1, <2>2, <2>3
<1>8. Indexed(h)
  <2>1. 1 .. n \subseteq 1 .. n + 1
    BY <1>3
  <2>2. \A x \in DOMAIN h.edges :
            h.edges[x] > 0 => x[1] \in DOMAIN h.vertices /\ x[2] \in DOMAIN h.vertices
    BY <1>2, <1>3, <1>5, <2>1 DEF Indexed
  <2>3. \A i \in DOMAIN h.vertices : h.map[h.vertices[i]] = i
    BY <1>5, <1>7
  <2> QED
    BY <1>2, <1>4, <2>2, <2>3 DEF Indexed
<1>9. ASSUME NEW a \in V \cup {t}, NEW b \in V \cup {t}
      PROVE  <<a, b>> \in Arcs(h) <=> a # t /\ b # t /\ <<a, b>> \in Arcs(g)
  <2> DEFINE e == <<h.map[a], h.map[b]>>
  <2>1. <<a, b>> \in Arcs(h) <=> g.edges[e] > 0
    BY <1>2, <1>6 DEF Arcs, DoesEdgeExist, EdgesFrom
  <2>2. h.map[t] = n + 1 /\ \A u \in V : h.map[u] = g.map[u]
    BY <1>2, <1>3, TasksAreIndexed
  <2>3. CASE a = t \/ b = t
    <3>1. e \in Vertices \X Vertices
      <4>1. \A u \in V \cup {t} : h.map[u] \in Vertices
        <5>1. TasksOf(h) = V \cup {t} /\ DOMAIN h.vertices \subseteq Vertices
              /\ \A u \in TasksOf(h) : h.map[u] \in DOMAIN h.vertices
          BY <1>6, <1>8, TasksAreIndexed
        <5> QED
          BY <5>1
      <4> QED
        BY <4>1
    <3>2. n + 1 \notin DOMAIN g.vertices
      BY <1>3
    <3>3. ~(g.edges[e] > 0)
      <4>1. e[1] = n + 1 \/ e[2] = n + 1
        BY <2>2, <2>3
      <4> QED
        BY <1>3, <3>1, <3>2, <4>1 DEF Indexed
    <3> QED
      BY <2>1, <2>3, <3>3
  <2>4. CASE a # t /\ b # t
    <3>1. a \in V /\ b \in V /\ e = <<g.map[a], g.map[b]>>
      BY <2>2, <2>4
    <3> QED
      BY <2>1, <2>4, <3>1 DEF Arcs, DoesEdgeExist, EdgesFrom
  <2> QED
    BY <2>3, <2>4
<1> QED
  BY <1>6, <1>8, <1>9 DEF h

\* A sequence without one of its elements.
LEMMA OneLess ==
    ASSUME NEW S, NEW q \in Seq(S), NEW v \in DOMAIN q
    PROVE  /\ RemoveAt(q, v) \in Seq(S) /\ DOMAIN RemoveAt(q, v) = 1 .. Len(q) - 1
           /\ \A i \in 1 .. Len(q) - 1 :
                 RemoveAt(q, v)[i] = IF i < v THEN q[i] ELSE q[i + 1]
<1> DEFINE n == Len(q)
           p == SubSeq(q, 1, v - 1)
           r == SubSeq(q, v + 1, n)
<1>1. n \in Nat /\ v \in 1 .. n
  OBVIOUS
<1>2. p \in Seq(S) /\ Len(p) = v - 1 /\ \A i \in 1 .. v - 1 : p[i] = q[i]
  BY <1>1
<1>3. r \in Seq(S) /\ Len(r) = n - v /\ \A i \in 1 .. n - v : r[i] = q[v + i]
  BY <1>1
<1> HIDE DEF p, r
<1>4. p \o r \in Seq(S) /\ Len(p \o r) = n - 1 /\ DOMAIN (p \o r) = 1 .. n - 1
  BY <1>1, <1>2, <1>3
<1>5. ASSUME NEW i \in 1 .. n - 1 PROVE (p \o r)[i] = IF i < v THEN q[i] ELSE q[i + 1]
  <2>1. CASE i < v
    BY <1>1, <1>2, <1>3, <2>1
  <2>2. CASE ~(i < v)
    <3>1. i - (v - 1) \in 1 .. n - v /\ v + (i - (v - 1)) = i + 1
      BY <1>1, <2>2
    <3>2. (p \o r)[i] = r[i - (v - 1)]
      <4>1. p \in Seq(S) /\ r \in Seq(S) /\ Len(p) = v - 1 /\ Len(r) = n - v
        BY <1>2, <1>3
      <4>2. \A k \in 1 .. Len(p) + Len(r) :
                (p \o r)[k] = IF k <= Len(p) THEN p[k] ELSE r[k - Len(p)]
        BY <4>1
      <4>3. i \in 1 .. Len(p) + Len(r) /\ ~(i <= Len(p)) /\ i - Len(p) = i - (v - 1)
        BY <1>1, <2>2, <4>1
      <4> QED
        BY <4>2, <4>3
    <3> QED
      BY <1>3, <2>2, <3>1, <3>2
  <2> QED
    BY <2>1, <2>2
<1>6. RemoveAt(q, v) = p \o r
  BY DEF RemoveAt, p, r
<1> HIDE DEF n
<1> QED
  BY <1>4, <1>5, <1>6 DEF n

\* A vertex less: those after it are renumbered, in the graph and in the map.
LEMMA VertexRemoved ==
    ASSUME NEW g, Indexed(g), NEW t \in TasksOf(g)
    PROVE  /\ Indexed(RemoveVertex(t, g)) /\ TasksOf(RemoveVertex(t, g)) = TasksOf(g) \ {t}
           /\ \A a, b \in TasksOf(g) \ {t} :
                 <<a, b>> \in Arcs(RemoveVertex(t, g)) <=> <<a, b>> \in Arcs(g)
<1> DEFINE h == RemoveVertex(t, g)
           V == TasksOf(g)
           q == g.vertices
           n == Len(q)
           v == g.map[t]
           old(i) == IF i >= v THEN i + 1 ELSE i
           r == RemoveAt(q, v)
<1>1. g \in Dags /\ g.list = q
  BY DEF Indexed
<1>2. /\ q \in Seq(Identifiers) /\ g.map \in [Identifiers -> Nat]
      /\ g.edges \in [Vertices \X Vertices -> Nat] /\ n \in Nat /\ DOMAIN q = 1 .. n
  BY <1>1 DEF Dags
<1>3. v \in 1 .. n /\ q[v] = t
  BY <1>2, TasksAreIndexed
<1>4. \A i \in 1 .. n : q[i] \in V /\ g.map[q[i]] = i
  BY <1>2, TasksAreIndexed DEF Indexed
<1>5. /\ h.vertices = r /\ h.list = r /\ h.map = ShiftedMap(t, g)
      /\ h.edges = [e \in Vertices \X Vertices |->
                       IF old(e[1]) \in Vertices /\ old(e[2]) \in Vertices
                       THEN g.edges[<<old(e[1]), old(e[2])>>] ELSE 0]
      /\ h = [vertices |-> h.vertices, edges |-> h.edges, list |-> h.list, map |-> h.map]
  BY <1>1 DEF RemoveVertex, MapWithout
<1>6. /\ r \in Seq(Identifiers) /\ DOMAIN r = 1 .. n - 1
      /\ \A i \in 1 .. n - 1 : r[i] = q[old(i)]
  <2>1. /\ r \in Seq(Identifiers) /\ DOMAIN r = 1 .. n - 1
        /\ \A i \in 1 .. n - 1 : r[i] = IF i < v THEN q[i] ELSE q[i + 1]
    <3> HIDE DEF q, v
    <3>1. v \in DOMAIN q
      BY <1>2, <1>3
    <3> QED
      BY <1>2, <3>1, OneLess
  <2>2. \A i \in 1 .. n - 1 : i < v <=> ~(i >= v)
    BY <1>2, <1>3
  <2> HIDE DEF r, q, v
  <2> QED
    BY <2>1, <2>2
<1>7. \A i \in 1 .. n - 1 : old(i) \in 1 .. n /\ old(i) # v
  BY <1>2, <1>3
<1>8. \A j \in 1 .. n : j # v => \E i \in 1 .. n - 1 : old(i) = j
  <2>1. ASSUME NEW j \in 1 .. n, j # v PROVE \E i \in 1 .. n - 1 : old(i) = j
    <3>1. CASE j < v
      BY <1>2, <1>3, <2>1, <3>1
    <3>2. CASE j > v
      <4>1. j - 1 \in 1 .. n - 1 /\ old(j - 1) = j
        BY <1>2, <1>3, <2>1, <3>2
      <4> QED
        BY <4>1
    <3> QED
      BY <1>2, <1>3, <2>1, <3>1, <3>2
  <2> QED
    BY <2>1
<1>9. /\ \A i \in 1 .. n - 1 : \A j \in 1 .. n - 1 : r[i] = r[j] => i = j
      /\ \A i \in 1 .. n - 1 : r[i] \in V \ {t} /\ g.map[r[i]] = old(i)
  <2>1. \A i \in 1 .. n - 1 : r[i] \in V /\ r[i] # t /\ g.map[r[i]] = old(i)
    <3> HIDE DEF old, r, V, v, q, n
    <3> QED
      BY <1>3, <1>4, <1>6, <1>7
  <2>2. \A i, j \in 1 .. n - 1 : old(i) = old(j) => i = j
    BY <1>2, <1>3
  <2> HIDE DEF old, r, V
  <2> QED
    BY <2>1, <2>2
<1>10. \A u \in Identifiers : h.map[u] = IF \E i \in 1 .. n - 1 : i >= v /\ r[i] = u
                                         THEN g.map[u] - 1 ELSE g.map[u]
  BY <1>1, <1>5, <1>6 DEF ShiftedMap
<1>11. \A i \in 1 .. n - 1 : h.map[r[i]] = i
  <2>1. ASSUME NEW i \in 1 .. n - 1 PROVE h.map[r[i]] = i
    <3>1. r[i] \in Identifiers /\ g.map[r[i]] = old(i)
      BY <1>6, <1>9
    <3> HIDE DEF r, h
    <3>2. CASE i >= v
      <4>1. h.map[r[i]] = g.map[r[i]] - 1
        BY <1>10, <3>1, <3>2
      <4>2. old(i) = i + 1 /\ i \in Int
        BY <3>2
      <4> QED
        BY <3>1, <4>1, <4>2
    <3>3. CASE ~(i >= v)
      <4>1. ~ \E j \in 1 .. n - 1 : j >= v /\ r[j] = r[i]
        BY <1>9, <3>3
      <4>2. h.map[r[i]] = g.map[r[i]]
        BY <1>10, <3>1, <4>1
      <4> QED
        BY <3>1, <3>3, <4>2
    <3> QED
      BY <3>2, <3>3
  <2> QED
    BY <2>1
<1>12. h.map \in [Identifiers -> Nat]
  <2>1. h.map = [u \in Identifiers |-> h.map[u]]
    BY <1>5 DEF ShiftedMap
  <2>2. ASSUME NEW u \in Identifiers PROVE h.map[u] \in Nat
    <3>1. CASE \E i \in 1 .. n - 1 : i >= v /\ r[i] = u
      <4>1. PICK i \in 1 .. n - 1 : i >= v /\ r[i] = u
        BY <3>1
      <4>2. h.map[u] = i
        BY <1>11, <4>1
      <4> QED
        BY <4>2
    <3>2. CASE ~ \E i \in 1 .. n - 1 : i >= v /\ r[i] = u
      <4>1. h.map[u] = g.map[u]
        BY <1>10, <3>2
      <4> QED
        BY <1>2, <4>1
    <3> QED
      BY <3>1, <3>2
  <2> HIDE DEF h
  <2> QED
    BY <2>1, <2>2
<1> HIDE DEF h, r, q, v, V, n
<1>13. h.edges \in [Vertices \X Vertices -> Nat]
  <2>1. ASSUME NEW e \in Vertices \X Vertices
        PROVE  (IF old(e[1]) \in Vertices /\ old(e[2]) \in Vertices
                THEN g.edges[<<old(e[1]), old(e[2])>>] ELSE 0) \in Nat
    <3> HIDE DEF old
    <3> QED
      BY <1>2
  <2> HIDE DEF old
  <2> QED
    BY <1>5, <2>1
<1>14. h \in Dags
  <2> HIDE DEF old
  <2> QED
    BY <1>5, <1>6, <1>12, <1>13 DEF Dags
<1>15. TasksOf(h) = V \ {t}
  <2>1. TasksOf(h) = {r[i] : i \in 1 .. n - 1}
    BY <1>5, <1>6 DEF TasksOf, ToSet
  <2>2. ASSUME NEW u \in V, u # t PROVE \E i \in 1 .. n - 1 : r[i] = u
    <3>1. PICK j \in 1 .. n : q[j] = u
      BY <1>2 DEF V, q, TasksOf, ToSet
    <3>2. j # v
      BY <1>3, <2>2, <3>1
    <3>3. PICK i \in 1 .. n - 1 : old(i) = j
      BY <1>8, <3>2
    <3> HIDE DEF old
    <3> QED
      BY <1>6, <3>1, <3>3
  <2> QED
    BY <1>9, <2>1, <2>2
<1>16. Vertices \in SUBSET Nat /\ 1 .. n \subseteq Vertices
  BY <1>2, TasksAreIndexed DEF Vertices, q, n
<1>17. \A x \in Vertices : old(x) \in 1 .. n => x \in 1 .. n - 1
  BY <1>2, <1>3, <1>16
<1>18. Indexed(h)
  <2>1. ASSUME NEW e \in DOMAIN h.edges, h.edges[e] > 0
        PROVE  e[1] \in DOMAIN h.vertices /\ e[2] \in DOMAIN h.vertices
    <3>1. e \in Vertices \X Vertices /\ e[1] \in Vertices /\ e[2] \in Vertices
      BY <1>13
    <3> HIDE DEF old
    <3>2. /\ old(e[1]) \in Vertices /\ old(e[2]) \in Vertices
          /\ g.edges[<<old(e[1]), old(e[2])>>] > 0
      <4>1. h.edges[e] = IF old(e[1]) \in Vertices /\ old(e[2]) \in Vertices
                         THEN g.edges[<<old(e[1]), old(e[2])>>] ELSE 0
        BY <1>5, <3>1
      <4>2. ~(0 > 0)
        OBVIOUS
      <4> QED
        BY <2>1, <4>1, <4>2
    <3>3. old(e[1]) \in 1 .. n /\ old(e[2]) \in 1 .. n
      <4> DEFINE x == <<old(e[1]), old(e[2])>>
      <4>1. x \in DOMAIN g.edges /\ g.edges[x] > 0
        BY <1>2, <3>2
      <4>2. x[1] \in DOMAIN g.vertices /\ x[2] \in DOMAIN g.vertices
        <5> HIDE DEF x
        <5> QED
          BY <4>1 DEF Indexed
      <4> QED
        BY <1>2, <4>2 DEF q
    <3> QED
      BY <1>5, <1>6, <1>17, <3>1, <3>3
  <2>2. \A i \in DOMAIN h.vertices : h.map[h.vertices[i]] = i
    BY <1>5, <1>6, <1>11
  <2> QED
    BY <1>5, <1>14, <2>1, <2>2 DEF Indexed
<1>19. ASSUME NEW a \in V \ {t}, NEW b \in V \ {t}
       PROVE  <<a, b>> \in Arcs(h) <=> <<a, b>> \in Arcs(g)
  <2>1. PICK i \in 1 .. n - 1 : r[i] = a
    BY <1>5, <1>6, <1>15 DEF TasksOf, ToSet
  <2>2. PICK j \in 1 .. n - 1 : r[j] = b
    BY <1>5, <1>6, <1>15 DEF TasksOf, ToSet
  <2> HIDE DEF old
  <2>3. h.map[a] = i /\ h.map[b] = j /\ g.map[a] = old(i) /\ g.map[b] = old(j)
    BY <1>9, <1>11, <2>1, <2>2
  <2>4. i \in Vertices /\ j \in Vertices /\ old(i) \in Vertices /\ old(j) \in Vertices
    <3>1. DOMAIN h.vertices \subseteq Vertices
      BY <1>18, TasksAreIndexed
    <3> QED
      BY <1>5, <1>6, <1>7, <1>16, <3>1
  <2>5. h.edges[<<i, j>>] = g.edges[<<old(i), old(j)>>]
    BY <1>5, <2>4
  <2>6. /\ <<a, b>> \in Arcs(h) <=> h.edges[<<h.map[a], h.map[b]>>] > 0
        /\ <<a, b>> \in Arcs(g) <=> g.edges[<<g.map[a], g.map[b]>>] > 0
    BY <1>15 DEF Arcs, DoesEdgeExist, EdgesFrom, V
  <2> QED
    BY <2>3, <2>5, <2>6
<1> QED
  BY <1>15, <1>18, <1>19 DEF h, V

\* A workflow's graph, and levels that are right but for the tasks in S.
IsDag(g) == Indexed(g) /\ Acyclic(TasksOf(g), Arcs(g))
LevelledBut(S, g, levels) ==
    /\ levels \in [Identifiers -> Nat]
    /\ \A u \in TasksOf(g) \ S : levels[u] = Depth(u, TasksOf(g), Arcs(g), levels)

\* updateTopLevel gives the tasks behind t their levels.
LEMMA UpdateIsLevel ==
    ASSUME NEW g, IsDag(g), NEW t \in TasksOf(g), NEW levels \in [Identifiers -> Nat]
    PROVE  \E f : /\ IsLevel(Behind(t, TasksOf(g), Arcs(g)), TasksOf(g), Arcs(g), levels, f)
                  /\ UpdatedTopLevel(t, levels, g) =
                        Below(Behind(t, TasksOf(g), Arcs(g)), levels, f)
<1> DEFINE V == TasksOf(g)
           R == Arcs(g)
           B == Behind(t, V, R)
           of(h, p) == IF p \in B THEN h[p] ELSE levels[p]
           P(h) == h = [u \in B |-> IF GetParents(u, g) = {} THEN 0
                                    ELSE 1 + Max({of(h, p) : p \in GetParents(u, g)})]
           f == CHOOSE h : P(h)
<1>1. Indexed(g) /\ Acyclic(V, R) /\ V \in SUBSET Identifiers /\ IsFiniteSet(V)
  BY TasksAreIndexed DEF IsDag
<1>2. Reached(t, g) = B /\ B \in SUBSET V
  BY <1>1, ReachedIsBehind, BehindIsClosed
<1>3. UpdatedTopLevel(t, levels, g) = [u \in Identifiers |-> IF u \in B THEN f[u] ELSE levels[u]]
  <2>1. UpdatedTopLevel(t, levels, g) =
          LET C == Reached(t, g)
              fc == CHOOSE h : h = [u \in C |->
                        LET parents == GetParents(u, g)
                            ofc(p) == IF p \in C THEN h[p] ELSE levels[p]
                        IN  IF parents = {} THEN 0 ELSE 1 + Max({ofc(p) : p \in parents})]
          IN  [u \in Identifiers |-> IF u \in C THEN fc[u] ELSE levels[u]]
    BY DEF UpdatedTopLevel
  <2> HIDE DEF B
  <2> QED
    BY <1>2, <2>1
<1> HIDE DEF V, R, B
<1>4. ASSUME NEW h PROVE P(h) <=> IsLevel(B, V, R, levels, h)
  <2>1. ASSUME NEW u \in B
        PROVE  Depth(u, V, R, Below(B, levels, h)) =
                  IF GetParents(u, g) = {} THEN 0
                  ELSE 1 + Max({of(h, p) : p \in GetParents(u, g)})
    <3>1. GetParents(u, g) = ParentsIn(u, V, R)
      BY <1>1, <1>2, Queries DEF V, R
    <3>2. \A p \in ParentsIn(u, V, R) : Below(B, levels, h)[p] = of(h, p)
      BY <1>1 DEF ParentsIn, Below
    <3>3. {of(h, p) : p \in ParentsIn(u, V, R)}
            = {Below(B, levels, h)[p] : p \in ParentsIn(u, V, R)}
      BY <3>2
    <3> HIDE DEF of
    <3> QED
      BY <3>1, <3>3 DEF Depth
  <2> HIDE DEF of
  <2> QED
    BY <2>1 DEF IsLevel
<1> HIDE DEF P
<1>5. IsLevel(B, V, R, levels, f)
  <2>1. V \subseteq DOMAIN levels
    BY <1>1
  <2>2. \E h : IsLevel(B, V, R, levels, h)
    BY <1>1, <1>2, <2>1, LevelExists
  <2>3. \E h : P(h)
    BY <1>4, <2>2
  <2>4. P(f)
    BY <2>3
  <2> HIDE DEF f
  <2> QED
    BY <1>4, <2>4
<1> HIDE DEF f
<1>6. UpdatedTopLevel(t, levels, g) = Below(B, levels, f)
  BY <1>3 DEF Below
<1> QED
  BY <1>5, <1>6 DEF V, R, B

\* After updateTopLevel(t), only levels of tasks behind t may have changed, and they
\* are right, as are those that were before.
LEMMA UpdateLevels ==
    ASSUME NEW g, IsDag(g), NEW t \in TasksOf(g), NEW S,
           NEW levels, LevelledBut(S, g, levels)
    PROVE  LevelledBut(S \ Behind(t, TasksOf(g), Arcs(g)), g, UpdatedTopLevel(t, levels, g))
<1> DEFINE V == TasksOf(g)
           R == Arcs(g)
           B == Behind(t, V, R)
           new == UpdatedTopLevel(t, levels, g)
<1>1. /\ Indexed(g) /\ Acyclic(V, R) /\ V \in SUBSET Identifiers /\ IsFiniteSet(V)
      /\ levels \in [Identifiers -> Nat]
      /\ \A u \in V \ S : levels[u] = Depth(u, V, R, levels)
  BY TasksAreIndexed DEF IsDag, LevelledBut
<1>2. PICK f : IsLevel(B, V, R, levels, f) /\ new = Below(B, levels, f)
  BY <1>1, UpdateIsLevel
<1>3. B \in SUBSET V /\ \A a \in B : \A u \in V : <<a, u>> \in R => u \in B
  BY BehindIsClosed
<1> HIDE DEF V, R, B, new
<1>4. V \subseteq DOMAIN levels /\ \A p \in V : levels[p] \in Nat
  BY <1>1
<1>5. \A u \in B : f[u] \in Nat
  BY <1>1, <1>2, <1>3, <1>4, LevelType
<1>6. new \in [Identifiers -> Nat]
  BY <1>1, <1>2, <1>5 DEF Below
<1>7. ASSUME NEW u \in V \ (S \ B) PROVE new[u] = Depth(u, V, R, new)
  <2>1. u \in V /\ (u \in B \/ levels[u] = Depth(u, V, R, levels))
    BY <1>1
  <2>2. Below(B, levels, f)[u] = Depth(u, V, R, Below(B, levels, f))
    BY <1>2, <1>3, <1>4, <2>1, LevelsAreRight
  <2> QED
    BY <1>2, <2>2
<1> QED
  BY <1>6, <1>7 DEF LevelledBut, V, R, B, new

-------------------------------------------------------------------------------
(* The graph of a workflow: dependencies *)

StatePairs == {<<"READY", "TASK_READY">>, <<"NOT_READY", "TASK_NOT_READY">>,
               <<"PENDING", "TASK_RUNNING">>, <<"COMPLETED", "TASK_COMPLETED">>}
Shown == {"READY", "NOT_READY", "PENDING", "COMPLETED"}
Inner == {"TASK_READY", "TASK_NOT_READY", "TASK_RUNNING", "TASK_COMPLETED"}

Wholes == [graph : Dags, levels : [Identifiers -> Nat], visible : [Identifiers -> Shown],
           internal : [Identifiers -> Inner], cyclic : BOOLEAN]

\* A task that is started or ready has its parents completed, and completed after them.
ParentsFirst(g, shown, end) ==
    \A p, c \in TasksOf(g) :
        <<p, c>> \in Arcs(g) /\ shown[c] # "NOT_READY" =>
            shown[p] = "COMPLETED" /\ (shown[c] = "COMPLETED" => end[p] < end[c])

\* A task that is not ready waits for one, unless it is in o.
NoneForgotten(g, shown, o) ==
    \A c \in TasksOf(g) :
        shown[c] = "NOT_READY" =>
            \/ c \in o
            \/ \E p \in TasksOf(g) : <<p, c>> \in Arcs(g) /\ shown[p] # "COMPLETED"

Right(w, o, end) ==
    /\ w \in Wholes /\ IsDag(w.graph) /\ LevelledBut({}, w.graph, w.levels)
    /\ \A t \in Identifiers : <<w.visible[t], w.internal[t]>> \in StatePairs
    /\ ParentsFirst(w.graph, w.visible, end) /\ NoneForgotten(w.graph, w.visible, o)

\* A dependency is added when it makes no cycle, and levels and states follow.
LEMMA DependencyKeeps ==
    ASSUME NEW w, NEW o, NEW end, Right(w, o, end), NEW r,
           NEW s \in TasksOf(w.graph), NEW d \in TasksOf(w.graph),
           w.visible[d] \in {"READY", "NOT_READY"}
    PROVE  LET x == WithDependency(s, d, r, w) IN
           /\ Right(x, o, end) /\ TasksOf(x.graph) = TasksOf(w.graph)
           /\ \A a, b \in TasksOf(w.graph) : <<a, b>> \in Arcs(w.graph) => <<a, b>> \in Arcs(x.graph)
           /\ \A u \in Identifiers : u # d => x.visible[u] = w.visible[u]
           /\ x.visible[d] \in {"READY", "NOT_READY"}
           /\ w.cyclic => x.cyclic
           /\ ~r => x.cyclic \/ d \in Behind(s, TasksOf(w.graph), Arcs(x.graph))
<1> DEFINE g == w.graph
           V == TasksOf(g)
           R == Arcs(g)
           x == WithDependency(s, d, r, w)
<1>1. /\ w \in Wholes /\ IsDag(g) /\ Indexed(g) /\ Acyclic(V, R) /\ LevelledBut({}, g, w.levels)
      /\ V \in SUBSET Identifiers /\ IsFiniteSet(V)
      /\ \A t \in Identifiers : <<w.visible[t], w.internal[t]>> \in StatePairs
      /\ ParentsFirst(g, w.visible, end) /\ NoneForgotten(g, w.visible, o)
  BY TasksAreIndexed DEF Right, IsDag
<1>2. \A a, b \in V : DoesPathExist(a, b, g) <=> b \in Behind(a, V, R)
  BY <1>1, ReachedIsBehind DEF DoesPathExist
<1>3. CASE ~r /\ DoesPathExist(s, d, g)
  <2>1. x = w
    BY <1>3 DEF WithDependency
  <2>2. d \in Behind(s, V, R)
    BY <1>2, <1>3
  <2> HIDE DEF x
  <2> QED
    BY <2>1, <2>2 DEF x
<1>4. CASE ~(~r /\ DoesPathExist(s, d, g)) /\ DoesPathExist(d, s, g)
  <2>1. x = [w EXCEPT !.cyclic = TRUE]
    BY <1>4 DEF WithDependency
  <2>2. /\ x \in Wholes /\ x.graph = g /\ x.levels = w.levels /\ x.visible = w.visible
        /\ x.internal = w.internal /\ x.cyclic
    <3> HIDE DEF x
    <3> QED
      BY <1>1, <2>1 DEF Wholes
  <2> HIDE DEF x, V, R
  <2>3. Right(x, o, end)
    BY <1>1, <2>2 DEF Right
  <2> QED
    BY <2>2, <2>3 DEF x, V, R
<1>5. CASE ~(~r /\ DoesPathExist(s, d, g)) /\ ~DoesPathExist(d, s, g)
  <2> DEFINE h == AddEdge(s, d, g)
             Q == Arcs(h)
             wait == w.visible[s] # "COMPLETED"
             new == UpdatedTopLevel(d, w.levels, h)
             inner == [w.internal EXCEPT ![d] = IF wait THEN "TASK_NOT_READY" ELSE @]
             shown == [w.visible EXCEPT ![d] = IF wait THEN "NOT_READY" ELSE @]
  <2>1. x = [w EXCEPT !.graph = h, !.levels = new,
                      !.internal[d] = IF wait THEN "TASK_NOT_READY" ELSE @,
                      !.visible[d] = IF wait THEN "NOT_READY" ELSE @]
    BY <1>5 DEF WithDependency
  <2>2. /\ Indexed(h) /\ TasksOf(h) = V
        /\ \A a, b \in V : <<a, b>> \in Q <=> <<a, b>> \in R \/ (a = s /\ b = d)
    BY <1>1, ArcAdded
  <2>3. IsDag(h)
    <3>1. s \notin Behind(d, V, R)
      BY <1>2, <1>5
    <3> HIDE DEF V, R, Q, h
    <3>2. Acyclic(V, Q)
      BY <1>1, <2>2, <3>1, AcyclicWithArc DEF V
    <3> QED
      BY <2>2, <3>2 DEF IsDag, Q
  <2>4. LevelledBut({}, h, new)
    <3>1. LevelledBut({d}, h, w.levels)
      <4>1. w.levels \in [Identifiers -> Nat]
        BY <1>1 DEF LevelledBut
      <4>2. ASSUME NEW u \in V \ {d} PROVE w.levels[u] = Depth(u, V, Q, w.levels)
        <5>1. ParentsIn(u, V, R) = ParentsIn(u, V, Q)
          BY <2>2, <4>2 DEF ParentsIn
        <5>2. Depth(u, V, R, w.levels) = Depth(u, V, Q, w.levels)
          BY <5>1, DepthAgrees
        <5> QED
          BY <1>1, <5>2 DEF LevelledBut
      <4> HIDE DEF V, h
      <4> QED
        BY <2>2, <4>1, <4>2 DEF LevelledBut
    <3>2. d \in TasksOf(h)
      BY <2>2
    <3> HIDE DEF h
    <3>3. LevelledBut({d} \ Behind(d, TasksOf(h), Arcs(h)), h, new)
      BY <2>3, <3>1, <3>2, UpdateLevels
    <3>4. {d} \ Behind(d, TasksOf(h), Arcs(h)) = {}
      BY <3>2, BehindIsClosed
    <3> QED
      BY <3>3, <3>4
  <2>5. w.visible \in [Identifiers -> Shown] /\ w.internal \in [Identifiers -> Inner]
        /\ d \in Identifiers
    BY <1>1 DEF Wholes
  <2>6. /\ shown \in [Identifiers -> Shown] /\ inner \in [Identifiers -> Inner]
        /\ shown[d] = (IF wait THEN "NOT_READY" ELSE w.visible[d])
        /\ inner[d] = (IF wait THEN "TASK_NOT_READY" ELSE w.internal[d])
        /\ \A u \in Identifiers : u # d => shown[u] = w.visible[u] /\ inner[u] = w.internal[u]
    <3>1. "NOT_READY" \in Shown /\ "TASK_NOT_READY" \in Inner
      BY DEF Shown, Inner
    <3> QED
      BY <2>5, <3>1
  <2>7. /\ x \in Wholes /\ x.graph = h /\ x.levels = new /\ x.visible = shown
        /\ x.internal = inner /\ x.cyclic = w.cyclic
    <3>1. w = [graph |-> w.graph, levels |-> w.levels, visible |-> w.visible,
               internal |-> w.internal, cyclic |-> w.cyclic] /\ w.cyclic \in BOOLEAN
      BY <1>1 DEF Wholes
    <3> HIDE DEF h, new, wait
    <3>2. /\ x.graph = h /\ x.levels = new /\ x.visible = shown
          /\ x.internal = inner /\ x.cyclic = w.cyclic
      BY <2>1, <3>1
    <3>3. DOMAIN x = {"graph", "levels", "visible", "internal", "cyclic"} /\ x = [y \in DOMAIN x |-> x[y]]
      BY <2>1, <3>1
    <3>4. h \in Dags /\ new \in [Identifiers -> Nat]
      BY <2>2, <2>4 DEF Indexed, LevelledBut
    <3> HIDE DEF x, shown, inner
    <3>5. x = [graph |-> h, levels |-> new, visible |-> shown, internal |-> inner,
               cyclic |-> w.cyclic]
      BY <3>2, <3>3
    <3> QED
      BY <2>6, <3>1, <3>2, <3>4, <3>5 DEF Wholes
  <2> HIDE DEF x, shown, inner, h, new
  <2>8. \A t \in Identifiers : <<shown[t], inner[t]>> \in StatePairs
    BY <1>1, <2>6 DEF StatePairs
  <2>9. shown[d] \in {"READY", "NOT_READY"}
    BY <2>6
  <2>10. ParentsFirst(h, shown, end)
    <3> SUFFICES ASSUME NEW p \in V, NEW c \in V, <<p, c>> \in Q, shown[c] # "NOT_READY"
                 PROVE  shown[p] = "COMPLETED" /\ (shown[c] = "COMPLETED" => end[p] < end[c])
      BY <2>2 DEF ParentsFirst
    <3>1. CASE c = d
      <4>1. ~wait /\ shown[d] = w.visible[d] /\ shown[d] # "COMPLETED"
        BY <2>6, <2>9, <3>1
      <4>2. w.visible[p] = "COMPLETED"
        <5>1. CASE p = s
          BY <4>1, <5>1
        <5>2. CASE p # s
          BY <1>1, <2>2, <3>1, <4>1, <5>2 DEF ParentsFirst
        <5> QED
          BY <5>1, <5>2
      <4>3. p # d
        BY <4>2
      <4> QED
        BY <1>1, <2>6, <3>1, <4>1, <4>2, <4>3
    <3>2. CASE c # d
      <4>1. <<p, c>> \in R /\ shown[c] = w.visible[c]
        BY <1>1, <2>2, <2>6, <3>2
      <4>2. w.visible[p] = "COMPLETED" /\ (w.visible[c] = "COMPLETED" => end[p] < end[c])
        BY <1>1, <4>1 DEF ParentsFirst
      <4>3. p # d
        BY <4>2
      <4> QED
        BY <1>1, <2>6, <4>1, <4>2, <4>3
    <3> QED
      BY <3>1, <3>2
  <2>11. NoneForgotten(h, shown, o)
    <3> SUFFICES ASSUME NEW c \in V, shown[c] = "NOT_READY", c \notin o
                 PROVE  \E p \in V : <<p, c>> \in Q /\ shown[p] # "COMPLETED"
      BY <2>2 DEF NoneForgotten
    <3>1. CASE c = d /\ wait
      <4>1. shown[s] # "COMPLETED"
        <5>1. w.visible[s] # "COMPLETED" /\ s \in Identifiers
          BY <1>1, <3>1
        <5>2. CASE s = d
          BY <2>9, <5>2
        <5>3. CASE s # d
          BY <2>6, <5>1, <5>3
        <5> QED
          BY <5>2, <5>3
      <4> QED
        BY <2>2, <3>1, <4>1
    <3>2. CASE ~(c = d /\ wait)
      <4>1. w.visible[c] = "NOT_READY"
        BY <1>1, <2>6, <3>2
      <4>2. PICK p \in V : <<p, c>> \in R /\ w.visible[p] # "COMPLETED"
        BY <1>1, <4>1 DEF NoneForgotten
      <4>3. shown[p] # "COMPLETED"
        BY <1>1, <2>6, <4>2
      <4> QED
        BY <2>2, <4>2, <4>3
    <3> QED
      BY <3>1, <3>2
  <2>12. Right(x, o, end)
    BY <2>3, <2>4, <2>7, <2>8, <2>10, <2>11 DEF Right
  <2>13. d \in Behind(s, V, Q)
    <3> HIDE DEF V, R, Q
    <3>1. s \in Behind(s, V, Q) /\ \A u \in V : <<s, u>> \in Q => u \in Behind(s, V, Q)
      BY BehindIsClosed DEF V
    <3>2. <<s, d>> \in Q
      BY <2>2 DEF V
    <3> QED
      BY <3>1, <3>2 DEF V
  <2> HIDE DEF V, R, wait
  <2> QED
    BY <2>2, <2>6, <2>7, <2>9, <2>12, <2>13 DEF x, V, R
<1> QED
  BY <1>3, <1>4, <1>5

-------------------------------------------------------------------------------
(* The graph of a workflow: the invariant *)

\* Tasks have been completed at dates in the past.
DatesPast ==
    /\ endDate \in [Identifiers -> Int] /\ clock \in Nat
    /\ \A t \in tasks : visibleState[t] = "COMPLETED" => endDate[t] \in 1 .. clock

FilesKnown ==
    /\ outputOf \in [WorkflowFiles -> tasks \cup {NoFileTask}]
    /\ inputOf \in [WorkflowFiles -> SUBSET tasks]
    /\ \A f \in WorkflowFiles : outputOf[f] \notin inputOf[f]

\* Until something is removed, a task that reads a file is behind the one that outputs it.
FilesFollow ==
    removals = 0 /\ ended = "no" => \A f \in WorkflowFiles :
        /\ inputOf[f] \subseteq tasks
        /\ outputOf[f] \in tasks =>
              inputOf[f] \subseteq Behind(outputOf[f], tasks, Arcs(Graph))

GraphInv ==
    /\ Right(Whole, orphans, endDate) /\ TasksOf(Graph) = tasks
    /\ DatesPast /\ removals \in Nat /\ FilesKnown /\ FilesFollow

\* What a change of the workflow is to leave.
LEMMA BecomesRight ==
    ASSUME NEW w, NEW o, NEW end, Right(w, o, end), Becomes(w)
    PROVE  /\ Graph' = w.graph /\ visibleState' = w.visible
           /\ Right(Whole', o, end) /\ (ended' = "no" => ~w.cyclic)
<1>1. w \in Wholes
  BY DEF Right
<1>2. w.graph = [vertices |-> w.graph.vertices, edges |-> w.graph.edges,
                 list |-> w.graph.list, map |-> w.graph.map]
  BY <1>1 DEF Wholes, Dags
<1>3. Graph' = w.graph
  BY <1>2 DEF Becomes, Graph
<1>4. Whole' = [graph |-> w.graph, levels |-> w.levels, visible |-> w.visible,
                internal |-> w.internal, cyclic |-> FALSE]
  BY <1>3 DEF Becomes, Whole
<1>5. Right(Whole', o, end)
  <2> DEFINE x == [graph |-> w.graph, levels |-> w.levels, visible |-> w.visible,
                   internal |-> w.internal, cyclic |-> FALSE]
  <2>1. /\ x \in Wholes /\ x.graph = w.graph /\ x.levels = w.levels /\ x.visible = w.visible
        /\ x.internal = w.internal
    BY <1>1 DEF Wholes
  <2> HIDE DEF x
  <2>2. Right(x, o, end)
    BY <2>1 DEF Right
  <2> QED
    BY <1>4, <2>2 DEF x
<1>6. visibleState' = w.visible /\ (ended' = "no" => ~w.cyclic)
  BY DEF Becomes
<1> QED
  BY <1>3, <1>5, <1>6

\* What the invariant says of the workflow.
LEMMA GraphInvFacts ==
    ASSUME GraphInv
    PROVE  /\ Whole \in Wholes /\ IsDag(Graph) /\ Indexed(Graph) /\ LevelledBut({}, Graph, toplevel)
           /\ visibleState \in [Identifiers -> Shown] /\ internalState \in [Identifiers -> Inner]
           /\ \A t \in Identifiers : <<visibleState[t], internalState[t]>> \in StatePairs
           /\ ParentsFirst(Graph, visibleState, endDate) /\ NoneForgotten(Graph, visibleState, orphans)
           /\ TasksOf(Graph) = tasks /\ tasks \in SUBSET Identifiers /\ IsFiniteSet(tasks)
           /\ Acyclic(tasks, Arcs(Graph))
<1>1. /\ Whole.graph = Graph /\ Whole.levels = toplevel /\ Whole.visible = visibleState
      /\ Whole.internal = internalState
  BY DEF Whole
<1>2. /\ Whole \in Wholes /\ IsDag(Graph) /\ LevelledBut({}, Graph, toplevel)
      /\ \A t \in Identifiers : <<visibleState[t], internalState[t]>> \in StatePairs
      /\ ParentsFirst(Graph, visibleState, endDate) /\ NoneForgotten(Graph, visibleState, orphans)
  BY <1>1 DEF GraphInv, Right
<1>3. visibleState \in [Identifiers -> Shown] /\ internalState \in [Identifiers -> Inner]
  BY <1>1, <1>2 DEF Wholes
<1>4. Indexed(Graph) /\ Acyclic(tasks, Arcs(Graph)) /\ TasksOf(Graph) = tasks
  BY <1>2 DEF IsDag, GraphInv
<1>5. tasks \in SUBSET Identifiers /\ IsFiniteSet(tasks)
  BY <1>4, TasksAreIndexed
<1> QED
  BY <1>2, <1>3, <1>4, <1>5

\* A workflow is built from nothing.
LEMMA GraphInitInv ==
    ASSUME GraphInit
    PROVE  GraphInv
<1>1. Graph \in Dags
  <2>1. vertices \in Seq(Identifiers) /\ task_list \in Seq(Identifiers)
    BY DEF GraphInit
  <2>2. edges \in [Vertices \X Vertices -> Nat]
    BY DEF GraphInit, NoEdge
  <2>3. task_map \in [Identifiers -> Nat]
    BY DEF GraphInit
  <2> QED
    BY <2>1, <2>2, <2>3 DEF Dags, Graph
<1>2. vertices = <<>> /\ task_list = <<>> /\ DOMAIN vertices = {}
  BY DEF GraphInit
<1>3. Indexed(Graph)
  <2>1. Graph.vertices = <<>> /\ Graph.list = <<>> /\ DOMAIN Graph.vertices = {}
        /\ Graph.edges = NoEdge
    BY <1>2 DEF Graph, GraphInit
  <2>2. \A e \in DOMAIN Graph.edges : ~(Graph.edges[e] > 0)
    BY <2>1 DEF NoEdge
  <2> QED
    BY <1>1, <2>1, <2>2 DEF Indexed
<1>4. TasksOf(Graph) = {} /\ tasks = {}
  BY <1>2 DEF TasksOf, ToSet, Graph, GraphInit
<1>5. IsDag(Graph)
  BY <1>3, <1>4 DEF IsDag, Acyclic
<1>6. Whole \in Wholes
  <2>1. /\ toplevel \in [Identifiers -> Nat] /\ visibleState \in [Identifiers -> Shown]
        /\ internalState \in [Identifiers -> Inner]
    BY DEF GraphInit, Shown, Inner
  <2> QED
    BY <1>1, <2>1 DEF Whole, Wholes
<1>7. \A t \in Identifiers : <<visibleState[t], internalState[t]>> \in StatePairs
  BY DEF GraphInit, StatePairs
<1>8. LevelledBut({}, Graph, toplevel)
  BY <1>4 DEF LevelledBut, GraphInit
<1>9. Right(Whole, orphans, endDate)
  <2>1. /\ Whole.graph = Graph /\ Whole.levels = toplevel /\ Whole.visible = visibleState
        /\ Whole.internal = internalState
    BY DEF Whole
  <2> QED
    BY <1>4, <1>5, <1>6, <1>7, <1>8, <2>1 DEF Right, ParentsFirst, NoneForgotten
<1>10. DatesPast /\ removals \in Nat
  BY <1>4 DEF GraphInit, DatesPast
<1>11. FilesKnown /\ FilesFollow
  BY <1>4 DEF GraphInit, FilesKnown, FilesFollow
<1> QED
  BY <1>4, <1>9, <1>10, <1>11 DEF GraphInv

\* A task more.
LEMMA AddTaskInv ==
    ASSUME GraphInv, ended = "no", NEW t \in Identifiers, AddTask(t)
    PROVE  GraphInv'
<1> DEFINE w == [Whole EXCEPT !.graph = AddVertex(t, Graph), !.levels[t] = 0,
                              !.visible[t] = "READY", !.internal[t] = "TASK_READY"]
<1>1. PICK g, V, o, end, levels, shown, inner :
        /\ g = Graph /\ V = tasks /\ o = orphans /\ end = endDate /\ levels = toplevel
        /\ shown = visibleState /\ inner = internalState
  OBVIOUS
<1>2. PICK h : h = AddVertex(t, g)
  OBVIOUS
<1>3. /\ IsDag(g) /\ Indexed(g) /\ LevelledBut({}, g, levels) /\ TasksOf(g) = V
      /\ shown \in [Identifiers -> Shown] /\ inner \in [Identifiers -> Inner]
      /\ \A u \in Identifiers : <<shown[u], inner[u]>> \in StatePairs
      /\ ParentsFirst(g, shown, end) /\ NoneForgotten(g, shown, o)
      /\ V \in SUBSET Identifiers /\ Acyclic(V, Arcs(g)) /\ IsFiniteSet(V)
  BY <1>1, GraphInvFacts
<1>4. t \notin V /\ tasks' = V \cup {t} /\ Becomes(w) /\ endDate' = [end EXCEPT ![t] = -1]
      /\ orphans' = o \ {t} /\ UNCHANGED <<outputOf, inputOf, clock, removals>>
  BY <1>1 DEF AddTask, fileVars
<1>5. /\ Indexed(h) /\ TasksOf(h) = V \cup {t}
      /\ \A a, b \in V \cup {t} : <<a, b>> \in Arcs(h) <=> a # t /\ b # t /\ <<a, b>> \in Arcs(g)
  BY <1>2, <1>3, <1>4, VertexAdded
<1>6. PICK x : x = [graph |-> h, levels |-> [levels EXCEPT ![t] = 0],
                    visible |-> [shown EXCEPT ![t] = "READY"],
                    internal |-> [inner EXCEPT ![t] = "TASK_READY"], cyclic |-> FALSE]
  OBVIOUS
<1>7. w = x
  <2>1. Whole = [graph |-> g, levels |-> levels, visible |-> shown, internal |-> inner,
                 cyclic |-> FALSE]
    BY <1>1 DEF Whole
  <2>2. DOMAIN w = {"graph", "levels", "visible", "internal", "cyclic"} /\ w = [y \in DOMAIN w |-> w[y]]
    BY <2>1
  <2>3. /\ w.graph = h /\ w.levels = [levels EXCEPT ![t] = 0]
        /\ w.visible = [shown EXCEPT ![t] = "READY"]
        /\ w.internal = [inner EXCEPT ![t] = "TASK_READY"] /\ w.cyclic = FALSE
    BY <1>1, <1>2, <2>1
  <2> HIDE DEF w
  <2> QED
    BY <1>6, <2>2, <2>3
<1>8. IsDag(h)
  <2>1. Acyclic(V \cup {t}, Arcs(h))
    BY <1>3, <1>5, AcyclicWithVertex
  <2> QED
    BY <1>5, <2>1 DEF IsDag
<1>9. LevelledBut({}, h, x.levels)
  <2>1. levels \in [Identifiers -> Nat] /\ x.levels \in [Identifiers -> Nat]
        /\ x.levels[t] = 0 /\ \A u \in V : x.levels[u] = levels[u]
    BY <1>3, <1>4, <1>6 DEF LevelledBut
  <2> DEFINE W == V \cup {t}
  <2>2. ParentsIn(t, W, Arcs(h)) = {}
    BY <1>5 DEF ParentsIn
  <2>3. x.levels[t] = Depth(t, W, Arcs(h), x.levels)
    BY <2>1, <2>2 DEF Depth
  <2>4. ASSUME NEW u \in V PROVE x.levels[u] = Depth(u, W, Arcs(h), x.levels)
    <3>1. ParentsIn(u, V, Arcs(g)) = ParentsIn(u, W, Arcs(h))
      BY <1>4, <1>5 DEF ParentsIn
    <3>2. \A p \in ParentsIn(u, V, Arcs(g)) : levels[p] = x.levels[p]
      BY <2>1 DEF ParentsIn
    <3>3. Depth(u, V, Arcs(g), levels) = Depth(u, W, Arcs(h), x.levels)
      BY <3>1, <3>2, DepthAgrees
    <3> QED
      BY <1>3, <2>1, <3>3 DEF LevelledBut
  <2> QED
    BY <1>5, <2>1, <2>3, <2>4 DEF LevelledBut
<1>10. PICK oo, e : oo = o \ {t} /\ e = [end EXCEPT ![t] = -1]
  OBVIOUS
<1>11. /\ x.visible \in [Identifiers -> Shown] /\ x.internal \in [Identifiers -> Inner]
       /\ x.visible[t] = "READY" /\ x.internal[t] = "TASK_READY"
       /\ \A u \in Identifiers : u # t => x.visible[u] = shown[u] /\ x.internal[u] = inner[u]
  <2>1. "READY" \in Shown /\ "TASK_READY" \in Inner
    BY DEF Shown, Inner
  <2> QED
    BY <1>3, <1>6, <2>1
<1>12. end \in [Identifiers -> Int] /\ e[t] = -1 /\ \A u \in Identifiers : u # t => e[u] = end[u]
  BY <1>1, <1>10 DEF GraphInv, DatesPast
<1>13. Right(x, oo, e)
  <2>1. x \in Wholes /\ x.graph = h
    <3>1. h \in Dags /\ x.levels \in [Identifiers -> Nat]
      BY <1>5, <1>9 DEF Indexed, LevelledBut
    <3> DEFINE l == [levels EXCEPT ![t] = 0]
               v == [shown EXCEPT ![t] = "READY"]
               n == [inner EXCEPT ![t] = "TASK_READY"]
    <3>2. x.levels = l /\ x.visible = v /\ x.internal = n /\ x.graph = h
          /\ x = [graph |-> h, levels |-> l, visible |-> v, internal |-> n, cyclic |-> FALSE]
      BY <1>6
    <3> HIDE DEF l, v, n
    <3> QED
      BY <1>11, <3>1, <3>2 DEF Wholes
  <2>2. \A u \in Identifiers : <<x.visible[u], x.internal[u]>> \in StatePairs
    BY <1>3, <1>11 DEF StatePairs
  <2>3. ParentsFirst(h, x.visible, e)
    <3> SUFFICES ASSUME NEW p \in V \cup {t}, NEW c \in V \cup {t}, <<p, c>> \in Arcs(h),
                        x.visible[c] # "NOT_READY"
                 PROVE  x.visible[p] = "COMPLETED" /\ (x.visible[c] = "COMPLETED" => e[p] < e[c])
      BY <1>5 DEF ParentsFirst
    <3>1. p \in V /\ c \in V /\ p # t /\ c # t /\ <<p, c>> \in Arcs(g)
      BY <1>5
    <3> QED
      BY <1>3, <1>11, <1>12, <3>1 DEF ParentsFirst
  <2>4. NoneForgotten(h, x.visible, oo)
    <3> SUFFICES ASSUME NEW c \in V \cup {t}, x.visible[c] = "NOT_READY", c \notin oo
                 PROVE  \E p \in V \cup {t} : <<p, c>> \in Arcs(h) /\ x.visible[p] # "COMPLETED"
      BY <1>5 DEF NoneForgotten
    <3>1. c # t /\ c \in V /\ shown[c] = "NOT_READY" /\ c \notin o
      BY <1>3, <1>10, <1>11
    <3>2. PICK p \in V : <<p, c>> \in Arcs(g) /\ shown[p] # "COMPLETED"
      BY <1>3, <3>1 DEF NoneForgotten
    <3>3. p # t /\ x.visible[p] = shown[p]
      BY <1>3, <1>4, <1>11, <3>2
    <3> QED
      BY <1>5, <3>1, <3>2, <3>3
  <2> QED
    BY <1>8, <1>9, <2>1, <2>2, <2>3, <2>4 DEF Right
<1>14. Graph' = h /\ visibleState' = x.visible /\ Right(Whole', oo, e)
  <2> HIDE DEF w
  <2>1. Becomes(x)
    BY <1>4, <1>7
  <2>2. x.graph = h
    BY <1>6
  <2> QED
    BY <1>13, <2>1, <2>2, BecomesRight
<1>15. Right(Whole, orphans, endDate)'
  BY <1>4, <1>10, <1>14
<1>16. TasksOf(Graph)' = tasks'
  BY <1>4, <1>5, <1>14
<1>17. DatesPast'
  <2>1. endDate' \in [Identifiers -> Int] /\ clock' \in Nat
    BY <1>1, <1>4 DEF GraphInv, DatesPast
  <2>2. ASSUME NEW u \in V \cup {t}, x.visible[u] = "COMPLETED" PROVE e[u] \in 1 .. clock
    BY <1>1, <1>3, <1>11, <1>12, <2>2 DEF GraphInv, DatesPast
  <2> QED
    BY <1>4, <1>10, <1>14, <2>1, <2>2 DEF DatesPast
<1>18. removals' \in Nat
  BY <1>4 DEF GraphInv
<1>19. FilesKnown'
  BY <1>1, <1>4 DEF GraphInv, FilesKnown
<1>20. FilesFollow'
  <2> SUFFICES ASSUME removals = 0, NEW f \in WorkflowFiles
               PROVE  /\ inputOf[f] \subseteq V \cup {t}
                      /\ outputOf[f] \in V \cup {t} =>
                            inputOf[f] \subseteq Behind(outputOf[f], V \cup {t}, Arcs(h))
    BY <1>4, <1>14 DEF FilesFollow
  <2>1. /\ inputOf[f] \subseteq V
        /\ outputOf[f] \in V => inputOf[f] \subseteq Behind(outputOf[f], V, Arcs(g))
    BY <1>1 DEF GraphInv, FilesFollow
  <2>2. outputOf[f] \in V \cup {t} => outputOf[f] \in V
    BY <1>1, <1>4 DEF GraphInv, FilesKnown
  <2>3. \A p \in V : Behind(p, V, Arcs(g)) \subseteq Behind(p, V \cup {t}, Arcs(h))
    <3>1. V \subseteq V \cup {t} /\ \A a, b \in V : <<a, b>> \in Arcs(g) => <<a, b>> \in Arcs(h)
      BY <1>4, <1>5
    <3> QED
      BY <3>1, BehindGrows
  <2> QED
    BY <2>1, <2>2, <2>3
<1> QED
  BY <1>15, <1>16, <1>17, <1>18, <1>19, <1>20 DEF GraphInv

\* A change that adds dependencies, as x says, and no task.
LEMMA GrowthInv ==
    ASSUME GraphInv, ended = "no", NEW x, Right(x, orphans, endDate), TasksOf(x.graph) = tasks,
           \A a, b \in tasks : <<a, b>> \in Arcs(Graph) => <<a, b>> \in Arcs(x.graph),
           \A u \in tasks : x.visible[u] = "COMPLETED" => visibleState[u] = "COMPLETED",
           Becomes(x), UNCHANGED <<tasks, endDate, clock, removals, orphans>>,
           outputOf' \in [WorkflowFiles -> tasks \cup {NoFileTask}],
           inputOf' \in [WorkflowFiles -> SUBSET tasks],
           \A f \in WorkflowFiles : outputOf'[f] \notin inputOf'[f],
           removals = 0 /\ ~x.cyclic => \A f \in WorkflowFiles :
              /\ inputOf'[f] \subseteq tasks
              /\ outputOf'[f] \in tasks =>
                    \/ outputOf'[f] = outputOf[f] /\ inputOf'[f] = inputOf[f]
                    \/ inputOf'[f] \subseteq Behind(outputOf'[f], tasks, Arcs(x.graph))
    PROVE  GraphInv'
<1>1. PICK o, e, V, g : o = orphans /\ e = endDate /\ V = tasks /\ g = Graph
  OBVIOUS
<1>2. Graph' = x.graph /\ visibleState' = x.visible /\ Right(Whole', o, e) /\ (ended' = "no" => ~x.cyclic)
  BY <1>1, BecomesRight
<1>3. Right(Whole, orphans, endDate)' /\ TasksOf(Graph)' = tasks' /\ removals' \in Nat
  BY <1>1, <1>2 DEF GraphInv
<1>4. DatesPast'
  BY <1>2 DEF GraphInv, DatesPast
<1>5. FilesKnown'
  BY DEF FilesKnown
<1>6. FilesFollow'
  <2> SUFFICES ASSUME removals = 0, ~x.cyclic, NEW f \in WorkflowFiles
               PROVE  /\ inputOf'[f] \subseteq V
                      /\ outputOf'[f] \in V =>
                            inputOf'[f] \subseteq Behind(outputOf'[f], V, Arcs(x.graph))
    BY <1>1, <1>2 DEF FilesFollow
  <2>1. ASSUME outputOf'[f] \in V, outputOf'[f] = outputOf[f], inputOf'[f] = inputOf[f]
        PROVE  inputOf'[f] \subseteq Behind(outputOf'[f], V, Arcs(x.graph))
    <3>1. inputOf[f] \subseteq Behind(outputOf[f], V, Arcs(g))
      BY <1>1, <2>1 DEF GraphInv, FilesFollow
    <3>2. \A p \in V : Behind(p, V, Arcs(g)) \subseteq Behind(p, V, Arcs(x.graph))
      BY <1>1, BehindGrows
    <3> QED
      BY <2>1, <3>1, <3>2
  <2> QED
    BY <1>1, <2>1
<1> QED
  BY <1>3, <1>4, <1>5, <1>6 DEF GraphInv

\* What is made of the workflow when the dependency of d on s is added.
DependencyMade(x, s, d, r) ==
    /\ Right(x, orphans, endDate) /\ TasksOf(x.graph) = tasks
    /\ \A a, b \in tasks : <<a, b>> \in Arcs(Graph) => <<a, b>> \in Arcs(x.graph)
    /\ \A u \in tasks : x.visible[u] = "COMPLETED" => visibleState[u] = "COMPLETED"
    /\ ~r => x.cyclic \/ d \in Behind(s, tasks, Arcs(x.graph))

LEMMA WithDependencyFacts ==
    ASSUME GraphInv, NEW s \in tasks, NEW d \in tasks, NotStarted(d), NEW r,
           NEW x, x = WithDependency(s, d, r, Whole)
    PROVE  DependencyMade(x, s, d, r)
<1>1. PICK w, o, end, V, g, shown :
        /\ w = Whole /\ o = orphans /\ end = endDate /\ V = tasks /\ g = Graph
        /\ shown = visibleState
  OBVIOUS
<1>2. w.graph = g /\ w.visible = shown /\ x = WithDependency(s, d, r, w)
  BY <1>1 DEF Whole
<1>3. Right(w, o, end) /\ TasksOf(w.graph) = V /\ V \in SUBSET Identifiers /\ s \in V /\ d \in V
  BY <1>1, <1>2, GraphInvFacts DEF GraphInv
<1>4. w.visible[d] \in {"READY", "NOT_READY"}
  BY <1>1, <1>2 DEF NotStarted
<1>5. /\ Right(x, o, end) /\ TasksOf(x.graph) = V
      /\ \A a, b \in V : <<a, b>> \in Arcs(g) => <<a, b>> \in Arcs(x.graph)
      /\ \A u \in Identifiers : u # d => x.visible[u] = shown[u]
      /\ x.visible[d] \in {"READY", "NOT_READY"}
      /\ ~r => x.cyclic \/ d \in Behind(s, V, Arcs(x.graph))
  <2>1. s \in TasksOf(w.graph) /\ d \in TasksOf(w.graph)
    BY <1>3
  <2>2. LET z == WithDependency(s, d, r, w) IN
        /\ Right(z, o, end) /\ TasksOf(z.graph) = TasksOf(w.graph)
        /\ \A a, b \in TasksOf(w.graph) : <<a, b>> \in Arcs(w.graph) => <<a, b>> \in Arcs(z.graph)
        /\ \A u \in Identifiers : u # d => z.visible[u] = w.visible[u]
        /\ z.visible[d] \in {"READY", "NOT_READY"}
        /\ w.cyclic => z.cyclic
        /\ ~r => z.cyclic \/ d \in Behind(s, TasksOf(w.graph), Arcs(z.graph))
    BY <1>3, <1>4, <2>1, DependencyKeeps
  <2> QED
    BY <1>2, <1>3, <2>2
<1>6. \A u \in V : x.visible[u] = "COMPLETED" => shown[u] = "COMPLETED"
  BY <1>3, <1>5
<1> QED
  BY <1>1, <1>5, <1>6 DEF DependencyMade

LEMMA AddControlDependencyInv ==
    ASSUME GraphInv, ended = "no", NEW s \in Identifiers, NEW d \in Identifiers, NEW r,
           AddControlDependency(s, d, r)
    PROVE  GraphInv'
<1>1. /\ s \in tasks /\ d \in tasks /\ NotStarted(d) /\ Becomes(WithDependency(s, d, r, Whole))
      /\ UNCHANGED <<tasks, endDate, clock, removals, orphans, outputOf, inputOf>>
  BY DEF AddControlDependency, fileVars
<1>2. PICK x : x = WithDependency(s, d, r, Whole)
  OBVIOUS
<1>3. /\ Right(x, orphans, endDate) /\ TasksOf(x.graph) = tasks
      /\ \A a, b \in tasks : <<a, b>> \in Arcs(Graph) => <<a, b>> \in Arcs(x.graph)
      /\ \A u \in tasks : x.visible[u] = "COMPLETED" => visibleState[u] = "COMPLETED"
  <2>1. DependencyMade(x, s, d, r)
    BY <1>1, <1>2, WithDependencyFacts
  <2> QED
    BY <2>1 DEF DependencyMade
<1>4. FilesKnown /\ FilesFollow
  BY DEF GraphInv
<1>5. /\ outputOf' \in [WorkflowFiles -> tasks \cup {NoFileTask}]
      /\ inputOf' \in [WorkflowFiles -> SUBSET tasks]
      /\ \A f \in WorkflowFiles : outputOf'[f] \notin inputOf'[f]
  BY <1>1, <1>4 DEF FilesKnown
<1>6. ASSUME removals = 0, NEW f \in WorkflowFiles
      PROVE  inputOf'[f] \subseteq tasks /\ outputOf'[f] = outputOf[f] /\ inputOf'[f] = inputOf[f]
  BY <1>1, <1>4, <1>6 DEF FilesFollow
<1>7. Becomes(x)
  BY <1>1, <1>2
<1> QED
  BY <1>1, <1>3, <1>5, <1>6, <1>7, GrowthInv

LEMMA AddInputFileInv ==
    ASSUME GraphInv, ended = "no", NEW t \in Identifiers, NEW f \in WorkflowFiles,
           AddInputFile(t, f)
    PROVE  GraphInv'
<1>1. /\ t \in tasks /\ NotStarted(t) /\ t \notin inputOf[f] /\ outputOf[f] # t
      /\ inputOf' = [inputOf EXCEPT ![f] = @ \cup {t}]
      /\ UNCHANGED <<tasks, endDate, clock, removals, orphans, outputOf>>
  BY DEF AddInputFile
<1>2. FilesKnown /\ FilesFollow
  BY DEF GraphInv
<1>3. /\ outputOf' \in [WorkflowFiles -> tasks \cup {NoFileTask}]
      /\ inputOf' \in [WorkflowFiles -> SUBSET tasks]
      /\ inputOf'[f] = inputOf[f] \cup {t}
      /\ \A h \in WorkflowFiles : h # f => inputOf'[h] = inputOf[h]
  BY <1>1, <1>2 DEF FilesKnown
<1>4. \A h \in WorkflowFiles : outputOf'[h] \notin inputOf'[h]
  BY <1>1, <1>2, <1>3 DEF FilesKnown
<1>5. NoFileTask \notin tasks
  BY GraphInvFacts
<1>6. CASE outputOf[f] = NoFileTask
  <2>1. Becomes(Whole)
    BY <1>1, <1>6 DEF AddInputFile
  <2>2. PICK x : x = Whole
    OBVIOUS
  <2>3. /\ Right(x, orphans, endDate) /\ x.graph = Graph /\ x.visible = visibleState
        /\ TasksOf(x.graph) = tasks /\ Becomes(x)
    BY <2>1, <2>2 DEF GraphInv, Whole
  <2>4. ASSUME removals = 0, NEW h \in WorkflowFiles
        PROVE  /\ inputOf'[h] \subseteq tasks
               /\ outputOf'[h] \in tasks => outputOf'[h] = outputOf[h] /\ inputOf'[h] = inputOf[h]
    BY <1>1, <1>2, <1>3, <1>5, <1>6, <2>4 DEF FilesFollow
  <2> QED
    BY <1>1, <1>3, <1>4, <2>3, <2>4, GrowthInv
<1>7. CASE outputOf[f] # NoFileTask
  <2>1. PICK x : x = WithDependency(outputOf[f], t, FALSE, Whole)
    OBVIOUS
  <2>2. Becomes(x)
    BY <1>7, <2>1 DEF AddInputFile
  <2>3. outputOf[f] \in tasks
    BY <1>2, <1>7 DEF FilesKnown
  <2>4. /\ Right(x, orphans, endDate) /\ TasksOf(x.graph) = tasks
        /\ \A a, b \in tasks : <<a, b>> \in Arcs(Graph) => <<a, b>> \in Arcs(x.graph)
        /\ \A u \in tasks : x.visible[u] = "COMPLETED" => visibleState[u] = "COMPLETED"
        /\ x.cyclic \/ t \in Behind(outputOf[f], tasks, Arcs(x.graph))
    <3>1. PICK p, r : p = outputOf[f] /\ p \in tasks /\ r = FALSE
      BY <2>3
    <3>2. NotStarted(t)
      BY <1>1
    <3>3. t \in tasks /\ x = WithDependency(p, t, r, Whole)
      BY <1>1, <2>1, <3>1
    <3>4. /\ Right(x, orphans, endDate) /\ TasksOf(x.graph) = tasks
          /\ \A a, b \in tasks : <<a, b>> \in Arcs(Graph) => <<a, b>> \in Arcs(x.graph)
          /\ \A u \in tasks : x.visible[u] = "COMPLETED" => visibleState[u] = "COMPLETED"
          /\ ~r => x.cyclic \/ t \in Behind(p, tasks, Arcs(x.graph))
      <4>1. DependencyMade(x, p, t, r)
        BY <3>1, <3>2, <3>3, WithDependencyFacts
      <4> QED
        BY <4>1 DEF DependencyMade
    <3> QED
      BY <3>1, <3>4
  <2>5. ASSUME removals = 0, ~x.cyclic, NEW h \in WorkflowFiles
        PROVE  /\ inputOf'[h] \subseteq tasks
               /\ outputOf'[h] \in tasks =>
                     \/ outputOf'[h] = outputOf[h] /\ inputOf'[h] = inputOf[h]
                     \/ inputOf'[h] \subseteq Behind(outputOf'[h], tasks, Arcs(x.graph))
    <3>1. inputOf[h] \subseteq tasks
          /\ (outputOf[h] \in tasks => inputOf[h] \subseteq Behind(outputOf[h], tasks, Arcs(Graph)))
      BY <1>2, <2>5 DEF FilesFollow
    <3>2. CASE h # f
      BY <1>1, <1>3, <3>1, <3>2
    <3>3. CASE h = f
      <4>1. Behind(outputOf[f], tasks, Arcs(Graph)) \subseteq Behind(outputOf[f], tasks, Arcs(x.graph))
        BY <2>3, <2>4, BehindGrows
      <4>2. inputOf'[f] = inputOf[f] \cup {t} /\ outputOf'[f] = outputOf[f]
        BY <1>1, <1>3
      <4> QED
        BY <1>1, <2>3, <2>4, <2>5, <3>1, <3>3, <4>1, <4>2
    <3> QED
      BY <3>2, <3>3
  <2> QED
    BY <1>1, <1>3, <1>4, <2>2, <2>4, <2>5, GrowthInv
<1> QED
  BY <1>6, <1>7

\* The dependencies that an output file adds, to the tasks q in their order.
OutputTo(t, w, u) == WithDependency(t, u, FALSE, w)
Adding == INSTANCE FoldProofs WITH op <- OutputTo

\* What n of them leave.
Outputs(t, was, o, end, q, n) ==
    {w \in Wholes :
        /\ Right(w, o, end) /\ TasksOf(w.graph) = TasksOf(was.graph)
        /\ \A a, b \in TasksOf(was.graph) : <<a, b>> \in Arcs(was.graph) => <<a, b>> \in Arcs(w.graph)
        /\ \A u \in Identifiers : w.visible[u] = "COMPLETED" => was.visible[u] = "COMPLETED"
        /\ \A j \in DOMAIN q : w.visible[q[j]] \in {"READY", "NOT_READY"}
        /\ ~w.cyclic => \A j \in DOMAIN q :
                            j <= n => q[j] \in Behind(t, TasksOf(was.graph), Arcs(w.graph))}

LEMMA OutputsKeep ==
    ASSUME NEW was, NEW t \in TasksOf(was.graph), NEW o, NEW end, NEW n \in Nat,
           NEW q \in [1 .. n -> TasksOf(was.graph)], NEW i \in 1 .. n,
           NEW w \in Outputs(t, was, o, end, q, i - 1)
    PROVE  OutputTo(t, w, q[i]) \in Outputs(t, was, o, end, q, i)
<1> DEFINE V == TasksOf(was.graph)
           d == q[i]
<1>1. PICK x : x = OutputTo(t, w, d)
  OBVIOUS
<1>2. /\ Right(w, o, end) /\ TasksOf(w.graph) = V /\ DOMAIN q = 1 .. n /\ d \in V
      /\ \A a, b \in V : <<a, b>> \in Arcs(was.graph) => <<a, b>> \in Arcs(w.graph)
      /\ \A u \in Identifiers : w.visible[u] = "COMPLETED" => was.visible[u] = "COMPLETED"
      /\ \A j \in 1 .. n : w.visible[q[j]] \in {"READY", "NOT_READY"}
      /\ ~w.cyclic => \A j \in 1 .. n : j <= i - 1 => q[j] \in Behind(t, V, Arcs(w.graph))
  BY DEF Outputs
<1>3. V \in SUBSET Identifiers
  BY <1>2, TasksAreIndexed DEF Right, IsDag
<1> HIDE DEF V, d
<1>4. /\ Right(x, o, end) /\ TasksOf(x.graph) = V
      /\ \A a, b \in V : <<a, b>> \in Arcs(w.graph) => <<a, b>> \in Arcs(x.graph)
      /\ \A u \in Identifiers : u # d => x.visible[u] = w.visible[u]
      /\ x.visible[d] \in {"READY", "NOT_READY"}
      /\ w.cyclic => x.cyclic
      /\ x.cyclic \/ d \in Behind(t, V, Arcs(x.graph))
  <2>1. t \in TasksOf(w.graph) /\ d \in TasksOf(w.graph) /\ w.visible[d] \in {"READY", "NOT_READY"}
    BY <1>2 DEF V, d
  <2>2. LET z == WithDependency(t, d, FALSE, w) IN
        /\ Right(z, o, end) /\ TasksOf(z.graph) = TasksOf(w.graph)
        /\ \A a, b \in TasksOf(w.graph) : <<a, b>> \in Arcs(w.graph) => <<a, b>> \in Arcs(z.graph)
        /\ \A u \in Identifiers : u # d => z.visible[u] = w.visible[u]
        /\ z.visible[d] \in {"READY", "NOT_READY"}
        /\ w.cyclic => z.cyclic
        /\ ~FALSE => z.cyclic \/ d \in Behind(t, TasksOf(w.graph), Arcs(z.graph))
    BY <1>2, <2>1, DependencyKeeps
  <2> QED
    BY <1>1, <1>2, <2>2 DEF OutputTo
<1>5. \A u \in Identifiers : x.visible[u] = "COMPLETED" => was.visible[u] = "COMPLETED"
  BY <1>2, <1>4
<1>6. ASSUME NEW j \in 1 .. n PROVE x.visible[q[j]] \in {"READY", "NOT_READY"}
  <2>1. q[j] \in Identifiers
    BY <1>3 DEF V
  <2> QED
    BY <1>2, <1>4, <2>1
<1>7. ASSUME ~x.cyclic, NEW j \in 1 .. n, j <= i PROVE q[j] \in Behind(t, V, Arcs(x.graph))
  <2>1. CASE j = i
    BY <1>4, <1>7, <2>1 DEF d
  <2>2. CASE j # i
    <3>1. j <= i - 1
      BY <1>7, <2>2
    <3>2. q[j] \in Behind(t, V, Arcs(w.graph))
      BY <1>2, <1>4, <1>7, <3>1
    <3>3. Behind(t, V, Arcs(w.graph)) \subseteq Behind(t, V, Arcs(x.graph))
      BY <1>4, BehindGrows DEF V
    <3> QED
      BY <3>2, <3>3
  <2> QED
    BY <2>1, <2>2
<1>8. x \in Wholes
  BY <1>4 DEF Right
<1>9. \A a, b \in V : <<a, b>> \in Arcs(was.graph) => <<a, b>> \in Arcs(x.graph)
  BY <1>2, <1>4
<1>10. x \in Outputs(t, was, o, end, q, i)
  BY <1>2, <1>4, <1>5, <1>6, <1>7, <1>8, <1>9 DEF Outputs, V
<1> QED
  BY <1>1, <1>10 DEF d

LEMMA OutputsAdded ==
    ASSUME NEW was, NEW o, NEW end, Right(was, o, end), NEW t \in TasksOf(was.graph),
           NEW S \in SUBSET TasksOf(was.graph), \A u \in S : was.visible[u] \in {"READY", "NOT_READY"}
    PROVE  LET x == FoldLeft(LAMBDA w, u : WithDependency(t, u, FALSE, w), was, InOrder(S)) IN
           /\ Right(x, o, end) /\ TasksOf(x.graph) = TasksOf(was.graph)
           /\ \A a, b \in TasksOf(was.graph) : <<a, b>> \in Arcs(was.graph) => <<a, b>> \in Arcs(x.graph)
           /\ \A u \in TasksOf(was.graph) : x.visible[u] = "COMPLETED" => was.visible[u] = "COMPLETED"
           /\ x.cyclic \/ S \subseteq Behind(t, TasksOf(was.graph), Arcs(x.graph))
<1> DEFINE V == TasksOf(was.graph)
           q == InOrder(S)
           n == Cardinality(S)
           I == [i \in 0 .. n |-> Outputs(t, was, o, end, q, i)]
           x == FoldLeft(LAMBDA w, u : WithDependency(t, u, FALSE, w), was, q)
<1>1. V \in SUBSET Identifiers /\ IsFiniteSet(V) /\ was \in Wholes
  BY TasksAreIndexed DEF Right, IsDag
<1>2. n \in Nat /\ q \in [1 .. n -> S] /\ \A u \in S : \E i \in 1 .. n : q[i] = u
  <2>1. S \in SUBSET Nat /\ IsFiniteSet(S)
    BY <1>1, FS_Subset
  <2> QED
    BY <2>1, InOrderLists
<1>3. x = Adding!Folded(t, was, q)
  <2> HIDE DEF q
  <2> QED
    BY DEF Adding!Folded, FoldLeft, Adding!FoldLeft, MapThenFoldSet, Adding!MapThenFoldSet,
           Max, Adding!Max, OutputTo
<1> HIDE DEF q, n, x
<1>4. was \in I[0]
  <2>1. \A j \in DOMAIN q : ~(j <= 0) /\ was.visible[q[j]] \in {"READY", "NOT_READY"}
    BY <1>2
  <2>2. was \in Outputs(t, was, o, end, q, 0)
    BY <1>1, <2>1 DEF Outputs
  <2> QED
    BY <1>2, <2>2
<1>5. ASSUME NEW i \in 1 .. n, NEW w \in I[i - 1] PROVE OutputTo(t, w, q[i]) \in I[i]
  <2>1. q \in [1 .. n -> TasksOf(was.graph)]
    BY <1>2
  <2>2. i - 1 \in 0 .. n /\ i \in 0 .. n
    BY <1>2
  <2>3. w \in Outputs(t, was, o, end, q, i - 1)
    BY <2>2
  <2>4. OutputTo(t, w, q[i]) \in Outputs(t, was, o, end, q, i)
    BY <1>2, <2>1, <2>3, OutputsKeep
  <2> QED
    BY <2>2, <2>4
<1>6. x \in Outputs(t, was, o, end, q, n)
  <2>1. n \in 0 .. n /\ DOMAIN q = 1 .. n
    BY <1>2
  <2> HIDE DEF I
  <2>2. Adding!Folded(t, was, q) \in I[n]
    BY <1>2, <1>4, <1>5, <2>1, Adding!FoldKeeps
  <2> QED
    BY <1>3, <2>1, <2>2 DEF I
<1>7. ASSUME ~x.cyclic PROVE S \subseteq Behind(t, V, Arcs(x.graph))
  <2>1. \A j \in 1 .. n : q[j] \in Behind(t, V, Arcs(x.graph))
    BY <1>2, <1>6, <1>7 DEF Outputs
  <2> QED
    BY <1>2, <2>1
<1>8. /\ Right(x, o, end) /\ TasksOf(x.graph) = V
      /\ \A a, b \in V : <<a, b>> \in Arcs(was.graph) => <<a, b>> \in Arcs(x.graph)
      /\ \A u \in Identifiers : x.visible[u] = "COMPLETED" => was.visible[u] = "COMPLETED"
  BY <1>6 DEF Outputs
<1> QED
  BY <1>1, <1>7, <1>8 DEF x, q

LEMMA AddOutputFileInv ==
    ASSUME GraphInv, ended = "no", NEW t \in Identifiers, NEW f \in WorkflowFiles,
           AddOutputFile(t, f)
    PROVE  GraphInv'
<1>1. /\ t \in tasks /\ (\A u \in inputOf[f] : NotStarted(u))
      /\ t \notin inputOf[f] /\ outputOf[f] = NoFileTask
      /\ outputOf' = [outputOf EXCEPT ![f] = t]
      /\ UNCHANGED <<tasks, endDate, clock, removals, orphans, inputOf>>
  BY DEF AddOutputFile
<1>2. FilesKnown /\ FilesFollow
  BY DEF GraphInv
<1>3. /\ outputOf' \in [WorkflowFiles -> tasks \cup {NoFileTask}]
      /\ inputOf' \in [WorkflowFiles -> SUBSET tasks]
      /\ outputOf'[f] = t
      /\ \A h \in WorkflowFiles : h # f => outputOf'[h] = outputOf[h]
  BY <1>1, <1>2 DEF FilesKnown
<1>4. \A h \in WorkflowFiles : outputOf'[h] \notin inputOf'[h]
  BY <1>1, <1>2, <1>3 DEF FilesKnown
<1>5. CASE dangling[f] = {}
  <2>1. PICK was, V, o, end, g, shown, S :
            /\ was = Whole /\ V = tasks /\ o = orphans /\ end = endDate /\ g = Graph
            /\ shown = visibleState /\ S = inputOf[f]
    OBVIOUS
  <2>2. was.graph = g /\ was.visible = shown /\ TasksOf(was.graph) = V /\ Right(was, o, end)
    BY <2>1 DEF Whole, GraphInv
  <2>3. t \in TasksOf(was.graph) /\ S \in SUBSET TasksOf(was.graph)
        /\ \A u \in S : was.visible[u] \in {"READY", "NOT_READY"}
    BY <1>1, <1>2, <2>1, <2>2 DEF NotStarted, FilesKnown
  <2>4. PICK x : x = FoldLeft(LAMBDA w, u : WithDependency(t, u, FALSE, w), was, InOrder(S))
    OBVIOUS
  <2>5. Becomes(x)
    BY <1>5, <2>1, <2>4 DEF AddOutputFile
  <2>6. /\ Right(x, o, end) /\ TasksOf(x.graph) = V
        /\ \A a, b \in V : <<a, b>> \in Arcs(g) => <<a, b>> \in Arcs(x.graph)
        /\ \A u \in V : x.visible[u] = "COMPLETED" => shown[u] = "COMPLETED"
        /\ x.cyclic \/ S \subseteq Behind(t, V, Arcs(x.graph))
    <3>1. LET z == FoldLeft(LAMBDA w, u : WithDependency(t, u, FALSE, w), was, InOrder(S)) IN
          /\ Right(z, o, end) /\ TasksOf(z.graph) = TasksOf(was.graph)
          /\ \A a, b \in TasksOf(was.graph) : <<a, b>> \in Arcs(was.graph) => <<a, b>> \in Arcs(z.graph)
          /\ \A u \in TasksOf(was.graph) : z.visible[u] = "COMPLETED" => was.visible[u] = "COMPLETED"
          /\ z.cyclic \/ S \subseteq Behind(t, TasksOf(was.graph), Arcs(z.graph))
      BY <2>2, <2>3, OutputsAdded
    <3> QED
      BY <2>2, <2>4, <3>1
  <2>7. /\ Right(x, orphans, endDate) /\ TasksOf(x.graph) = tasks
        /\ \A a, b \in tasks : <<a, b>> \in Arcs(Graph) => <<a, b>> \in Arcs(x.graph)
        /\ \A u \in tasks : x.visible[u] = "COMPLETED" => visibleState[u] = "COMPLETED"
        /\ x.cyclic \/ inputOf[f] \subseteq Behind(t, tasks, Arcs(x.graph))
    BY <2>1, <2>6
  <2>8. ASSUME removals = 0, ~x.cyclic, NEW h \in WorkflowFiles
        PROVE  /\ inputOf'[h] \subseteq tasks
               /\ outputOf'[h] \in tasks =>
                     \/ outputOf'[h] = outputOf[h] /\ inputOf'[h] = inputOf[h]
                     \/ inputOf'[h] \subseteq Behind(outputOf'[h], tasks, Arcs(x.graph))
    <3>1. inputOf[h] \subseteq tasks /\ inputOf'[h] = inputOf[h]
      BY <1>1, <1>2, <2>8 DEF FilesFollow
    <3> QED
      BY <1>3, <2>7, <2>8, <3>1
  <2> QED
    BY <1>1, <1>3, <1>4, <2>5, <2>7, <2>8, GrowthInv
<1>6. CASE dangling[f] # {}
  <2>1. /\ ended' = "dangling task"
        /\ UNCHANGED <<vertices, edges, task_list, task_map, toplevel, visibleState, internalState>>
    BY <1>6 DEF AddOutputFile, dagVars
  <2>2. Whole' = Whole /\ Graph' = Graph
    BY <2>1 DEF Whole, Graph
  <2>3. Right(Whole, orphans, endDate)' /\ TasksOf(Graph)' = tasks' /\ removals' \in Nat
    BY <1>1, <2>2 DEF GraphInv
  <2>4. DatesPast'
    BY <1>1, <2>1 DEF GraphInv, DatesPast
  <2>5. FilesKnown'
    BY <1>1, <1>3, <1>4 DEF FilesKnown
  <2>6. FilesFollow'
    BY <2>1 DEF FilesFollow
  <2> QED
    BY <2>3, <2>4, <2>5, <2>6 DEF GraphInv
<1> QED
  BY <1>5, <1>6

\* A dependency is removed: the levels behind it follow, and its target may be made ready.
LEMMA RemoveControlDependencyInv ==
    ASSUME GraphInv, ended = "no", NEW s \in Identifiers, NEW d \in Identifiers,
           RemoveControlDependency(s, d)
    PROVE  GraphInv'
<1>1. /\ s \in tasks /\ d \in tasks /\ removals' = removals + 1
      /\ UNCHANGED <<tasks, endDate, clock, orphans, outputOf, inputOf>>
  BY DEF RemoveControlDependency, fileVars
<1>2. PICK g, V, o, end, levels, shown, inner :
        /\ g = Graph /\ V = tasks /\ o = orphans /\ end = endDate /\ levels = toplevel
        /\ shown = visibleState /\ inner = internalState
  OBVIOUS
<1>3. PICK h : h = RemoveEdge(s, d, g)
  OBVIOUS
<1>4. PICK new : new = UpdatedTopLevel(d, levels, h)
  OBVIOUS
<1>5. /\ IsDag(g) /\ Indexed(g) /\ LevelledBut({}, g, levels) /\ TasksOf(g) = V
      /\ shown \in [Identifiers -> Shown] /\ inner \in [Identifiers -> Inner]
      /\ \A u \in Identifiers : <<shown[u], inner[u]>> \in StatePairs
      /\ ParentsFirst(g, shown, end) /\ NoneForgotten(g, shown, o)
      /\ V \in SUBSET Identifiers /\ Acyclic(V, Arcs(g)) /\ IsFiniteSet(V)
  BY <1>2, GraphInvFacts
<1>6. /\ Indexed(h) /\ TasksOf(h) = V /\ h \in Dags
      /\ \A a, b \in V : <<a, b>> \in Arcs(h) <=> <<a, b>> \in Arcs(g) /\ ~(a = s /\ b = d)
  BY <1>1, <1>2, <1>3, <1>5, ArcRemoved DEF Indexed
<1>7. IsDag(h)
  <2>1. Acyclic(V, Arcs(h))
    BY <1>5, <1>6, AcyclicShrinks
  <2> QED
    BY <1>6, <2>1 DEF IsDag
<1>8. LevelledBut({}, h, new)
  <2>1. LevelledBut({d}, h, levels)
    <3>1. levels \in [Identifiers -> Nat]
      BY <1>5 DEF LevelledBut
    <3>2. ASSUME NEW u \in V \ {d} PROVE levels[u] = Depth(u, V, Arcs(h), levels)
      <4>1. ParentsIn(u, V, Arcs(g)) = ParentsIn(u, V, Arcs(h))
        BY <1>6, <3>2 DEF ParentsIn
      <4>2. Depth(u, V, Arcs(g), levels) = Depth(u, V, Arcs(h), levels)
        BY <4>1, DepthAgrees
      <4> QED
        BY <1>5, <4>2 DEF LevelledBut
    <3> QED
      BY <1>6, <3>1, <3>2 DEF LevelledBut
  <2>2. d \in TasksOf(h)
    BY <1>1, <1>2, <1>6
  <2>3. LevelledBut({d} \ Behind(d, TasksOf(h), Arcs(h)), h, new)
    BY <1>4, <1>7, <2>1, <2>2, UpdateLevels
  <2>4. {d} \ Behind(d, TasksOf(h), Arcs(h)) = {}
    BY <2>2, BehindIsClosed
  <2> QED
    BY <2>3, <2>4
<1>9. PICK w : w = [graph |-> h, levels |-> new, visible |-> shown, internal |-> inner,
                    cyclic |-> FALSE]
  OBVIOUS
<1>10. PICK freed : freed = IsFreed(d, w)
  OBVIOUS
<1>11. PICK x : x = [graph |-> h, levels |-> new,
                     visible |-> IF freed THEN [shown EXCEPT ![d] = "READY"] ELSE shown,
                     internal |-> IF freed THEN [inner EXCEPT ![d] = "TASK_READY"] ELSE inner,
                     cyclic |-> FALSE]
  OBVIOUS
<1>12. Becomes(x)
  <2> DEFINE v == [Whole EXCEPT !.graph = RemoveEdge(s, d, Graph),
                                !.levels = UpdatedTopLevel(d, toplevel, RemoveEdge(s, d, Graph))]
             z == [v EXCEPT !.internal[d] = "TASK_READY", !.visible[d] = "READY"]
  <2>1. Becomes(IF IsFreed(d, v) THEN z ELSE v)
    BY DEF RemoveControlDependency
  <2>2. Whole = [graph |-> g, levels |-> levels, visible |-> shown, internal |-> inner,
                 cyclic |-> FALSE]
    BY <1>2 DEF Whole
  <2>3. v = w
    <3>1. DOMAIN v = {"graph", "levels", "visible", "internal", "cyclic"} /\ v = [y \in DOMAIN v |-> v[y]]
      BY <2>2
    <3>2. v.graph = h /\ v.levels = new /\ v.visible = shown /\ v.internal = inner /\ v.cyclic = FALSE
      BY <1>2, <1>3, <1>4, <2>2
    <3> HIDE DEF v
    <3> QED
      BY <1>9, <3>1, <3>2
  <2>4. ASSUME freed PROVE z = x
    <3> HIDE DEF v
    <3>1. DOMAIN z = {"graph", "levels", "visible", "internal", "cyclic"} /\ z = [y \in DOMAIN z |-> z[y]]
      BY <1>9, <2>3
    <3>2. /\ z.graph = h /\ z.levels = new /\ z.visible = [shown EXCEPT ![d] = "READY"]
          /\ z.internal = [inner EXCEPT ![d] = "TASK_READY"] /\ z.cyclic = FALSE
      BY <1>9, <2>3
    <3> HIDE DEF z
    <3> QED
      BY <1>11, <2>4, <3>1, <3>2
  <2>5. ASSUME ~freed PROVE w = x
    BY <1>9, <1>11, <2>5
  <2> HIDE DEF v, z
  <2> QED
    BY <1>10, <2>1, <2>3, <2>4, <2>5
<1>13. /\ x.graph = h /\ x.levels = new /\ x.cyclic = FALSE
       /\ x.visible \in [Identifiers -> Shown] /\ x.internal \in [Identifiers -> Inner]
       /\ x.visible[d] = (IF freed THEN "READY" ELSE shown[d])
       /\ x.internal[d] = (IF freed THEN "TASK_READY" ELSE inner[d])
       /\ \A u \in Identifiers : u # d => x.visible[u] = shown[u] /\ x.internal[u] = inner[u]
       /\ x = [graph |-> x.graph, levels |-> x.levels, visible |-> x.visible,
               internal |-> x.internal, cyclic |-> x.cyclic]
  <2>1. "READY" \in Shown /\ "TASK_READY" \in Inner
    BY DEF Shown, Inner
  <2> QED
    BY <1>5, <1>11, <2>1
<1>14. freed <=> /\ shown[d] = "NOT_READY" /\ inner[d] = "TASK_NOT_READY"
                 /\ \A p \in V : <<p, d>> \in Arcs(h) => shown[p] = "COMPLETED"
  <2>1. d \in TasksOf(h)
    BY <1>1, <1>2, <1>6
  <2>2. GetParents(d, h) = ParentsIn(d, V, Arcs(h))
    BY <1>6, <2>1, Queries
  <2>3. w.graph = h /\ w.visible = shown /\ w.internal = inner
    BY <1>9
  <2> QED
    BY <1>10, <2>2, <2>3 DEF IsFreed, BecomesReady, ParentsIn
<1>15. ParentsFirst(h, x.visible, end)
  <2> SUFFICES ASSUME NEW p \in V, NEW c \in V, <<p, c>> \in Arcs(h), x.visible[c] # "NOT_READY"
               PROVE  x.visible[p] = "COMPLETED" /\ (x.visible[c] = "COMPLETED" => end[p] < end[c])
    BY <1>6 DEF ParentsFirst
  <2>1. shown[p] = "COMPLETED" /\ (x.visible[c] = "COMPLETED" => end[p] < end[c])
    <3>1. CASE c = d /\ freed
      BY <1>13, <1>14, <3>1
    <3>2. CASE ~(c = d /\ freed)
      <4>1. x.visible[c] = shown[c]
        BY <1>5, <1>13, <3>2
      <4> QED
        BY <1>5, <1>6, <4>1 DEF ParentsFirst
    <3> QED
      BY <3>1, <3>2
  <2>2. ~(p = d /\ freed)
    BY <1>14, <2>1
  <2> QED
    BY <1>5, <1>13, <2>1, <2>2
<1>16. NoneForgotten(h, x.visible, o)
  <2> SUFFICES ASSUME NEW c \in V, x.visible[c] = "NOT_READY", c \notin o
               PROVE  \E p \in V : <<p, c>> \in Arcs(h) /\ x.visible[p] # "COMPLETED"
    BY <1>6 DEF NoneForgotten
  <2>1. ~(c = d /\ freed) /\ shown[c] = "NOT_READY"
    BY <1>5, <1>13
  <2>2. PICK p \in V : <<p, c>> \in Arcs(h) /\ shown[p] # "COMPLETED"
    <3>1. CASE c = d
      <4>1. inner[d] = "TASK_NOT_READY"
        BY <1>5, <2>1, <3>1 DEF StatePairs
      <4> QED
        BY <1>14, <2>1, <3>1, <4>1
    <3>2. CASE c # d
      BY <1>5, <1>6, <2>1, <3>2 DEF NoneForgotten
    <3> QED
      BY <3>1, <3>2
  <2>3. x.visible[p] # "COMPLETED"
    BY <1>5, <1>13, <2>2
  <2> QED
    BY <2>2, <2>3
<1>17. Right(x, o, end)
  <2>1. x \in Wholes
    <3>1. x.graph \in Dags /\ x.levels \in [Identifiers -> Nat] /\ x.cyclic \in BOOLEAN
      BY <1>6, <1>8, <1>13 DEF LevelledBut
    <3> QED
      BY <1>13, <3>1 DEF Wholes
  <2>2. \A u \in Identifiers : <<x.visible[u], x.internal[u]>> \in StatePairs
    BY <1>5, <1>13 DEF StatePairs
  <2> QED
    BY <1>7, <1>8, <1>13, <1>15, <1>16, <2>1, <2>2 DEF Right
<1>18. Graph' = h /\ visibleState' = x.visible /\ Right(Whole', o, end)
  BY <1>12, <1>13, <1>17, BecomesRight
<1>19. Right(Whole, orphans, endDate)' /\ TasksOf(Graph)' = tasks'
  BY <1>1, <1>2, <1>6, <1>18
<1>20. DatesPast'
  <2>1. \A u \in V : x.visible[u] = "COMPLETED" => shown[u] = "COMPLETED"
    BY <1>5, <1>13
  <2> QED
    BY <1>1, <1>2, <1>18, <2>1 DEF GraphInv, DatesPast
<1>21. FilesKnown' /\ removals' \in Nat /\ FilesFollow'
  <2>1. removals' \in Nat /\ removals' # 0
    BY <1>1 DEF GraphInv
  <2>2. FilesKnown'
    BY <1>1 DEF GraphInv, FilesKnown
  <2> QED
    BY <2>1, <2>2 DEF FilesFollow
<1> QED
  BY <1>19, <1>20, <1>21 DEF GraphInv

\* The levels of the tasks S are updated one after the other.
LEMMA LevelsFolded ==
    ASSUME NEW g, IsDag(g), NEW S \in SUBSET TasksOf(g), NEW levels, LevelledBut(S, g, levels)
    PROVE  LevelledBut({}, g, Relevelling!Folded(g, levels, InOrder(S)))
<1> DEFINE q == InOrder(S)
           n == Cardinality(S)
           Left(i) == {q[j] : j \in i + 1 .. n}
           I == [i \in 0 .. n |-> {l \in [Identifiers -> Nat] : LevelledBut(Left(i), g, l)}]
           x == Relevelling!Folded(g, levels, q)
<1>1. n \in Nat /\ q \in [1 .. n -> S] /\ \A u \in S : \E i \in 1 .. n : q[i] = u
  <2>1. S \in SUBSET Nat /\ IsFiniteSet(S)
    BY TasksAreIndexed, FS_Subset DEF IsDag
  <2> QED
    BY <2>1, InOrderLists
<1> HIDE DEF q, n, x
<1>2. levels \in I[0]
  <2>1. Left(0) = S
    BY <1>1
  <2>2. levels \in [Identifiers -> Nat] /\ LevelledBut(Left(0), g, levels)
    BY <2>1 DEF LevelledBut
  <2> QED
    BY <1>1, <2>2
<1>3. ASSUME NEW i \in 1 .. n, NEW l \in I[i - 1] PROVE LevelsAfter(g, l, q[i]) \in I[i]
  <2>1. i - 1 \in 0 .. n /\ i \in 0 .. n
    BY <1>1
  <2>2. LevelledBut(Left(i - 1), g, l)
    BY <2>1
  <2> DEFINE was == Left(i - 1)
             left == Left(i)
             B == Behind(q[i], TasksOf(g), Arcs(g))
             y == UpdatedTopLevel(q[i], l, g)
  <2>3. q[i] \in TasksOf(g)
    BY <1>1
  <2>4. was \subseteq left \cup {q[i]}
    <3> SUFFICES ASSUME NEW j \in (i - 1) + 1 .. n, j # i PROVE j \in i + 1 .. n
      OBVIOUS
    <3> QED
      BY <1>1
  <2>5. q[i] \in B
    BY <2>3, BehindIsClosed
  <2> HIDE DEF was
  <2>6. LevelledBut(was \ B, g, y)
    BY <2>2, <2>3, UpdateLevels DEF was
  <2> HIDE DEF Left, left, B, y
  <2>7. LevelledBut(left, g, y)
    BY <2>4, <2>5, <2>6 DEF LevelledBut
  <2>8. y \in [Identifiers -> Nat]
    BY <2>6 DEF LevelledBut
  <2> QED
    BY <2>1, <2>7, <2>8 DEF LevelsAfter, y, left
<1>4. x \in I[n]
  <2>1. n \in 0 .. n /\ DOMAIN q = 1 .. n
    BY <1>1
  <2> HIDE DEF I
  <2>2. Relevelling!Folded(g, levels, q) \in I[n]
    BY <1>1, <1>2, <1>3, <2>1, Relevelling!FoldKeeps
  <2> QED
    BY <2>1, <2>2 DEF x, I
<1>5. n \in 0 .. n /\ Left(n) = {}
  BY <1>1
<1>6. LevelledBut({}, g, x)
  BY <1>4, <1>5
<1> QED
  BY <1>6 DEF x, q

\* A task is removed: its children may be left waiting, with their levels right.
LEMMA RemoveTaskInv ==
    ASSUME GraphInv, ended = "no", NEW t \in Identifiers, RemoveTask(t)
    PROVE  GraphInv'
<1>1. /\ t \in tasks /\ removals' = removals + 1 /\ tasks' = tasks \ {t}
      /\ orphans' = orphans \cup GetChildren(t, Graph)
      /\ outputOf' = [f \in WorkflowFiles |-> IF outputOf[f] = t THEN NoFileTask ELSE outputOf[f]]
      /\ inputOf' = [f \in WorkflowFiles |-> inputOf[f] \ {t}]
      /\ UNCHANGED <<endDate, clock>>
  BY DEF RemoveTask
<1>2. PICK g, V, o, end, levels, shown, inner, S :
        /\ g = Graph /\ V = tasks /\ o = orphans /\ end = endDate /\ levels = toplevel
        /\ shown = visibleState /\ inner = internalState /\ S = GetChildren(t, Graph)
  OBVIOUS
<1>3. PICK h : h = RemoveVertex(t, g)
  OBVIOUS
<1>4. PICK new : new = Relevelling!Folded(h, levels, InOrder(S))
  OBVIOUS
<1>5. /\ IsDag(g) /\ Indexed(g) /\ LevelledBut({}, g, levels) /\ TasksOf(g) = V
      /\ shown \in [Identifiers -> Shown] /\ inner \in [Identifiers -> Inner]
      /\ \A u \in Identifiers : <<shown[u], inner[u]>> \in StatePairs
      /\ ParentsFirst(g, shown, end) /\ NoneForgotten(g, shown, o)
      /\ V \in SUBSET Identifiers /\ Acyclic(V, Arcs(g)) /\ IsFiniteSet(V)
  BY <1>2, GraphInvFacts
<1>6. /\ Indexed(h) /\ TasksOf(h) = V \ {t} /\ h \in Dags
      /\ \A a, b \in V \ {t} : <<a, b>> \in Arcs(h) <=> <<a, b>> \in Arcs(g)
  BY <1>1, <1>2, <1>3, <1>5, VertexRemoved DEF Indexed
<1>7. IsDag(h)
  <2> DEFINE W == V \ {t}
  <2>1. W \subseteq V /\ \A a, b \in W : <<a, b>> \in Arcs(h) => <<a, b>> \in Arcs(g)
    BY <1>6
  <2> HIDE DEF W
  <2>2. Acyclic(W, Arcs(h))
    BY <1>5, <2>1, AcyclicShrinks
  <2> QED
    BY <1>6, <2>2 DEF IsDag, W
<1>8. S = {c \in V : <<t, c>> \in Arcs(g)} /\ t \notin S
  <2>1. S = {c \in V : <<t, c>> \in Arcs(g)}
    BY <1>1, <1>2, <1>5, Queries
  <2>2. <<t, t>> \notin Arcs(g)
    <3>1. {t} \in SUBSET V /\ {t} # {}
      BY <1>1, <1>2
    <3>2. \E x \in {t} : \A p \in {t} : <<p, x>> \notin Arcs(g)
      BY <1>5, <3>1 DEF Acyclic
    <3> QED
      BY <3>2
  <2> QED
    BY <2>1, <2>2
<1>9. LevelledBut({}, h, new)
  <2>1. levels \in [Identifiers -> Nat]
    BY <1>5 DEF LevelledBut
  <2>2. ASSUME NEW u \in (V \ {t}) \ S PROVE levels[u] = Depth(u, V \ {t}, Arcs(h), levels)
    <3>1. ParentsIn(u, V, Arcs(g)) = ParentsIn(u, V \ {t}, Arcs(h))
      BY <1>6, <1>8, <2>2 DEF ParentsIn
    <3>2. Depth(u, V, Arcs(g), levels) = Depth(u, V \ {t}, Arcs(h), levels)
      BY <3>1, DepthAgrees
    <3> QED
      BY <1>5, <3>2 DEF LevelledBut
  <2>3. LevelledBut(S, h, levels)
    BY <1>6, <2>1, <2>2 DEF LevelledBut
  <2>4. S \in SUBSET TasksOf(h)
    BY <1>6, <1>8
  <2> QED
    BY <1>4, <1>7, <2>3, <2>4, LevelsFolded
<1>10. PICK x : x = [graph |-> h, levels |-> new, visible |-> shown, internal |-> inner,
                     cyclic |-> FALSE]
  OBVIOUS
<1>11. Becomes(x)
  <2> DEFINE v == [Whole EXCEPT !.graph = RemoveVertex(t, Graph),
                     !.levels = FoldLeft(LAMBDA l, c : UpdatedTopLevel(c, l, RemoveVertex(t, Graph)),
                                         toplevel, InOrder(GetChildren(t, Graph)))]
  <2>1. Becomes(v)
    BY DEF RemoveTask
  <2>2. Whole = [graph |-> g, levels |-> levels, visible |-> shown, internal |-> inner,
                 cyclic |-> FALSE]
    BY <1>2 DEF Whole
  <2>3. v = [Whole EXCEPT !.graph = h, !.levels = new]
    <3>1. FoldLeft(LAMBDA l, c : UpdatedTopLevel(c, l, RemoveVertex(t, Graph)),
                   toplevel, InOrder(GetChildren(t, Graph)))
            = Relevelling!Folded(RemoveVertex(t, Graph), toplevel, InOrder(GetChildren(t, Graph)))
      BY DEF Relevelling!Folded, FoldLeft, Relevelling!FoldLeft, MapThenFoldSet,
             Relevelling!MapThenFoldSet, Max, Relevelling!Max, LevelsAfter
    <3>2. RemoveVertex(t, Graph) = h
          /\ Relevelling!Folded(RemoveVertex(t, Graph), toplevel, InOrder(GetChildren(t, Graph))) = new
      BY <1>2, <1>3, <1>4
    <3>3. v = [Whole EXCEPT !.graph = RemoveVertex(t, Graph),
                            !.levels = Relevelling!Folded(RemoveVertex(t, Graph), toplevel,
                                                          InOrder(GetChildren(t, Graph)))]
      BY <3>1
    <3> HIDE DEF v
    <3> QED
      BY <3>2, <3>3
  <2> HIDE DEF v
  <2>4. v = x
    <3>1. DOMAIN v = {"graph", "levels", "visible", "internal", "cyclic"} /\ v = [y \in DOMAIN v |-> v[y]]
      BY <2>2, <2>3
    <3>2. v.graph = h /\ v.levels = new /\ v.visible = shown /\ v.internal = inner /\ v.cyclic = FALSE
      BY <2>2, <2>3
    <3> QED
      BY <1>10, <3>1, <3>2
  <2> QED
    BY <2>1, <2>4
<1>12. x.graph = h /\ x.levels = new /\ x.visible = shown /\ x.internal = inner
  BY <1>10
<1>13. ParentsFirst(h, shown, end)
  BY <1>5, <1>6 DEF ParentsFirst
<1>14. NoneForgotten(h, shown, o \cup S)
  <2> SUFFICES ASSUME NEW c \in V \ {t}, shown[c] = "NOT_READY", c \notin o, c \notin S
               PROVE  \E p \in V \ {t} : <<p, c>> \in Arcs(h) /\ shown[p] # "COMPLETED"
    BY <1>6 DEF NoneForgotten
  <2>1. PICK p \in V : <<p, c>> \in Arcs(g) /\ shown[p] # "COMPLETED"
    BY <1>5 DEF NoneForgotten
  <2>2. p # t
    BY <1>8, <2>1
  <2> QED
    BY <1>6, <2>1, <2>2
<1>15. Right(x, o \cup S, end)
  <2>1. x \in Wholes
    <3>1. h \in Dags /\ new \in [Identifiers -> Nat]
      BY <1>6, <1>9 DEF LevelledBut
    <3> QED
      BY <1>5, <1>10, <3>1 DEF Wholes
  <2> QED
    BY <1>5, <1>7, <1>9, <1>12, <1>13, <1>14, <2>1 DEF Right
<1>16. Graph' = h /\ visibleState' = shown /\ Right(Whole', o \cup S, end)
  BY <1>11, <1>12, <1>15, BecomesRight
<1>17. Right(Whole, orphans, endDate)' /\ TasksOf(Graph)' = tasks'
  BY <1>1, <1>2, <1>6, <1>16
<1>18. DatesPast'
  BY <1>1, <1>2, <1>16 DEF GraphInv, DatesPast
<1>19. FilesKnown'
  <2>1. FilesKnown
    BY DEF GraphInv
  <2>2. outputOf' \in [WorkflowFiles -> tasks' \cup {NoFileTask}]
    BY <1>1, <2>1 DEF FilesKnown
  <2>3. inputOf' \in [WorkflowFiles -> SUBSET tasks']
    <3>1. \A f \in WorkflowFiles : inputOf[f] \ {t} \in SUBSET (tasks \ {t})
      BY <2>1 DEF FilesKnown
    <3> QED
      BY <1>1, <3>1
  <2>4. ASSUME NEW f \in WorkflowFiles PROVE outputOf'[f] \notin inputOf'[f]
    <3>1. outputOf[f] \in tasks \cup {NoFileTask} /\ inputOf[f] \in SUBSET tasks
          /\ outputOf[f] \notin inputOf[f]
      BY <2>1 DEF FilesKnown
    <3>2. CASE outputOf[f] # t
      BY <1>1, <3>1, <3>2
    <3>3. CASE outputOf[f] = t
      <4>1. outputOf'[f] = NoFileTask /\ NoFileTask \notin tasks
        BY <1>1, <3>3, GraphInvFacts
      <4> QED
        BY <1>1, <3>1, <4>1
    <3> QED
      BY <3>2, <3>3
  <2> QED
    BY <2>2, <2>3, <2>4 DEF FilesKnown
<1>20. removals' \in Nat /\ FilesFollow'
  <2>1. removals' \in Nat /\ removals' # 0
    BY <1>1 DEF GraphInv
  <2> QED
    BY <2>1 DEF FilesFollow
<1> QED
  BY <1>17, <1>18, <1>19, <1>20 DEF GraphInv

\* What is kept when the states of tasks change and the workflow does not.
LEMMA StatesInv ==
    ASSUME GraphInv, UNCHANGED <<tasks, dagVars, toplevel, fileVars, removals, orphans, ended>>,
           NEW shown \in [Identifiers -> Shown], NEW inner \in [Identifiers -> Inner],
           visibleState' = shown, internalState' = inner, NEW end, endDate' = end,
           \A u \in Identifiers : <<shown[u], inner[u]>> \in StatePairs,
           ParentsFirst(Graph, shown, end), NoneForgotten(Graph, shown, orphans), DatesPast'
    PROVE  GraphInv'
<1>1. PICK g, V, o, levels : g = Graph /\ V = tasks /\ o = orphans /\ levels = toplevel
  OBVIOUS
<1>2. /\ IsDag(g) /\ LevelledBut({}, g, levels) /\ TasksOf(g) = V /\ g \in Dags
      /\ levels \in [Identifiers -> Nat]
  BY <1>1, GraphInvFacts DEF Indexed, LevelledBut
<1>3. PICK x : x = [graph |-> g, levels |-> levels, visible |-> shown, internal |-> inner,
                    cyclic |-> FALSE]
  OBVIOUS
<1>4. Right(x, o, end)
  <2>1. x.graph = g /\ x.levels = levels /\ x.visible = shown /\ x.internal = inner
    BY <1>3
  <2>2. x \in Wholes
    BY <1>2, <1>3 DEF Wholes
  <2> QED
    BY <1>1, <1>2, <2>1, <2>2 DEF Right
<1>5. Graph' = g /\ Whole' = x
  <2>1. Graph' = g
    BY <1>1 DEF Graph, dagVars
  <2> QED
    BY <1>1, <1>3, <2>1 DEF Whole
<1>6. Right(Whole, orphans, endDate)' /\ TasksOf(Graph)' = tasks'
  BY <1>1, <1>2, <1>4, <1>5
<1>7. FilesKnown' /\ removals' \in Nat
  BY DEF GraphInv, FilesKnown, fileVars
<1>8. FilesFollow'
  <2>1. FilesFollow
    BY DEF GraphInv
  <2> QED
    BY <1>1, <1>5, <2>1 DEF FilesFollow, fileVars
<1> QED
  BY <1>6, <1>7, <1>8 DEF GraphInv

\* A task is submitted.
LEMMA SubmitInv ==
    ASSUME GraphInv, ended = "no", NEW t \in Identifiers, Submit(t)
    PROVE  GraphInv'
<1>1. /\ t \in tasks /\ visibleState[t] = "READY" /\ endDate' = endDate /\ clock' = clock
      /\ visibleState' = [visibleState EXCEPT ![t] = "PENDING"]
      /\ internalState' = [internalState EXCEPT ![t] = "TASK_RUNNING"]
      /\ UNCHANGED <<tasks, dagVars, toplevel, fileVars, removals, orphans, ended>>
  BY DEF Submit
<1>2. PICK g, V, o, end, was, shown, inner :
        /\ g = Graph /\ V = tasks /\ o = orphans /\ end = endDate /\ was = visibleState
        /\ shown = visibleState' /\ inner = internalState'
  OBVIOUS
<1>3. /\ TasksOf(g) = V /\ V \in SUBSET Identifiers
      /\ ParentsFirst(g, was, end) /\ NoneForgotten(g, was, o)
  BY <1>2, GraphInvFacts
<1>4. /\ shown \in [Identifiers -> Shown] /\ inner \in [Identifiers -> Inner]
      /\ shown[t] = "PENDING" /\ \A u \in Identifiers : u # t => shown[u] = was[u]
      /\ \A u \in Identifiers : <<shown[u], inner[u]>> \in StatePairs
  <2>1. "PENDING" \in Shown /\ "TASK_RUNNING" \in Inner
    BY DEF Shown, Inner
  <2>2. /\ shown \in [Identifiers -> Shown] /\ inner \in [Identifiers -> Inner]
        /\ shown[t] = "PENDING" /\ inner[t] = "TASK_RUNNING"
        /\ \A u \in Identifiers : u # t => shown[u] = was[u] /\ inner[u] = internalState[u]
    BY <1>1, <1>2, <2>1, GraphInvFacts
  <2>3. ASSUME NEW u \in Identifiers PROVE <<shown[u], inner[u]>> \in StatePairs
    <3>1. CASE u = t
      BY <2>2, <3>1 DEF StatePairs
    <3>2. CASE u # t
      BY <1>2, <2>2, <3>2, GraphInvFacts
    <3> QED
      BY <3>1, <3>2
  <2> QED
    BY <2>2, <2>3
<1>5. ParentsFirst(g, shown, end)
  <2> SUFFICES ASSUME NEW p \in V, NEW c \in V, <<p, c>> \in Arcs(g), shown[c] # "NOT_READY"
               PROVE  shown[p] = "COMPLETED" /\ (shown[c] = "COMPLETED" => end[p] < end[c])
    BY <1>3 DEF ParentsFirst
  <2>1. was[c] # "NOT_READY" /\ (shown[c] = "COMPLETED" => was[c] = "COMPLETED")
    BY <1>1, <1>2, <1>3, <1>4
  <2>2. was[p] = "COMPLETED" /\ (was[c] = "COMPLETED" => end[p] < end[c])
    BY <1>3, <2>1 DEF ParentsFirst
  <2>3. p # t
    BY <1>1, <1>2, <2>2
  <2> QED
    BY <1>3, <1>4, <2>1, <2>2, <2>3
<1>6. NoneForgotten(g, shown, o)
  <2> SUFFICES ASSUME NEW c \in V, shown[c] = "NOT_READY", c \notin o
               PROVE  \E p \in V : <<p, c>> \in Arcs(g) /\ shown[p] # "COMPLETED"
    BY <1>3 DEF NoneForgotten
  <2>1. was[c] = "NOT_READY"
    BY <1>3, <1>4
  <2>2. PICK p \in V : <<p, c>> \in Arcs(g) /\ was[p] # "COMPLETED"
    BY <1>3, <2>1 DEF NoneForgotten
  <2> QED
    BY <1>3, <1>4, <2>2
<1>7. DatesPast'
  <2>1. \A u \in V : shown[u] = "COMPLETED" => was[u] = "COMPLETED"
    BY <1>3, <1>4
  <2> QED
    BY <1>1, <1>2, <2>1 DEF GraphInv, DatesPast
<1>8. /\ visibleState' = shown /\ internalState' = inner /\ endDate' = end
      /\ ParentsFirst(Graph, shown, end) /\ NoneForgotten(Graph, shown, orphans)
  BY <1>1, <1>2, <1>5, <1>6
<1> QED
  BY <1>1, <1>4, <1>7, <1>8, StatesInv

\* A task completes, and its children are made ready that wait for no other.
LEMMA CompleteInv ==
    ASSUME GraphInv, ended = "no", NEW t \in Identifiers, Complete(t)
    PROVE  GraphInv'
<1> DEFINE done == [internalState EXCEPT ![t] = "TASK_COMPLETED"]
           freed == {c \in GetChildren(t, Graph) :
                        \A p \in GetParents(c, Graph) : done[p] = "TASK_COMPLETED"}
<1>1. /\ t \in tasks /\ visibleState[t] = "PENDING" /\ clock' = clock + 1
      /\ endDate' = [endDate EXCEPT ![t] = clock + 1]
      /\ internalState' = [u \in Identifiers |-> IF u \in freed THEN "TASK_READY" ELSE done[u]]
      /\ visibleState' = [u \in Identifiers |->
            IF u = t THEN "COMPLETED" ELSE IF u \in freed THEN "READY" ELSE visibleState[u]]
      /\ UNCHANGED <<tasks, dagVars, toplevel, fileVars, removals, orphans, ended>>
  BY DEF Complete
<1>2. PICK g, V, o, end, date, was, shown, inner, F :
        /\ g = Graph /\ V = tasks /\ o = orphans /\ end = endDate /\ date = endDate'
        /\ was = visibleState /\ shown = visibleState' /\ inner = internalState' /\ F = freed
  OBVIOUS
<1>3. /\ TasksOf(g) = V /\ V \in SUBSET Identifiers /\ Indexed(g) /\ Acyclic(V, Arcs(g)) /\ t \in V
      /\ ParentsFirst(g, was, end) /\ NoneForgotten(g, was, o)
      /\ was \in [Identifiers -> Shown] /\ internalState \in [Identifiers -> Inner]
      /\ \A u \in Identifiers : <<was[u], internalState[u]>> \in StatePairs
  BY <1>1, <1>2, GraphInvFacts
<1>4. \A u \in Identifiers : done[u] = "TASK_COMPLETED" <=> u = t \/ was[u] = "COMPLETED"
  <2>1. done[t] = "TASK_COMPLETED" /\ \A u \in Identifiers : u # t => done[u] = internalState[u]
    BY <1>3
  <2>2. \A u \in Identifiers : internalState[u] = "TASK_COMPLETED" <=> was[u] = "COMPLETED"
    BY <1>3 DEF StatePairs
  <2> HIDE DEF done
  <2> QED
    BY <2>1, <2>2
<1>5. \A c \in V : c \in F <=> /\ <<t, c>> \in Arcs(g)
                               /\ \A p \in V : <<p, c>> \in Arcs(g) => p = t \/ was[p] = "COMPLETED"
  <2>1. GetChildren(t, g) = {c \in V : <<t, c>> \in Arcs(g)}
    BY <1>3, Queries
  <2>2. \A c \in V : GetParents(c, g) = {p \in V : <<p, c>> \in Arcs(g)}
    BY <1>3, Queries DEF ParentsIn
  <2> HIDE DEF done
  <2> QED
    BY <1>2, <1>3, <1>4, <2>1, <2>2
<1>6. F \in SUBSET V /\ t \notin F
  <2>1. F \in SUBSET GetChildren(t, g)
    BY <1>2
  <2>2. GetChildren(t, g) \in SUBSET V
    BY <1>3, Queries
  <2>3. <<t, t>> \notin Arcs(g)
    <3>1. {t} \in SUBSET V /\ {t} # {}
      BY <1>3
    <3>2. \E x \in {t} : \A p \in {t} : <<p, x>> \notin Arcs(g)
      BY <1>3, <3>1 DEF Acyclic
    <3> QED
      BY <3>2
  <2> QED
    BY <1>3, <1>5, <2>1, <2>2, <2>3
<1>7. \A c \in F : was[c] = "NOT_READY"
  <2> SUFFICES ASSUME NEW c \in F, was[c] # "NOT_READY" PROVE FALSE
    OBVIOUS
  <2>1. <<t, c>> \in Arcs(g) /\ c \in V
    BY <1>5, <1>6
  <2>2. was[t] = "COMPLETED"
    BY <1>3, <2>1 DEF ParentsFirst
  <2> QED
    BY <1>1, <1>2, <2>2
<1>8. /\ shown \in [Identifiers -> Shown] /\ inner \in [Identifiers -> Inner]
      /\ shown[t] = "COMPLETED" /\ (\A u \in F : shown[u] = "READY")
      /\ \A u \in Identifiers : u # t /\ u \notin F => shown[u] = was[u]
      /\ \A u \in Identifiers : <<shown[u], inner[u]>> \in StatePairs
  <2>1. {"COMPLETED", "READY"} \subseteq Shown /\ {"TASK_READY", "TASK_COMPLETED"} \subseteq Inner
    BY DEF Shown, Inner
  <2>2. shown = [u \in Identifiers |-> IF u = t THEN "COMPLETED" ELSE IF u \in F THEN "READY" ELSE was[u]]
        /\ inner = [u \in Identifiers |-> IF u \in F THEN "TASK_READY" ELSE done[u]]
    BY <1>1, <1>2
  <2>3. done \in [Identifiers -> Inner] /\ done[t] = "TASK_COMPLETED"
        /\ \A u \in Identifiers : u # t => done[u] = internalState[u]
    BY <1>3, <2>1
  <2> HIDE DEF done, freed
  <2>4. shown \in [Identifiers -> Shown]
    BY <1>3, <2>1, <2>2
  <2>5. inner \in [Identifiers -> Inner]
    BY <1>3, <2>1, <2>2, <2>3
  <2>6. shown[t] = "COMPLETED" /\ inner[t] = "TASK_COMPLETED"
    BY <1>6, <2>2, <2>3
  <2>7. \A u \in F : shown[u] = "READY" /\ inner[u] = "TASK_READY"
    BY <1>3, <1>6, <2>2
  <2>8. \A u \in Identifiers : u # t /\ u \notin F => shown[u] = was[u] /\ inner[u] = internalState[u]
    BY <2>2, <2>3
  <2>9. ASSUME NEW u \in Identifiers PROVE <<shown[u], inner[u]>> \in StatePairs
    <3>1. CASE u = t
      BY <2>6, <3>1 DEF StatePairs
    <3>2. CASE u \in F
      BY <2>7, <3>2 DEF StatePairs
    <3>3. CASE u # t /\ u \notin F
      BY <1>3, <2>8, <3>3
    <3> QED
      BY <3>1, <3>2, <3>3
  <2> QED
    BY <2>4, <2>5, <2>6, <2>7, <2>8, <2>9
<1>9. /\ DatesPast /\ end \in [Identifiers -> Int] /\ clock \in Nat
      /\ date = [end EXCEPT ![t] = clock + 1]
      /\ \A u \in V : was[u] = "COMPLETED" => end[u] \in 1 .. clock
  BY <1>1, <1>2 DEF GraphInv, DatesPast
<1>10. date \in [Identifiers -> Int] /\ date[t] = clock + 1
       /\ \A u \in Identifiers : u # t => date[u] = end[u]
  BY <1>3, <1>9
<1> HIDE DEF done, freed
<1>11. \A u \in V : shown[u] = "COMPLETED" => u = t \/ (u # t /\ u \notin F /\ was[u] = "COMPLETED")
  BY <1>3, <1>8
<1>12. ParentsFirst(g, shown, date)
  <2> SUFFICES ASSUME NEW p \in V, NEW c \in V, <<p, c>> \in Arcs(g), shown[c] # "NOT_READY"
               PROVE  shown[p] = "COMPLETED" /\ (shown[c] = "COMPLETED" => date[p] < date[c])
    BY <1>3 DEF ParentsFirst
  <2>1. \A u \in V : u = t \/ was[u] = "COMPLETED" => shown[u] = "COMPLETED"
    BY <1>3, <1>7, <1>8
  <2>2. CASE c \in F
    <3>1. p = t \/ was[p] = "COMPLETED"
      BY <1>5, <2>2
    <3>2. shown[c] = "READY"
      BY <1>8, <2>2
    <3> QED
      BY <2>1, <3>1, <3>2
  <2>3. CASE c \notin F
    <3>1. was[c] # "NOT_READY"
      BY <1>1, <1>2, <1>3, <1>8, <2>3
    <3>2. was[p] = "COMPLETED" /\ (was[c] = "COMPLETED" => end[p] < end[c])
      BY <1>3, <3>1 DEF ParentsFirst
    <3>3. p # t /\ date[p] = end[p] /\ end[p] \in 1 .. clock
      BY <1>1, <1>2, <1>3, <1>9, <1>10, <3>2
    <3>4. shown[c] = "COMPLETED" => date[p] < date[c]
      <4>1. CASE c = t
        BY <1>9, <1>10, <3>3, <4>1
      <4>2. CASE c # t
        BY <1>3, <1>10, <1>11, <3>2, <3>3, <4>2
      <4> QED
        BY <4>1, <4>2
    <3> QED
      BY <2>1, <3>2, <3>4
  <2> QED
    BY <2>2, <2>3
<1>13. NoneForgotten(g, shown, o)
  <2> SUFFICES ASSUME NEW c \in V, shown[c] = "NOT_READY", c \notin o
               PROVE  \E p \in V : <<p, c>> \in Arcs(g) /\ shown[p] # "COMPLETED"
    BY <1>3 DEF NoneForgotten
  <2>1. c # t /\ c \notin F /\ was[c] = "NOT_READY"
    BY <1>3, <1>8
  <2>2. PICK q \in V : <<q, c>> \in Arcs(g) /\ was[q] # "COMPLETED"
    BY <1>3, <2>1 DEF NoneForgotten
  <2>3. \E p \in V : <<p, c>> \in Arcs(g) /\ was[p] # "COMPLETED" /\ p # t
    <3>1. CASE q = t
      BY <1>5, <2>1, <2>2, <3>1
    <3>2. CASE q # t
      BY <2>2, <3>2
    <3> QED
      BY <3>1, <3>2
  <2> QED
    BY <1>11, <2>3
<1>14. DatesPast'
  <2>1. date \in [Identifiers -> Int] /\ clock + 1 \in Nat
    BY <1>9, <1>10
  <2>2. ASSUME NEW u \in V, shown[u] = "COMPLETED" PROVE date[u] \in 1 .. clock + 1
    <3>1. CASE u = t
      BY <1>9, <1>10, <3>1
    <3>2. CASE u # t
      BY <1>3, <1>9, <1>10, <1>11, <2>2, <3>2
    <3> QED
      BY <3>1, <3>2
  <2> QED
    BY <1>1, <1>2, <2>1, <2>2 DEF DatesPast
<1>15. /\ visibleState' = shown /\ internalState' = inner /\ endDate' = date
       /\ ParentsFirst(Graph, shown, date) /\ NoneForgotten(Graph, shown, orphans)
  BY <1>2, <1>12, <1>13
<1> QED
  BY <1>1, <1>8, <1>14, <1>15, StatesInv

\* The invariant is kept by each step.
LEMMA GraphNextInv ==
    ASSUME GraphInv, [GraphNext]_graphVars
    PROVE  GraphInv'
<1>1. CASE UNCHANGED graphVars
  <2>1. /\ Whole' = Whole /\ Graph' = Graph
        /\ UNCHANGED <<tasks, orphans, endDate, visibleState, clock, removals, outputOf, inputOf, ended>>
    BY <1>1 DEF graphVars, dagVars, stateVars, fileVars, Whole, Graph
  <2>2. Right(Whole, orphans, endDate)' /\ TasksOf(Graph)' = tasks' /\ removals' \in Nat
    BY <2>1 DEF GraphInv
  <2>3. DatesPast'
    BY <2>1 DEF GraphInv, DatesPast
  <2>4. FilesKnown'
    BY <2>1 DEF GraphInv, FilesKnown
  <2>5. FilesFollow'
    BY <2>1 DEF GraphInv, FilesFollow
  <2> QED
    BY <2>2, <2>3, <2>4, <2>5 DEF GraphInv
<1>2. CASE GraphNext
  <2>1. ended = "no"
    BY <1>2 DEF GraphNext
  <2>2. CASE \E t \in Identifiers : AddTask(t)
    BY <2>1, <2>2, AddTaskInv
  <2>3. CASE \E t \in Identifiers : RemoveTask(t)
    BY <2>1, <2>3, RemoveTaskInv
  <2>4. CASE \E s, d \in Identifiers : RemoveControlDependency(s, d)
    BY <2>1, <2>4, RemoveControlDependencyInv
  <2>5. CASE \E s, d \in Identifiers, r \in Redundant : AddControlDependency(s, d, r)
    BY <2>1, <2>5, AddControlDependencyInv
  <2>6. CASE \E t \in Identifiers, f \in WorkflowFiles : AddInputFile(t, f)
    BY <2>1, <2>6, AddInputFileInv
  <2>7. CASE \E t \in Identifiers, f \in WorkflowFiles : AddOutputFile(t, f)
    BY <2>1, <2>7, AddOutputFileInv
  <2>8. CASE \E t \in Identifiers : Submit(t)
    BY <2>1, <2>8, SubmitInv
  <2>9. CASE \E t \in Identifiers : Complete(t)
    BY <2>1, <2>9, CompleteInv
  <2> QED
    BY <1>2, <2>2, <2>3, <2>4, <2>5, <2>6, <2>7, <2>8, <2>9 DEF GraphNext, Change
<1> QED
  BY <1>1, <1>2

\* The maps of the workflow agree with the graph.
LEMMA InvIndexes ==
    ASSUME GraphInv
    PROVE  IndexesAgree
<1>1. /\ Indexed(Graph) /\ TasksOf(Graph) = tasks
      /\ Graph.vertices = vertices /\ Graph.list = task_list /\ Graph.map = task_map
      /\ Graph.edges = edges
  BY GraphInvFacts DEF Graph
<1>2. \A t \in tasks : task_map[t] \in DOMAIN vertices /\ vertices[task_map[t]] = t
  BY <1>1, TasksAreIndexed
<1>3. ToSet(vertices) = tasks /\ task_list = vertices
  BY <1>1 DEF Indexed, TasksOf
<1>4. \A e \in DOMAIN edges : edges[e] > 0 => {e[1], e[2]} \subseteq DOMAIN vertices
  BY <1>1 DEF Indexed
<1> QED
  BY <1>2, <1>3, <1>4 DEF IndexesAgree

\* The levels of tasks grow along the dependencies, up to the number of levels.
LEMMA InvLevels ==
    ASSUME GraphInv
    PROVE  /\ \A t \in tasks : toplevel[t] \in Nat /\ toplevel[t] = Depth(t, tasks, Arcs(Graph), toplevel)
           /\ \A t \in tasks : toplevel[t] = 0 <=> t \in GetEntryTasks
           /\ \A p, c \in tasks : <<p, c>> \in Arcs(Graph) => toplevel[p] < toplevel[c]
           /\ \A t \in tasks : t \notin GetExitTasks => \E c \in tasks : <<t, c>> \in Arcs(Graph)
           /\ \A t \in tasks : toplevel[t] < GetNumLevels
           /\ GetNumLevels \in Int
<1> DEFINE V == tasks
           R == Arcs(Graph)
<1>1. Indexed(Graph) /\ TasksOf(Graph) = V /\ IsFiniteSet(V) /\ LevelledBut({}, Graph, toplevel)
      /\ V \in SUBSET Identifiers
  BY GraphInvFacts
<1>2. \A t \in V : toplevel[t] \in Nat /\ toplevel[t] = Depth(t, V, R, toplevel)
  BY <1>1 DEF LevelledBut
<1>3. \A t \in V : /\ ParentsIn(t, V, R) = {} <=> toplevel[t] = 0
                   /\ \A p \in ParentsIn(t, V, R) : toplevel[p] < toplevel[t]
  <2> HIDE DEF R
  <2> SUFFICES ASSUME NEW t \in V
               PROVE  /\ ParentsIn(t, V, R) = {} <=> toplevel[t] = 0
                      /\ \A p \in ParentsIn(t, V, R) : toplevel[p] < toplevel[t]
    OBVIOUS
  <2>1. \A p \in ParentsIn(t, V, R) : toplevel[p] \in Nat
    BY <1>2 DEF ParentsIn
  <2>2. /\ ParentsIn(t, V, R) = {} <=> Depth(t, V, R, toplevel) = 0
        /\ \A p \in ParentsIn(t, V, R) : toplevel[p] < Depth(t, V, R, toplevel)
    BY <1>1, <2>1, DepthType
  <2> QED
    BY <1>2, <2>2
<1>4. \A p, c \in V : <<p, c>> \in R => toplevel[p] < toplevel[c]
  BY <1>3 DEF ParentsIn
<1>5. \A t \in V : toplevel[t] = 0 <=> t \in GetEntryTasks
  <2> SUFFICES ASSUME NEW t \in V PROVE toplevel[t] = 0 <=> GetNumberOfParents(t, Graph) = 0
    BY DEF GetEntryTasks
  <2>1. GetNumberOfParents(t, Graph) = 0 <=> ParentsIn(t, V, R) = {}
    BY <1>1, Queries
  <2> QED
    BY <1>3, <2>1
<1>6. \A t \in V : t \notin GetExitTasks => \E c \in V : <<t, c>> \in R
  <2> SUFFICES ASSUME NEW t \in V, GetNumberOfChildren(t, Graph) # 0 PROVE \E c \in V : <<t, c>> \in R
    BY DEF GetExitTasks
  <2>1. GetChildren(t, Graph) # {} /\ GetChildren(t, Graph) = {c \in V : <<t, c>> \in R}
    BY <1>1, Queries
  <2> QED
    BY <2>1
<1> DEFINE X == GetExitTasks
           H == {1 + toplevel[t] : t \in X}
           L == {0} \cup H
<1>7. IsFiniteSet(L) /\ L \in SUBSET Int /\ L # {}
  <2>1. X \in SUBSET V /\ IsFiniteSet(X)
    BY <1>1, FS_Subset DEF GetExitTasks
  <2>2. IsFiniteSet(H)
    <3> DEFINE next == [t \in X |-> 1 + toplevel[t]]
    <3>1. H = {next[t] : t \in X}
      OBVIOUS
    <3> HIDE DEF next, X, H
    <3>2. IsFiniteSet({next[t] : t \in X})
      BY <2>1, ImageIsFinite
    <3> QED
      BY <3>1, <3>2
  <2>3. H \in SUBSET Int
    BY <1>2, <2>1
  <2> HIDE DEF H
  <2>4. IsFiniteSet(L)
    BY <2>2, FS_AddElement
  <2> QED
    BY <2>3, <2>4
<1> HIDE DEF L
<1>8. Max(L) \in L /\ \A y \in L : Max(L) >= y
  BY <1>7, MaxOfFinite
<1>9. GetNumLevels = Max(L)
  BY DEF GetNumLevels, L
<1>10. ASSUME NEW t \in V PROVE toplevel[t] < Max(L)
  <2> DEFINE all == {toplevel[u] : u \in V}
  <2>1. IsFiniteSet(all) /\ all \in SUBSET Int /\ all # {}
    <3>1. IsFiniteSet(all)
      BY <1>1, ImageIsFinite
    <3>2. all \in SUBSET Int /\ all # {}
      BY <1>2
    <3> QED
      BY <3>1, <3>2
  <2> HIDE DEF all
  <2>2. Max(all) \in all /\ \A y \in all : Max(all) >= y
    BY <2>1, MaxOfFinite
  <2>3. PICK m \in V : toplevel[m] = Max(all)
    BY <2>2 DEF all
  <2>4. \A u \in V : toplevel[m] >= toplevel[u]
    BY <2>2, <2>3 DEF all
  <2>5. m \in X
    <3> SUFFICES ASSUME NEW c \in V, <<m, c>> \in R PROVE FALSE
      BY <1>6
    <3>1. toplevel[m] < toplevel[c] /\ toplevel[m] >= toplevel[c]
      BY <1>4, <2>4
    <3>2. toplevel[m] \in Nat /\ toplevel[c] \in Nat
      BY <1>2
    <3> QED
      BY <3>1, <3>2
  <2>6. Max(L) >= 1 + toplevel[m]
    <3>1. 1 + toplevel[m] \in L
      BY <2>5 DEF L
    <3> QED
      BY <1>8, <3>1
  <2>7. toplevel[m] >= toplevel[t] /\ toplevel[m] \in Nat /\ toplevel[t] \in Nat /\ Max(L) \in Int
    BY <1>2, <1>7, <1>8, <2>4
  <2> QED
    BY <2>6, <2>7
<1> QED
  BY <1>2, <1>4, <1>5, <1>6, <1>7, <1>8, <1>9, <1>10

LEMMA InvSound ==
    ASSUME GraphInv
    PROVE  GraphIsSound
<1>1. Indexed(Graph) /\ TasksOf(Graph) = tasks
  BY GraphInvFacts
<1>2. ASSUME NEW t \in tasks
      PROVE  toplevel[t] = IF GetParents(t, Graph) = {} THEN 0
                           ELSE 1 + Max({toplevel[p] : p \in GetParents(t, Graph)})
  <2>1. GetParents(t, Graph) = ParentsIn(t, tasks, Arcs(Graph))
    BY <1>1, Queries
  <2>2. toplevel[t] = Depth(t, tasks, Arcs(Graph), toplevel)
    BY InvLevels
  <2> QED
    BY <2>1, <2>2 DEF Depth
<1>3. \A t \in tasks : toplevel[t] < GetNumLevels
  BY InvLevels
<1>4. GetEntryTasks = GetTasksInTopLevelRange(0, 0)
  <2>1. GetEntryTasks \subseteq tasks /\ \A t \in tasks : toplevel[t] \in Nat
    BY InvLevels DEF GetEntryTasks
  <2>2. \A t \in tasks : toplevel[t] \in 0 .. 0 <=> t \in GetEntryTasks
    BY <2>1, InvLevels
  <2> QED
    BY <2>1, <2>2 DEF GetTasksInTopLevelRange
<1>5. LevelsAreDepths
  BY <1>2, <1>3, <1>4 DEF LevelsAreDepths
<1> QED
  BY <1>5, InvIndexes DEF GraphIsSound

LEMMA InvReady ==
    ASSUME GraphInv
    PROVE  ReadyWhenParentsCompleted
<1> DEFINE V == tasks
           R == Arcs(Graph)
<1>1. /\ Indexed(Graph) /\ TasksOf(Graph) = V /\ V \in SUBSET Identifiers
      /\ ParentsFirst(Graph, visibleState, endDate) /\ NoneForgotten(Graph, visibleState, orphans)
      /\ FilesKnown /\ FilesFollow
  BY GraphInvFacts DEF GraphInv
<1>2. \A t \in V : GetParents(t, Graph) = {p \in V : <<p, t>> \in R}
  BY <1>1, Queries DEF ParentsIn
<1>3. ASSUME NEW t \in V, visibleState[t] = "READY", NEW p \in GetParents(t, Graph)
      PROVE  visibleState[p] = "COMPLETED"
  BY <1>1, <1>2, <1>3 DEF ParentsFirst
<1>4. ASSUME NEW t \in V, visibleState[t] = "NOT_READY",
             \A p \in GetParents(t, Graph) : visibleState[p] = "COMPLETED"
      PROVE  t \in orphans
  BY <1>1, <1>2, <1>4 DEF NoneForgotten
<1>5. ASSUME NEW t \in V, visibleState[t] = "READY"
      PROVE  Cardinality({k \in DOMAIN GetReadyClusters : t \in GetReadyClusters[k]}) = 1
  <2> DEFINE key(u) == IF ClusterOf[u] = NoCluster THEN u ELSE ClusterOf[u]
             creator(u) == {a \in GetReadyTasks : a < u /\ key(a) = ClusterOf[u]}
             members == GetReadyTasks \cup {u \in tasks : creator(u) # {}}
             K == {k \in DOMAIN GetReadyClusters : t \in GetReadyClusters[k]}
  <2>1. GetReadyClusters = [k \in {key(u) : u \in GetReadyTasks} |-> {u \in members : key(u) = k}]
    BY DEF GetReadyClusters
  <2>2. t \in GetReadyTasks /\ t \in members
    BY <1>5 DEF GetReadyTasks
  <2> HIDE DEF key, members
  <2>3. K = {key(t)}
    BY <2>1, <2>2
  <2> QED
    BY <2>3, FS_Singleton
<1>6. ASSUME ended = "no", NEW t \in V, removals = 0, visibleState[t] # "NOT_READY",
             NEW f \in WorkflowFiles, t \in inputOf[f], outputOf[f] # NoFileTask
      PROVE  visibleState[outputOf[f]] = "COMPLETED"
  <2> DEFINE p == outputOf[f]
             S == {u \in V : u = p \/ visibleState[u] = "NOT_READY"}
  <2>1. p \in V /\ t # p
    BY <1>1, <1>6 DEF FilesKnown
  <2>2. t \in Behind(p, V, R)
    BY <1>1, <1>6, <2>1 DEF FilesFollow
  <2> SUFFICES ASSUME visibleState[p] # "COMPLETED" PROVE FALSE
    OBVIOUS
  <2>3. ASSUME NEW a \in S, NEW b \in V, <<a, b>> \in R PROVE b \in S
    <3>1. a \in V /\ visibleState[a] # "COMPLETED"
      OBVIOUS
    <3>2. visibleState[b] = "NOT_READY"
      BY <1>1, <2>3, <3>1 DEF ParentsFirst
    <3> QED
      BY <3>2
  <2>4. S \in SUBSET V /\ p \in S
    BY <2>1
  <2> HIDE DEF S, R, p
  <2>5. t \in S
    BY <2>2, <2>3, <2>4 DEF Behind
  <2> QED
    BY <1>6, <2>1, <2>5 DEF S
<1>7. \A t \in V, f \in WorkflowFiles :
         t \in inputOf[f] /\ outputOf[f] = NoFileTask => f \in GetInputFiles
  BY DEF GetInputFiles
<1> QED
  BY <1>3, <1>4, <1>5, <1>6, <1>7 DEF ReadyWhenParentsCompleted

LEMMA InvCompletionDate ==
    ASSUME GraphInv
    PROVE  CompletionDateIsLast
<1> SUFFICES ASSUME tasks # {}, IsDone,
                    \A t \in GetExitTasks : toplevel[t] = GetNumLevels - 1
             PROVE  GetCompletionDate = Max({endDate[t] : t \in tasks})
  BY DEF CompletionDateIsLast
<1> DEFINE V == tasks
           R == Arcs(Graph)
           all == {endDate[t] : t \in V}
           last == GetTasksInTopLevelRange(GetNumLevels - 1, GetNumLevels - 1)
           dates == {endDate[t] : t \in last}
<1>1. /\ TasksOf(Graph) = V /\ IsFiniteSet(V) /\ V \in SUBSET Identifiers
      /\ ParentsFirst(Graph, visibleState, endDate) /\ endDate \in [Identifiers -> Int]
  BY GraphInvFacts DEF GraphInv, DatesPast
<1>2. \A t \in V : visibleState[t] = "COMPLETED"
  BY DEF IsDone
<1>3. PICK m \in V : \A u \in V : endDate[m] >= endDate[u]
  <2>1. IsFiniteSet(all) /\ all \in SUBSET Int /\ all # {}
    <3>1. IsFiniteSet(all)
      <4>1. IsFiniteSet(V)
        BY <1>1
      <4> QED
        BY <4>1, ImageIsFinite
    <3>2. all \in SUBSET Int /\ all # {}
      BY <1>1
    <3> QED
      BY <3>1, <3>2
  <2> HIDE DEF all
  <2>2. Max(all) \in all /\ \A y \in all : Max(all) >= y
    BY <2>1, MaxOfFinite
  <2> QED
    BY <2>2 DEF all
<1>4. m \in GetExitTasks
  <2> SUFFICES ASSUME NEW c \in V, <<m, c>> \in R PROVE FALSE
    BY InvLevels
  <2>1. endDate[m] < endDate[c] /\ endDate[m] >= endDate[c]
    BY <1>1, <1>2, <1>3 DEF ParentsFirst
  <2>2. endDate[m] \in Int /\ endDate[c] \in Int
    BY <1>1
  <2> QED
    BY <2>1, <2>2
<1>5. last \subseteq V /\ m \in last
  <2>1. GetNumLevels \in Int /\ toplevel[m] = GetNumLevels - 1
    BY <1>4, InvLevels
  <2> QED
    BY <2>1 DEF GetTasksInTopLevelRange
<1> HIDE DEF last
<1>6. GetCompletionDate = Max(dates)
  BY <1>2, <1>5 DEF GetCompletionDate, CompletionDateOf, last
<1>7. Max(dates) = endDate[m]
  <2>1. dates \in SUBSET Int /\ endDate[m] \in dates /\ \A y \in dates : endDate[m] >= y
    BY <1>1, <1>3, <1>5
  <2> HIDE DEF dates
  <2> QED
    BY <2>1, MaxIsLast
<1>8. Max(all) = endDate[m]
  <2>1. all \in SUBSET Int /\ endDate[m] \in all /\ \A y \in all : endDate[m] >= y
    BY <1>1, <1>3
  <2> HIDE DEF all
  <2> QED
    BY <2>1, MaxIsLast
<1> QED
  BY <1>6, <1>7, <1>8

\* The invariant holds of each state of a workflow.
THEOREM GraphInvariant == GraphSpec => []GraphInv
<1> QED
  BY GraphInitInv, GraphNextInv, PTL DEF GraphSpec

\* What the workflow keeps beside its graph, the numbers of its tasks and their levels,
\* agrees with it after any changes (Workflow.cpp, DagOfTasks.cpp).
THEOREM WorkflowGraphIsSound == GraphSpec => []GraphIsSound
<1> QED
  BY GraphInvariant, InvSound, PTL

\* A task is ready exactly when its parents are completed.
THEOREM WorkflowReadiness == GraphSpec => []ReadyWhenParentsCompleted
<1> QED
  BY GraphInvariant, InvReady, PTL

\* The completion date of a workflow is that of its last task.
THEOREM WorkflowCompletionDate == GraphSpec => []CompletionDateIsLast
<1> QED
  BY GraphInvariant, InvCompletionDate, PTL

-------------------------------------------------------------------------------
(* The JobManager *)

USE JobsAssumption, JobTasksAssumption, RunnableAssumption, NoServiceAssumption,
    BoundsAssumption, ParentsAssumption

\* Appending well-typed events to a mailbox, or removing the first one, gives a
\* well-typed mailbox.
LEMMA MailboxType ==
    ASSUME NEW box \in Seq(Event), NEW e \in Event
    PROVE  /\ Append(box, e) \in Seq(Event)
           /\ box # <<>> => Append(Tail(box), e) \in Seq(Event)
  OBVIOUS

\* The first event of a mailbox and the others are well-typed.
LEMMA FirstType ==
    ASSUME NEW box \in Seq(Event), box # <<>>
    PROVE  /\ Head(box) \in Event /\ Head(box).job \in Jobs
           /\ Tail(box) \in Seq(Event)
<1>1. Head(box) \in Event /\ Tail(box) \in Seq(Event)
  OBVIOUS
<1> QED
  BY <1>1 DEF Event

\* What a service sends is an event.
LEMMA NotificationType ==
    ASSUME NEW j \in Jobs, NEW type \in {"ServiceJobDone", "ServiceJobFailed"}
    PROVE  /\ Notification(type, j) \in Event
           /\ Notification(type, j).job = j
           /\ Notification(type, j).type = type
  BY DEF Notification, Event, NoChange, Changes, MessageTypes, VisibleStates

\* The empty-mailbox rule of popCallbackMailbox keeps the depth a natural number.
LEMMA PoppedType == ASSUME callbacks \in [Jobs -> Nat], NEW j \in Jobs
                    PROVE  Popped(j) \in [Jobs -> Nat]
  BY DEF Popped

\* One notification per job of a set, in any order of the set, is a sequence.
LEMMA NotifyAllType ==
    ASSUME NEW S \in SUBSET Jobs, NEW order \in Listings(S)
    PROVE  /\ DOMAIN order = 1 .. Cardinality(S)
           /\ [i \in DOMAIN order |-> Notification("ServiceJobFailed", order[i])] \in Seq(Event)
<1>1. Cardinality(S) \in Nat
  BY FS_Subset, FS_CardinalityType
<1>2. order \in [1 .. Cardinality(S) -> S]
  BY DEF Listings
<1>3. \A i \in DOMAIN order : Notification("ServiceJobFailed", order[i]) \in Event
  BY <1>2, NotificationType
<1> QED
  BY <1>1, <1>2, <1>3

\* Reporting to the mailbox on top of the job's stack keeps both mailboxes typed.
LEMMA ReportType ==
    ASSUME NEW j \in Jobs, NEW e \in Event, TypeOK, managerMailbox # <<>>, Report(j, e)
    PROVE  /\ callbacks' \in [Jobs -> Nat]
           /\ managerMailbox' \in Seq(Event) /\ wmsMailbox' \in Seq(Event)
<1>1. callbacks' \in [Jobs -> Nat]
  BY PoppedType DEF TypeOK, Report
<1>2. managerMailbox \in Seq(Event) /\ wmsMailbox \in Seq(Event)
  BY DEF TypeOK
<1>3. managerMailbox' \in Seq(Event) /\ wmsMailbox' \in Seq(Event)
  <2>1. CASE callbacks[j] = 0
    <3>1. Append(wmsMailbox, e) \in Seq(Event)
      BY <1>2, MailboxType
    <3>2. Tail(managerMailbox) \in Seq(Event)
      BY <1>2, FirstType
    <3> QED
      BY <2>1, <3>1, <3>2 DEF Report
  <2>2. CASE callbacks[j] # 0
    BY <1>2, <2>2, MailboxType DEF Report
  <2> QED
    BY <2>1, <2>2
<1> QED
  BY <1>1, <1>3

\* Every variable keeps its type: in particular popping a job's stack of callback
\* mailboxes never goes below empty, whatever the WMS submits and services report.
THEOREM TypeCorrect == Spec => []TypeOK
<1>1. Init => TypeOK
  BY DEF Init, TypeOK, InitialInternal, InitialVisible, InternalStates,
         VisibleStates, JobStates, WorkunitStates, Aborts
<1>2. TypeOK /\ [Next]_vars => TypeOK'
  <2> SUFFICES ASSUME TypeOK, [Next]_vars PROVE TypeOK'
    OBVIOUS
  <2>1. ASSUME NEW j \in Jobs, CreateStandardJob(j) PROVE TypeOK'
    BY <2>1 DEF TypeOK, CreateStandardJob, JobStates, taskVars, serviceVars
  <2>2. ASSUME NEW j \in Jobs, SubmitUnfitJob(j) PROVE TypeOK'
    BY <2>2 DEF TypeOK, SubmitUnfitJob, PushCallback, taskVars, managerVars, serviceVars
  <2>3. ASSUME NEW j \in Jobs, TerminateJob(j) PROVE TypeOK'
    BY <2>3 DEF TypeOK, TerminateJob, taskVars, managerVars, serviceVars, Call
  <2>4. ASSUME NEW j \in Jobs, NEW s \in Services, SubmitWithoutScratch(j, s) PROVE TypeOK'
    <3>1. aborted' \in Aborts
      BY <2>4 DEF SubmitWithoutScratch, MakePending, ThrowIf, Aborts
    <3>2. visible' \in [Tasks -> VisibleStates]
      BY <2>4 DEF TypeOK, SubmitWithoutScratch, MakePending, VisibleStates
    <3>3. jobState' \in [Jobs -> JobStates] /\ callbacks' \in [Jobs -> Nat]
      BY <2>4 DEF TypeOK, SubmitWithoutScratch, PushCallback, MakePending, JobStates
    <3> QED
      BY <2>4, <3>1, <3>2, <3>3 DEF TypeOK, SubmitWithoutScratch, managerVars, serviceVars
  <2>5. ASSUME NEW j \in Jobs, NEW s \in Services, SubmitJob(j, s) PROVE TypeOK'
    <3>1. aborted' \in Aborts
      BY <2>5 DEF SubmitJob, MakePending, ThrowIf, Aborts
    <3>2. visible' \in [Tasks -> VisibleStates]
      BY <2>5 DEF TypeOK, SubmitJob, MakePending, VisibleStates
    <3>3. jobState' \in [Jobs -> JobStates] /\ callbacks' \in [Jobs -> Nat]
      BY <2>5 DEF TypeOK, SubmitJob, PushCallback, MakePending, JobStates
    <3>4. wms' \in Call
      BY <2>5 DEF TypeOK, SubmitJob, Call
    <3> QED
      BY <2>5, <3>1, <3>2, <3>3, <3>4 DEF TypeOK, SubmitJob, serviceVars
  <2>6. ASSUME SubmitReturns PROVE TypeOK'
    BY <2>6 DEF TypeOK, SubmitReturns, taskVars, managerVars, serviceVars, Call
  <2>7. ASSUME SubmitThrows PROVE TypeOK'
    BY <2>7, PoppedType DEF TypeOK, SubmitThrows, ThrowIf, Aborts, JobStates, Call,
                serviceVars
  <2>8. ASSUME TerminateReturns PROVE TypeOK'
    BY <2>8 DEF TypeOK, TerminateReturns, TerminatedState, ThrowIf, Aborts, JobStates,
                VisibleStates, Call, managerVars, serviceVars
  <2>9. ASSUME TerminateThrows PROVE TypeOK'
    BY <2>9 DEF TypeOK, TerminateThrows, taskVars, managerVars, serviceVars
  <2>10. ASSUME RequestTimesOut PROVE TypeOK'
    BY <2>10 DEF TypeOK, RequestTimesOut, taskVars, managerVars, serviceVars, Call
  <2>11. ASSUME ReceiveEvent PROVE TypeOK'
    <3>1. Head(wmsMailbox) \in Event /\ wmsMailbox' \in Seq(Event)
      BY <2>11 DEF TypeOK, ReceiveEvent
    <3>2. visible' \in [Tasks -> VisibleStates]
      BY <2>11, <3>1 DEF TypeOK, ReceiveEvent, Event, Changes
    <3>3. failures' \in [Tasks -> Nat]
      BY <2>11 DEF TypeOK, ReceiveEvent
    <3>4. aborted' \in Aborts
      BY <2>11 DEF ReceiveEvent, ThrowIf, Aborts
    <3> QED
      BY <2>11, <3>1, <3>2, <3>3, <3>4 DEF TypeOK, ReceiveEvent, managerVars, serviceVars
  <2>12. ASSUME NEW s \in Services, AcceptJob(s) PROVE TypeOK'
    <3>1. wms \in Call /\ wms' \in Call
      BY <2>12 DEF TypeOK, AcceptJob, Call
    <3>2. workunits' \in [Jobs -> [Tasks -> WorkunitStates]]
      BY <2>12 DEF TypeOK, AcceptJob, WorkunitStates
    <3>3. pendingDeps' \in [Jobs -> [Tasks -> SUBSET Tasks]]
      <4>1. \A j \in Jobs, t \in Tasks : Dependencies(j, t) \subseteq Tasks
        BY DEF Dependencies
      <4> QED
        BY <2>12, <4>1 DEF TypeOK, AcceptJob
    <3>4. /\ allWorkunits' \in [Services -> SUBSET Jobs]
          /\ runningJobs' \in [Services -> SUBSET Jobs]
      BY <2>12, <3>1 DEF TypeOK, AcceptJob, Call
    <3> QED
      BY <2>12, <3>1, <3>2, <3>3, <3>4 DEF TypeOK, AcceptJob, taskVars, managerVars
  <2>13. ASSUME NEW s \in Services, RefuseRequest(s) PROVE TypeOK'
    BY <2>13 DEF TypeOK, RefuseRequest, taskVars, managerVars, serviceVars, Call
  <2>14. ASSUME NEW s \in Services, GrantTermination(s) PROVE TypeOK'
    BY <2>14 DEF TypeOK, GrantTermination, AfterKill, Forget, ThrowIf, Aborts, managerVars,
                 Call, InternalStates, WorkunitStates
  <2>15. ASSUME NEW s \in Services, NEW j \in Jobs, NEW t \in Tasks, StartTask(s, j, t)
         PROVE TypeOK'
    BY <2>15 DEF TypeOK, StartTask, managerVars, InternalStates, WorkunitStates
  <2>16. ASSUME NEW s \in Services, NEW j \in Jobs, NEW t \in Tasks, CompleteTask(s, j, t)
         PROVE TypeOK'
    BY <2>16 DEF TypeOK, CompleteTask, AfterCompletion, managerVars, InternalStates,
                 WorkunitStates
  <2>17. ASSUME NEW s \in Services, NEW j \in Jobs, NEW t \in Tasks, ProcessTaskDone(s, j, t)
         PROVE TypeOK'
    <3>1. workunits' \in [Jobs -> [Tasks -> WorkunitStates]]
      BY <2>17 DEF TypeOK, ProcessTaskDone, WorkunitStates
    <3>2. pendingDeps' \in [Jobs -> [Tasks -> SUBSET Tasks]]
      BY <2>17 DEF TypeOK, ProcessTaskDone, ReleaseChildren
    <3>3. aborted' \in Aborts
      BY <2>17 DEF ProcessTaskDone, ThrowIf, Aborts
    <3>4. /\ allWorkunits' \in [Services -> SUBSET Jobs]
          /\ runningJobs' \in [Services -> SUBSET Jobs]
      <4>1. \/ UNCHANGED <<allWorkunits, runningJobs>>
            \/ /\ allWorkunits' = [allWorkunits EXCEPT ![s] = @ \ {j}]
               /\ runningJobs' = [runningJobs EXCEPT ![s] = @ \ {j}]
        BY <2>17 DEF ProcessTaskDone
      <4>2. allWorkunits \in [Services -> SUBSET Jobs] /\ runningJobs \in [Services -> SUBSET Jobs]
        BY DEF TypeOK
      <4> QED
        BY <4>1, <4>2
    <3>5. callbacks' \in [Jobs -> Nat]
      BY <2>17, PoppedType DEF TypeOK, ProcessTaskDone
    <3>6. managerMailbox' \in Seq(Event)
      <4>1. \/ UNCHANGED managerMailbox
            \/ managerMailbox' = Append(managerMailbox, Notification("ServiceJobDone", j))
        BY <2>17 DEF ProcessTaskDone
      <4>2. Notification("ServiceJobDone", j) \in Event
        BY NotificationType
      <4>3. managerMailbox \in Seq(Event)
        BY DEF TypeOK
      <4>4. Append(managerMailbox, Notification("ServiceJobDone", j)) \in Seq(Event)
        BY <4>2, <4>3, MailboxType
      <4> QED
        BY <4>1, <4>3, <4>4
    <3> QED
      BY <2>17, <3>1, <3>2, <3>3, <3>4, <3>5, <3>6
         DEF TypeOK, ProcessTaskDone, taskVars, managerVars
  <2>18. ASSUME NEW s \in Services, NEW j \in Jobs, NEW t \in Tasks, FailJob(s, j, t)
         PROVE TypeOK'
    <3>1. internal' \in [Tasks -> InternalStates]
      BY <2>18 DEF TypeOK, FailJob, AfterKill, InternalStates
    <3>2. /\ allWorkunits' \in [Services -> SUBSET Jobs]
          /\ runningJobs' \in [Services -> SUBSET Jobs]
          /\ workunits' \in [Jobs -> [Tasks -> WorkunitStates]]
          /\ pendingDeps' \in [Jobs -> [Tasks -> SUBSET Tasks]]
      BY <2>18 DEF TypeOK, FailJob, Forget, WorkunitStates
    <3>3. aborted' \in Aborts
      BY <2>18 DEF FailJob, ThrowIf, Aborts
    <3>4. callbacks' \in [Jobs -> Nat]
      BY <2>18, PoppedType DEF TypeOK, FailJob
    <3>5. managerMailbox' \in Seq(Event)
      BY <2>18, NotificationType, MailboxType DEF TypeOK, FailJob
    <3> QED
      BY <2>18, <3>1, <3>2, <3>3, <3>4, <3>5 DEF TypeOK, FailJob, managerVars
  <2>19. ASSUME NEW s \in Services, StopService(s) PROVE TypeOK'
    <3>1. internal' \in [Tasks -> InternalStates]
      BY <2>19 DEF TypeOK, StopService, AfterKill, InternalStates
    <3>2. /\ allWorkunits' \in [Services -> SUBSET Jobs]
          /\ workunits' \in [Jobs -> [Tasks -> WorkunitStates]]
          /\ pendingDeps' \in [Jobs -> [Tasks -> SUBSET Tasks]]
      BY <2>19 DEF TypeOK, StopService, Forget, WorkunitStates
    <3>3. callbacks' \in [Jobs -> Nat]
      BY <2>19, PoppedType DEF TypeOK, StopService
    <3>4. managerMailbox' \in Seq(Event) /\ aborted' \in Aborts
      <4>1. PICK order \in Listings(runningJobs[s]) :
              /\ managerMailbox' = managerMailbox \o
                    [i \in DOMAIN order |-> Notification("ServiceJobFailed", order[i])]
              /\ aborted' \in Aborts
        BY <2>19 DEF StopService, ThrowIf, Aborts
      <4>2. [i \in DOMAIN order |-> Notification("ServiceJobFailed", order[i])] \in Seq(Event)
        <5>1. runningJobs[s] \in SUBSET Jobs
          BY DEF TypeOK
        <5> QED
          BY <4>1, <5>1, NotifyAllType
      <4> QED
        BY <4>1, <4>2 DEF TypeOK
    <3> QED
      BY <2>19, <3>1, <3>2, <3>3, <3>4 DEF TypeOK, StopService, managerVars
  <2>20. ASSUME ProcessStandardJobCompletion PROVE TypeOK'
    <3> DEFINE j == Head(managerMailbox).job
               e == [type |-> "ManagerJobDone", job |-> j,
                     changes |-> CompletionChanges(j), increments |-> {}]
    <3>1. j \in Jobs /\ Report(j, e)
      BY <2>20, FirstType DEF TypeOK, ProcessStandardJobCompletion
    <3>2. CompletionChanges(j) \in Changes
      BY DEF CompletionChanges, Changes, VisibleStates
    <3>3. /\ callbacks' \in [Jobs -> Nat]
          /\ managerMailbox' \in Seq(Event) /\ wmsMailbox' \in Seq(Event)
      <4>1. e \in Event
        BY <3>1, <3>2 DEF Event, MessageTypes
      <4> QED
        BY <2>20, <3>1, <4>1, ReportType DEF TypeOK, ProcessStandardJobCompletion
    <3>4. upcoming' \in [Tasks -> VisibleStates]
      BY <2>20, <3>2 DEF TypeOK, ProcessStandardJobCompletion, Changes
    <3>5. aborted' \in Aborts
      BY <2>20 DEF ProcessStandardJobCompletion, ThrowIf, Aborts
    <3>6. /\ jobState' \in [Jobs -> JobStates]
          /\ pendingJobs' \in SUBSET Jobs /\ completedJobs' \in SUBSET Jobs
      BY <2>20, <3>1 DEF TypeOK, ProcessStandardJobCompletion, JobStates
    <3> QED
      BY <2>20, <3>3, <3>4, <3>5, <3>6
         DEF TypeOK, ProcessStandardJobCompletion, serviceVars
  <2>21. ASSUME ProcessStandardJobFailure PROVE TypeOK'
    <3> DEFINE j == Head(managerMailbox).job
               e == [type |-> "ManagerJobFailed", job |-> j, changes |-> FailureChanges(j),
                     increments |-> {t \in JobTasks[j] : internal[t] = "TASK_READY"}]
    <3>1. j \in Jobs /\ Report(j, e)
      BY <2>21, FirstType DEF TypeOK, ProcessStandardJobFailure
    <3>2. FailureChanges(j) \in Changes
      BY DEF FailureChanges, StateAfterFailure, Changes, VisibleStates
    <3>3. /\ callbacks' \in [Jobs -> Nat]
          /\ managerMailbox' \in Seq(Event) /\ wmsMailbox' \in Seq(Event)
      <4>1. e \in Event
        BY <3>1, <3>2 DEF Event, MessageTypes
      <4> QED
        BY <2>21, <3>1, <4>1, ReportType DEF TypeOK, ProcessStandardJobFailure
    <3>4. visible' \in [Tasks -> VisibleStates]
      BY <2>21 DEF TypeOK, ProcessStandardJobFailure, StateAfterFailure, VisibleStates
    <3>5. /\ jobState' \in [Jobs -> JobStates]
          /\ pendingJobs' \in SUBSET Jobs /\ failedJobs' \in SUBSET Jobs
      BY <2>21, <3>1 DEF TypeOK, ProcessStandardJobFailure, JobStates
    <3> QED
      BY <2>21, <3>3, <3>4, <3>5 DEF TypeOK, ProcessStandardJobFailure, serviceVars
  <2>22. ASSUME ProcessUnexpectedMessage PROVE TypeOK'
    BY <2>22, FirstType
       DEF TypeOK, ProcessUnexpectedMessage, taskVars, managerVars, serviceVars, Aborts
  <2>23. CASE UNCHANGED vars
    BY <2>23 DEF TypeOK, vars, taskVars, managerVars, serviceVars
  <2> QED
    BY <2>1, <2>2, <2>3, <2>4, <2>5, <2>6, <2>7, <2>8, <2>9, <2>10, <2>11, <2>12, <2>13,
       <2>14, <2>15, <2>16, <2>17, <2>18, <2>19, <2>20, <2>21, <2>22, <2>23
       DEF Next, WmsStep, ServiceStep, ManagerStep
<1> QED
  BY <1>1, <1>2, PTL DEF Spec

-------------------------------------------------------------------------------
(* No job is lost. *)

\* A service has in running_jobs every job it holds workunits of.
HeldJobsRun == \A s \in Services : allWorkunits[s] \subseteq runningJobs[s]

\* The inductive invariant: NoLostJob alone is not inductive, because a service that
\* stops fails the jobs of running_jobs only.
IInv == TypeOK /\ HeldJobsRun /\ NoLostJob

\* A notification stays in a mailbox until it is the first and is removed.
LEMMA AboutMailbox ==
    ASSUME NEW box \in Seq(Event), NEW e \in Event, NEW j \in Jobs
    PROVE  /\ About(box, j) => About(Append(box, e), j)
           /\ e.job = j /\ e.type \in {"ServiceJobDone", "ServiceJobFailed"}
                 => About(Append(box, e), j)
           /\ About(box, j) /\ Head(box).job # j => About(Tail(box), j)
           /\ About(box, j) /\ Head(box).type \notin {"ServiceJobDone", "ServiceJobFailed"}
                 => About(Tail(box), j)
<1>1. About(box, j) => About(Append(box, e), j)
  <2> SUFFICES ASSUME About(box, j) PROVE About(Append(box, e), j)
    OBVIOUS
  <2>1. PICK i \in DOMAIN box : /\ box[i].job = j
                                /\ box[i].type \in {"ServiceJobDone", "ServiceJobFailed"}
    BY DEF About
  <2>2. i \in DOMAIN Append(box, e) /\ Append(box, e)[i] = box[i]
    OBVIOUS
  <2> QED
    BY <2>1, <2>2 DEF About
<1>2. ASSUME e.job = j, e.type \in {"ServiceJobDone", "ServiceJobFailed"}
      PROVE  About(Append(box, e), j)
  <2>1. /\ Len(box) + 1 \in DOMAIN Append(box, e)
        /\ Append(box, e)[Len(box) + 1] = e
    OBVIOUS
  <2> QED
    BY <1>2, <2>1 DEF About
<1>3. ASSUME About(box, j),
             Head(box).job # j \/ Head(box).type \notin {"ServiceJobDone", "ServiceJobFailed"}
      PROVE  About(Tail(box), j)
  <2>1. PICK i \in DOMAIN box : /\ box[i].job = j
                                /\ box[i].type \in {"ServiceJobDone", "ServiceJobFailed"}
    BY <1>3 DEF About
  <2>2. i # 1
    BY <1>3, <2>1
  <2>3. i - 1 \in DOMAIN Tail(box) /\ Tail(box)[i - 1] = box[i]
    BY <2>2
  <2> QED
    BY <2>1, <2>3 DEF About
<1> QED
  BY <1>1, <1>2, <1>3

\* Nor does it leave when other notifications are put after it.
LEMMA AboutConcat ==
    ASSUME NEW box \in Seq(Event), NEW more \in Seq(Event), NEW j \in Jobs,
           About(box, j) \/ About(more, j)
    PROVE  About(box \o more, j)
<1>1. CASE About(box, j)
  <2>1. PICK i \in DOMAIN box : /\ box[i].job = j
                                /\ box[i].type \in {"ServiceJobDone", "ServiceJobFailed"}
    BY <1>1 DEF About
  <2>2. i \in DOMAIN (box \o more) /\ (box \o more)[i] = box[i]
    OBVIOUS
  <2> QED
    BY <2>1, <2>2 DEF About
<1>2. CASE About(more, j)
  <2>1. PICK i \in DOMAIN more : /\ more[i].job = j
                                 /\ more[i].type \in {"ServiceJobDone", "ServiceJobFailed"}
    BY <1>2 DEF About
  <2>2. Len(box) + i \in DOMAIN (box \o more) /\ (box \o more)[Len(box) + i] = more[i]
    OBVIOUS
  <2> QED
    BY <2>1, <2>2 DEF About
<1> QED
  BY <1>1, <1>2

\* A step that takes nothing out of anyone's hands loses no job.
LEMMA Frame ==
    ASSUME IInv, pendingJobs' \subseteq pendingJobs,
           UNCHANGED <<wms, up, allWorkunits, runningJobs, managerMailbox, terminated>>
    PROVE  NoLostJob' /\ HeldJobsRun'
  BY DEF IInv, NoLostJob, HeldJobsRun, InSomeHands, Calling, Held, About

\* The steps of the WMS keep every job in some actor's hands.
LEMMA WmsStepInv == ASSUME IInv, WmsStep PROVE NoLostJob' /\ HeldJobsRun'
<1> USE DEF IInv
<1>1. ASSUME NEW j \in Jobs, CreateStandardJob(j) \/ SubmitUnfitJob(j)
      PROVE  NoLostJob' /\ HeldJobsRun'
  BY <1>1, Frame DEF CreateStandardJob, SubmitUnfitJob, serviceVars, managerVars
<1>2. ASSUME NEW j \in Jobs, NEW s \in Services, SubmitWithoutScratch(j, s)
      PROVE  NoLostJob' /\ HeldJobsRun'
  BY <1>2, Frame DEF SubmitWithoutScratch, serviceVars, managerVars
<1>3. ASSUME ReceiveEvent PROVE NoLostJob' /\ HeldJobsRun'
  BY <1>3, Frame DEF ReceiveEvent, serviceVars, managerVars
<1>4. ASSUME NEW j \in Jobs, TerminateJob(j) PROVE NoLostJob' /\ HeldJobsRun'
  BY <1>4 DEF TerminateJob, serviceVars, managerVars, NoLostJob, HeldJobsRun,
              InSomeHands, Calling, Held, About, Idle
<1>5. ASSUME NEW j \in Jobs, NEW s \in Services, SubmitJob(j, s)
      PROVE  NoLostJob' /\ HeldJobsRun'
  <2>1. InSomeHands(j)'
    BY <1>5 DEF SubmitJob, InSomeHands, Calling, Idle
  <2>2. ASSUME NEW k \in pendingJobs PROVE InSomeHands(k)'
    BY <1>5, <2>2 DEF SubmitJob, PushCallback, serviceVars, NoLostJob, InSomeHands,
                      Calling, Held, About, Idle
  <2> QED
    BY <1>5, <2>1, <2>2 DEF SubmitJob, serviceVars, NoLostJob, HeldJobsRun
<1>6. ASSUME SubmitReturns PROVE NoLostJob' /\ HeldJobsRun'
  BY <1>6 DEF SubmitReturns, serviceVars, managerVars, NoLostJob, HeldJobsRun,
              InSomeHands, Calling, Held, About, Idle
<1>7. ASSUME SubmitThrows PROVE NoLostJob' /\ HeldJobsRun'
  BY <1>7 DEF SubmitThrows, serviceVars, NoLostJob, HeldJobsRun,
              InSomeHands, Calling, Held, About, Idle
<1>8. ASSUME TerminateReturns PROVE NoLostJob' /\ HeldJobsRun'
  <2>1. terminated' = terminated \cup {wms.job}
    BY <1>8 DEF TerminateReturns
  <2> QED
    BY <1>8, <2>1 DEF TerminateReturns, serviceVars, managerVars, NoLostJob, HeldJobsRun,
              InSomeHands, Calling, Held, About, Idle
<1>9. ASSUME TerminateThrows PROVE NoLostJob' /\ HeldJobsRun'
  BY <1>9 DEF TerminateThrows, serviceVars, managerVars, NoLostJob, HeldJobsRun,
              InSomeHands, Calling, Held, About, Idle
<1>10. ASSUME RequestTimesOut PROVE NoLostJob' /\ HeldJobsRun'
  BY <1>10 DEF RequestTimesOut, serviceVars, managerVars, NoLostJob, HeldJobsRun, TypeOK,
               Call, InSomeHands, Calling, Held, About, Idle
<1> QED
  BY <1>1, <1>2, <1>3, <1>4, <1>5, <1>6, <1>7, <1>8, <1>9, <1>10 DEF WmsStep

\* So do the steps of a service: what it stops holding it has reported.
LEMMA ServiceStepInv ==
    ASSUME IInv, NEW s \in Services, ServiceStep(s) PROVE NoLostJob' /\ HeldJobsRun'
<1> USE DEF IInv
<1>1. ASSUME AcceptJob(s) PROVE NoLostJob' /\ HeldJobsRun'
  BY <1>1 DEF AcceptJob, managerVars, NoLostJob, HeldJobsRun, TypeOK, Call,
              InSomeHands, Calling, Held, About, Idle
<1>2. ASSUME RefuseRequest(s) PROVE NoLostJob' /\ HeldJobsRun'
  BY <1>2 DEF RefuseRequest, serviceVars, managerVars, NoLostJob, HeldJobsRun, TypeOK,
              Call, InSomeHands, Calling, Held, About, Idle
<1>3. ASSUME GrantTermination(s) PROVE NoLostJob' /\ HeldJobsRun'
  BY <1>3 DEF GrantTermination, Forget, managerVars, NoLostJob, HeldJobsRun, TypeOK,
              Call, InSomeHands, Calling, Held, About, Idle
<1>4. ASSUME NEW j \in Jobs, NEW t \in Tasks, StartTask(s, j, t) \/ CompleteTask(s, j, t)
      PROVE  NoLostJob' /\ HeldJobsRun'
  BY <1>4, Frame DEF StartTask, CompleteTask, managerVars
<1>5. ASSUME NEW j \in Jobs, NEW type \in {"ServiceJobDone", "ServiceJobFailed"},
             allWorkunits' = [allWorkunits EXCEPT ![s] = @ \ {j}],
             runningJobs' = [runningJobs EXCEPT ![s] = @ \ {j}],
             managerMailbox' = Append(managerMailbox, Notification(type, j)),
             UNCHANGED <<wms, up, pendingJobs, terminated>>
      PROVE  NoLostJob' /\ HeldJobsRun'
  <2>1. managerMailbox \in Seq(Event) /\ Notification(type, j) \in Event
    BY NotificationType DEF TypeOK
  <2>2. About(managerMailbox, j)'
    BY <1>5, <2>1, NotificationType, AboutMailbox
  <2>3. ASSUME NEW k \in pendingJobs, k # j PROVE InSomeHands(k)'
    <3>1. k \in Jobs /\ InSomeHands(k)
      BY <2>3 DEF TypeOK, NoLostJob
    <3>2. About(managerMailbox, k) => About(managerMailbox, k)'
      BY <1>5, <2>1, <3>1, AboutMailbox
    <3>3. Held(k) => Held(k)'
      BY <1>5, <2>3 DEF Held, TypeOK
    <3> QED
      BY <1>5, <3>1, <3>2, <3>3 DEF InSomeHands, Calling
  <2> QED
    BY <1>5, <2>2, <2>3 DEF NoLostJob, InSomeHands, HeldJobsRun, TypeOK
<1>6. ASSUME NEW j \in Jobs, NEW t \in Tasks, ProcessTaskDone(s, j, t)
      PROVE  NoLostJob' /\ HeldJobsRun'
  <2>1. CASE UNCHANGED <<allWorkunits, runningJobs, callbacks, managerMailbox>>
    BY <1>6, <2>1, Frame DEF ProcessTaskDone, managerVars
  <2>2. CASE /\ allWorkunits' = [allWorkunits EXCEPT ![s] = @ \ {j}]
             /\ runningJobs' = [runningJobs EXCEPT ![s] = @ \ {j}]
             /\ managerMailbox' = Append(managerMailbox, Notification("ServiceJobDone", j))
    BY <1>5, <1>6, <2>2 DEF ProcessTaskDone, managerVars
  <2> QED
    BY <1>6, <2>1, <2>2 DEF ProcessTaskDone
<1>7. ASSUME NEW j \in Jobs, NEW t \in Tasks, FailJob(s, j, t)
      PROVE  NoLostJob' /\ HeldJobsRun'
  BY <1>5, <1>7 DEF FailJob, Forget, managerVars
<1>8. ASSUME StopService(s) PROVE NoLostJob' /\ HeldJobsRun'
  <2>1. PICK order \in Listings(runningJobs[s]) : managerMailbox' = managerMailbox \o
            [i \in DOMAIN order |-> Notification("ServiceJobFailed", order[i])]
    BY <1>8 DEF StopService
  <2>2. ASSUME NEW k \in pendingJobs PROVE InSomeHands(k)'
    <3>1. k \in Jobs /\ InSomeHands(k)
      BY <2>2 DEF TypeOK, NoLostJob
    <3> DEFINE sent == [i \in DOMAIN order |-> Notification("ServiceJobFailed", order[i])]
    <3>a. managerMailbox \in Seq(Event) /\ sent \in Seq(Event)
      <4>1. runningJobs[s] \in SUBSET Jobs
        BY DEF TypeOK
      <4> QED
        BY <4>1, NotifyAllType DEF TypeOK
    <3>2. About(managerMailbox, k) => About(managerMailbox, k)'
      BY <2>1, <3>1, <3>a, AboutConcat
    <3>3. k \in runningJobs[s] => About(managerMailbox, k)'
      <4>1. SUFFICES ASSUME k \in runningJobs[s] PROVE About(sent, k)
        BY <2>1, <3>1, <3>a, AboutConcat
      <4>2. PICK i \in DOMAIN order : order[i] = k
        BY <4>1 DEF Listings
      <4>3. sent[i] = Notification("ServiceJobFailed", k) /\ i \in DOMAIN sent
        BY <4>2
      <4> QED
        BY <3>1, <4>3, NotificationType DEF About
    <3>4. Held(k) => Held(k)' \/ k \in runningJobs[s]
      BY <1>8 DEF StopService, Forget, Held, HeldJobsRun, TypeOK
    <3> QED
      BY <1>8, <3>1, <3>2, <3>3, <3>4 DEF StopService, InSomeHands, Calling
  <2> QED
    BY <1>8, <2>2 DEF StopService, Forget, managerVars, NoLostJob, HeldJobsRun, TypeOK
<1> QED
  BY <1>1, <1>2, <1>3, <1>4, <1>6, <1>7, <1>8 DEF ServiceStep

\* The JobManager's handler of a notification about j forgets j, and keeps the
\* notifications about other jobs.
LEMMA ReportInv ==
    ASSUME IInv, NEW j \in Jobs, NEW e \in Event, managerMailbox # <<>>,
           Head(managerMailbox).job = j, Report(j, e), pendingJobs' = pendingJobs \ {j},
           UNCHANGED <<wms, up, allWorkunits, runningJobs, terminated>>
    PROVE  NoLostJob' /\ HeldJobsRun'
<1> USE DEF IInv
<1>1. ASSUME NEW k \in pendingJobs, k # j PROVE InSomeHands(k)'
  <2>1. k \in Jobs /\ InSomeHands(k)
    BY <1>1 DEF TypeOK, NoLostJob
  <2>2. managerMailbox \in Seq(Event) /\ Tail(managerMailbox) \in Seq(Event)
    BY FirstType DEF TypeOK
  <2>3. About(managerMailbox, k) => About(Tail(managerMailbox), k)
    BY <1>1, <2>1, <2>2, AboutMailbox
  <2>4. About(Tail(managerMailbox), k) => About(Append(Tail(managerMailbox), e), k)
    BY <2>1, <2>2, AboutMailbox
  <2>5. \/ managerMailbox' = Tail(managerMailbox)
        \/ managerMailbox' = Append(Tail(managerMailbox), e)
    BY DEF Report
  <2>6. About(managerMailbox, k) => About(managerMailbox, k)'
    BY <2>3, <2>4, <2>5
  <2> QED
    BY <2>1, <2>6 DEF InSomeHands, Calling, Held
<1> QED
  BY <1>1 DEF NoLostJob, HeldJobsRun

\* The JobManager daemon, which alone empties its mailbox, reports the job whose
\* notification it reads and loses no other.
LEMMA ManagerStepInv == ASSUME IInv, ManagerStep PROVE NoLostJob' /\ HeldJobsRun'
<1> USE DEF IInv
<1>1. CASE ProcessStandardJobCompletion
  <2> DEFINE j == Head(managerMailbox).job
             e == [type |-> "ManagerJobDone", job |-> j,
                   changes |-> CompletionChanges(j), increments |-> {}]
  <2>1. j \in Jobs /\ Report(j, e) /\ pendingJobs' = pendingJobs \ {j}
    BY <1>1, FirstType DEF ProcessStandardJobCompletion, TypeOK
  <2>2. CompletionChanges(j) \in Changes
    BY DEF CompletionChanges, Changes, VisibleStates
  <2>3. e \in Event
    BY <2>1, <2>2 DEF Event, MessageTypes
  <2> QED
    BY <1>1, <2>1, <2>3, ReportInv DEF ProcessStandardJobCompletion, serviceVars
<1>2. CASE ProcessStandardJobFailure
  <2> DEFINE j == Head(managerMailbox).job
             e == [type |-> "ManagerJobFailed", job |-> j, changes |-> FailureChanges(j),
                   increments |-> {t \in JobTasks[j] : internal[t] = "TASK_READY"}]
  <2>1. j \in Jobs /\ Report(j, e) /\ pendingJobs' = pendingJobs \ {j}
    BY <1>2, FirstType DEF ProcessStandardJobFailure, TypeOK
  <2>2. FailureChanges(j) \in Changes
    BY DEF FailureChanges, StateAfterFailure, Changes, VisibleStates
  <2>3. e \in Event
    BY <2>1, <2>2 DEF Event, MessageTypes
  <2> QED
    BY <1>2, <2>1, <2>3, ReportInv DEF ProcessStandardJobFailure, serviceVars
<1>3. CASE ProcessUnexpectedMessage
  <2>1. ASSUME NEW k \in pendingJobs PROVE InSomeHands(k)'
    <3>1. k \in Jobs /\ InSomeHands(k)
      BY <2>1 DEF TypeOK, NoLostJob
    <3>2. managerMailbox \in Seq(Event) /\ Head(managerMailbox) \in Event
      BY <1>3, FirstType DEF TypeOK, ProcessUnexpectedMessage
    <3>3. About(managerMailbox, k) => About(Tail(managerMailbox), k)
      BY <1>3, <3>1, <3>2, AboutMailbox DEF ProcessUnexpectedMessage
    <3> QED
      BY <1>3, <3>1, <3>3 DEF ProcessUnexpectedMessage, serviceVars, InSomeHands, Calling, Held
  <2> QED
    BY <1>3, <2>1 DEF ProcessUnexpectedMessage, serviceVars, managerVars, NoLostJob, HeldJobsRun
<1> QED
  BY <1>1, <1>2, <1>3 DEF ManagerStep

\* Whatever the WMS submits, terminates and resubmits, and however services fail
\* and stop, a job the JobManager counts as pending is being submitted, held by a
\* service that is up or reported, or has been terminated.
THEOREM JobsAreNotLost == Spec => []NoLostJob
<1>1. Init => IInv
  <2>1. Init => TypeOK
    BY DEF Init, TypeOK, InitialInternal, InitialVisible, InternalStates,
           VisibleStates, JobStates, WorkunitStates, Aborts
  <2> QED
    BY <2>1 DEF Init, IInv, HeldJobsRun, NoLostJob
<1>2. TypeOK /\ IInv /\ TypeOK' /\ [Next]_vars => IInv'
  <2> SUFFICES ASSUME IInv, TypeOK', [Next]_vars PROVE IInv'
    OBVIOUS
  <2>1. CASE UNCHANGED vars
    BY <2>1, Frame DEF vars, managerVars, serviceVars, IInv
  <2>2. CASE Next
    BY <2>2, WmsStepInv, ServiceStepInv, ManagerStepInv DEF Next, IInv
  <2> QED
    BY <2>1, <2>2
<1>3. IInv => NoLostJob
  BY DEF IInv
<1> QED
  BY <1>1, <1>2, <1>3, TypeCorrect, PTL DEF Spec

-------------------------------------------------------------------------------
(* The DataMovementManager and the file registry *)

USE DataAssumption DEF DataAssumption

AllRequests == Request \cup {[op |-> "stop"]}

-------------------------------------------------------------------------------
(* The types *)

\* Nothing is under way at first.
LEMMA InitIsTyped == DataInit => DataTypeOK
<1> SUFFICES ASSUME DataInit PROVE DataTypeOK
  OBVIOUS
<1>1. registry \in [up : BOOLEAN, request : Request \cup {None}, left : SUBSET StorageServices]
  BY DEF DataInit
<1>2. NoCall \in WMSCall
  BY DEF NoCall, WMSCall
<1>3. dmmMail \in Seq(Answer) /\ registryMail \in Seq(Request \cup {[op |-> "stop"]})
  BY DEF DataInit
<1>4. stored \subseteq Where /\ late \subseteq Where /\ entries \subseteq Where /\ blamed \subseteq Where
  BY DEF DataInit, Where
<1>5. calls \in 0 .. MaxCalls
  BY DEF DataInit
<1> QED
  BY <1>1, <1>2, <1>3, <1>4, <1>5 DEF DataInit, DataTypeOK

\* What a caller asks of the registry is a request it understands.
LEMMA AskIsTyped ==
    ASSUME DataTypeOK, NEW op \in Op, NEW f \in Files, NEW s \in StorageServices, Ask(op, f, s)
    PROVE  /\ registryMail' \in Seq(AllRequests) /\ entries' = entries /\ registry' = registry
           /\ call' \in {NoCall, [what |-> "registry"]} /\ call' \in WMSCall
<1>1. [op |-> op, file |-> f, at |-> s, client |-> "wms"] \in AllRequests
  BY DEF AllRequests, Request, Client
<1>2. registryMail \in Seq(AllRequests)
  BY DEF DataTypeOK, AllRequests
<1>3. Append(registryMail, [op |-> op, file |-> f, at |-> s, client |-> "wms"]) \in Seq(AllRequests)
  BY <1>1, <1>2
<1> QED
  BY <1>2, <1>3 DEF Ask, WMSCall, NoCall

\* Every step of the manager, of the copies, of the callers and of the registry keeps the types.
LEMMA StepIsTyped == DataTypeOK /\ [DataNext]_dataVars => DataTypeOK'
<1> SUFFICES ASSUME DataTypeOK, [DataNext]_dataVars PROVE DataTypeOK'
  OBVIOUS
<1> USE DEF DataTypeOK, AllRequests
<1>1. CASE UNCHANGED dataVars
  BY <1>1 DEF dataVars, storageVars, dmmVars, registryVars, wmsVars
<1>2. ASSUME NEW c \in Copy, InitiateCopy(c) \/ StartCopy(c) PROVE DataTypeOK'
  BY <1>2 DEF InitiateCopy, StartCopy, Calls, WMSCall, storageVars, dmmVars, registryVars
<1>3. ASSUME NEW f \in Files, NEW s \in StorageServices, StartDeletion(f, s) PROVE DataTypeOK'
  BY <1>3 DEF StartDeletion, Calls, WMSCall, storageVars, dmmVars, registryVars
<1>4. ASSUME NEW f \in Files, NEW s \in StorageServices, NEW op \in Op, AskRegistry(op, f, s)
      PROVE  DataTypeOK'
  BY <1>4, AskIsTyped DEF AskRegistry, Calls, storageVars, dmmVars
<1>5. CASE StopRegistry
  BY <1>5 DEF StopRegistry, Calls, WMSCall, storageVars, dmmVars
<1>6. CASE Register
  <2>1. call.copy \in Copy
    BY <1>6 DEF Register, WMSCall
  <2>2. call.copy.file \in Files /\ call.copy.to \in StorageServices /\ To(call.copy) \in Where
    BY <2>1 DEF Copy, To, Where
  <2>3. "add" \in Op /\ NoCall \in WMSCall
    BY DEF Op, NoCall, WMSCall
  <2>4. \/ Ask("add", call.copy.file, call.copy.to)
        \/ call' = NoCall /\ UNCHANGED registryVars
    BY <1>6 DEF Register
  <2>5. /\ registryMail' \in Seq(AllRequests) /\ entries' = entries /\ registry' = registry
        /\ call' \in WMSCall
    BY <2>2, <2>3, <2>4, AskIsTyped DEF registryVars
  <2>6. stored' \subseteq Where
    BY <1>6, <2>2 DEF Register
  <2> QED
    BY <1>6, <2>5, <2>6 DEF Register, dmmVars
<1>7. CASE Unregister
  <2>1. call.file \in Files /\ call.at \in StorageServices
    BY <1>7 DEF Unregister, Deleting, WMSCall
  <2>2. "remove" \in Op /\ NoCall \in WMSCall
    BY DEF Op, NoCall, WMSCall
  <2>3. \/ Ask("remove", call.file, call.at)
        \/ call' = NoCall /\ UNCHANGED registryVars
    BY <1>7 DEF Unregister
  <2>4. /\ registryMail' \in Seq(AllRequests) /\ entries' = entries /\ registry' = registry
        /\ call' \in WMSCall
    BY <2>1, <2>2, <2>3, AskIsTyped DEF registryVars
  <2> QED
    BY <1>7, <2>4 DEF Unregister, storageVars, dmmVars
<1>8. CASE ReturnFromRegistry
  BY <1>8 DEF ReturnFromRegistry, WMSCall, NoCall, storageVars, dmmVars, registryVars
<1>9. CASE StopProximity
  BY <1>9 DEF StopProximity, storageVars, dmmVars, registryVars, wmsVars
<1>10. ASSUME NEW c \in copying, CopyEnds(c) PROVE DataTypeOK'
  <2>1. c \in Copy /\ To(c) \in Where
    BY DEF Copy, To, Where
  <2>2. \A b \in BOOLEAN : Append(dmmMail, [copy |-> c, success |-> b]) \in Seq(Answer)
    BY <2>1 DEF Answer
  <2> QED
    BY <1>10, <2>1, <2>2 DEF CopyEnds, registryVars, wmsVars
<1>11. CASE ProcessAnswer
  <2> DEFINE c == Head(dmmMail).copy
             add == [op |-> "add", file |-> c.file, at |-> c.to, client |-> "dmm"]
  <2>1. Head(dmmMail) \in Answer /\ Tail(dmmMail) \in Seq(Answer)
    BY <1>11 DEF ProcessAnswer
  <2>2. c \in Copy /\ To(c) \in Where /\ add \in AllRequests
    BY <2>1 DEF Answer, Copy, To, Where, Request, Op, Client
  <2>3. Append(registryMail, add) \in Seq(AllRequests)
    BY <2>2
  <2> QED
    BY <1>11, <2>1, <2>2, <2>3 DEF ProcessAnswer, ForgetCopies, storageVars, wmsVars
<1>12. CASE ReturnToManager
  BY <1>12 DEF ReturnToManager, storageVars, registryVars, wmsVars
<1>13. CASE RegistryReceives
  <2> DEFINE r == Head(registryMail)
  <2>1. r \in AllRequests /\ Tail(registryMail) \in Seq(AllRequests)
    BY <1>13 DEF RegistryReceives
  <2>2. CASE r.op = "stop"
    BY <1>13, <2>1, <2>2 DEF RegistryReceives, storageVars, dmmVars, wmsVars
  <2>3. CASE r.op # "stop"
    <3>1. r \in Request /\ <<r.file, r.at>> \in Where
      BY <2>1, <2>3 DEF Request, Where
    <3>2. LocationsOf(r.file) \in SUBSET StorageServices
      BY DEF LocationsOf
    <3> QED
      BY <1>13, <2>1, <2>3, <3>1, <3>2 DEF RegistryReceives, storageVars, dmmVars, wmsVars
  <2> QED
    BY <2>2, <2>3
<1>14. CASE AskDistance
  <2>1. registry' \in [up : BOOLEAN, request : Request \cup {None}, left : SUBSET StorageServices]
    <3>1. \A s \in registry.left : [registry EXCEPT !.left = @ \ {s}]
              \in [up : BOOLEAN, request : Request \cup {None}, left : SUBSET StorageServices]
      OBVIOUS
    <3> QED
      BY <1>14, <3>1 DEF AskDistance
  <2>2. thrown' \in BOOLEAN
    BY <1>14 DEF AskDistance
  <2> QED
    BY <1>14, <2>1, <2>2 DEF AskDistance, storageVars, dmmVars, wmsVars
<1>15. CASE RegistryAnswers
  BY <1>15 DEF RegistryAnswers, storageVars, wmsVars
<1>16. CASE DeletionTimesOut
  <2>1. NoCall \in WMSCall /\ Deleted \in Where
    BY <1>16 DEF DeletionTimesOut, Deleting, Deleted, WMSCall, NoCall, Where
  <2> QED
    BY <1>16, <2>1 DEF DeletionTimesOut, dmmVars, registryVars
<1>17. CASE DeleteFile
  <2>1. [call EXCEPT !.answer = IF Deleted \in stored THEN "deleted" ELSE "missing"] \in WMSCall
    BY <1>17 DEF DeleteFile, Deleting, WMSCall
  <2> QED
    BY <1>17, <2>1 DEF DeleteFile, dmmVars, registryVars
<1>18. ASSUME NEW e \in late, DeleteFileLate(e) PROVE DataTypeOK'
  BY <1>18 DEF DeleteFileLate, dmmVars, registryVars, wmsVars
<1>19. ASSUME NEW c \in UnderWay, SourceAccepts(c) PROVE DataTypeOK'
  <2>1. c \in Copy
    BY DEF UnderWay, WMSCall
  <2> QED
    BY <1>19, <2>1 DEF SourceAccepts, dmmVars, registryVars, wmsVars
<1> QED
  BY <1>1, <1>2, <1>3, <1>4, <1>5, <1>6, <1>7, <1>8, <1>9, <1>10, <1>11, <1>12, <1>13, <1>14, <1>15,
     <1>16, <1>17, <1>18, <1>19
  DEF DataNext, WMSCalls, WMSReturns, Deletes, DMMStep, RegistryStep

-------------------------------------------------------------------------------
(* The copies that are pending *)

AnsweredIn(mail) == {mail[i].copy : i \in DOMAIN mail}

\* A copy under way, or whose answer is on the way, is pending, and only once in all of these;
\* an answer that tells of success does so of a file that is there, for nobody deletes what a
\* pending copy brings.
AnswersAreUnique ==
    /\ \A c, d \in pending : To(c) = To(d) => c = d
    /\ copying \cup AnsweredIn(dmmMail) \subseteq pending
    /\ copying \cap AnsweredIn(dmmMail) = {}
    /\ \A i, k \in DOMAIN dmmMail : dmmMail[i].copy = dmmMail[k].copy => i = k

SuccessIsStored ==
    /\ \A i \in DOMAIN dmmMail : dmmMail[i].success => To(dmmMail[i].copy) \in stored
    /\ \A i \in DOMAIN dmmMail : To(dmmMail[i].copy) \notin late
    /\ Deleting => ~BeingCopied(call.file, call.at)

\* A deletion that nobody waits for any more is one the registry may never be told of; once the
\* one that the WMS waits for is answered, no other at that place is left.
LateDeletions ==
    /\ late \subseteq blamed
    /\ Deleting /\ call.answer # "none" => Deleted \notin late

\* A message that arrives answers no copy that was not answered, unless it is about it.
LEMMA AnsweredAppend ==
    ASSUME NEW mail \in Seq(Answer), NEW a \in Answer
    PROVE  /\ AnsweredIn(Append(mail, a)) = AnsweredIn(mail) \cup {a.copy}
           /\ DOMAIN Append(mail, a) = DOMAIN mail \cup {Len(mail) + 1}
           /\ \A i \in DOMAIN mail : Append(mail, a)[i] = mail[i]
           /\ Append(mail, a)[Len(mail) + 1] = a
<1>1. /\ DOMAIN Append(mail, a) = DOMAIN mail \cup {Len(mail) + 1}
      /\ \A i \in DOMAIN mail : Append(mail, a)[i] = mail[i]
      /\ Append(mail, a)[Len(mail) + 1] = a
  OBVIOUS
<1> QED
  BY <1>1 DEF AnsweredIn

\* Of the copies answered in the mailbox, reading a message takes away that of the message.
LEMMA AnsweredTail ==
    ASSUME NEW mail \in Seq(Answer), mail # <<>>
    PROVE  /\ AnsweredIn(mail) = AnsweredIn(Tail(mail)) \cup {Head(mail).copy}
           /\ DOMAIN Tail(mail) = 1 .. Len(mail) - 1
           /\ \A i \in DOMAIN Tail(mail) : i + 1 \in DOMAIN mail /\ Tail(mail)[i] = mail[i + 1]
           /\ 1 \in DOMAIN mail /\ mail[1] = Head(mail)
<1>1. /\ DOMAIN Tail(mail) = 1 .. Len(mail) - 1
      /\ \A i \in DOMAIN Tail(mail) : i + 1 \in DOMAIN mail /\ Tail(mail)[i] = mail[i + 1]
      /\ 1 \in DOMAIN mail /\ mail[1] = Head(mail)
  OBVIOUS
<1>2. AnsweredIn(Tail(mail)) \cup {Head(mail).copy} \subseteq AnsweredIn(mail)
  BY <1>1 DEF AnsweredIn
<1>3. ASSUME NEW i \in DOMAIN mail
      PROVE  mail[i].copy \in AnsweredIn(Tail(mail)) \cup {Head(mail).copy}
  <2>1. CASE i = 1
    BY <1>1, <2>1
  <2>2. CASE i # 1
    <3>1. i - 1 \in DOMAIN Tail(mail) /\ Tail(mail)[i - 1] = mail[i]
      BY <2>2
    <3> QED
      BY <3>1 DEF AnsweredIn
  <2> QED
    BY <2>1, <2>2
<1> QED
  BY <1>1, <1>2, <1>3 DEF AnsweredIn

\* What the manager forgets when it reads an answer is the copy that was answered.
LEMMA ForgetsOne ==
    ASSUME DataTypeOK, AnswersAreUnique, dmmMail # <<>>
    PROVE  /\ ForgetCopies(Head(dmmMail)) = pending \ {Head(dmmMail).copy}
           /\ Head(dmmMail).copy \in pending
           /\ Head(dmmMail).copy \notin AnsweredIn(Tail(dmmMail)) \cup copying
<1> DEFINE a == Head(dmmMail)
<1>1. dmmMail \in Seq(Answer)
  BY DEF DataTypeOK
<1>2. a.copy \in AnsweredIn(dmmMail) /\ a.copy \in pending
  BY <1>1, AnsweredTail DEF AnswersAreUnique
<1>3. ForgetCopies(a) = pending \ {a.copy}
  BY <1>2 DEF ForgetCopies, AnswersAreUnique
<1>4. a.copy \notin copying
  BY <1>2 DEF AnswersAreUnique
<1>5. ASSUME NEW i \in DOMAIN Tail(dmmMail), Tail(dmmMail)[i].copy = a.copy PROVE FALSE
  <2>1. i + 1 \in DOMAIN dmmMail /\ dmmMail[i + 1].copy = dmmMail[1].copy /\ 1 \in DOMAIN dmmMail
    BY <1>1, <1>5, AnsweredTail
  <2>2. i + 1 = 1
    BY <2>1 DEF AnswersAreUnique
  <2>3. i \in 1 .. Len(dmmMail) - 1
    BY <1>1, AnsweredTail
  <2> QED
    BY <1>1, <2>2, <2>3
<1> QED
  BY <1>2, <1>3, <1>4, <1>5 DEF AnsweredIn

\* Every step keeps at most one answer for each copy.
LEMMA AnswersStayUnique ==
    ASSUME DataTypeOK, AnswersAreUnique, [DataNext]_dataVars
    PROVE  AnswersAreUnique'
<1>0. dmmMail \in Seq(Answer)
  BY DEF DataTypeOK
<1>1. CASE UNCHANGED <<copying, pending, dmmMail>>
  BY <1>1 DEF AnswersAreUnique, AnsweredIn
<1>2. ASSUME NEW c \in Copy, InitiateCopy(c) PROVE AnswersAreUnique'
  <2>1. \A p \in pending : To(p) # To(c)
    BY <1>2 DEF InitiateCopy, BeingCopied, To
  <2>2. c \notin pending
    BY <2>1
  <2>3. /\ pending' = pending \cup {c} /\ dmmMail' = dmmMail
        /\ copying' \in {copying, copying \cup {c}}
    BY <1>2 DEF InitiateCopy
  <2> QED
    BY <2>1, <2>2, <2>3 DEF AnswersAreUnique, AnsweredIn
<1>3. ASSUME NEW c \in copying, CopyEnds(c) PROVE AnswersAreUnique'
  <2>1. c \in Copy
    BY DEF DataTypeOK
  <2>2. PICK a \in Answer : a.copy = c /\ dmmMail' = Append(dmmMail, a)
    BY <1>3, <2>1 DEF CopyEnds, Answer
  <2>3. copying' = copying \ {c} /\ pending' = pending
    BY <1>3 DEF CopyEnds
  <2>4. c \notin AnsweredIn(dmmMail)
    BY DEF AnswersAreUnique
  <2>5. AnsweredIn(dmmMail)' = AnsweredIn(dmmMail) \cup {c}
    BY <1>0, <2>2, AnsweredAppend DEF AnsweredIn
  <2>6. ASSUME NEW i \in DOMAIN dmmMail', NEW k \in DOMAIN dmmMail',
               dmmMail'[i].copy = dmmMail'[k].copy
        PROVE  i = k
    <3>1. \A n \in DOMAIN dmmMail : dmmMail[n].copy # c
      BY <2>4 DEF AnsweredIn
    <3>2. /\ DOMAIN dmmMail' = DOMAIN dmmMail \cup {Len(dmmMail) + 1}
          /\ \A n \in DOMAIN dmmMail : dmmMail'[n] = dmmMail[n]
          /\ dmmMail'[Len(dmmMail) + 1].copy = c
      BY <1>0, <2>2, AnsweredAppend
    <3> QED
      BY <2>6, <3>1, <3>2 DEF AnswersAreUnique
  <2> QED
    BY <2>3, <2>4, <2>5, <2>6 DEF AnswersAreUnique
<1>4. CASE ProcessAnswer
  <2>1. /\ dmmMail # <<>> /\ dmmMail' = Tail(dmmMail) /\ copying' = copying
        /\ pending' = ForgetCopies(Head(dmmMail))
    BY <1>4 DEF ProcessAnswer, storageVars
  <2>2. AnsweredIn(dmmMail)' = AnsweredIn(Tail(dmmMail))
    BY <2>1 DEF AnsweredIn
  <2>3. AnsweredIn(dmmMail) = AnsweredIn(Tail(dmmMail)) \cup {Head(dmmMail).copy}
    BY <1>0, <2>1, AnsweredTail
  <2>4. ASSUME NEW i \in DOMAIN dmmMail', NEW k \in DOMAIN dmmMail',
               dmmMail'[i].copy = dmmMail'[k].copy
        PROVE  i = k
    <3>1. i + 1 = k + 1
      BY <1>0, <2>1, <2>4, AnsweredTail DEF AnswersAreUnique
    <3>2. i \in Int /\ k \in Int
      BY <1>0, <2>1, AnsweredTail
    <3> QED
      BY <3>1, <3>2
  <2> QED
    BY <2>1, <2>2, <2>3, <2>4, ForgetsOne DEF AnswersAreUnique
<1> QED
  BY <1>1, <1>2, <1>3, <1>4
  DEF DataNext, dataVars, storageVars, dmmVars, WMSCalls, WMSReturns, Deletes, DMMStep,
      RegistryStep, StartCopy, StartDeletion, AskRegistry, StopRegistry, Register, Unregister,
      DeletionTimesOut, ReturnFromRegistry, DeleteFile, DeleteFileLate, SourceAccepts,
      StopProximity, ReturnToManager, RegistryReceives, AskDistance, RegistryAnswers

-------------------------------------------------------------------------------
(* PendingIsUnderWay *)

PendingInv == DataTypeOK /\ AnswersAreUnique /\ pending = copying \cup Answered

\* A copy is pending exactly while it is under way or its answer is on the way, and two that
\* are pending never bring one file to one place, if no storage service is down: whatever
\* order the copies end in and their answers are read (DataMovementManager::
\* initiateAsynchronousFileCopy, processNextMessage). With a service that is down
\* initiateFileCopy throws after the copy was recorded, which then stays pending.
THEOREM CopiesArePending ==
    ASSUME Down = {}
    PROVE  DataSpec => []PendingIsUnderWay
<1>1. DataInit => PendingInv
  BY InitIsTyped DEF DataInit, PendingInv, AnswersAreUnique, AnsweredIn, Answered
<1>2. PendingInv /\ [DataNext]_dataVars => PendingInv'
  <2> SUFFICES ASSUME PendingInv, [DataNext]_dataVars PROVE PendingInv'
    OBVIOUS
  <2>1. DataTypeOK' /\ AnswersAreUnique'
    BY StepIsTyped, AnswersStayUnique DEF PendingInv
  <2>2. dmmMail \in Seq(Answer) /\ Answered = AnsweredIn(dmmMail)
    BY DEF PendingInv, DataTypeOK, Answered, AnsweredIn
  <2>3. CASE UNCHANGED <<copying, pending, dmmMail>>
    BY <2>1, <2>3 DEF PendingInv, Answered
  <2>4. ASSUME NEW c \in Copy, InitiateCopy(c) PROVE PendingInv'
    BY <2>1, <2>4 DEF PendingInv, Answered, InitiateCopy
  <2>5. ASSUME NEW c \in copying, CopyEnds(c) PROVE PendingInv'
    <3>1. c \in Copy
      BY DEF PendingInv, DataTypeOK
    <3>2. PICK a \in Answer : a.copy = c /\ dmmMail' = Append(dmmMail, a)
      BY <2>5, <3>1 DEF CopyEnds, Answer
    <3>3. Answered' = Answered \cup {c}
      BY <2>2, <3>2, AnsweredAppend DEF Answered, AnsweredIn
    <3> QED
      BY <2>1, <2>5, <3>3 DEF PendingInv, CopyEnds
  <2>6. CASE ProcessAnswer
    <3>1. /\ dmmMail # <<>> /\ dmmMail' = Tail(dmmMail) /\ copying' = copying
          /\ pending' = ForgetCopies(Head(dmmMail))
      BY <2>6 DEF ProcessAnswer, storageVars
    <3>2. Answered' = AnsweredIn(Tail(dmmMail))
      BY <3>1 DEF Answered, AnsweredIn
    <3>3. Answered = Answered' \cup {Head(dmmMail).copy}
      BY <2>2, <3>1, <3>2, AnsweredTail
    <3> QED
      BY <2>1, <3>1, <3>2, <3>3, ForgetsOne DEF PendingInv
  <2> QED
    BY <2>3, <2>4, <2>5, <2>6
    DEF DataNext, dataVars, storageVars, dmmVars, WMSCalls, WMSReturns, Deletes, DMMStep,
        RegistryStep, StartCopy, StartDeletion, AskRegistry, StopRegistry, Register, Unregister,
        DeletionTimesOut, ReturnFromRegistry, DeleteFile, DeleteFileLate, SourceAccepts,
        StopProximity, ReturnToManager, RegistryReceives, AskDistance, RegistryAnswers
<1>3. PendingInv => PendingIsUnderWay
  BY DEF PendingInv, PendingIsUnderWay, AnswersAreUnique
<1> QED
  BY <1>1, <1>2, <1>3, PTL DEF DataSpec

-------------------------------------------------------------------------------
(* RegistryIsTruthful *)

Adds(m, e) == m.op = "add" /\ e = <<m.file, m.at>>
Removes(m, e) == m.op = "remove" /\ e = <<m.file, m.at>>

\* Behind place n of a mailbox there is a request that takes e out of the registry; or the
\* registry is to stop anyway.
Corrected(mail, e, n) ==
    \E k \in DOMAIN mail : mail[k].op = "stop" \/ (k > n /\ Removes(mail[k], e))

\* Whatever the registry says of a place that lacks the file, or will say, it is going to be
\* told better.
Honest(there, mail, e) ==
    /\ e \in there => Corrected(mail, e, 0)
    /\ \A i \in DOMAIN mail : Adds(mail[i], e) => Corrected(mail, e, i)

HonestRegistry ==
    registry.up =>
      \A e \in Where \ (stored \cup blamed \cup Untold) : Honest(entries, registryMail, e)

RegistryInv == DataTypeOK /\ AnswersAreUnique /\ SuccessIsStored /\ LateDeletions /\ HonestRegistry

\* A request that adds nothing changes nothing.
LEMMA HonestAppend ==
    ASSUME NEW mail \in Seq(AllRequests), NEW m \in AllRequests, NEW there, NEW e,
           Honest(there, mail, e), ~Adds(m, e)
    PROVE  Honest(there, Append(mail, m), e)
<1>1. /\ DOMAIN Append(mail, m) = DOMAIN mail \cup {Len(mail) + 1}
      /\ \A i \in DOMAIN mail : Append(mail, m)[i] = mail[i]
      /\ Append(mail, m)[Len(mail) + 1] = m
  OBVIOUS
<1>2. ASSUME NEW n, Corrected(mail, e, n) PROVE Corrected(Append(mail, m), e, n)
  BY <1>1, <1>2 DEF Corrected
<1> QED
  BY <1>1, <1>2 DEF Honest

\* A removal at the end corrects everything.
LEMMA HonestRemove ==
    ASSUME NEW mail \in Seq(AllRequests), NEW m \in AllRequests, NEW there, NEW e,
           Removes(m, e)
    PROVE  Honest(there, Append(mail, m), e)
<1>1. /\ DOMAIN Append(mail, m) = DOMAIN mail \cup {Len(mail) + 1}
      /\ Append(mail, m)[Len(mail) + 1] = m
      /\ DOMAIN mail = 1 .. Len(mail) /\ Len(mail) \in Nat
  OBVIOUS
<1>2. \A n \in 0 .. Len(mail) : Corrected(Append(mail, m), e, n)
  BY <1>1 DEF Corrected
<1>3. ~Adds(m, e)
  BY DEF Adds, Removes
<1> QED
  BY <1>1, <1>2, <1>3 DEF Honest

\* The registry handles its first request.
LEMMA HonestTail ==
    ASSUME NEW mail \in Seq(AllRequests), mail # <<>>, Head(mail).op # "stop",
           NEW there, NEW e, Honest(there, mail, e), NEW now,
           e \in now => e \in there \/ Adds(Head(mail), e),
           Removes(Head(mail), e) => e \notin now
    PROVE  Honest(now, Tail(mail), e)
<1>1. /\ DOMAIN Tail(mail) = 1 .. Len(mail) - 1 /\ Len(mail) \in Nat
      /\ \A i \in DOMAIN Tail(mail) : i + 1 \in DOMAIN mail /\ Tail(mail)[i] = mail[i + 1]
      /\ \A i \in DOMAIN mail : i # 1 => i - 1 \in DOMAIN Tail(mail) /\ Tail(mail)[i - 1] = mail[i]
      /\ 1 \in DOMAIN mail /\ mail[1] = Head(mail) /\ DOMAIN mail = 1 .. Len(mail)
  OBVIOUS
<1>2. ASSUME NEW n \in Nat, n > 0, Corrected(mail, e, n) PROVE Corrected(Tail(mail), e, n - 1)
  <2>1. PICK k \in DOMAIN mail : mail[k].op = "stop" \/ (k > n /\ Removes(mail[k], e))
    BY <1>2 DEF Corrected
  <2>2. k # 1 /\ k \in Nat
    BY <1>1, <1>2, <2>1
  <2>3. k - 1 \in DOMAIN Tail(mail) /\ Tail(mail)[k - 1] = mail[k]
    BY <1>1, <2>2
  <2>4. k > n => k - 1 > n - 1
    BY <2>2
  <2> QED
    BY <2>1, <2>3, <2>4 DEF Corrected
<1>3. ASSUME NEW i \in DOMAIN Tail(mail), Adds(Tail(mail)[i], e) PROVE Corrected(Tail(mail), e, i)
  <2>1. Corrected(mail, e, i + 1)
    BY <1>1, <1>3 DEF Honest
  <2>2. i + 1 \in Nat /\ i + 1 > 0 /\ (i + 1) - 1 = i
    BY <1>1
  <2> QED
    BY <1>2, <2>1, <2>2
<1>4. ASSUME e \in now PROVE Corrected(Tail(mail), e, 0)
  <2>1. CASE Adds(Head(mail), e)
    <3>1. Corrected(mail, e, 1)
      BY <1>1, <2>1 DEF Honest
    <3> QED
      BY <1>2, <3>1
  <2>2. CASE ~Adds(Head(mail), e)
    <3>1. PICK k \in DOMAIN mail : mail[k].op = "stop" \/ (k > 0 /\ Removes(mail[k], e))
      BY <1>4, <2>2 DEF Honest, Corrected
    <3>2. k # 1
      BY <1>1, <1>4, <3>1
    <3>3. k - 1 \in DOMAIN Tail(mail) /\ Tail(mail)[k - 1] = mail[k] /\ k - 1 > 0
      BY <1>1, <3>2
    <3> QED
      BY <3>1, <3>3 DEF Corrected
  <2> QED
    BY <2>1, <2>2
<1> QED
  BY <1>3, <1>4 DEF Honest

\* Every step keeps the destination of an announced copy stored.
LEMMA SuccessStaysStored ==
    ASSUME DataTypeOK, AnswersAreUnique, SuccessIsStored, [DataNext]_dataVars
    PROVE  SuccessIsStored'
<1>0. dmmMail \in Seq(Answer)
  BY DEF DataTypeOK
<1>1. ASSUME stored \subseteq stored', late' = late, UNCHANGED <<pending, dmmMail>>,
             call' = call \/ call'.what # "delete"
      PROVE  SuccessIsStored'
  BY <1>1 DEF SuccessIsStored, BeingCopied, Deleting
<1>2. ASSUME NEW c \in Copy, InitiateCopy(c) PROVE SuccessIsStored'
  <2>1. call' = NoCall /\ NoCall.what # "delete"
    BY <1>2 DEF InitiateCopy, Calls, NoCall
  <2> QED
    BY <1>2, <2>1 DEF InitiateCopy, SuccessIsStored, Deleting
<1>3. ASSUME NEW c \in Copy, StartCopy(c) PROVE SuccessIsStored'
  <2>1. call'.what = "copy"
    BY <1>3 DEF StartCopy
  <2> QED
    BY <1>1, <1>3, <2>1 DEF StartCopy, storageVars, dmmVars
<1>4. ASSUME NEW f \in Files, NEW s \in StorageServices, StartDeletion(f, s) PROVE SuccessIsStored'
  <2>1. call'.file = f /\ call'.at = s /\ ~BeingCopied(f, s)
    BY <1>4 DEF StartDeletion
  <2> QED
    BY <1>4, <2>1 DEF StartDeletion, SuccessIsStored, BeingCopied, storageVars, dmmVars
<1>5. ASSUME NEW f \in Files, NEW s \in StorageServices, NEW op \in Op, AskRegistry(op, f, s)
      PROVE  SuccessIsStored'
  <2>1. call'.what # "delete"
    BY <1>5 DEF AskRegistry, Ask, NoCall
  <2> QED
    BY <1>1, <1>5, <2>1 DEF AskRegistry, storageVars, dmmVars
<1>6. CASE StopRegistry
  BY <1>1, <1>6 DEF StopRegistry, storageVars, dmmVars
<1>7. CASE Register
  <2>1. call'.what # "delete"
    BY <1>7 DEF Register, Ask, NoCall
  <2> QED
    BY <1>1, <1>7, <2>1 DEF Register, dmmVars
<1>8. CASE Unregister
  <2>1. call'.what # "delete"
    BY <1>8 DEF Unregister, Ask, NoCall
  <2> QED
    BY <1>1, <1>8, <2>1 DEF Unregister, storageVars, dmmVars
<1>9. CASE ReturnFromRegistry
  BY <1>1, <1>9 DEF ReturnFromRegistry, NoCall, storageVars, dmmVars
<1>10. ASSUME NEW c \in copying, CopyEnds(c) PROVE SuccessIsStored'
  <2>1. c \in Copy
    BY DEF DataTypeOK
  <2>2. PICK a \in Answer : /\ dmmMail' = Append(dmmMail, a) /\ a.copy = c
                            /\ a.success => To(a.copy) \in stored'
    <3> DEFINE Result(b) == [copy |-> c, success |-> b]
    <3>1. \A b \in BOOLEAN : Result(b) \in Answer /\ Result(b).copy = c /\ Result(b).success = b
      BY <2>1 DEF Answer
    <3>2. \/ dmmMail' = Append(dmmMail, Result(TRUE)) /\ To(c) \in stored'
          \/ dmmMail' = Append(dmmMail, Result(FALSE))
      BY <1>10 DEF CopyEnds
    <3> HIDE DEF Result
    <3> QED
      BY <3>1, <3>2
  <2>3. stored \subseteq stored' /\ UNCHANGED <<call, pending, late>> /\ To(c) \notin late
    BY <1>10 DEF CopyEnds, InTurn, wmsVars
  <2>4. ASSUME NEW i \in DOMAIN dmmMail'
        PROVE  /\ dmmMail'[i].success => To(dmmMail'[i].copy) \in stored'
               /\ To(dmmMail'[i].copy) \notin late
    <3>1. CASE i \in DOMAIN dmmMail
      BY <1>0, <2>2, <2>3, <3>1, AnsweredAppend DEF SuccessIsStored
    <3>2. CASE i \notin DOMAIN dmmMail
      BY <1>0, <2>2, <2>3, <3>2, AnsweredAppend
    <3> QED
      BY <3>1, <3>2
  <2> QED
    BY <2>3, <2>4 DEF SuccessIsStored, BeingCopied, Deleting
<1>11. CASE ProcessAnswer
  <2>1. /\ dmmMail # <<>> /\ dmmMail' = Tail(dmmMail)
        /\ pending' \subseteq pending /\ UNCHANGED <<stored, late, call>>
    BY <1>11 DEF ProcessAnswer, ForgetCopies, storageVars, wmsVars
  <2>2. \A i \in DOMAIN dmmMail' : /\ dmmMail'[i].success => To(dmmMail'[i].copy) \in stored'
                                  /\ To(dmmMail'[i].copy) \notin late
    BY <1>0, <2>1, AnsweredTail DEF SuccessIsStored
  <2> QED
    BY <2>1, <2>2 DEF SuccessIsStored, BeingCopied, Deleting
<1>12. CASE UNCHANGED <<stored, late, pending, dmmMail, call>>
  BY <1>1, <1>12
<1>13. ASSUME Deleting,
              \A i \in DOMAIN dmmMail : To(dmmMail[i].copy) # Deleted
       PROVE  (DeletionTimesOut \/ DeleteFile) => SuccessIsStored'
  <2>1. CASE DeletionTimesOut
    <3>1. ~Deleting' /\ late' \subseteq late \cup {Deleted} /\ UNCHANGED <<stored, pending, dmmMail>>
      BY <2>1 DEF DeletionTimesOut, Deleting, NoCall, dmmVars
    <3> QED
      BY <1>13, <3>1 DEF SuccessIsStored
  <2>2. CASE DeleteFile
    <3>1. /\ call'.file = call.file /\ call'.at = call.at
          /\ stored' = stored \ {Deleted} /\ UNCHANGED <<late, pending, dmmMail>>
      BY <2>2 DEF DeleteFile, Deleting, DataTypeOK, WMSCall, dmmVars
    <3> QED
      BY <1>13, <3>1 DEF SuccessIsStored, BeingCopied
  <2> QED
    BY <2>1, <2>2
<1>14. CASE DeletionTimesOut \/ DeleteFile
  <2>1. Deleting
    BY <1>14 DEF DeletionTimesOut, DeleteFile
  <2>2. ASSUME NEW i \in DOMAIN dmmMail PROVE To(dmmMail[i].copy) # Deleted
    <3>1. dmmMail[i].copy \in pending
      BY DEF AnswersAreUnique, AnsweredIn
    <3> QED
      BY <2>1, <3>1 DEF SuccessIsStored, BeingCopied, Deleted
  <2> QED
    BY <1>13, <1>14, <2>1, <2>2
<1>15. ASSUME NEW e \in late, DeleteFileLate(e) PROVE SuccessIsStored'
  <2>1. stored' = stored \ {e} /\ late' = late \ {e} /\ UNCHANGED <<pending, dmmMail, call>>
    BY <1>15 DEF DeleteFileLate, dmmVars, wmsVars
  <2> QED
    BY <2>1 DEF SuccessIsStored, BeingCopied, Deleting
<1> QED
  BY <1>2, <1>3, <1>4, <1>5, <1>6, <1>7, <1>8, <1>9, <1>10, <1>11, <1>12, <1>14, <1>15
  DEF DataNext, dataVars, storageVars, dmmVars, wmsVars, WMSCalls, WMSReturns, Deletes, DMMStep,
      RegistryStep, SourceAccepts, StopProximity, ReturnToManager, RegistryReceives, AskDistance,
      RegistryAnswers

\* Every step keeps what is late among what the registry may be wrong about.
LEMMA DeletionsStayLate ==
    ASSUME DataTypeOK, LateDeletions, [DataNext]_dataVars
    PROVE  LateDeletions'
<1>1. CASE late' = late /\ blamed \subseteq blamed' /\ (call' = call \/ ~Deleting' \/ call'.answer = "none")
  BY <1>1 DEF LateDeletions, Deleting, Deleted
<1>2. ASSUME NEW f \in Files, NEW s \in StorageServices, StartDeletion(f, s) PROVE LateDeletions'
  BY <1>1, <1>2 DEF StartDeletion, storageVars
<1>3. ASSUME NEW f \in Files, NEW s \in StorageServices, NEW op \in Op, AskRegistry(op, f, s)
      PROVE  LateDeletions'
  BY <1>1, <1>3 DEF AskRegistry, Ask, NoCall, Deleting, storageVars
<1>4. CASE Register
  BY <1>1, <1>4 DEF Register, Ask, NoCall, Deleting
<1>5. CASE Unregister
  <2>1. ~Deleting'
    BY <1>5 DEF Unregister, Ask, NoCall, Deleting
  <2>2. late' = late /\ Deleted \notin late /\ blamed \ {Deleted} \subseteq blamed'
    BY <1>5 DEF Unregister, storageVars, LateDeletions
  <2> QED
    BY <2>1, <2>2 DEF LateDeletions
<1>6. CASE DeletionTimesOut
  BY <1>6 DEF DeletionTimesOut, NoCall, Deleting, LateDeletions
<1>7. CASE DeleteFile
  <2>1. call'.file = call.file /\ call'.at = call.at /\ UNCHANGED <<late, blamed>> /\ Deleted \notin late
    BY <1>7 DEF DeleteFile, Deleting, DataTypeOK, WMSCall
  <2> QED
    BY <2>1 DEF LateDeletions, Deleted
<1>8. ASSUME NEW e \in late, DeleteFileLate(e) PROVE LateDeletions'
  <2>1. late' = late \ {e} /\ UNCHANGED <<blamed, call>>
    BY <1>8 DEF DeleteFileLate, wmsVars
  <2> QED
    BY <2>1 DEF LateDeletions, Deleting, Deleted
<1>9. CASE ProcessAnswer
  BY <1>1, <1>9 DEF ProcessAnswer, storageVars, wmsVars
<1>10. CASE UNCHANGED <<late, blamed, call>>
  BY <1>1, <1>10
<1>11. ASSUME NEW c \in Copy, StartCopy(c) PROVE LateDeletions'
  BY <1>1, <1>11 DEF StartCopy, Deleting, storageVars
<1>12. CASE StopRegistry \/ ReturnFromRegistry
  BY <1>1, <1>12 DEF StopRegistry, ReturnFromRegistry, NoCall, Deleting, storageVars
<1> QED
  BY <1>2, <1>3, <1>4, <1>5, <1>6, <1>7, <1>8, <1>9, <1>10, <1>11, <1>12
  DEF DataNext, dataVars, storageVars, wmsVars, WMSCalls, WMSReturns, Deletes, DMMStep,
      RegistryStep, InitiateCopy, CopyEnds, SourceAccepts, StopProximity, ReturnToManager,
      RegistryReceives, AskDistance, RegistryAnswers

-------------------------------------------------------------------------------

\* A step that adds a request which adds nothing, or is about a stored file, is harmless.
LEMMA HarmlessRequest ==
    ASSUME DataTypeOK, HonestRegistry, UNCHANGED <<entries, registry>>,
           stored \subseteq stored', blamed \subseteq blamed', Untold \subseteq Untold',
           \/ registryMail' = registryMail
           \/ \E m \in AllRequests :
                /\ registryMail' = Append(registryMail, m)
                /\ \A e \in Where : Adds(m, e) => e \in stored' \cup blamed'
    PROVE  HonestRegistry'
<1>1. registryMail \in Seq(AllRequests)
  BY DEF DataTypeOK, AllRequests
<1> SUFFICES ASSUME registry'.up, NEW e \in Where, e \notin stored' \cup blamed' \cup Untold'
             PROVE  Honest(entries', registryMail', e)
  BY DEF HonestRegistry
<1>2. Honest(entries, registryMail, e)
  BY DEF HonestRegistry
<1>3. CASE registryMail' = registryMail
  BY <1>2, <1>3
<1>4. ASSUME NEW m \in AllRequests, registryMail' = Append(registryMail, m), ~Adds(m, e)
      PROVE  Honest(entries', registryMail', e)
  BY <1>1, <1>2, <1>4, HonestAppend
<1> QED
  BY <1>3, <1>4

\* Every step keeps the registry right, or on the way to be.
LEMMA RegistryStaysHonest ==
    ASSUME DataTypeOK, AnswersAreUnique, SuccessIsStored, LateDeletions, HonestRegistry,
           [DataNext]_dataVars
    PROVE  HonestRegistry'
<1>0. registryMail \in Seq(AllRequests)
  BY DEF DataTypeOK, AllRequests
<1>1. CASE UNCHANGED <<stored, entries, registryMail, blamed, call>> /\ registry'.up = registry.up
  BY <1>1 DEF HonestRegistry, Untold, Deleting, Deleted
<1>2. ASSUME NEW f \in Files, NEW s \in StorageServices, NEW op \in Op, AskRegistry(op, f, s)
      PROVE  HonestRegistry'
  <2> DEFINE m == [op |-> op, file |-> f, at |-> s, client |-> "wms"]
  <2>1. m \in AllRequests
    BY DEF AllRequests, Request, Client
  <2>2. \A e \in Where : Adds(m, e) => e \in stored
    BY <1>2 DEF AskRegistry, Adds
  <2>3. /\ UNCHANGED <<entries, registry, stored, blamed>> /\ Untold = {}
        /\ registryMail' \in {registryMail, Append(registryMail, m)}
    BY <1>2 DEF AskRegistry, Ask, Calls, NoCall, Untold, Deleting, storageVars
  <2> QED
    BY <2>1, <2>2, <2>3, HarmlessRequest
<1>3. CASE StopRegistry
  <2>1. [op |-> "stop"] \in AllRequests /\ \A e \in Where : ~Adds([op |-> "stop"], e)
    BY DEF AllRequests, Adds
  <2>2. /\ UNCHANGED <<entries, registry, stored, blamed>>
        /\ registryMail' = Append(registryMail, [op |-> "stop"]) /\ Untold = {}
    BY <1>3 DEF StopRegistry, Calls, NoCall, Untold, Deleting, storageVars
  <2> QED
    BY <2>1, <2>2, HarmlessRequest
<1>4. CASE Register
  <2> DEFINE c == call.copy
             m == [op |-> "add", file |-> c.file, at |-> c.to, client |-> "wms"]
  <2>1. c \in Copy
    BY <1>4 DEF Register, DataTypeOK, WMSCall
  <2>2. m \in AllRequests
    BY <2>1 DEF AllRequests, Request, Client, Copy, Op
  <2>3. /\ UNCHANGED <<entries, registry, blamed>> /\ stored \subseteq stored' /\ Untold = {}
        /\ \/ registryMail' = registryMail
           \/ registryMail' = Append(registryMail, m) /\ To(c) \in stored'
    BY <1>4 DEF Register, Ask, registryVars, Untold, Deleting
  <2>4. \A e \in Where : Adds(m, e) => e = To(c)
    BY DEF Adds, To
  <2> QED
    BY <2>2, <2>3, <2>4, HarmlessRequest
<1>5. CASE Unregister
  <2> DEFINE m == [op |-> "remove", file |-> call.file, at |-> call.at, client |-> "wms"]
  <2>1. call.file \in Files /\ call.at \in StorageServices /\ Deleting
    BY <1>5 DEF Unregister, Deleting, DataTypeOK, WMSCall
  <2>2. m \in AllRequests /\ Removes(m, Deleted)
    BY <2>1 DEF AllRequests, Request, Client, Op, Removes, Deleted
  <2>3. UNCHANGED <<entries, registry, stored>>
    BY <1>5 DEF Unregister, Ask, registryVars, storageVars
  <2>4. CASE call.answer # "deleted"
    <3>1. UNCHANGED <<registryMail, blamed>> /\ Untold = {}
      BY <1>5, <2>4 DEF Unregister, registryVars, Untold
    <3> QED
      BY <2>3, <3>1 DEF HonestRegistry
  <2>5. CASE call.answer = "deleted"
    <3> SUFFICES ASSUME registry.up, NEW e \in Where, e \notin stored' \cup blamed'
                 PROVE  Honest(entries', registryMail', e)
      BY <2>3 DEF HonestRegistry
    <3>1. registryMail' = Append(registryMail, m) /\ blamed' = blamed \ {Deleted}
      BY <1>5, <2>5 DEF Unregister, Ask
    <3>2. CASE e = Deleted
      BY <1>0, <2>2, <2>3, <3>1, <3>2, HonestRemove
    <3>3. CASE e # Deleted
      <4>1. Honest(entries, registryMail, e)
        BY <2>3, <3>1, <3>3 DEF HonestRegistry, Untold
      <4>2. ~Adds(m, e)
        BY DEF Adds
      <4> QED
        BY <1>0, <2>2, <2>3, <3>1, <4>1, <4>2, HonestAppend
    <3> QED
      BY <3>2, <3>3
  <2> QED
    BY <2>4, <2>5
<1>6. ASSUME NEW c \in copying, CopyEnds(c) PROVE HonestRegistry'
  <2>1. /\ UNCHANGED <<entries, registry, registryMail, blamed, call>> /\ stored \subseteq stored'
    BY <1>6 DEF CopyEnds, registryVars, wmsVars
  <2>2. Untold' = Untold
    BY <2>1 DEF Untold, Deleting, Deleted
  <2> QED
    BY <2>1, <2>2, HarmlessRequest
<1>7. CASE ProcessAnswer
  <2> DEFINE a == Head(dmmMail)
             m == [op |-> "add", file |-> a.copy.file, at |-> a.copy.to, client |-> "dmm"]
  <2>1. dmmMail \in Seq(Answer) /\ dmmMail # <<>>
    BY <1>7 DEF DataTypeOK, ProcessAnswer
  <2>2. a \in Answer /\ 1 \in DOMAIN dmmMail /\ a = dmmMail[1]
    BY <2>1, AnsweredTail
  <2>3. m \in AllRequests /\ \A e \in Where : Adds(m, e) => e = To(a.copy)
    BY <2>2 DEF AllRequests, Request, Client, Copy, Op, Answer, Adds, To
  <2>4. a.success => To(a.copy) \in stored
    BY <2>2 DEF SuccessIsStored
  <2>5. /\ UNCHANGED <<entries, registry, stored, call>> /\ blamed \subseteq blamed'
        /\ \/ registryMail' = registryMail
           \/ /\ registryMail' = Append(registryMail, m)
              /\ ~a.success => To(a.copy) \in blamed'
    BY <1>7 DEF ProcessAnswer, storageVars, wmsVars
  <2>6. Untold' = Untold
    BY <2>5 DEF Untold, Deleting, Deleted
  <2> QED
    BY <2>3, <2>4, <2>5, <2>6, HarmlessRequest
<1>8. CASE RegistryReceives
  <2> DEFINE r == Head(registryMail)
  <2>1. /\ registryMail # <<>> /\ registryMail' = Tail(registryMail)
        /\ UNCHANGED <<stored, blamed, call>> /\ registry.up
        /\ r.op = "stop" => ~registry'.up
    BY <1>8 DEF RegistryReceives, RegistryRuns, DataTypeOK, storageVars, wmsVars
  <2> SUFFICES ASSUME r.op # "stop", NEW e \in Where, e \notin stored \cup blamed \cup Untold
               PROVE  Honest(entries', registryMail', e)
    BY <2>1 DEF HonestRegistry, Untold, Deleting, Deleted
  <2>2. Honest(entries, registryMail, e)
    BY <2>1 DEF HonestRegistry
  <2>3. CASE r.op = "add"
    <3>1. entries' = entries \cup {<<r.file, r.at>>}
      BY <1>8, <2>3 DEF RegistryReceives
    <3>2. e \in entries' => e \in entries \/ Adds(r, e)
      BY <2>3, <3>1 DEF Adds
    <3>3. ~Removes(r, e)
      BY <2>3 DEF Removes
    <3> QED
      BY <1>0, <2>1, <2>2, <3>2, <3>3, HonestTail
  <2>4. CASE r.op = "remove"
    <3>1. entries' = entries \ {<<r.file, r.at>>}
      BY <1>8, <2>4 DEF RegistryReceives
    <3>2. Removes(r, e) => e \notin entries'
      BY <3>1 DEF Removes
    <3> QED
      BY <1>0, <2>1, <2>2, <3>1, <3>2, HonestTail
  <2>5. CASE r.op \notin {"add", "remove"}
    <3>1. entries' = entries
      BY <1>8, <2>5 DEF RegistryReceives
    <3>2. ~Removes(r, e)
      BY <2>5 DEF Removes
    <3> QED
      BY <1>0, <2>1, <2>2, <3>1, <3>2, HonestTail
  <2> QED
    BY <2>3, <2>4, <2>5
<1>9. CASE AskDistance
  <2>1. registry'.up = registry.up
    BY <1>9 DEF AskDistance, DataTypeOK
  <2> QED
    BY <1>1, <1>9, <2>1 DEF AskDistance, storageVars, wmsVars
<1>10. CASE RegistryAnswers
  <2>1. registry'.up = registry.up
    BY <1>10 DEF RegistryAnswers, DataTypeOK
  <2> QED
    BY <1>1, <1>10, <2>1 DEF RegistryAnswers, storageVars, wmsVars
<1>11. CASE UNCHANGED <<stored, entries, registryMail, registry, blamed>> /\ Untold = {}
  BY <1>11 DEF HonestRegistry
<1>12. CASE UNCHANGED <<stored, entries, registryMail, registry, blamed, call>>
  BY <1>1, <1>12
<1>13. CASE DeletionTimesOut
  <2>1. UNCHANGED <<stored, entries, registryMail, registry>> /\ blamed \cup Untold \subseteq blamed'
    BY <1>13 DEF DeletionTimesOut, registryVars, Untold
  <2> QED
    BY <2>1 DEF HonestRegistry
<1>14. CASE DeleteFile
  <2>1. /\ UNCHANGED <<entries, registryMail, registry, blamed>> /\ Untold = {}
        /\ stored' = stored \ {Deleted}
    BY <1>14 DEF DeleteFile, registryVars, Untold
  <2>2. Deleted \in stored => Untold' = {Deleted}
    BY <1>14 DEF DeleteFile, Untold, Deleting, Deleted, DataTypeOK, WMSCall
  <2>3. stored \subseteq stored' \cup Untold'
    BY <2>1, <2>2
  <2> QED
    BY <2>1, <2>3 DEF HonestRegistry
<1>15. ASSUME NEW d \in late, DeleteFileLate(d) PROVE HonestRegistry'
  <2>1. /\ UNCHANGED <<entries, registryMail, registry, blamed, call>>
        /\ stored \subseteq stored' \cup blamed
    BY <1>15 DEF DeleteFileLate, registryVars, wmsVars, LateDeletions
  <2>2. Untold' = Untold
    BY <2>1 DEF Untold, Deleting, Deleted
  <2> QED
    BY <2>1, <2>2 DEF HonestRegistry
<1>16. (\E c \in Copy : InitiateCopy(c)) => HonestRegistry'
  BY <1>12 DEF InitiateCopy, registryVars
<1>17. ASSUME \/ \E c \in Copy : StartCopy(c)
              \/ \E f \in Files, s \in StorageServices : StartDeletion(f, s)
              \/ ReturnFromRegistry
       PROVE  HonestRegistry'
  BY <1>11, <1>17 DEF StartCopy, StartDeletion, ReturnFromRegistry, Calls, NoCall, Untold, Deleting,
                      storageVars, registryVars
<1> QED
  BY <1>2, <1>3, <1>4, <1>5, <1>6, <1>7, <1>8, <1>9, <1>10, <1>12, <1>13, <1>14, <1>15, <1>16, <1>17
  DEF DataNext, dataVars, storageVars, dmmVars, registryVars, wmsVars, WMSCalls, WMSReturns, Deletes,
      DMMStep, RegistryStep, SourceAccepts, StopProximity, ReturnToManager

\* What the registry lists is stored where it says, or the WMS has the answer to a deletion and
\* is about to tell it, or a request that waits in its mailbox will correct it: an addition
\* never overtakes the removal that follows it, even if both callers have given up waiting
\* (StorageService::deleteFile, FileRegistryService::main). Until the next deletion there that
\* the registry is told of, the destinations of failed copies, which the manager registers
\* (DataMovementManager::processNextMessage), and the deletions whose caller gave up on the
\* storage service are excepted.
THEOREM RegistryTellsTheTruth == DataSpec => []RegistryIsTruthful
<1>1. DataInit => RegistryInv
  BY InitIsTyped DEF DataInit, RegistryInv, AnswersAreUnique, AnsweredIn, SuccessIsStored, NoCall,
                     Deleting, LateDeletions, HonestRegistry, Honest
<1>2. RegistryInv /\ [DataNext]_dataVars => RegistryInv'
  BY StepIsTyped, AnswersStayUnique, SuccessStaysStored, DeletionsStayLate, RegistryStaysHonest
     DEF RegistryInv
<1>3. RegistryInv => RegistryIsTruthful
  <2> SUFFICES ASSUME DataTypeOK, HonestRegistry, registry.up, NEW e \in entries \ (stored \cup blamed \cup Untold)
               PROVE  \E r \in ToSet(registryMail) :
                        r.op = "stop" \/ (r.op = "remove" /\ e = <<r.file, r.at>>)
    BY DEF RegistryInv, RegistryIsTruthful
  <2>1. Corrected(registryMail, e, 0)
    BY DEF HonestRegistry, Honest, DataTypeOK
  <2> QED
    BY <2>1 DEF Corrected, Removes, ToSet
<1> QED
  BY <1>1, <1>2, <1>3, PTL DEF DataSpec

===============================================================================
