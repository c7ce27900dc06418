----------------------------- MODULE FoldProofs -----------------------------
(***************************************************************************)
(* Facts about folds over finite sets and sequences, which are what the    *)
(* code does in its loops: sums over a set, and a step repeated for each   *)
(* element of a sequence. A fold is defined by recursion over the subsets  *)
(* of its domain; each fact is proved from a subset that is minimal among  *)
(* those which would violate it.                                           *)
(*                                                                         *)
(* A module that needs the facts about the fold of an operator INSTANCEs   *)
(* this one with it; p stands for what the step depends on and the loop    *)
(* does not change.                                                        *)
(***************************************************************************)
EXTENDS SequencesExt, Integers, FiniteSetTheorems, WellFoundedInduction, TLAPS

CONSTANT op(_, _, _)    \* op(p, d, x): the state after d when x is considered

-------------------------------------------------------------------------------
(* Induction *)

\* Of a family of subsets of a finite set, one is minimal.
LEMMA MinimalSubset ==
    ASSUME NEW S, IsFiniteSet(S), NEW T \in SUBSET SUBSET S, T # {}
    PROVE  \E U \in T : \A V \in SUBSET U : V # U => V \notin T
<1>1. IsWellFoundedOn(StrictSubsetOrdering(S), SUBSET S)
  BY FS_StrictSubsetOrderingWellFounded, FS_FiniteSubsetsOfFinite
<1>2. PICK U \in T : \A V \in T : ~(<<V, U>> \in StrictSubsetOrdering(S))
  BY <1>1, WFMin
<1>3. ASSUME NEW V \in SUBSET U, V # U, V \in T PROVE FALSE
  BY <1>2, <1>3 DEF StrictSubsetOrdering
<1> QED
  BY <1>3

\* Of a set of numbers up to n, one is the smallest.
LEMMA SmallestOf ==
    ASSUME NEW n \in Nat, NEW T \in SUBSET (0 .. n), T # {}
    PROVE  \E m \in T : \A k \in T : m <= k
<1> DEFINE Below == {0 .. k : k \in T}
<1>1. Below \in SUBSET SUBSET (0 .. n) /\ Below # {}
  <2>1. \A k \in T : 0 .. k \subseteq 0 .. n
    OBVIOUS
  <2> QED
    BY <2>1
<1>2. IsFiniteSet(0 .. n)
  BY FS_Interval
<1> HIDE DEF Below
<1>3. PICK U \in Below : \A V \in SUBSET U : V # U => V \notin Below
  BY <1>1, <1>2, MinimalSubset
<1> USE DEF Below
<1>4. PICK m \in T : U = 0 .. m
  OBVIOUS
<1>5. ASSUME NEW k \in T, k < m PROVE FALSE
  <2>1. 0 .. k \subseteq U /\ 0 .. k # U /\ 0 .. k \in Below
    <3>1. m \in U /\ m \notin 0 .. k
      BY <1>4, <1>5
    <3> QED
      BY <1>4, <1>5, <3>1
  <2> HIDE DEF Below
  <2> QED
    BY <1>3, <2>1
<1> QED
  BY <1>5

-------------------------------------------------------------------------------
(* Sums *)

\* The element a sum takes first, and how the sum over a set s follows from that over a
\* smaller one, where g has the sums over subsets.
Pick(s) == CHOOSE x \in s : TRUE
SumStep(F, g, s) == IF s = {} THEN 0 ELSE F[Pick(s)] + g[s \ {Pick(s)}]
IsSum(F, g, S) == g = [s \in SUBSET S |-> SumStep(F, g, s)]

\* A sum is given by a function of the subsets, of which there is one.
LEMMA SumIsChosen ==
    ASSUME NEW F, NEW S
    PROVE  SumFunctionOnSet(F, S) = (CHOOSE g : IsSum(F, g, S))[S]
  BY DEF SumFunctionOnSet, FoldFunctionOnSet, MapThenFoldSet, IsSum, SumStep, Pick

\* Two such functions agree where both are defined.
LEMMA SumIsUnique ==
    ASSUME NEW F, NEW S, IsFiniteSet(S), NEW R, NEW g, IsSum(F, g, S), NEW h, IsSum(F, h, R)
    PROVE  \A s \in SUBSET (S \cap R) : g[s] = h[s]
<1> DEFINE T == {s \in SUBSET (S \cap R) : g[s] # h[s]}
<1>1. SUFFICES ASSUME T # {} PROVE FALSE
  OBVIOUS
<1>2. T \in SUBSET SUBSET S
  OBVIOUS
<1>3. PICK U \in T : \A V \in SUBSET U : V # U => V \notin T
  <2> HIDE DEF T
  <2> QED
    BY <1>1, <1>2, MinimalSubset
<1>4. g[U] = SumStep(F, g, U) /\ h[U] = SumStep(F, h, U)
  BY DEF IsSum
<1>5. CASE U = {}
  BY <1>4, <1>5 DEF SumStep
<1>6. CASE U # {}
  <2>1. Pick(U) \in U
    BY <1>6 DEF Pick
  <2>2. U \ {Pick(U)} \in SUBSET U /\ U \ {Pick(U)} # U
    BY <2>1
  <2>3. g[U \ {Pick(U)}] = h[U \ {Pick(U)}]
    BY <1>3, <2>2
  <2> QED
    BY <1>4, <1>6, <2>3 DEF SumStep
<1> QED
  BY <1>5, <1>6

\* There is such a function.
LEMMA SumExists ==
    ASSUME NEW F, NEW S, IsFiniteSet(S)
    PROVE  \E g : IsSum(F, g, S)
<1> DEFINE T == {U \in SUBSET S : ~ \E g : IsSum(F, g, U)}
<1>1. SUFFICES ASSUME T # {} PROVE FALSE
  OBVIOUS
<1>2. PICK U \in T : \A V \in SUBSET U : V # U => V \notin T
  <2>1. T \in SUBSET SUBSET S
    OBVIOUS
  <2> HIDE DEF T
  <2> QED
    BY <1>1, <2>1, MinimalSubset
<1>3. \A V \in SUBSET U : V # U => \E g : IsSum(F, g, V)
  BY <1>2
<1> DEFINE G(V) == CHOOSE g : IsSum(F, g, V)
           below == [s \in (SUBSET U) \ {U} |-> G(s)[s]]
           g == [s \in SUBSET U |-> IF s = U THEN SumStep(F, below, U) ELSE below[s]]
<1>4. IsFiniteSet(U) /\ \A V \in SUBSET U : IsFiniteSet(V)
  BY FS_Subset
<1>5. \A V \in SUBSET U : V # U => IsSum(F, G(V), V)
  BY <1>3
<1> HIDE DEF G
<1>6. ASSUME NEW s \in SUBSET U, s # U PROVE below[s] = SumStep(F, below, s)
  <2>1. below[s] = G(s)[s] /\ G(s)[s] = SumStep(F, G(s), s)
    BY <1>5, <1>6 DEF IsSum
  <2>2. CASE s = {}
    BY <2>1, <2>2 DEF SumStep
  <2>3. CASE s # {}
    <3> DEFINE r == s \ {Pick(s)}
    <3>1. Pick(s) \in s
      BY <2>3 DEF Pick
    <3>2. r \in SUBSET s /\ r \in SUBSET U /\ r # U /\ r \in SUBSET (s \cap r)
      BY <1>6, <3>1
    <3>3. IsSum(F, G(s), s) /\ IsSum(F, G(r), r) /\ IsFiniteSet(s)
      BY <1>4, <1>5, <1>6, <3>2
    <3> HIDE DEF r
    <3>4. G(s)[r] = G(r)[r]
      BY <3>2, <3>3, SumIsUnique
    <3>5. below[r] = G(r)[r]
      BY <3>2
    <3> QED
      BY <2>1, <2>3, <3>4, <3>5 DEF SumStep, r
  <2> QED
    BY <2>2, <2>3
<1>7. ASSUME NEW s \in SUBSET U PROVE SumStep(F, g, s) = SumStep(F, below, s)
  <2>1. CASE s = {}
    BY <2>1 DEF SumStep
  <2>2. CASE s # {}
    <3>1. Pick(s) \in s
      BY <2>2 DEF Pick
    <3>2. g[s \ {Pick(s)}] = below[s \ {Pick(s)}]
      BY <3>1
    <3> QED
      BY <2>2, <3>2 DEF SumStep
  <2> QED
    BY <2>1, <2>2
<1>8. \A s \in SUBSET U : g[s] = SumStep(F, g, s)
  BY <1>6, <1>7
<1>9. g = [s \in SUBSET U |-> SumStep(F, g, s)]
  BY <1>8
<1> HIDE DEF g
<1>10. IsSum(F, g, U)
  BY <1>9 DEF IsSum
<1> QED
  BY <1>2, <1>10

\* The sum over a finite set, from that over the set without one element.
LEMMA SumUnfolds ==
    ASSUME NEW F, NEW S, IsFiniteSet(S)
    PROVE  /\ SumFunctionOnSet(F, {}) = 0
           /\ S # {} => /\ Pick(S) \in S
                        /\ SumFunctionOnSet(F, S)
                             = F[Pick(S)] + SumFunctionOnSet(F, S \ {Pick(S)})
<1> DEFINE G(R) == CHOOSE g : IsSum(F, g, R)
<1>1. \A R : IsFiniteSet(R) => IsSum(F, G(R), R) /\ SumFunctionOnSet(F, R) = G(R)[R]
  BY SumExists, SumIsChosen
<1> HIDE DEF G
<1>2. SumFunctionOnSet(F, {}) = 0
  <2>1. IsFiniteSet({})
    BY FS_EmptySet
  <2> QED
    BY <1>1, <2>1 DEF IsSum, SumStep
<1>3. ASSUME S # {}
      PROVE  /\ Pick(S) \in S
             /\ SumFunctionOnSet(F, S) = F[Pick(S)] + SumFunctionOnSet(F, S \ {Pick(S)})
  <2> DEFINE R == S \ {Pick(S)}
  <2>1. Pick(S) \in S
    BY <1>3 DEF Pick
  <2>2. R \in SUBSET S /\ IsFiniteSet(R) /\ R \in SUBSET (S \cap R)
    BY FS_Subset
  <2> HIDE DEF R
  <2>3. IsSum(F, G(S), S) /\ IsSum(F, G(R), R) /\ SumFunctionOnSet(F, S) = G(S)[S]
        /\ SumFunctionOnSet(F, R) = G(R)[R]
    BY <1>1, <2>2
  <2>4. G(S)[S] = F[Pick(S)] + G(S)[R]
    BY <1>3, <2>3 DEF IsSum, SumStep, R
  <2>5. G(S)[R] = G(R)[R]
    BY <2>2, <2>3, SumIsUnique
  <2> QED
    BY <2>1, <2>3, <2>4, <2>5 DEF R
<1> QED
  BY <1>2, <1>3

\* A sum of integers is an integer, one of natural numbers is a natural number.
LEMMA SumType ==
    ASSUME NEW F, NEW S, IsFiniteSet(S), \A x \in S : F[x] \in Int
    PROVE  /\ SumFunctionOnSet(F, S) \in Int
           /\ (\A x \in S : F[x] >= 0) => SumFunctionOnSet(F, S) >= 0
<1> DEFINE Fine(s) == /\ SumFunctionOnSet(F, s) \in Int
                      /\ (\A x \in S : F[x] >= 0) => SumFunctionOnSet(F, s) >= 0
           T == {s \in SUBSET S : ~Fine(s)}
<1>1. SUFFICES ASSUME T # {} PROVE FALSE
  OBVIOUS
<1>2. PICK U \in T : \A V \in SUBSET U : V # U => V \notin T
  <2>1. T \in SUBSET SUBSET S
    OBVIOUS
  <2> HIDE DEF T
  <2> QED
    BY <1>1, <2>1, MinimalSubset
<1>3. U \in SUBSET S /\ IsFiniteSet(U) /\ ~Fine(U)
  BY FS_Subset
<1>4. CASE U = {}
  <2>1. SumFunctionOnSet(F, U) = 0
    BY <1>3, <1>4, SumUnfolds
  <2> QED
    BY <1>3, <2>1
<1>5. CASE U # {}
  <2> DEFINE V == U \ {Pick(U)}
  <2>1. Pick(U) \in U /\ SumFunctionOnSet(F, U) = F[Pick(U)] + SumFunctionOnSet(F, V)
    BY <1>3, <1>5, SumUnfolds
  <2>2. Fine(V)
    <3>1. V \in SUBSET U /\ V # U /\ V \in SUBSET S
      BY <1>3, <2>1
    <3> HIDE DEF V, Fine
    <3> QED
      BY <1>2, <3>1
  <2> HIDE DEF V
  <2> QED
    BY <1>3, <2>1, <2>2
<1> QED
  BY <1>4, <1>5

\* The sum over a set with one element more.
LEMMA SumAdds ==
    ASSUME NEW F, NEW S, IsFiniteSet(S), \A x \in S : F[x] \in Int, NEW e \in S
    PROVE  SumFunctionOnSet(F, S) = F[e] + SumFunctionOnSet(F, S \ {e})
<1> DEFINE Fine(s) == \A x \in s : SumFunctionOnSet(F, s) = F[x] + SumFunctionOnSet(F, s \ {x})
           T == {s \in SUBSET S : ~Fine(s)}
<1>1. SUFFICES ASSUME T # {} PROVE FALSE
  <2>1. S \in SUBSET S
    OBVIOUS
  <2> QED
    BY <2>1
<1>2. PICK U \in T : \A V \in SUBSET U : V # U => V \notin T
  <2>1. T \in SUBSET SUBSET S
    OBVIOUS
  <2> HIDE DEF T
  <2> QED
    BY <1>1, <2>1, MinimalSubset
<1>3. U \in SUBSET S /\ IsFiniteSet(U)
  BY FS_Subset
<1>4. PICK x \in U : SumFunctionOnSet(F, U) # F[x] + SumFunctionOnSet(F, U \ {x})
  OBVIOUS
<1> DEFINE y == Pick(U)
<1>5. /\ y \in U /\ SumFunctionOnSet(F, U) = F[y] + SumFunctionOnSet(F, U \ {y})
  <2>1. U # {}
    OBVIOUS
  <2> QED
    BY <1>3, <2>1, SumUnfolds
<1>6. x # y
  BY <1>4, <1>5
<1> DEFINE V == U \ {y}
           W == U \ {x}
           Z == U \ {x, y}
<1>7. V \in SUBSET S /\ V # U /\ V \in SUBSET U /\ x \in V /\ V \ {x} = Z
  BY <1>3, <1>5, <1>6
<1>8. W \in SUBSET S /\ W # U /\ W \in SUBSET U /\ y \in W /\ W \ {y} = Z
  BY <1>3, <1>5, <1>6
<1>9. Fine(V) /\ Fine(W)
  <2> HIDE DEF V, W, Fine
  <2> QED
    BY <1>2, <1>7, <1>8
<1>10. /\ SumFunctionOnSet(F, V) = F[x] + SumFunctionOnSet(F, Z)
       /\ SumFunctionOnSet(F, W) = F[y] + SumFunctionOnSet(F, Z)
  <2> HIDE DEF V, W, Z
  <2> QED
    BY <1>7, <1>8, <1>9
<1>11. Z \in SUBSET S /\ IsFiniteSet(Z) /\ F[x] \in Int /\ F[y] \in Int
  BY <1>3, <1>5, FS_Subset
<1>12. SumFunctionOnSet(F, Z) \in Int
  <2> HIDE DEF Z
  <2> QED
    BY <1>11, SumType
<1> HIDE DEF V, W, Z, y
<1>13. /\ SumFunctionOnSet(F, U) = F[y] + SumFunctionOnSet(F, V)
       /\ SumFunctionOnSet(F, U) # F[x] + SumFunctionOnSet(F, W)
  BY <1>4, <1>5 DEF V, W
<1> QED
  BY <1>10, <1>11, <1>12, <1>13

\* Sums over the same set of functions that agree on it are equal.
LEMMA SumAgrees ==
    ASSUME NEW F, NEW G, NEW S, IsFiniteSet(S), \A x \in S : F[x] = G[x]
    PROVE  SumFunctionOnSet(F, S) = SumFunctionOnSet(G, S)
<1> DEFINE T == {s \in SUBSET S : SumFunctionOnSet(F, s) # SumFunctionOnSet(G, s)}
<1>1. SUFFICES ASSUME T # {} PROVE FALSE
  <2>1. S \in SUBSET S
    OBVIOUS
  <2> QED
    BY <2>1
<1>2. PICK U \in T : \A V \in SUBSET U : V # U => V \notin T
  <2>1. T \in SUBSET SUBSET S
    OBVIOUS
  <2> HIDE DEF T
  <2> QED
    BY <1>1, <2>1, MinimalSubset
<1>3. U \in SUBSET S /\ IsFiniteSet(U)
  BY FS_Subset
<1>4. CASE U = {}
  BY <1>4, <1>3, SumUnfolds
<1>5. CASE U # {}
  <2> DEFINE V == U \ {Pick(U)}
  <2>1. /\ Pick(U) \in U /\ SumFunctionOnSet(F, U) = F[Pick(U)] + SumFunctionOnSet(F, V)
        /\ SumFunctionOnSet(G, U) = G[Pick(U)] + SumFunctionOnSet(G, V)
    BY <1>3, <1>5, SumUnfolds
  <2>2. V \in SUBSET S /\ V \in SUBSET U /\ V # U
    BY <1>3, <2>1
  <2>3. SumFunctionOnSet(F, V) = SumFunctionOnSet(G, V)
    BY <1>2, <2>2
  <2> QED
    BY <1>3, <2>1, <2>3
<1> QED
  BY <1>4, <1>5

\* The sum over a set is that over a subset and the rest.
LEMMA SumSplits ==
    ASSUME NEW F, NEW S, IsFiniteSet(S), \A x \in S : F[x] \in Int, NEW R \in SUBSET S
    PROVE  SumFunctionOnSet(F, S) = SumFunctionOnSet(F, R) + SumFunctionOnSet(F, S \ R)
<1> DEFINE T == {s \in SUBSET R : SumFunctionOnSet(F, S) # SumFunctionOnSet(F, s) + SumFunctionOnSet(F, S \ s)}
<1>1. SUFFICES ASSUME T # {} PROVE FALSE
  <2>1. R \in SUBSET R
    OBVIOUS
  <2> QED
    BY <2>1
<1>2. PICK U \in T : \A V \in SUBSET U : V # U => V \notin T
  <2>1. T \in SUBSET SUBSET S
    OBVIOUS
  <2> HIDE DEF T
  <2> QED
    BY <1>1, <2>1, MinimalSubset
<1>3. U \in SUBSET R /\ U \in SUBSET S /\ IsFiniteSet(U) /\ IsFiniteSet(S \ U)
  BY FS_Subset
<1>4. SumFunctionOnSet(F, U) \in Int /\ SumFunctionOnSet(F, S) \in Int
  BY <1>3, SumType
<1>5. CASE U = {}
  <2>1. S \ U = S /\ SumFunctionOnSet(F, U) = 0
    BY <1>3, <1>5, SumUnfolds
  <2> QED
    BY <1>4, <2>1
<1>6. CASE U # {}
  <2> PICK e \in U : TRUE
    BY <1>6
  <2> DEFINE V == U \ {e}
             W == S \ V
  <2>1. /\ V \in SUBSET R /\ V \in SUBSET S /\ V # U /\ V \in SUBSET U /\ W \in SUBSET S /\ e \in W
        /\ W \ {e} = S \ U /\ IsFiniteSet(V) /\ IsFiniteSet(W)
    BY <1>3, FS_Subset
  <2>2. SumFunctionOnSet(F, S) = SumFunctionOnSet(F, V) + SumFunctionOnSet(F, W)
    BY <1>2, <2>1
  <2>3. SumFunctionOnSet(F, U) = F[e] + SumFunctionOnSet(F, V)
    BY <1>3, SumAdds
  <2> HIDE DEF W
  <2>4. SumFunctionOnSet(F, W) = F[e] + SumFunctionOnSet(F, S \ U)
    <3>1. SumFunctionOnSet(F, W) = F[e] + SumFunctionOnSet(F, W \ {e})
      BY <2>1, SumAdds
    <3> QED
      BY <2>1, <3>1
  <2> HIDE DEF V
  <2>5. /\ F[e] \in Int /\ SumFunctionOnSet(F, V) \in Int /\ SumFunctionOnSet(F, W) \in Int
        /\ SumFunctionOnSet(F, S \ U) \in Int
    BY <1>3, <2>1, SumType
  <2>6. SumFunctionOnSet(F, S) # SumFunctionOnSet(F, U) + SumFunctionOnSet(F, S \ U)
    OBVIOUS
  <2> QED
    BY <2>2, <2>3, <2>4, <2>5, <2>6
<1> QED
  BY <1>5, <1>6

-------------------------------------------------------------------------------
(* Folds from the left *)

\* The state after each step of a fold over a sequence q, by the set of the steps done.
FoldStep(p, base, q, g, s) ==
    IF s = {} THEN base ELSE op(p, g[s \ {Max(s)}], q[Max(s)])
IsFold(p, base, q, g, S) == g = [s \in SUBSET S |-> FoldStep(p, base, q, g, s)]
Folded(p, base, q) == FoldLeft(LAMBDA d, x : op(p, d, x), base, q)

\* A fold is given by a function of the subsets of its domain.
LEMMA FoldIsChosen ==
    ASSUME NEW p, NEW base, NEW q
    PROVE  Folded(p, base, q) = (CHOOSE g : IsFold(p, base, q, g, DOMAIN q))[DOMAIN q]
  BY DEF Folded, FoldLeft, MapThenFoldSet, IsFold, FoldStep

\* The last of the first n numbers.
LEMMA MaxOfInterval ==
    ASSUME NEW n \in Nat, n > 0
    PROVE  Max(1 .. n) = n /\ (1 .. n) \ {Max(1 .. n)} = 1 .. n - 1
<1>1. n \in 1 .. n /\ \A y \in 1 .. n : n >= y
  OBVIOUS
<1>2. \A x \in 1 .. n : (\A y \in 1 .. n : x >= y) => x = n
  BY <1>1
<1>3. Max(1 .. n) \in 1 .. n /\ \A y \in 1 .. n : Max(1 .. n) >= y
  BY <1>1 DEF Max
<1>4. Max(1 .. n) = n
  BY <1>2, <1>3
<1> QED
  BY <1>4

\* A set of such numbers has one.
LEMMA MaxIsIn ==
    ASSUME NEW n \in Nat, NEW s \in SUBSET (1 .. n), s # {}
    PROVE  Max(s) \in s
<1> DEFINE T == {n - x : x \in s}
<1>1. T \in SUBSET (0 .. n) /\ T # {}
  <2>1. \A x \in s : n - x \in 0 .. n
    OBVIOUS
  <2> QED
    BY <2>1
<1> HIDE DEF T
<1>2. PICK m \in T : \A k \in T : m <= k
  BY <1>1, SmallestOf
<1>3. PICK x \in s : m = n - x
  BY <1>2 DEF T
<1>4. \A y \in s : n - x <= n - y
  BY <1>2, <1>3 DEF T
<1>5. \A y \in s : x >= y
  BY <1>4
<1> QED
  BY <1>5 DEF Max

\* What the domain of a sequence has: every set of its numbers has a last one.
IsOrdered(S) == IsFiniteSet(S) /\ \A s \in SUBSET S : s # {} => Max(s) \in s

\* It has.
LEMMA DomainIsOrdered ==
    ASSUME NEW n \in Nat
    PROVE  IsOrdered(1 .. n)
<1>1. IsFiniteSet(1 .. n)
  BY FS_Interval
<1>2. \A s \in SUBSET (1 .. n) : s # {} => Max(s) \in s
  BY MaxIsIn
<1> QED
  BY <1>1, <1>2 DEF IsOrdered

\* So has each set of its numbers.
LEMMA SubsetIsOrdered ==
    ASSUME NEW S, IsOrdered(S), NEW R \in SUBSET S
    PROVE  IsOrdered(R)
BY FS_Subset DEF IsOrdered

\* Two such functions agree where both are defined.
LEMMA FoldIsUnique ==
    ASSUME NEW p, NEW base, NEW q, NEW S, IsOrdered(S),
           NEW R, NEW g, IsFold(p, base, q, g, S), NEW h, IsFold(p, base, q, h, R)
    PROVE  \A s \in SUBSET (S \cap R) : g[s] = h[s]
<1> DEFINE T == {s \in SUBSET (S \cap R) : g[s] # h[s]}
<1>1. SUFFICES ASSUME T # {} PROVE FALSE
  OBVIOUS
<1>2. T \in SUBSET SUBSET S /\ IsFiniteSet(S)
  BY DEF IsOrdered
<1>3. PICK U \in T : \A V \in SUBSET U : V # U => V \notin T
  <2> HIDE DEF T
  <2> QED
    BY <1>1, <1>2, MinimalSubset
<1>4. g[U] = FoldStep(p, base, q, g, U) /\ h[U] = FoldStep(p, base, q, h, U)
  BY DEF IsFold
<1>5. CASE U = {}
  BY <1>4, <1>5 DEF FoldStep
<1>6. CASE U # {}
  <2>1. Max(U) \in U
    BY <1>6 DEF IsOrdered
  <2>2. U \ {Max(U)} \in SUBSET U /\ U \ {Max(U)} # U
    BY <2>1
  <2>3. g[U \ {Max(U)}] = h[U \ {Max(U)}]
    BY <1>3, <2>2
  <2> QED
    BY <1>4, <1>6, <2>3 DEF FoldStep
<1> QED
  BY <1>5, <1>6

\* There is such a function.
LEMMA FoldExists ==
    ASSUME NEW p, NEW base, NEW q, NEW S, IsOrdered(S)
    PROVE  \E g : IsFold(p, base, q, g, S)
<1> DEFINE T == {U \in SUBSET S : ~ \E g : IsFold(p, base, q, g, U)}
<1>1. SUFFICES ASSUME T # {} PROVE FALSE
  <2>1. S \in SUBSET S
    OBVIOUS
  <2> QED
    BY <2>1
<1>2. PICK U \in T : \A V \in SUBSET U : V # U => V \notin T
  <2>1. T \in SUBSET SUBSET S /\ IsFiniteSet(S)
    BY DEF IsOrdered
  <2> HIDE DEF T
  <2> QED
    BY <1>1, <2>1, MinimalSubset
<1>3. \A V \in SUBSET U : V # U => \E g : IsFold(p, base, q, g, V)
  BY <1>2
<1>4. U \in SUBSET S /\ ~ \E g : IsFold(p, base, q, g, U)
  OBVIOUS
<1> HIDE DEF T
<1> DEFINE G(V) == CHOOSE g : IsFold(p, base, q, g, V)
           below == [s \in (SUBSET U) \ {U} |-> G(s)[s]]
           g == [s \in SUBSET U |-> IF s = U THEN FoldStep(p, base, q, below, U) ELSE below[s]]
<1>5. \A V \in SUBSET U : V # U => IsFold(p, base, q, G(V), V)
  BY <1>3
<1> HIDE DEF G
<1>6. ASSUME NEW s \in SUBSET U, s # U PROVE below[s] = FoldStep(p, base, q, below, s)
  <2>1. below[s] = G(s)[s] /\ G(s)[s] = FoldStep(p, base, q, G(s), s)
    BY <1>5, <1>6 DEF IsFold
  <2>2. CASE s = {}
    BY <2>1, <2>2 DEF FoldStep
  <2>3. CASE s # {}
    <3> DEFINE r == s \ {Max(s)}
    <3>1. Max(s) \in s
      BY <1>4, <2>3 DEF IsOrdered
    <3>2. r \in SUBSET s /\ r \in SUBSET U /\ r # U /\ r \in SUBSET (s \cap r) /\ IsOrdered(s)
      BY <1>4, <1>6, <3>1, SubsetIsOrdered
    <3>3. IsFold(p, base, q, G(s), s) /\ IsFold(p, base, q, G(r), r)
      BY <1>5, <1>6, <3>2
    <3> HIDE DEF r
    <3>4. G(s)[r] = G(r)[r]
      BY <3>2, <3>3, FoldIsUnique
    <3>5. below[r] = G(r)[r]
      BY <3>2
    <3> QED
      BY <2>1, <2>3, <3>4, <3>5 DEF FoldStep, r
  <2> QED
    BY <2>2, <2>3
<1>7. ASSUME NEW s \in SUBSET U
      PROVE  FoldStep(p, base, q, g, s) = FoldStep(p, base, q, below, s)
  <2>1. CASE s = {}
    BY <2>1 DEF FoldStep
  <2>2. CASE s # {}
    <3>1. Max(s) \in s
      BY <1>4, <2>2 DEF IsOrdered
    <3>2. g[s \ {Max(s)}] = below[s \ {Max(s)}]
      BY <3>1
    <3> QED
      BY <2>2, <3>2 DEF FoldStep
  <2> QED
    BY <2>1, <2>2
<1>8. \A s \in SUBSET U : g[s] = FoldStep(p, base, q, g, s)
  BY <1>6, <1>7
<1>9. g = [s \in SUBSET U |-> FoldStep(p, base, q, g, s)]
  BY <1>8
<1> HIDE DEF g
<1>10. IsFold(p, base, q, g, U)
  BY <1>9 DEF IsFold
<1> QED
  BY <1>4, <1>10

\* A fold goes through a run of states, one for each element.
LEMMA FoldRuns ==
    ASSUME NEW p, NEW base, NEW q, NEW n \in Nat, DOMAIN q = 1 .. n
    PROVE  \E r : /\ r[0] = base /\ \A i \in 1 .. n : r[i] = op(p, r[i - 1], q[i])
                  /\ Folded(p, base, q) = r[n]
<1>1. \E g : IsFold(p, base, q, g, 1 .. n)
  BY DomainIsOrdered, FoldExists
<1> DEFINE g == CHOOSE h : IsFold(p, base, q, h, 1 .. n)
           r == [i \in 0 .. n |-> g[1 .. i]]
<1>2. IsFold(p, base, q, g, 1 .. n) /\ Folded(p, base, q) = g[1 .. n]
  BY <1>1, FoldIsChosen
<1> HIDE DEF g
<1>3. \A s \in SUBSET (1 .. n) : g[s] = FoldStep(p, base, q, g, s)
  BY <1>2 DEF IsFold
<1>4. r[0] = base
  <2>1. 1 .. 0 = {} /\ 1 .. 0 \in SUBSET (1 .. n)
    OBVIOUS
  <2>2. g[1 .. 0] = base
    BY <1>3, <2>1 DEF FoldStep
  <2> QED
    BY <2>2
<1>5. ASSUME NEW i \in 1 .. n PROVE r[i] = op(p, r[i - 1], q[i])
  <2>1. i \in Nat /\ i > 0 /\ i \in 0 .. n /\ i - 1 \in 0 .. n /\ 1 .. i \in SUBSET (1 .. n)
        /\ 1 .. i # {}
    OBVIOUS
  <2>2. Max(1 .. i) = i /\ (1 .. i) \ {Max(1 .. i)} = 1 .. i - 1
    BY <2>1, MaxOfInterval
  <2>3. g[1 .. i] = op(p, g[1 .. i - 1], q[i])
    BY <1>3, <2>1, <2>2 DEF FoldStep
  <2> QED
    BY <2>1, <2>3
<1>6. r[n] = g[1 .. n]
  OBVIOUS
<1> HIDE DEF r
<1> QED
  BY <1>2, <1>4, <1>5, <1>6

\* What holds at first and is kept by each step holds at the end. I[i] are the states that
\* are fine after i steps.
LEMMA FoldKeeps ==
    ASSUME NEW p, NEW base, NEW q, NEW n \in Nat, DOMAIN q = 1 .. n,
           NEW I, base \in I[0],
           \A i \in 1 .. n : \A d \in I[i - 1] : op(p, d, q[i]) \in I[i]
    PROVE  Folded(p, base, q) \in I[n]
<1>1. PICK r : /\ r[0] = base /\ \A i \in 1 .. n : r[i] = op(p, r[i - 1], q[i])
               /\ Folded(p, base, q) = r[n]
  BY FoldRuns
<1> DEFINE T == {i \in 0 .. n : r[i] \notin I[i]}
<1>2. CASE T = {}
  <2>1. n \in 0 .. n
    OBVIOUS
  <2> QED
    BY <1>1, <1>2, <2>1
<1>3. CASE T # {}
  <2>1. PICK m \in T : \A k \in T : m <= k
    <3>1. T \in SUBSET (0 .. n)
      OBVIOUS
    <3> HIDE DEF T
    <3> QED
      BY <1>3, <3>1, SmallestOf
  <2>2. m # 0
    BY <1>1
  <2>3. m \in 1 .. n /\ m - 1 \in 0 .. n /\ m - 1 \notin T
    BY <2>1, <2>2
  <2>4. r[m - 1] \in I[m - 1]
    BY <2>3
  <2>5. r[m] \in I[m]
    BY <1>1, <2>3, <2>4
  <2> QED
    BY <2>5
<1> QED
  BY <1>2, <1>3

===============================================================================
