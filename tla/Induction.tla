------------------------------ MODULE Induction ------------------------------
(***************************************************************************)
(* Lemmas about data that the proofs of several components need: smallest  *)
(* elements and induction, over the natural numbers and over the subsets   *)
(* of a finite set, and sums over a finite set.  Induction is stated of    *)
(* the set of the values for which the claim holds: it is all of them.     *)
(***************************************************************************)
EXTENDS Naturals, FiniteSets, FiniteSetsExt, WellFoundedInduction, FiniteSetTheorems, TLAPS

LessThan == {pair \in Nat \X Nat : pair[1] < pair[2]}

LEMMA Smallest == ASSUME NEW S \in SUBSET Nat, S # {} PROVE \E x \in S : \A y \in S : x =< y
<1>1. IsWellFoundedOn(LessThan, Nat)
  BY NatLessThanWellFounded DEF OpToRel, LessThan
<1>2. PICK x \in S : \A y \in S : ~ (<<y, x>> \in LessThan)
  BY <1>1, WFMin
<1>3. \A y \in S : ~ (y < x)
  BY <1>2 DEF LessThan
<1> QED
  BY <1>3

LEMMA MinIsMember == ASSUME NEW S \in SUBSET Nat, S # {} PROVE Min(S) \in S
  BY Smallest DEF Min

LEMMA NaturalsFromZero ==
  ASSUME NEW S \in SUBSET Nat, 0 \in S, \A n \in S : n + 1 \in S
  PROVE  S = Nat
<1> SUFFICES ASSUME Nat \ S # {} PROVE FALSE
  OBVIOUS
<1>1. PICK n \in Nat \ S : \A m \in Nat \ S : n =< m
  BY Smallest
<1>2. n - 1 \in Nat /\ n - 1 \notin Nat \ S
  BY <1>1
<1> QED
  BY <1>1, <1>2

(* A map of S into itself can be applied any number of times: what a       *)
(* recursive function over 0 .. N computes from an element of S.           *)
Iterates(f, a, g, N) == f[0] = a /\ \A n \in 1 .. N : f[n] = g[f[n - 1]]

LEMMA IteratesExist ==
  ASSUME NEW S, NEW a \in S, NEW g \in [S -> S], NEW N \in Nat
  PROVE  \E f \in [0 .. N -> S] : Iterates(f, a, g, N)
<1> DEFINE M == {n \in Nat : \E f \in [0 .. n -> S] : Iterates(f, a, g, n)}
<1>1. 0 \in M
  <2>1. [n \in 0 .. 0 |-> a] \in [0 .. 0 -> S] /\ Iterates([n \in 0 .. 0 |-> a], a, g, 0)
    BY DEF Iterates
  <2> QED
    BY <2>1
<1>2. ASSUME NEW n \in M PROVE n + 1 \in M
  <2>1. PICK f \in [0 .. n -> S] : Iterates(f, a, g, n)
    OBVIOUS
  <2> DEFINE longer == [m \in 0 .. n + 1 |-> IF m = n + 1 THEN g[f[n]] ELSE f[m]]
  <2>2. longer \in [0 .. n + 1 -> S]
    OBVIOUS
  <2>3. longer[0] = a
    BY <2>1 DEF Iterates
  <2>4. ASSUME NEW m \in 1 .. n + 1 PROVE longer[m] = g[longer[m - 1]]
    <3>1. m - 1 \in 0 .. n /\ longer[m - 1] = f[m - 1]
      OBVIOUS
    <3>2. CASE m = n + 1
      BY <3>1, <3>2
    <3>3. CASE m \in 1 .. n
      BY <2>1, <3>1, <3>3 DEF Iterates
    <3> QED
      BY <3>2, <3>3
  <2>5. Iterates(longer, a, g, n + 1)
    BY <2>3, <2>4 DEF Iterates
  <2> HIDE DEF longer
  <2> QED
    BY <2>2, <2>5
<1>3. M \in SUBSET Nat
  OBVIOUS
<1> HIDE DEF M
<1>4. M = Nat
  BY <1>1, <1>2, <1>3, NaturalsFromZero
<1> QED
  BY <1>4 DEF M

(* A set of subsets of D is all of them if each subset of D is in it as    *)
(* soon as those that are strictly smaller are.                            *)
LEMMA SubsetsFromSmaller ==
  ASSUME NEW D, IsFiniteSet(D), NEW P \in SUBSET SUBSET D,
         \A T \in SUBSET D : (\A U \in SUBSET T : U # T => U \in P) => T \in P
  PROVE  P = SUBSET D
<1> SUFFICES ASSUME (SUBSET D) \ P # {} PROVE FALSE
  OBVIOUS
<1>1. IsWellFoundedOn(StrictSubsetOrdering(D), FiniteSubsetsOf(D)) /\ FiniteSubsetsOf(D) = SUBSET D
  BY FS_StrictSubsetOrderingWellFounded, FS_FiniteSubsetsOfFinite
<1> DEFINE others == (SUBSET D) \ P
<1>2. PICK T \in others : \A U \in others : ~ (<<U, T>> \in StrictSubsetOrdering(D))
  <2>1. others \subseteq FiniteSubsetsOf(D) /\ others # {}
    BY <1>1
  <2> HIDE DEF others
  <2> QED
    BY <1>1, <2>1, WFMin
<1>3. \A U \in SUBSET T : U # T => U \in P
  BY <1>2 DEF StrictSubsetOrdering
<1> QED
  BY <1>2, <1>3

-----------------------------------------------------------------------------
(* The sum of w over a set, the way MapThenSumSet computes it: it takes    *)
(* the elements out one at a time, in an order that nothing depends on.    *)
Sum(w, S) == MapThenSumSet(LAMBDA s : w[s], S)
Pick(S) == CHOOSE x \in S : TRUE
SumsOf(w, S, f) == f = [U \in SUBSET S |-> IF U = {} THEN 0 ELSE w[Pick(U)] + f[U \ {Pick(U)}]]

LEMMA PickIsMember == ASSUME NEW S, S # {} PROVE Pick(S) \in S
  BY DEF Pick

LEMMA SumsOfAt ==
  ASSUME NEW w, NEW S, NEW f, SumsOf(w, S, f), NEW U \in SUBSET S
  PROVE  f[U] = IF U = {} THEN 0 ELSE w[Pick(U)] + f[U \ {Pick(U)}]
<1> DEFINE g == [V \in SUBSET S |-> IF V = {} THEN 0 ELSE w[Pick(V)] + f[V \ {Pick(V)}]]
<1>1. f = g
  BY DEF SumsOf
<1>2. g[U] = IF U = {} THEN 0 ELSE w[Pick(U)] + f[U \ {Pick(U)}]
  OBVIOUS
<1> HIDE DEF g
<1> QED
  BY <1>1, <1>2

(* Two functions that solve the recursion agree where both are defined.    *)
LEMMA SumsAgree ==
  ASSUME NEW w, NEW S, NEW T, IsFiniteSet(S), NEW f, NEW g, SumsOf(w, S, f), SumsOf(w, T, g),
         NEW U \in SUBSET S, U \in SUBSET T
  PROVE  f[U] = g[U]
<1> DEFINE D == S \cap T
           P == {V \in SUBSET D : f[V] = g[V]}
<1>1. IsFiniteSet(D)
  BY FS_Subset
<1>2. ASSUME NEW V \in SUBSET D, \A W \in SUBSET V : W # V => W \in P PROVE V \in P
  <2>1. V \in SUBSET S /\ V \in SUBSET T
    OBVIOUS
  <2>2. f[V] = IF V = {} THEN 0 ELSE w[Pick(V)] + f[V \ {Pick(V)}]
    BY <2>1, SumsOfAt
  <2>4. g[V] = IF V = {} THEN 0 ELSE w[Pick(V)] + g[V \ {Pick(V)}]
    BY <2>1, SumsOfAt
  <2>3. V # {} => V \ {Pick(V)} \in P
    BY <1>2, PickIsMember
  <2> QED
    BY <2>2, <2>3, <2>4
<1>3. P = SUBSET D
  <2>1. P \in SUBSET SUBSET D
    OBVIOUS
  <2> HIDE DEF P, D
  <2> QED
    BY <1>1, <1>2, <2>1, SubsetsFromSmaller
<1>4. U \in SUBSET D
  OBVIOUS
<1> QED
  BY <1>3, <1>4

LEMMA SumsExist == ASSUME NEW w, NEW D, IsFiniteSet(D) PROVE \E f : SumsOf(w, D, f)
<1> DEFINE solution(U) == CHOOSE f : SumsOf(w, U, f)
           at(U) == solution(U)[U]
           P == {U \in SUBSET D : \E f : SumsOf(w, U, f)}
<1>1. ASSUME NEW S \in SUBSET D, \A U \in SUBSET S : U # S => U \in P PROVE S \in P
  <2> DEFINE next(U) == IF U = {} THEN 0 ELSE w[Pick(U)] + at(U \ {Pick(U)})
             f == [U \in SUBSET S |-> IF U = S THEN next(S) ELSE at(U)]
  <2>1. ASSUME NEW U \in SUBSET S, U # S PROVE at(U) = next(U)
    <3>1. SumsOf(w, U, solution(U)) /\ U \in SUBSET U /\ IsFiniteSet(U)
      BY <1>1, <2>1, FS_Subset
    <3>2. at(U) = IF U = {} THEN 0 ELSE w[Pick(U)] + solution(U)[U \ {Pick(U)}]
      <4> HIDE DEF solution
      <4> QED
        BY <3>1, SumsOfAt
    <3>3. CASE U = {}
      BY <3>2, <3>3
    <3>4. CASE U # {}
      <4> DEFINE V == U \ {Pick(U)}
      <4>1. V \in SUBSET U /\ V \in SUBSET S /\ V # S /\ V \in SUBSET V
        BY <2>1, <3>4, PickIsMember
      <4>2. SumsOf(w, V, solution(V))
        BY <1>1, <4>1
      <4>3. solution(U)[V] = solution(V)[V]
        <5> HIDE DEF solution, V
        <5> QED
          BY <3>1, <4>1, <4>2, SumsAgree
      <4> QED
        BY <3>2, <3>4, <4>3
    <3> QED
      BY <3>3, <3>4
  <2>2. ASSUME NEW U \in SUBSET S PROVE f[U] = IF U = {} THEN 0 ELSE w[Pick(U)] + f[U \ {Pick(U)}]
    <3>1. f[U] = next(U)
      <4> HIDE DEF at, next
      <4> QED
        BY <2>1
    <3>2. U # {} => f[U \ {Pick(U)}] = at(U \ {Pick(U)})
      <4>1. U # {} => U \ {Pick(U)} \in SUBSET S /\ U \ {Pick(U)} # S
        BY PickIsMember
      <4> HIDE DEF at, next
      <4> QED
        BY <4>1
    <3> HIDE DEF at, f
    <3> QED
      BY <3>1, <3>2
  <2>3. SumsOf(w, S, f)
    <3> DEFINE g == [U \in SUBSET S |-> IF U = {} THEN 0 ELSE w[Pick(U)] + f[U \ {Pick(U)}]]
    <3>1. f = [U \in SUBSET S |-> f[U]]
      <4> HIDE DEF at, next
      <4> QED
        OBVIOUS
    <3>2. f = g
      <4> HIDE DEF f
      <4> QED
        BY <2>2, <3>1
    <3> HIDE DEF f
    <3> QED
      BY <3>2 DEF SumsOf
  <2> HIDE DEF f
  <2> QED
    BY <2>3
<1>2. P \in SUBSET SUBSET D
  OBVIOUS
<1>3. P = SUBSET D
  <2> HIDE DEF P
  <2> QED
    BY <1>1, <1>2, SubsetsFromSmaller
<1>4. D \in P
  <2> HIDE DEF P
  <2> QED
    BY <1>3
<1> QED
  BY <1>4

(* The recursion that the definition of the sum promises.                  *)
LEMMA SumUnfolds ==
  ASSUME NEW w, NEW S, IsFiniteSet(S)
  PROVE  Sum(w, S) = IF S = {} THEN 0 ELSE w[Pick(S)] + Sum(w, S \ {Pick(S)})
<1> DEFINE sums(U) == CHOOSE f : SumsOf(w, U, f)
           T == S \ {Pick(S)}
<1>1. \A U : Sum(w, U) = sums(U)[U]
  BY DEF Sum, MapThenSumSet, MapThenFoldSet, SumsOf, Pick
<1>2. SumsOf(w, S, sums(S)) /\ SumsOf(w, T, sums(T)) /\ IsFiniteSet(T) /\ T \in SUBSET S /\ T \in SUBSET T
      /\ S \in SUBSET S
  BY SumsExist, FS_Subset
<1>3. sums(S)[S] = IF S = {} THEN 0 ELSE w[Pick(S)] + sums(S)[S \ {Pick(S)}]
  <2>1. PICK f : f = sums(S)
    OBVIOUS
  <2>2. SumsOf(w, S, f) /\ S \in SUBSET S
    BY <1>2, <2>1
  <2>3. f[S] = IF S = {} THEN 0 ELSE w[Pick(S)] + f[S \ {Pick(S)}]
    BY <2>2, SumsOfAt
  <2> QED
    BY <2>1, <2>3
<1>4. sums(S)[T] = sums(T)[T]
  <2> HIDE DEF sums, T
  <2> QED
    BY <1>2, SumsAgree
<1> HIDE DEF sums
<1> QED
  BY <1>1, <1>3, <1>4

LEMMA SumOfNone == ASSUME NEW w PROVE Sum(w, {}) = 0
  BY SumUnfolds, FS_EmptySet

LEMMA SumIsNatural ==
  ASSUME NEW D, IsFiniteSet(D), NEW w, \A x \in D : w[x] \in Nat
  PROVE  Sum(w, D) \in Nat
<1> DEFINE P == {S \in SUBSET D : Sum(w, S) \in Nat}
<1>1. ASSUME NEW S \in SUBSET D, \A U \in SUBSET S : U # S => U \in P PROVE S \in P
  <2>1. Sum(w, S) = IF S = {} THEN 0 ELSE w[Pick(S)] + Sum(w, S \ {Pick(S)})
    BY SumUnfolds, FS_Subset
  <2>2. S # {} => w[Pick(S)] \in Nat /\ Sum(w, S \ {Pick(S)}) \in Nat
    BY <1>1, PickIsMember
  <2> QED
    BY <2>1, <2>2
<1>2. P = SUBSET D
  <2>1. P \in SUBSET SUBSET D
    OBVIOUS
  <2> HIDE DEF P
  <2> QED
    BY <1>1, <2>1, SubsetsFromSmaller
<1> QED
  BY <1>2

(* Any element may be taken out first.                                     *)
LEMMA SumOfElement ==
  ASSUME NEW D, IsFiniteSet(D), NEW w, \A x \in D : w[x] \in Nat, NEW e \in D
  PROVE  /\ Sum(w, D) = w[e] + Sum(w, D \ {e})
         /\ Sum(w, D \ {e}) = Sum(w, D) - w[e]
<1> DEFINE P == {S \in SUBSET D : \A x \in S : Sum(w, S) = w[x] + Sum(w, S \ {x})}
<1>1. ASSUME NEW S \in SUBSET D, \A U \in SUBSET S : U # S => U \in P PROVE S \in P
  <2> SUFFICES ASSUME NEW x \in S PROVE Sum(w, S) = w[x] + Sum(w, S \ {x})
    OBVIOUS
  <2> DEFINE y == Pick(S)
  <2>1. y \in S
    BY PickIsMember
  <2>2. Sum(w, S) = w[y] + Sum(w, S \ {y})
    BY SumUnfolds, FS_Subset
  <2> HIDE DEF y
  <2>3. CASE x = y
    BY <2>2, <2>3
  <2>4. CASE x # y
    <3> DEFINE rest == S \ {x, y}
    <3>1. Sum(w, S \ {y}) = w[x] + Sum(w, (S \ {y}) \ {x})
      <4>1. S \ {y} \in P /\ x \in S \ {y}
        BY <1>1, <2>1, <2>4
      <4> QED
        BY <4>1
    <3>2. Sum(w, S \ {x}) = w[y] + Sum(w, (S \ {x}) \ {y})
      <4>1. S \ {x} \in P /\ y \in S \ {x}
        BY <1>1, <2>1, <2>4
      <4> QED
        BY <4>1
    <3>3. (S \ {y}) \ {x} = rest /\ (S \ {x}) \ {y} = rest
      OBVIOUS
    <3>4. Sum(w, rest) \in Nat /\ w[x] \in Nat /\ w[y] \in Nat
      <4>1. IsFiniteSet(rest) /\ \A z \in rest : w[z] \in Nat
        BY FS_Subset
      <4> HIDE DEF rest
      <4> QED
        BY <2>1, <4>1, SumIsNatural
    <3> HIDE DEF rest
    <3>5. Sum(w, S) = w[y] + (w[x] + Sum(w, rest)) /\ Sum(w, S \ {x}) = w[y] + Sum(w, rest)
      BY <2>2, <3>1, <3>2, <3>3
    <3> QED
      BY <3>4, <3>5
  <2> QED
    BY <2>3, <2>4
<1>2. P = SUBSET D
  <2>1. P \in SUBSET SUBSET D
    OBVIOUS
  <2> HIDE DEF P
  <2> QED
    BY <1>1, <2>1, SubsetsFromSmaller
<1>3. Sum(w, D) = w[e] + Sum(w, D \ {e})
  <2>1. D \in P
    <3> HIDE DEF P
    <3> QED
      BY <1>2
  <2> QED
    BY <2>1
<1>4. Sum(w, D \ {e}) \in Nat /\ w[e] \in Nat
  BY SumIsNatural, FS_Subset
<1> QED
  BY <1>3, <1>4

LEMMA SumsAlike ==
  ASSUME NEW D, IsFiniteSet(D), NEW v, NEW w, \A x \in D : v[x] = w[x]
  PROVE  Sum(v, D) = Sum(w, D)
<1> DEFINE P == {S \in SUBSET D : Sum(v, S) = Sum(w, S)}
<1>1. ASSUME NEW S \in SUBSET D, \A U \in SUBSET S : U # S => U \in P PROVE S \in P
  <2>1. /\ Sum(v, S) = IF S = {} THEN 0 ELSE v[Pick(S)] + Sum(v, S \ {Pick(S)})
        /\ Sum(w, S) = IF S = {} THEN 0 ELSE w[Pick(S)] + Sum(w, S \ {Pick(S)})
    BY SumUnfolds, FS_Subset
  <2>2. S # {} => v[Pick(S)] = w[Pick(S)] /\ Sum(v, S \ {Pick(S)}) = Sum(w, S \ {Pick(S)})
    BY <1>1, PickIsMember
  <2> QED
    BY <2>1, <2>2
<1>2. P = SUBSET D
  <2>1. P \in SUBSET SUBSET D
    OBVIOUS
  <2> HIDE DEF P
  <2> QED
    BY <1>1, <2>1, SubsetsFromSmaller
<1> QED
  BY <1>2

LEMMA SumsOrdered ==
  ASSUME NEW D, IsFiniteSet(D), NEW v, NEW w, \A x \in D : v[x] \in Nat /\ w[x] \in Nat /\ v[x] <= w[x]
  PROVE  Sum(v, D) <= Sum(w, D)
<1> DEFINE P == {S \in SUBSET D : Sum(v, S) <= Sum(w, S)}
<1>1. ASSUME NEW S \in SUBSET D, \A U \in SUBSET S : U # S => U \in P PROVE S \in P
  <2>1. /\ Sum(v, S) = IF S = {} THEN 0 ELSE v[Pick(S)] + Sum(v, S \ {Pick(S)})
        /\ Sum(w, S) = IF S = {} THEN 0 ELSE w[Pick(S)] + Sum(w, S \ {Pick(S)})
    BY SumUnfolds, FS_Subset
  <2>2. S # {} => /\ v[Pick(S)] \in Nat /\ w[Pick(S)] \in Nat /\ v[Pick(S)] <= w[Pick(S)]
                  /\ Sum(v, S \ {Pick(S)}) <= Sum(w, S \ {Pick(S)})
    BY <1>1, PickIsMember
  <2>3. Sum(v, S \ {Pick(S)}) \in Nat /\ Sum(w, S \ {Pick(S)}) \in Nat
    <3>1. IsFiniteSet(S \ {Pick(S)}) /\ \A x \in S \ {Pick(S)} : v[x] \in Nat /\ w[x] \in Nat
      BY FS_Subset
    <3> QED
      BY <3>1, SumIsNatural
  <2> QED
    BY <2>1, <2>2, <2>3
<1>2. P = SUBSET D
  <2>1. P \in SUBSET SUBSET D
    OBVIOUS
  <2> HIDE DEF P
  <2> QED
    BY <1>1, <2>1, SubsetsFromSmaller
<1> QED
  BY <1>2

LEMMA SumOfFewer ==
  ASSUME NEW D, IsFiniteSet(D), NEW w, \A x \in D : w[x] \in Nat, NEW T \in SUBSET D
  PROVE  Sum(w, T) <= Sum(w, D)
<1> DEFINE P == {S \in SUBSET D : T \subseteq S => Sum(w, T) <= Sum(w, S)}
<1>1. ASSUME NEW S \in SUBSET D, \A U \in SUBSET S : U # S => U \in P PROVE S \in P
  <2> SUFFICES ASSUME T \subseteq S PROVE Sum(w, T) <= Sum(w, S)
    OBVIOUS
  <2>1. IsFiniteSet(S) /\ (\A x \in S : w[x] \in Nat) /\ Sum(w, S) \in Nat /\ Sum(w, T) \in Nat
    BY FS_Subset, SumIsNatural
  <2>2. CASE T = S
    BY <2>1, <2>2
  <2>3. CASE T # S
    <3>1. PICK x \in S : x \notin T
      BY <2>3
    <3>2. S \ {x} \in P /\ T \subseteq S \ {x}
      BY <1>1, <3>1
    <3>3. Sum(w, T) <= Sum(w, S \ {x})
      BY <3>2
    <3>4. Sum(w, S) = w[x] + Sum(w, S \ {x}) /\ Sum(w, S \ {x}) \in Nat
      BY <2>1, SumOfElement, SumIsNatural, FS_Subset
    <3> QED
      BY <2>1, <3>3, <3>4
  <2> QED
    BY <2>2, <2>3
<1>2. P = SUBSET D
  <2>1. P \in SUBSET SUBSET D
    OBVIOUS
  <2> HIDE DEF P
  <2> QED
    BY <1>1, <2>1, SubsetsFromSmaller
<1>3. D \in P
  <2> HIDE DEF P
  <2> QED
    BY <1>2
<1> QED
  BY <1>3
=============================================================================
