----------------------------- MODULE FiniteData -----------------------------
(***************************************************************************)
(* Induction over finite data, and what a sum over a finite set is: the    *)
(* money of the calibration ledger, added up by SumFunctionOnSet of        *)
(* Functions, and the lanes of the throttle.                               *)
(*                                                                         *)
(* Induction is the search for a least counterexample: strict inclusion is *)
(* well founded on the subsets of a finite set, and what is proved of them *)
(* is a set, so that no operator is a parameter.  A fold is a recursive    *)
(* function, a CHOOSE over its equation, so the first lemmas about sums    *)
(* show that the equation has a solution and that two solutions agree.     *)
(***************************************************************************)
EXTENDS Integers, FiniteSets, Functions, FiniteSetTheorems, WellFoundedInduction, TLAPS

\* A set of subsets of S holds every one of them if it holds each whose own
\* subsets short of one element it holds.
LEMMA SubsetInduction ==
  ASSUME NEW S, IsFiniteSet(S), NEW C,
         \A T \in SUBSET S : (\A x \in T : T \ {x} \in C) => T \in C
  PROVE  \A T \in SUBSET S : T \in C
<1> DEFINE Bad == {T \in SUBSET S : T \notin C}
<1>1. IsWellFoundedOn(StrictSubsetOrdering(S), FiniteSubsetsOf(S))
  BY FS_StrictSubsetOrderingWellFounded
<1>2. Bad \subseteq FiniteSubsetsOf(S)
  BY FS_FiniteSubsetsOfFinite
<1>3. SUFFICES ASSUME Bad # {} PROVE FALSE
  OBVIOUS
<1>4. \E T \in Bad : \A U \in Bad : ~(<<U, T>> \in StrictSubsetOrdering(S))
  <2> HIDE DEF Bad
  <2> QED BY <1>1, <1>2, <1>3, WFMin
<1>5. PICK T \in Bad : \A U \in Bad : <<U, T>> \notin StrictSubsetOrdering(S)
  BY <1>4
<1>6. ASSUME NEW x \in T PROVE T \ {x} \in C
  <2>1. T \ {x} \in SUBSET S /\ T \in SUBSET S /\ T \ {x} # T
    OBVIOUS
  <2>2. <<T \ {x}, T>> \in StrictSubsetOrdering(S)
    BY <2>1 DEF StrictSubsetOrdering
  <2> QED BY <1>5, <2>1, <2>2
<1> QED BY <1>5, <1>6

\* Induction over an initial segment of the naturals.
LEMMA SegmentInduction ==
  ASSUME NEW n \in Nat, NEW D, 0 \in D, \A k \in 1..n : k - 1 \in D => k \in D
  PROVE  \A k \in 0..n : k \in D
<1> DEFINE C == {T \in SUBSET (1..n) : \A k \in 0..n : T = 1..k => k \in D}
<1>1. ASSUME NEW T \in SUBSET (1..n), \A x \in T : T \ {x} \in C PROVE T \in C
  <2> SUFFICES ASSUME NEW k \in 0..n, T = 1..k PROVE k \in D
    OBVIOUS
  <2>1. CASE k = 0
    BY <2>1
  <2>2. CASE k # 0
    <3>1. k \in T /\ k \in 1..n /\ k - 1 \in 0..n /\ T \ {k} = 1..(k - 1)
      BY <2>2
    <3> QED BY <1>1, <3>1
  <2> QED BY <2>1, <2>2
<1>2. IsFiniteSet(1..n)
  BY FS_Interval
<1>3. \A T \in SUBSET (1..n) : T \in C
  <2> HIDE DEF C
  <2> QED BY <1>1, <1>2, SubsetInduction
<1> TAKE k \in 0..n
<1>4. 1..k \in SUBSET (1..n)
  OBVIOUS
<1> QED BY <1>3, <1>4

-----------------------------------------------------------------------------
(* Sums                                                                     *)

\* The element the fold takes out of a set, and the equation it solves.
Chosen(s) == CHOOSE x \in s : TRUE

SumStep(fun, g, s) == IF s = {} THEN 0 ELSE fun[Chosen(s)] + g[s \ {Chosen(s)}]

SolvesSum(g, fun, S) == g = [s \in SUBSET S |-> SumStep(fun, g, s)]

\* The sum is the value at S of some solution of the equation, if there is one.
LEMMA SumIsSolution ==
  ASSUME NEW fun, NEW S
  PROVE  SumFunctionOnSet(fun, S) = (CHOOSE g : SolvesSum(g, fun, S))[S]
  BY DEF SumFunctionOnSet, FoldFunctionOnSet, MapThenFoldSet, SumStep, Chosen, SolvesSum

\* The chosen element of a set that has one is in it.
LEMMA ChosenIn == ASSUME NEW s, s # {} PROVE Chosen(s) \in s
  BY DEF Chosen

\* Solutions over two sets agree wherever both are defined.
LEMMA SolutionsAgree ==
  ASSUME NEW fun, NEW S, NEW T, IsFiniteSet(T), T \subseteq S,
         NEW g, SolvesSum(g, fun, S), NEW h, SolvesSum(h, fun, T)
  PROVE  \A s \in SUBSET T : g[s] = h[s]
<1> DEFINE C == {s \in SUBSET T : g[s] = h[s]}
<1>1. ASSUME NEW U \in SUBSET T, \A x \in U : U \ {x} \in C PROVE U \in C
  <2>1. /\ g[U] = SumStep(fun, g, U) /\ h[U] = SumStep(fun, h, U)
    <3>1. g[U] = [s \in SUBSET S |-> SumStep(fun, g, s)][U]
      BY DEF SolvesSum
    <3>2. h[U] = [s \in SUBSET T |-> SumStep(fun, h, s)][U]
      BY DEF SolvesSum
    <3> QED BY <3>1, <3>2
  <2>2. CASE U = {}
    BY <2>1, <2>2 DEF SumStep
  <2>3. CASE U # {}
    <3>1. Chosen(U) \in U /\ U \ {Chosen(U)} \in C
      BY <1>1, <2>3, ChosenIn
    <3> QED BY <2>1, <2>3, <3>1 DEF SumStep
  <2> QED BY <2>2, <2>3
<1>2. \A s \in SUBSET T : s \in C
  <2> HIDE DEF C
  <2> QED BY <1>1, SubsetInduction
<1> QED BY <1>2

\* Over a finite set the equation has a solution.
LEMMA SumSolvable ==
  ASSUME NEW fun, NEW S, IsFiniteSet(S)
  PROVE  \E g : SolvesSum(g, fun, S)
<1> DEFINE C == {T \in SUBSET S : \A u \in SUBSET T : \E g : SolvesSum(g, fun, u)}
<1>1. ASSUME NEW T \in SUBSET S, \A x \in T : T \ {x} \in C PROVE T \in C
  <2>1. ASSUME NEW u \in SUBSET T, u # T PROVE \E g : SolvesSum(g, fun, u)
    <3>1. PICK x \in T : x \notin u
      BY <2>1
    <3>2. u \in SUBSET (T \ {x})
      BY <3>1
    <3> QED BY <1>1, <3>1, <3>2
  <2> DEFINE H(u) == CHOOSE g : SolvesSum(g, fun, u)
             part == [u \in SUBSET T |-> H(u)[u]]
             g == [u \in SUBSET T |-> IF u = T THEN SumStep(fun, part, T) ELSE H(u)[u]]
  <2>2. ASSUME NEW u \in SUBSET T, u # T PROVE SolvesSum(H(u), fun, u)
    BY <2>1, <2>2
  <2>3. ASSUME NEW u \in SUBSET T PROVE g[u] = SumStep(fun, g, u)
    <3>1. CASE u = {}
      <4>1. CASE u = T
        BY <3>1, <4>1 DEF SumStep
      <4>2. CASE u # T
        <5>1. H(u) = [s \in SUBSET u |-> SumStep(fun, H(u), s)]
          BY <2>2, <4>2 DEF SolvesSum
        <5> HIDE DEF H
        <5>2. H(u)[u] = SumStep(fun, H(u), u)
          BY <5>1
        <5>3. g[u] = 0
          BY <3>1, <4>2, <5>2 DEF SumStep
        <5> QED BY <3>1, <5>3 DEF SumStep
      <4> QED BY <4>1, <4>2
    <3>2. CASE u # {}
      <4> DEFINE c == Chosen(u)
                 v == u \ {c}
      <4>1. c \in u /\ v \in SUBSET T /\ v # T /\ v \in SUBSET u
        BY <3>2, ChosenIn
      <4>2. g[v] = H(v)[v] /\ part[v] = H(v)[v]
        <5> HIDE DEF H, v
        <5> QED BY <4>1
      <4>3. CASE u = T
        <5> HIDE DEF H, part
        <5>1. g[u] = SumStep(fun, part, u)
          BY <4>3
        <5> QED BY <3>2, <4>2, <5>1 DEF SumStep
      <4>4. CASE u # T
        <5>1. SolvesSum(H(u), fun, u) /\ SolvesSum(H(v), fun, v)
          BY <2>2, <4>1, <4>4
        <5> HIDE DEF H
        <5>2. H(u)[u] = [s \in SUBSET u |-> SumStep(fun, H(u), s)][u]
          BY <5>1 DEF SolvesSum
        <5>3. H(u)[u] = fun[c] + H(u)[v]
          BY <3>2, <5>2 DEF SumStep
        <5>4. IsFiniteSet(v)
          BY FS_Subset, <4>1
        <5>5. H(u)[v] = H(v)[v]
          <6> HIDE DEF v
          <6> QED BY <4>1, <5>1, <5>4, SolutionsAgree
        <5>6. g[u] = H(u)[u]
          BY <4>4
        <5>7. g[u] = fun[c] + g[v]
          BY <4>2, <5>3, <5>5, <5>6
        <5> HIDE DEF g
        <5> QED BY <3>2, <5>7 DEF SumStep
      <4> QED BY <4>3, <4>4
    <3> QED BY <3>1, <3>2
  <2>4. SolvesSum(g, fun, T)
    <3>1. g = [u \in SUBSET T |-> g[u]]
      OBVIOUS
    <3> HIDE DEF g
    <3> QED BY <2>3, <3>1 DEF SolvesSum
  <2>5. \A u \in SUBSET T : \E k : SolvesSum(k, fun, u)
    <3> HIDE DEF g
    <3> QED BY <2>1, <2>4
  <2> QED BY <2>5
<1>2. \A T \in SUBSET S : T \in C
  <2> HIDE DEF C
  <2> QED BY <1>1, SubsetInduction
<1>3. S \in C
  <2> HIDE DEF C
  <2> QED BY <1>2
<1> QED BY <1>3

\* The sum as its definition computes it.
LEMMA SumByChoice ==
  ASSUME NEW fun, NEW S, IsFiniteSet(S)
  PROVE  /\ S = {} => SumFunctionOnSet(fun, S) = 0
         /\ S # {} => SumFunctionOnSet(fun, S)
                        = fun[Chosen(S)] + SumFunctionOnSet(fun, S \ {Chosen(S)})
<1> DEFINE F(T) == CHOOSE g : SolvesSum(g, fun, T)
<1>1. ASSUME NEW T \in SUBSET S PROVE SolvesSum(F(T), fun, T)
  BY FS_Subset, SumSolvable
<1>2. ASSUME NEW T \in SUBSET S PROVE SumFunctionOnSet(fun, T) = F(T)[T]
  BY SumIsSolution
<1> HIDE DEF F
<1>3. F(S)[S] = SumStep(fun, F(S), S)
  <2>1. F(S)[S] = [s \in SUBSET S |-> SumStep(fun, F(S), s)][S]
    BY <1>1 DEF SolvesSum
  <2> QED BY <2>1
<1>4. CASE S = {}
  BY <1>2, <1>3, <1>4 DEF SumStep
<1>5. CASE S # {}
  <2> DEFINE T == S \ {Chosen(S)}
  <2>1. T \in SUBSET S /\ IsFiniteSet(T) /\ T \in SUBSET T
    BY FS_Subset
  <2>2. SolvesSum(F(S), fun, S) /\ SolvesSum(F(T), fun, T)
    BY <1>1, <2>1
  <2>3. F(S)[T] = F(T)[T]
    <3> HIDE DEF T
    <3> QED BY <2>1, <2>2, SolutionsAgree
  <2>4. F(S)[S] = fun[Chosen(S)] + F(S)[T]
    BY <1>3, <1>5 DEF SumStep
  <2>5. SumFunctionOnSet(fun, S) = F(S)[S] /\ SumFunctionOnSet(fun, T) = F(T)[T]
    BY <1>2, <2>1
  <2> QED BY <1>5, <2>3, <2>4, <2>5
<1> QED BY <1>4, <1>5

\* The sum over no element is zero.
LEMMA SumEmpty == ASSUME NEW fun PROVE SumFunctionOnSet(fun, {}) = 0
  BY SumByChoice, FS_EmptySet

\* A sum of naturals is a natural.
LEMMA SumNat ==
  ASSUME NEW fun, NEW S, IsFiniteSet(S), \A x \in S : fun[x] \in Nat
  PROVE  SumFunctionOnSet(fun, S) \in Nat
<1> DEFINE C == {T \in SUBSET S : SumFunctionOnSet(fun, T) \in Nat}
<1>1. ASSUME NEW T \in SUBSET S, \A x \in T : T \ {x} \in C PROVE T \in C
  <2>1. IsFiniteSet(T)
    BY FS_Subset
  <2>2. CASE T = {}
    BY <2>2, SumEmpty
  <2>3. CASE T # {}
    <3>1. Chosen(T) \in T
      BY <2>3, ChosenIn
    <3>2. SumFunctionOnSet(fun, T \ {Chosen(T)}) \in Nat /\ fun[Chosen(T)] \in Nat
      BY <1>1, <3>1
    <3> QED BY <2>1, <2>3, <3>2, SumByChoice
  <2> QED BY <2>2, <2>3
<1>2. \A T \in SUBSET S : T \in C
  <2> HIDE DEF C
  <2> QED BY <1>1, SubsetInduction
<1> QED BY <1>2

\* Any element can be taken out.
LEMMA SumRemove ==
  ASSUME NEW fun, NEW S, IsFiniteSet(S), \A x \in S : fun[x] \in Nat, NEW e \in S
  PROVE  SumFunctionOnSet(fun, S) = fun[e] + SumFunctionOnSet(fun, S \ {e})
<1> DEFINE Rest(T, x) == SumFunctionOnSet(fun, T \ {x})
           C == {T \in SUBSET S : \A x \in T : SumFunctionOnSet(fun, T) = fun[x] + Rest(T, x)}
<1>1. ASSUME NEW T \in SUBSET S, \A x \in T : T \ {x} \in C PROVE T \in C
  <2> SUFFICES ASSUME NEW x \in T PROVE SumFunctionOnSet(fun, T) = fun[x] + Rest(T, x)
    OBVIOUS
  <2> DEFINE c == Chosen(T)
  <2>1. IsFiniteSet(T) /\ c \in T
    BY FS_Subset, ChosenIn
  <2>2. SumFunctionOnSet(fun, T) = fun[c] + Rest(T, c)
    BY <2>1, SumByChoice
  <2> HIDE DEF c
  <2>3. CASE x # c
    <3>1. /\ x \in T \ {c} /\ c \in T \ {x}
          /\ (T \ {c}) \ {x} = T \ {c, x} /\ (T \ {x}) \ {c} = T \ {c, x}
      BY <2>1, <2>3
    <3>2. Rest(T, c) = fun[x] + SumFunctionOnSet(fun, T \ {c, x})
      BY <1>1, <2>1, <3>1
    <3>3. Rest(T, x) = fun[c] + SumFunctionOnSet(fun, T \ {c, x})
      BY <1>1, <2>1, <3>1
    <3>4. IsFiniteSet(T \ {c, x}) /\ \A y \in T \ {c, x} : fun[y] \in Nat
      BY <2>1, FS_Subset
    <3>5. SumFunctionOnSet(fun, T \ {c, x}) \in Nat /\ fun[x] \in Nat /\ fun[c] \in Nat
      BY <2>1, <3>4, SumNat
    <3> HIDE DEF Rest
    <3> QED BY <2>2, <3>2, <3>3, <3>5
  <2> QED BY <2>2, <2>3
<1>2. \A T \in SUBSET S : T \in C
  <2> HIDE DEF C
  <2> QED BY <1>1, SubsetInduction
<1> QED BY <1>2

\* Of two functions that agree on the set the sums agree.
LEMMA SumAgree ==
  ASSUME NEW fun, NEW gun, NEW S, IsFiniteSet(S), \A x \in S : fun[x] = gun[x]
  PROVE  SumFunctionOnSet(fun, S) = SumFunctionOnSet(gun, S)
<1> DEFINE C == {T \in SUBSET S : SumFunctionOnSet(fun, T) = SumFunctionOnSet(gun, T)}
<1>1. ASSUME NEW T \in SUBSET S, \A x \in T : T \ {x} \in C PROVE T \in C
  <2>1. IsFiniteSet(T)
    BY FS_Subset
  <2>2. CASE T = {}
    BY <2>2, SumEmpty
  <2>3. CASE T # {}
    <3>1. Chosen(T) \in T
      BY <2>3, ChosenIn
    <3>2. /\ SumFunctionOnSet(fun, T \ {Chosen(T)}) = SumFunctionOnSet(gun, T \ {Chosen(T)})
          /\ fun[Chosen(T)] = gun[Chosen(T)]
      BY <1>1, <3>1
    <3> QED BY <2>1, <2>3, <3>2, SumByChoice
  <2> QED BY <2>2, <2>3
<1>2. \A T \in SUBSET S : T \in C
  <2> HIDE DEF C
  <2> QED BY <1>1, SubsetInduction
<1> QED BY <1>2

\* A sum grows with its terms.
LEMMA SumMonotone ==
  ASSUME NEW fun, NEW gun, NEW S, IsFiniteSet(S),
         \A x \in S : fun[x] \in Nat /\ gun[x] \in Nat /\ fun[x] <= gun[x]
  PROVE  SumFunctionOnSet(fun, S) <= SumFunctionOnSet(gun, S)
<1> DEFINE C == {T \in SUBSET S : SumFunctionOnSet(fun, T) <= SumFunctionOnSet(gun, T)}
<1>1. ASSUME NEW T \in SUBSET S, \A x \in T : T \ {x} \in C PROVE T \in C
  <2>1. IsFiniteSet(T)
    BY FS_Subset
  <2>2. CASE T = {}
    BY <2>2, SumEmpty
  <2>3. CASE T # {}
    <3> DEFINE c == Chosen(T)
               R == T \ {c}
    <3>1. c \in T /\ c \in S /\ R \in C /\ R \in SUBSET S
      BY <1>1, <2>3, ChosenIn
    <3>2. IsFiniteSet(R)
      BY <2>1, FS_Subset
    <3>3. SumFunctionOnSet(fun, R) \in Nat /\ SumFunctionOnSet(gun, R) \in Nat
      BY <3>1, <3>2, SumNat
    <3>4. /\ SumFunctionOnSet(fun, T) = fun[c] + SumFunctionOnSet(fun, R)
          /\ SumFunctionOnSet(gun, T) = gun[c] + SumFunctionOnSet(gun, R)
      BY <2>1, <2>3, SumByChoice
    <3>5. SumFunctionOnSet(fun, R) <= SumFunctionOnSet(gun, R)
      BY <3>1
    <3> HIDE DEF R, c
    <3>6. fun[c] \in Nat /\ gun[c] \in Nat /\ fun[c] <= gun[c]
      BY <3>1
    <3> QED BY <3>3, <3>4, <3>5, <3>6
  <2> QED BY <2>2, <2>3
<1>2. \A T \in SUBSET S : T \in C
  <2> HIDE DEF C
  <2> QED BY <1>1, SubsetInduction
<1> QED BY <1>2

\* Terms of at most M each sum up to at most M for every element.
LEMMA SumBound ==
  ASSUME NEW fun, NEW S, IsFiniteSet(S), NEW M \in Nat,
         \A x \in S : fun[x] \in Nat /\ fun[x] <= M
  PROVE  SumFunctionOnSet(fun, S) <= Cardinality(S) * M
<1> DEFINE C == {T \in SUBSET S : SumFunctionOnSet(fun, T) <= Cardinality(T) * M}
<1>1. ASSUME NEW T \in SUBSET S, \A x \in T : T \ {x} \in C PROVE T \in C
  <2>1. IsFiniteSet(T)
    BY FS_Subset
  <2>2. CASE T = {}
    <3>1. Cardinality(T) = 0
      BY <2>2, FS_EmptySet
    <3> QED BY <2>2, <3>1, SumEmpty
  <2>3. CASE T # {}
    <3> DEFINE c == Chosen(T)
               R == T \ {c}
    <3>1. c \in T /\ c \in S /\ R \in C /\ R \in SUBSET S
      BY <1>1, <2>3, ChosenIn
    <3>2. IsFiniteSet(R)
      BY <2>1, FS_Subset
    <3>3. SumFunctionOnSet(fun, R) \in Nat
      BY <3>1, <3>2, SumNat
    <3>4. SumFunctionOnSet(fun, T) = fun[c] + SumFunctionOnSet(fun, R)
      BY <2>1, <2>3, SumByChoice
    <3>5. SumFunctionOnSet(fun, R) <= Cardinality(R) * M
      BY <3>1
    <3>6. Cardinality(T) = Cardinality(R) + 1 /\ Cardinality(R) \in Nat
      <4>1. Cardinality(R) = Cardinality(T) - 1 /\ Cardinality(T) \in Nat
        BY <2>1, <3>1, FS_RemoveElement, FS_CardinalityType
      <4>2. Cardinality(R) \in Nat
        BY <3>2, FS_CardinalityType
      <4> QED BY <4>1, <4>2
    <3> HIDE DEF R, c
    <3>7. fun[c] \in Nat /\ fun[c] <= M
      BY <3>1
    <3> QED BY <3>3, <3>4, <3>5, <3>6, <3>7
  <2> QED BY <2>2, <2>3
<1>2. \A T \in SUBSET S : T \in C
  <2> HIDE DEF C
  <2> QED BY <1>1, SubsetInduction
<1> QED BY <1>2
=============================================================================
