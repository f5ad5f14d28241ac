--------------------------- MODULE Throttle_proofs ---------------------------
(***************************************************************************)
(* Proofs about Throttle for any callers, lanes, burst, interval and bound.*)
(*                                                                         *)
(* That slots are an interval apart is not inductive: the pump looks at    *)
(* the reservation clock, not at the last slot.  ClockTells adds what the  *)
(* clock knows of it.  Nor is the starvation bound: what may still pass a  *)
(* caller depends on the callers before it in its lane and on the burst    *)
(* that is under way (WaitsItsTurn), and so on the order of a lane after   *)
(* its futures are dropped.  Keep, the loop that drops them, is recursive; *)
(* KeepKeeps says what it returns, by induction over the lane.             *)
(***************************************************************************)
EXTENDS Throttle, Integers, FiniteData, TLAPS

-----------------------------------------------------------------------------
(* What is kept of a lane                                                   *)

\* The equation of the recursive function in Keep, over a prefix of the lane.
KeepStep(k, s, C, i) ==
    IF i = 0 THEN <<>> ELSE IF s[i] \in C THEN Append(k[i - 1], s[i]) ELSE k[i - 1]
SolvesKeep(k, s, C, n) == k = [i \in 0..n |-> KeepStep(k, s, C, i)]

LEMMA KeepIsSolution ==
  ASSUME NEW s, NEW C PROVE Keep(s, C) = (CHOOSE k : SolvesKeep(k, s, C, Len(s)))[Len(s)]
  BY DEF Keep, KeepStep, SolvesKeep

LEMMA KeepSolvable ==
  ASSUME NEW S, NEW s \in Seq(S), NEW C PROVE \E k : SolvesKeep(k, s, C, Len(s))
<1> DEFINE n == Len(s)
           D == {m \in 0..n : \E k : SolvesKeep(k, s, C, m)}
<1>1. 0 \in D
  <2>1. SolvesKeep([i \in 0..0 |-> <<>>], s, C, 0)
    BY DEF SolvesKeep, KeepStep
  <2> QED BY <2>1
<1>2. ASSUME NEW m \in 1..n, m - 1 \in D PROVE m \in D
  <2>1. PICK k : SolvesKeep(k, s, C, m - 1)
    BY <1>2
  <2> DEFINE last == KeepStep(k, s, C, m)
             j == [i \in 0..m |-> IF i = m THEN last ELSE k[i]]
  <2>2. ASSUME NEW i \in 0..m PROVE j[i] = KeepStep(j, s, C, i)
    <3>1. CASE i = m
      <4>1. j[m] = last /\ m - 1 \in 0..m /\ m - 1 # m /\ m # 0
        OBVIOUS
      <4>2. j[m - 1] = k[m - 1]
        BY <4>1
      <4> HIDE DEF j
      <4> QED BY <3>1, <4>1, <4>2 DEF KeepStep
    <3>2. CASE i # m
      <4>1. i \in 0..(m - 1) /\ j[i] = k[i] /\ (i # 0 => i - 1 \in 0..m /\ i - 1 # m)
        BY <3>2
      <4>2. k[i] = [l \in 0..(m - 1) |-> KeepStep(k, s, C, l)][i]
        BY <2>1 DEF SolvesKeep
      <4>3. k[i] = KeepStep(k, s, C, i)
        BY <4>1, <4>2
      <4>4. i # 0 => j[i - 1] = k[i - 1]
        BY <4>1
      <4> HIDE DEF j
      <4> QED BY <4>1, <4>3, <4>4 DEF KeepStep
    <3> QED BY <3>1, <3>2
  <2>3. SolvesKeep(j, s, C, m)
    <3>1. j = [i \in 0..m |-> j[i]]
      OBVIOUS
    <3> HIDE DEF j
    <3> QED BY <2>2, <3>1 DEF SolvesKeep
  <2> HIDE DEF j
  <2> QED BY <2>3
<1>3. n \in Nat /\ n \in 0..n
  OBVIOUS
<1>4. \A m \in 0..n : m \in D
  <2> HIDE DEF D, n
  <2> QED BY <1>1, <1>2, <1>3, SegmentInduction
<1> QED BY <1>3, <1>4

\* d is before c in the sequence.
Before(s, d, c) == \E i, j \in 1..Len(s) : i < j /\ s[i] = d /\ s[j] = c

\* What is kept: the elements in C, all of them, in their order.
LEMMA KeepKeeps ==
  ASSUME NEW S, NEW s \in Seq(S), NEW C
  PROVE  /\ Keep(s, C) \in Seq(S)
         /\ \A a \in 1..Len(Keep(s, C)) : \E i \in 1..Len(s) : Keep(s, C)[a] = s[i] /\ s[i] \in C
         /\ \A i \in 1..Len(s) : s[i] \in C => \E a \in 1..Len(Keep(s, C)) : Keep(s, C)[a] = s[i]
         /\ \A a, b \in 1..Len(Keep(s, C)) : a < b => Before(s, Keep(s, C)[a], Keep(s, C)[b])
<1> DEFINE n == Len(s)
           Good(t, m) ==
             /\ t \in Seq(S)
             /\ \A a \in 1..Len(t) : \E i \in 1..m : t[a] = s[i] /\ s[i] \in C
             /\ \A i \in 1..m : s[i] \in C => \E a \in 1..Len(t) : t[a] = s[i]
             /\ \A a, b \in 1..Len(t) : a < b =>
                  \E i, j \in 1..m : i < j /\ s[i] = t[a] /\ s[j] = t[b]
<1>1. PICK k : SolvesKeep(k, s, C, n) /\ Keep(s, C) = k[n]
  BY KeepIsSolution, KeepSolvable
<1> DEFINE D == {m \in 0..n : Good(k[m], m)}
<1>2. ASSUME NEW m \in 0..n PROVE k[m] = KeepStep(k, s, C, m)
  <2>1. k[m] = [i \in 0..n |-> KeepStep(k, s, C, i)][m]
    BY <1>1 DEF SolvesKeep
  <2> QED BY <2>1
<1>3. 0 \in D
  <2>1. n \in Nat /\ 0 \in 0..n
    OBVIOUS
  <2>2. k[0] = <<>> /\ <<>> \in Seq(S) /\ 1..Len(<<>>) = {} /\ 1..0 = {}
    BY <1>2, <2>1 DEF KeepStep
  <2>3. Good(k[0], 0)
    BY <2>2
  <2> HIDE DEF Good
  <2> QED BY <2>1, <2>3
<1>4. ASSUME NEW m \in 1..n, m - 1 \in D PROVE m \in D
  <2> DEFINE t == k[m - 1]
             l == m - 1
  <2>1. /\ k[m] = IF s[m] \in C THEN Append(t, s[m]) ELSE t
        /\ s[m] \in S /\ m \in 0..n /\ m # 0
    BY <1>2 DEF KeepStep
  <2>2. Good(t, l)
    BY <1>4
  <2> HIDE DEF t
  <2>3. /\ t \in Seq(S)
        /\ \A a \in 1..Len(t) : \E i \in 1..l : t[a] = s[i] /\ s[i] \in C
        /\ \A i \in 1..l : s[i] \in C => \E a \in 1..Len(t) : t[a] = s[i]
        /\ \A a, b \in 1..Len(t) : a < b => \E i, j \in 1..l : i < j /\ s[i] = t[a] /\ s[j] = t[b]
    BY <2>2
  <2>4. /\ \A i \in 1..m : i = m \/ i \in 1..l
        /\ \A i \in 1..l : i \in 1..m /\ i < m
        /\ m \in 1..m
    OBVIOUS
  <2>5. CASE s[m] \notin C
    <3>1. k[m] = t
      BY <2>1, <2>5
    <3>2. Good(t, m)
      <4> HIDE DEF l
      <4>1. \A i \in 1..m : s[i] \in C => \E a \in 1..Len(t) : t[a] = s[i]
        BY <2>3, <2>4, <2>5
      <4>2. \A a \in 1..Len(t) : \E i \in 1..m : t[a] = s[i] /\ s[i] \in C
        BY <2>3, <2>4
      <4>3. \A a, b \in 1..Len(t) : a < b => \E i, j \in 1..m : i < j /\ s[i] = t[a] /\ s[j] = t[b]
        BY <2>3, <2>4
      <4> QED BY <2>3, <4>1, <4>2, <4>3
    <3> HIDE DEF Good
    <3> QED BY <2>1, <3>1, <3>2
  <2>6. CASE s[m] \in C
    <3> DEFINE u == Append(t, s[m])
    <3>1. k[m] = u /\ t \in Seq(S)
      BY <2>1, <2>3, <2>6
    <3>2. /\ u \in Seq(S) /\ Len(u) = Len(t) + 1 /\ u[Len(u)] = s[m] /\ Len(t) \in Nat
          /\ \A a \in 1..Len(t) : u[a] = t[a]
      BY <2>1, <3>1
    <3> HIDE DEF u, l
    <3>3. /\ \A a \in 1..Len(u) : a = Len(u) \/ a \in 1..Len(t)
          /\ \A a \in 1..Len(t) : a \in 1..Len(u)
          /\ Len(u) \in 1..Len(u)
      BY <3>2
    <3>4. ASSUME NEW a \in 1..Len(u) PROVE \E i \in 1..m : u[a] = s[i] /\ s[i] \in C
      <4>1. CASE a = Len(u)
        BY <2>4, <2>6, <3>2, <4>1
      <4>2. CASE a \in 1..Len(t)
        <5>1. PICK i \in 1..l : t[a] = s[i] /\ s[i] \in C
          BY <2>3, <4>2
        <5> QED BY <2>4, <3>2, <4>2, <5>1
      <4> QED BY <3>3, <4>1, <4>2
    <3>5. ASSUME NEW i \in 1..m, s[i] \in C PROVE \E a \in 1..Len(u) : u[a] = s[i]
      <4>1. CASE i = m
        BY <3>2, <3>3, <4>1
      <4>2. CASE i \in 1..l
        <5>1. PICK a \in 1..Len(t) : t[a] = s[i]
          BY <2>3, <3>5, <4>2
        <5> QED BY <3>2, <3>3, <5>1
      <4> QED BY <2>4, <4>1, <4>2
    <3>6. ASSUME NEW a \in 1..Len(u), NEW b \in 1..Len(u), a < b
          PROVE  \E i, j \in 1..m : i < j /\ s[i] = u[a] /\ s[j] = u[b]
      <4>1. a \in 1..Len(t)
        BY <3>2, <3>6
      <4>2. CASE b \in 1..Len(t)
        <5>1. PICK i \in 1..l, j \in 1..l : i < j /\ s[i] = t[a] /\ s[j] = t[b]
          BY <2>3, <3>6, <4>1, <4>2
        <5> QED BY <2>4, <3>2, <4>1, <4>2, <5>1
      <4>3. CASE b = Len(u)
        <5>1. PICK i \in 1..l : t[a] = s[i]
          BY <2>3, <4>1
        <5> QED BY <2>4, <3>2, <4>1, <4>3, <5>1
      <4> QED BY <3>3, <4>2, <4>3
    <3>7. Good(u, m)
      BY <3>2, <3>4, <3>5, <3>6
    <3> HIDE DEF Good
    <3> QED BY <2>1, <3>1, <3>7
  <2> QED BY <2>5, <2>6
<1>5. n \in Nat /\ n \in 0..n
  OBVIOUS
<1>6. \A m \in 0..n : m \in D
  <2> HIDE DEF D, n
  <2> QED BY <1>3, <1>4, <1>5, SegmentInduction
<1>7. Good(k[n], n)
  BY <1>5, <1>6
<1> QED BY <1>1, <1>7 DEF Before

-----------------------------------------------------------------------------
(* The lanes                                                                *)

\* A lane w: its own callers, each once, none outside X and all that are in Q.
Fits(s, w, Q, X) ==
    /\ s \in Seq(Callers)
    /\ \A i, j \in 1..Len(s) : s[i] = s[j] => i = j
    /\ \A i \in 1..Len(s) : LaneOf(s[i]) = w /\ s[i] \in X
    /\ \A c \in Q : LaneOf(c) = w => \E i \in 1..Len(s) : s[i] = c

\* The callers that have not run on since they queued and were not served.
Waiting == {c \in Callers : state[c] \in {"queued", "cancelled"}}

LanesFit ==
    /\ lane = [w \in Lanes |-> lane[w]]
    /\ \A w \in Lanes : Fits(lane[w], w, Queued, Waiting)

\* An empty lane fits when nobody waits.
LEMMA EmptyFits ==
  ASSUME NEW w, NEW X PROVE Fits(<<>>, w, {}, X)
<1>1. <<>> \in Seq(Callers) /\ 1..Len(<<>>) = {}
  OBVIOUS
<1> QED
  BY <1>1 DEF Fits

\* A lane that fits does so for fewer waiters.
LEMMA FewerFit ==
  ASSUME NEW s, NEW w, NEW Q, NEW X, NEW R \in SUBSET Q, NEW Y, X \subseteq Y, Fits(s, w, Q, X)
  PROVE  Fits(s, w, R, Y)
  BY DEF Fits

\* The futures that are kept fit, if they are those that wait.
LEMMA KeptFit ==
  ASSUME NEW s, NEW w, NEW Q, NEW X, NEW C, NEW R \in SUBSET (Q \cap C), NEW Y,
         X \cap C \subseteq Y, Fits(s, w, Q, X)
  PROVE  Fits(Keep(s, C), w, R, Y)
<1> DEFINE t == Keep(s, C)
<1>1. s \in Seq(Callers)
  BY DEF Fits
<1>2. /\ t \in Seq(Callers)
      /\ \A a \in 1..Len(t) : \E i \in 1..Len(s) : t[a] = s[i] /\ s[i] \in C
      /\ \A i \in 1..Len(s) : s[i] \in C => \E a \in 1..Len(t) : t[a] = s[i]
      /\ \A a, b \in 1..Len(t) : a < b => Before(s, t[a], t[b])
  BY <1>1, KeepKeeps
<1> HIDE DEF t
<1>3. ASSUME NEW a \in 1..Len(t), NEW b \in 1..Len(t), t[a] = t[b] PROVE a = b
  <2>1. ASSUME NEW x \in 1..Len(t), NEW y \in 1..Len(t), t[x] = t[y] PROVE ~(x < y)
    <3>1. SUFFICES ASSUME x < y PROVE FALSE
      OBVIOUS
    <3>2. PICK i \in 1..Len(s), j \in 1..Len(s) : i < j /\ s[i] = t[x] /\ s[j] = t[y]
      BY <1>2, <3>1 DEF Before
    <3> QED
      BY <2>1, <3>2 DEF Fits
  <2>2. ~(a < b) /\ ~(b < a) /\ a \in Int /\ b \in Int
    BY <1>3, <2>1
  <2> QED
    BY <2>2
<1>4. ASSUME NEW a \in 1..Len(t) PROVE LaneOf(t[a]) = w /\ t[a] \in Y
  BY <1>2 DEF Fits
<1>5. ASSUME NEW c \in R, LaneOf(c) = w PROVE \E a \in 1..Len(t) : t[a] = c
  <2>1. PICK i \in 1..Len(s) : s[i] = c
    BY <1>5 DEF Fits
  <2> QED
    BY <1>2, <2>1
<1>6. Fits(t, w, R, Y)
  BY <1>2, <1>3, <1>4, <1>5 DEF Fits
<1> QED
  BY <1>6 DEF t

\* A caller that was not waiting joins its lane at the end.
LEMMA JoinedFits ==
  ASSUME NEW s, NEW Q, NEW X, NEW c \in Callers, c \notin X, Fits(s, LaneOf(c), Q, X)
  PROVE  /\ Fits(Append(s, c), LaneOf(c), Q \cup {c}, X \cup {c})
         /\ \A d : ~Before(Append(s, c), c, d)
         /\ \A d, e : e # c /\ Before(Append(s, c), d, e) => Before(s, d, e)
<1> DEFINE t == Append(s, c)
<1>1. /\ t \in Seq(Callers) /\ s \in Seq(Callers) /\ Len(s) \in Nat /\ Len(t) = Len(s) + 1
      /\ t[Len(t)] = c /\ \A i \in 1..Len(s) : t[i] = s[i]
  BY DEF Fits
<1> HIDE DEF t
<1>2. /\ Len(t) \in 1..Len(t)
      /\ \A i \in 1..Len(s) : i \in 1..Len(t) /\ i # Len(t)
      /\ \A i \in 1..Len(t) : i = Len(t) \/ i \in 1..Len(s)
  BY <1>1
<1>3. \A i \in 1..Len(s) : t[i] # c
  BY <1>1 DEF Fits
<1>4. Fits(t, LaneOf(c), Q \cup {c}, X \cup {c})
  <2>1. ASSUME NEW i \in 1..Len(t), NEW j \in 1..Len(t), t[i] = t[j] PROVE i = j
    BY <1>1, <1>2, <1>3, <2>1 DEF Fits
  <2>2. ASSUME NEW i \in 1..Len(t) PROVE LaneOf(t[i]) = LaneOf(c) /\ t[i] \in X \cup {c}
    BY <1>1, <1>2 DEF Fits
  <2>3. ASSUME NEW d \in Q \cup {c}, LaneOf(d) = LaneOf(c) PROVE \E i \in 1..Len(t) : t[i] = d
    <3>1. CASE d = c
      BY <1>1, <1>2, <3>1
    <3>2. CASE d \in Q
      <4>1. PICK i \in 1..Len(s) : s[i] = d
        BY <2>3, <3>2 DEF Fits
      <4> QED
        BY <1>1, <1>2, <4>1
    <3> QED
      BY <3>1, <3>2
  <2> QED
    BY <1>1, <2>1, <2>2, <2>3 DEF Fits
<1>5. ASSUME NEW d, Before(t, c, d) PROVE FALSE
  <2>1. PICK i \in 1..Len(t), j \in 1..Len(t) : i < j /\ t[i] = c
    BY <1>5 DEF Before
  <2> QED
    BY <1>1, <1>2, <1>3, <2>1
<1>6. ASSUME NEW d, NEW e, e # c, Before(t, d, e) PROVE Before(s, d, e)
  <2>1. PICK i \in 1..Len(t), j \in 1..Len(t) : i < j /\ t[i] = d /\ t[j] = e
    BY <1>6 DEF Before
  <2>2. j \in 1..Len(s)
    BY <1>1, <1>2, <1>6, <2>1
  <2>3. i \in 1..Len(s)
    BY <1>1, <2>1, <2>2
  <2> QED
    BY <1>1, <2>1, <2>2, <2>3 DEF Before
<1> QED
  BY <1>4, <1>5, <1>6 DEF t

\* What is kept stands in the order it had.
LEMMA KeptInOrder ==
  ASSUME NEW s \in Seq(Callers), NEW C, NEW d, NEW e, Before(Keep(s, C), d, e)
  PROVE  Before(s, d, e)
<1>1. PICK a \in 1..Len(Keep(s, C)), b \in 1..Len(Keep(s, C)) :
          a < b /\ Keep(s, C)[a] = d /\ Keep(s, C)[b] = e
  BY DEF Before
<1> QED
  BY <1>1, KeepKeeps

\* The first that is kept stands before the others that are.
LEMMA FirstIsBefore ==
  ASSUME NEW s, NEW w, NEW Q, NEW X, Fits(s, w, Q, X), NEW c \in Q, LaneOf(c) = w
  PROVE  LET t == Keep(s, Q) IN
         /\ t # <<>> /\ Head(t) \in Q /\ LaneOf(Head(t)) = w
         /\ c # Head(t) => Before(s, Head(t), c)
<1> DEFINE t == Keep(s, Q)
<1>1. s \in Seq(Callers)
  BY DEF Fits
<1>2. /\ t \in Seq(Callers)
      /\ \A a \in 1..Len(t) : \E i \in 1..Len(s) : t[a] = s[i] /\ s[i] \in Q
      /\ \A i \in 1..Len(s) : s[i] \in Q => \E a \in 1..Len(t) : t[a] = s[i]
      /\ \A a, b \in 1..Len(t) : a < b => Before(s, t[a], t[b])
  BY <1>1, KeepKeeps
<1>3. PICK i \in 1..Len(s) : s[i] = c
  BY DEF Fits
<1>4. PICK b \in 1..Len(t) : t[b] = c
  BY <1>2, <1>3
<1> HIDE DEF t
<1>5. t # <<>> /\ 1 \in 1..Len(t) /\ Head(t) = t[1] /\ (b = 1 \/ 1 < b)
  BY <1>2, <1>4
<1>6. Head(t) \in Q /\ LaneOf(Head(t)) = w
  BY <1>2, <1>5 DEF Fits
<1>7. c # Head(t) => Before(s, Head(t), c)
  BY <1>2, <1>4, <1>5
<1>8. /\ t # <<>> /\ Head(t) \in Q /\ LaneOf(Head(t)) = w
      /\ c # Head(t) => Before(s, Head(t), c)
  BY <1>5, <1>6, <1>7
<1> QED
  BY <1>8 DEF t

\* A lane none of whose callers waits has nobody to keep.
LEMMA NobodyToKeep ==
  ASSUME NEW s, NEW w, NEW Q, NEW X, Fits(s, w, Q, X), \A c \in Q : LaneOf(c) # w
  PROVE  Keep(s, Q) = <<>>
<1>1. s \in Seq(Callers)
  BY DEF Fits
<1>2. /\ Keep(s, Q) \in Seq(Callers)
      /\ \A a \in 1..Len(Keep(s, Q)) : \E i \in 1..Len(s) : Keep(s, Q)[a] = s[i] /\ s[i] \in Q
  BY <1>1, KeepKeeps
<1>3. ~(1 \in 1..Len(Keep(s, Q)))
  BY <1>2 DEF Fits
<1> QED
  BY <1>2, <1>3

-----------------------------------------------------------------------------
(* The inductive invariant                                                  *)

USE ParametersAssumption

States == {"idle", "queued", "cancelled", "served", "failed"}

Types ==
    /\ state \in [Callers -> States]
    /\ pump \in {"none", "created", "asleep"} /\ burst \in 0..Burst
    /\ ahead \in 0..(2 * Interval) /\ gap \in 0..Interval
    /\ quietly \in BOOLEAN /\ kills \in 0..MaxKills

\* Since the last slot the clock has run down from two intervals, tick by tick,
\* and is due when the interval is over.
ClockTells ==
    /\ gap < Interval => ahead = 2 * Interval - gap
    /\ gap = Interval => ahead <= Due

Inv == Types /\ LanesFit /\ ClockTells /\ NobodyIsStranded

\* Initially nobody waits and the slot is free.
LEMMA InitInv == Init => Inv
<1> SUFFICES ASSUME Init PROVE Inv
  OBVIOUS
<1>1. Queued = {} /\ lane = [w \in Lanes |-> <<>>]
  BY DEF Init, Queued
<1>2. LanesFit
  BY <1>1, EmptyFits DEF LanesFit
<1>3. Types
  <2>1. 0 \in 0..Burst /\ 0 \in 0..(2 * Interval) /\ Interval \in 0..Interval /\ 0 \in 0..MaxKills
    OBVIOUS
  <2> QED
    BY <2>1 DEF Init, Types, States
<1>4. ClockTells /\ NobodyIsStranded
  BY <1>1 DEF Init, ClockTells, NobodyIsStranded, Due
<1> QED
  BY <1>2, <1>3, <1>4 DEF Inv

\* What a slot charges, and to whom.
LEMMA Slot ==
  ASSUME Types, Serve, Queued # {}
  PROVE  /\ ahead <= Interval /\ ahead' = 2 * Interval /\ gap' = 0
         /\ state' = [state EXCEPT ![Pick[1]] = "served"]
<1>1. ahead <= Interval /\ ahead' = Charge /\ gap' = 0
  BY DEF Serve, Due
<1>2. Charge = 2 * Interval
  BY <1>1 DEF Charge, Due, Types
<1>3. state' = [state EXCEPT ![Pick[1]] = "served"]
  BY DEF Serve
<1> QED
  BY <1>1, <1>2, <1>3

\* Where the caller that is picked stands, and what the lane rule counts.
LEMMA Picked ==
  ASSUME LanesFit, burst \in 0..Burst, Queued # {}
  PROVE  /\ Pick[1] \in Queued /\ Pick[2] \in 0..Burst
         /\ Pick[1] \in Money /\ Queued \cap Others # {} => Pick[2] = burst + 1
         /\ Pick[1] \in Others => /\ Pick[2] = 0
                                   /\ \A c \in Queued \cap Others :
                                        c # Pick[1] => Before(lane["normal"], Pick[1], c)
<1> DEFINE p == Live("priority")
           n == Live("normal")
<1>1. /\ "priority" \in Lanes /\ "normal" \in Lanes /\ Queued \subseteq Callers
      /\ \A c \in Queued : LaneOf(c) = "priority" \/ LaneOf(c) = "normal"
      /\ \A c \in Queued :
           (c \in Money <=> LaneOf(c) = "priority") /\ (c \in Others <=> LaneOf(c) = "normal")
  BY LanesAssumption DEF Lanes, LaneOf, Queued, Callers
<1>2. ASSUME NEW c \in Queued, LaneOf(c) = "priority"
      PROVE  p # <<>> /\ Head(p) \in Queued /\ LaneOf(Head(p)) = "priority"
  BY <1>1, <1>2, FirstIsBefore DEF LanesFit, Live
<1>3. ASSUME NEW c \in Queued, LaneOf(c) = "normal"
      PROVE  /\ n # <<>> /\ Head(n) \in Queued /\ LaneOf(Head(n)) = "normal"
             /\ c # Head(n) => Before(lane["normal"], Head(n), c)
  BY <1>1, <1>3, FirstIsBefore DEF LanesFit, Live
<1>4. (\A c \in Queued : LaneOf(c) # "priority") => p = <<>>
  BY <1>1, NobodyToKeep DEF LanesFit, Live
<1>5. (\A c \in Queued : LaneOf(c) # "normal") => n = <<>>
  BY <1>1, NobodyToKeep DEF LanesFit, Live
<1>6. Pick = CASE p # <<>> /\ n # <<>> ->
                    IF burst >= Burst THEN <<Head(n), 0>> ELSE <<Head(p), burst + 1>>
               [] p # <<>> /\ n = <<>> -> <<Head(p), 0>>
               [] OTHER -> <<Head(n), 0>>
  BY DEF Pick
<1> HIDE DEF p, n
<1>7. CASE p # <<>> /\ n # <<>>
  <2>1. /\ Head(p) \in Queued /\ LaneOf(Head(p)) = "priority"
        /\ Head(n) \in Queued /\ LaneOf(Head(n)) = "normal"
    BY <1>2, <1>3, <1>4, <1>5, <1>7
  <2>2. Pick = IF burst >= Burst THEN <<Head(n), 0>> ELSE <<Head(p), burst + 1>>
    BY <1>6, <1>7
  <2>3. CASE burst >= Burst
    <3>1. Pick[1] = Head(n) /\ Pick[2] = 0
      BY <2>2, <2>3
    <3> QED
      BY <1>1, <1>3, <2>1, <3>1, ParametersAssumption
  <2>4. CASE ~(burst >= Burst)
    <3>1. Pick[1] = Head(p) /\ Pick[2] = burst + 1
      BY <2>2, <2>4
    <3>2. burst + 1 \in 0..Burst
      BY <2>4, ParametersAssumption
    <3> QED
      BY <1>1, <2>1, <3>1, <3>2, LanesAssumption
  <2> QED
    BY <2>3, <2>4
<1>8. CASE p # <<>> /\ n = <<>>
  <2>1. Pick[1] = Head(p) /\ Pick[2] = 0
    BY <1>6, <1>8
  <2>2. Head(p) \in Queued /\ LaneOf(Head(p)) = "priority"
    BY <1>2, <1>4, <1>8
  <2>3. Queued \cap Others = {}
    BY <1>1, <1>3, <1>8
  <2> QED
    BY <1>1, <2>1, <2>2, <2>3, ParametersAssumption
<1>9. CASE p = <<>>
  <2>1. Pick[1] = Head(n) /\ Pick[2] = 0
    BY <1>6, <1>9
  <2>2. PICK c \in Queued : LaneOf(c) = "normal"
    BY <1>1, <1>2, <1>9
  <2>3. Head(n) \in Queued /\ LaneOf(Head(n)) = "normal"
    BY <1>3, <2>2
  <2> QED
    BY <1>1, <1>3, <2>1, <2>3, LanesAssumption, ParametersAssumption
<1> QED
  BY <1>7, <1>8, <1>9

\* A step keeps the types of the callers, the pump and the clocks.
LEMMA StepTypes ==
  ASSUME Inv, [Next]_vars PROVE Types'
<1> USE DEF Types, States
<1>0. Types /\ LanesFit
  BY DEF Inv
<1>1. ASSUME NEW c \in Callers, Acquire(c) \/ Cancel(c) \/ Leave(c) PROVE Types'
  BY <1>0, <1>1 DEF Acquire, Cancel, Leave, Forget, histVars
<1>2. CASE Serve
  <2>1. CASE Queued = {}
    BY <1>0, <1>2, <2>1 DEF Serve
  <2>2. CASE Queued # {}
    <3>1. Pick[2] \in 0..Burst
      BY <1>0, <2>2, Picked
    <3>2. burst' = Pick[2] /\ pump' \in {"none", "asleep"} /\ UNCHANGED <<quietly, kills>>
      BY <1>2, <2>2 DEF Serve
    <3>3. 2 * Interval \in 0..(2 * Interval) /\ 0 \in 0..Interval
      OBVIOUS
    <3> QED
      BY <1>0, <1>2, <2>2, <3>1, <3>2, <3>3, Slot
  <2> QED
    BY <2>1, <2>2
<1>3. CASE Wait
  BY <1>0, <1>3 DEF Wait, histVars
<1>4. CASE Die
  BY <1>0, <1>4 DEF Die
<1>5. CASE DieUnstarted
  BY <1>0, <1>5 DEF DieUnstarted, callVars
<1>6. CASE Tick
  BY <1>0, <1>6 DEF Tick, callVars
<1>7. CASE UNCHANGED vars
  BY <1>0, <1>7 DEF vars, callVars, histVars
<1> QED
  BY <1>1, <1>2, <1>3, <1>4, <1>5, <1>6, <1>7 DEF Next, PumpStep

\* A step that keeps the lanes and takes nobody out of them keeps them fit.
LEMMA SameLanesFit ==
  ASSUME LanesFit, lane' = lane, Queued' \subseteq Queued, Waiting \subseteq Waiting'
  PROVE  LanesFit'
<1>1. ASSUME NEW w \in Lanes PROVE Fits(lane[w], w, Queued', Waiting')
  BY FewerFit DEF LanesFit
<1>2. LanesFit' = (/\ lane' = [w \in Lanes |-> lane'[w]]
                   /\ \A w \in Lanes : Fits(lane'[w], w, Queued', Waiting'))
  BY DEF LanesFit
<1> QED
  BY <1>1, <1>2 DEF LanesFit

\* So does one that empties the lanes when nobody waits any more.
LEMMA ClearedLanesFit ==
  ASSUME lane' = [w \in Lanes |-> <<>>], Queued' = {}
  PROVE  LanesFit'
<1>1. LanesFit' = (/\ lane' = [w \in Lanes |-> lane'[w]]
                   /\ \A w \in Lanes : Fits(lane'[w], w, Queued', Waiting'))
  BY DEF LanesFit
<1> QED
  BY <1>1, EmptyFits

\* A step keeps the lanes fit.
LEMMA StepLanes ==
  ASSUME LanesFit, state \in [Callers -> States], [Next]_vars PROVE LanesFit'
<1> DEFINE Kept(w) == Fits(lane'[w], w, Queued', Waiting')
<1>1. LanesFit' = (lane' = [w \in Lanes |-> lane'[w]] /\ \A w \in Lanes : Kept(w))
  BY DEF LanesFit
<1>2. ASSUME NEW c \in Callers, Acquire(c) PROVE LanesFit'
  <2>1. /\ c \notin Waiting /\ c \notin Queued
        /\ Queued' = Queued \cup {c} /\ Waiting' = Waiting \cup {c}
        /\ LaneOf(c) \in Lanes /\ lane' = [w \in Lanes |-> lane'[w]]
        /\ lane'[LaneOf(c)] = Append(lane[LaneOf(c)], c)
        /\ \A w \in Lanes : w # LaneOf(c) => lane'[w] = lane[w]
    BY <1>2 DEF Acquire, Queued, Waiting, LanesFit, LaneOf, Lanes, States
  <2>2. Kept(LaneOf(c))
    BY <2>1, JoinedFits DEF LanesFit
  <2>3. ASSUME NEW w \in Lanes, w # LaneOf(c) PROVE Kept(w)
    <3>1. Fits(lane[w], w, Queued, Waiting) /\ lane'[w] = lane[w]
      BY <2>1, <2>3 DEF LanesFit
    <3>2. Fits(lane[w], w, Queued \cup {c}, Waiting \cup {c})
      BY <2>3, <3>1 DEF Fits
    <3> QED
      BY <2>1, <3>1, <3>2
  <2> QED
    BY <1>1, <2>1, <2>2, <2>3
<1>3. ASSUME NEW c \in Callers, Cancel(c) PROVE LanesFit'
  BY <1>3, SameLanesFit DEF Cancel, Queued, Waiting
<1>4. ASSUME NEW c \in Callers, Leave(c) PROVE LanesFit'
  <2>1. /\ Queued' = Queued /\ c \notin Queued /\ Queued \subseteq Callers
        /\ Waiting \cap (Callers \ {c}) \subseteq Waiting'
        /\ LaneOf(c) \in Lanes /\ lane' = [w \in Lanes |-> lane'[w]]
        /\ lane'[LaneOf(c)] = Keep(lane[LaneOf(c)], Callers \ {c})
        /\ \A w \in Lanes : w # LaneOf(c) => lane'[w] = lane[w]
    BY <1>4 DEF Leave, Queued, Waiting, LanesFit, LaneOf, Lanes, States
  <2>2. Kept(LaneOf(c))
    <3>1. Queued' \in SUBSET (Queued \cap (Callers \ {c}))
      BY <2>1
    <3> QED
      BY <2>1, <3>1, KeptFit DEF LanesFit
  <2>3. ASSUME NEW w \in Lanes, w # LaneOf(c) PROVE Kept(w)
    <3>1. Fits(lane[w], w, Queued, Waiting) /\ lane'[w] = lane[w] /\ Queued' = Queued
      BY <2>1, <2>3 DEF LanesFit
    <3>2. \A x \in Waiting : LaneOf(x) = w => x \in Waiting'
      BY <2>1, <2>3 DEF Waiting
    <3>3. Fits(lane[w], w, Queued, Waiting')
      BY <3>1, <3>2 DEF Fits
    <3> QED
      BY <3>1, <3>3
  <2> QED
    BY <1>1, <2>1, <2>2, <2>3
<1>5. CASE Serve
  <2>1. CASE Queued = {}
    BY <1>5, <2>1, ClearedLanesFit DEF Serve, Queued
  <2>2. CASE Queued # {}
    <3>1. /\ Queued' = Queued \ {Pick[1]} /\ Waiting \cap (Queued \ {Pick[1]}) \subseteq Waiting'
          /\ lane' = [w \in Lanes |-> lane'[w]]
          /\ \A w \in Lanes : lane'[w] = Keep(lane[w], Queued \ {Pick[1]})
      <4>1. /\ state' = [state EXCEPT ![Pick[1]] = "served"]
            /\ lane' = [w \in Lanes |-> Keep(lane[w], Queued \ {Pick[1]})]
        BY <1>5, <2>2 DEF Serve
      <4> QED
        BY <4>1 DEF Queued, Waiting, States
    <3>2. ASSUME NEW w \in Lanes PROVE Kept(w)
      <4>1. Queued' \in SUBSET (Queued \cap (Queued \ {Pick[1]}))
        BY <3>1
      <4> QED
        BY <3>1, <4>1, KeptFit DEF LanesFit
    <3> QED
      BY <1>1, <3>1, <3>2
  <2> QED
    BY <2>1, <2>2
<1>6. CASE Wait
  <2>1. CASE Queued = {}
    BY <1>6, <2>1, ClearedLanesFit DEF Wait, Queued
  <2>2. CASE Queued # {}
    BY <1>6, <2>2, SameLanesFit DEF Wait, Queued, Waiting
  <2> QED
    BY <2>1, <2>2
<1>7. CASE Die
  <2>1. Queued' = {} /\ lane' = [w \in Lanes |-> <<>>]
    BY <1>7 DEF Die, Queued
  <2> QED
    BY <2>1, ClearedLanesFit
<1>8. CASE DieUnstarted \/ Tick \/ UNCHANGED vars
  BY <1>8, SameLanesFit DEF DieUnstarted, Tick, vars, callVars, Queued, Waiting
<1> QED
  BY <1>2, <1>3, <1>4, <1>5, <1>6, <1>7, <1>8 DEF Next, PumpStep

\* A step keeps what the clock tells of the last slot.
LEMMA StepClock ==
  ASSUME Inv, [Next]_vars PROVE ClockTells'
<1> USE DEF Inv, Types, ClockTells, Due
<1>1. CASE Serve /\ Queued # {}
  BY <1>1, Slot
<1>2. CASE Tick
  BY <1>2 DEF Tick
<1>3. ASSUME UNCHANGED <<ahead, gap>> PROVE ClockTells'
  BY <1>3
<1>4. CASE Serve /\ Queued = {}
  BY <1>3, <1>4 DEF Serve
<1>5. CASE Wait \/ Die \/ DieUnstarted \/ UNCHANGED vars
  BY <1>3, <1>5 DEF Wait, Die, DieUnstarted, vars, histVars
<1>6. ASSUME NEW c \in Callers, Acquire(c) \/ Cancel(c) \/ Leave(c) PROVE ClockTells'
  BY <1>3, <1>6 DEF Acquire, Cancel, Leave, histVars
<1> QED
  BY <1>1, <1>2, <1>4, <1>5, <1>6 DEF Next, PumpStep

\* A step strands nobody: the pump that leaves fails or has served them all.
LEMMA StepStrands ==
  ASSUME Inv, [Next]_vars PROVE NobodyIsStranded'
<1> USE DEF Inv, NobodyIsStranded
<1>1. ASSUME NEW c \in Callers, Acquire(c) PROVE NobodyIsStranded'
  BY <1>1 DEF Acquire
<1>2. ASSUME NEW c \in Callers, Cancel(c) \/ Leave(c) PROVE NobodyIsStranded'
  <2>1. Queued' \subseteq Queued
    BY <1>2 DEF Cancel, Leave, Queued, Types
  <2> QED
    BY <1>2, <2>1 DEF Cancel, Leave, histVars
<1>3. CASE Serve /\ Queued # {}
  <2>1. Queued' \subseteq Queued \ {Pick[1]}
    BY <1>3 DEF Serve, Queued, Types
  <2>2. pump' = IF Queued = {Pick[1]} THEN "none" ELSE "asleep"
    BY <1>3 DEF Serve
  <2> QED
    BY <2>1, <2>2
<1>4. CASE Serve /\ Queued = {}
  BY <1>4 DEF Serve, Queued
<1>5. CASE Wait
  BY <1>5 DEF Wait, Queued
<1>6. CASE Die
  BY <1>6 DEF Die, Queued
<1>7. CASE DieUnstarted
  BY <1>7 DEF DieUnstarted
<1>8. CASE Tick \/ UNCHANGED vars
  BY <1>8 DEF Tick, vars, callVars, histVars, Queued
<1> QED
  BY <1>1, <1>2, <1>3, <1>4, <1>5, <1>6, <1>7, <1>8 DEF Next, PumpStep

\* The callers' states and clocks are well typed, each lane holds its waiters,
\* the clock tells when the last slot was, and nobody waits without a pump, in
\* every reachable state.
THEOREM Invariance == Spec => []Inv
<1>1. Inv /\ [Next]_vars => Inv'
  <2> SUFFICES ASSUME Inv, [Next]_vars PROVE Inv'
    OBVIOUS
  <2>1. LanesFit'
    BY StepLanes DEF Inv, Types
  <2> QED
    BY <2>1, StepTypes, StepClock, StepStrands DEF Inv
<1> QED
  BY InitInv, <1>1, PTL DEF Spec

\* "THE PUMP CANNOT DIE QUIETLY": whoever waits has a pump that is going to
\* run, whatever ended the last one after its first step.
THEOREM NoneStranded == Spec => []NobodyIsStranded
  BY Invariance, PTL DEF Inv

\* "THE RATE DOES NOT CHANGE": a slot goes out no sooner than an interval after
\* the one before, whoever waits and however pumps come and go.
THEOREM SlotsAreApart == Spec => SlotsApart
<1> DEFINE
      Served == \E c \in Callers : state[c] = "queued" /\ state'[c] = "served"
<1>1. ASSUME Inv, [Next]_vars, Served PROVE gap = Interval
  <2> USE DEF Inv, Types
  <2>1. PICK c \in Callers : state[c] = "queued" /\ state'[c] = "served"
    BY <1>1
  <2>2. Serve
    <3>1. ~(Wait \/ DieUnstarted \/ Tick \/ UNCHANGED vars)
      BY <2>1 DEF Wait, DieUnstarted, Tick, vars, callVars
    <3>2. ~Die
      BY <2>1 DEF Die, Queued
    <3>3. ASSUME NEW d \in Callers PROVE ~(Acquire(d) \/ Cancel(d) \/ Leave(d))
      BY <1>1, <2>1 DEF Acquire, Cancel, Leave
    <3> QED
      BY <1>1, <3>1, <3>2, <3>3 DEF Next, PumpStep
  <2>3. ahead <= Due
    BY <2>2 DEF Serve
  <2> QED
    BY <1>1, <2>3 DEF ClockTells, Due
<1>2. ASSUME Inv, [Next]_vars PROVE [Served => gap = Interval]_vars
  BY <1>1, <1>2
<1> QED
  BY Invariance, <1>2, PTL DEF Spec, SlotsApart

\* "A waiter cancelled in the queue leaves the lane and is never charged a
\* slot": the clock is charged for a caller that is still waiting, whatever
\* done futures stand before it in the lanes.
THEOREM EachChargeIsServed == Spec => ChargedIsServed
<1> DEFINE Served == \E c \in Callers : state[c] = "queued" /\ state'[c] = "served"
<1>1. ASSUME Inv, [Next]_vars, ahead' > ahead PROVE Served
  <2>1. Types /\ LanesFit
    BY <1>1 DEF Inv
  <2>2. Serve /\ Queued # {}
    <3>1. ~(Wait \/ Die \/ DieUnstarted \/ Tick \/ UNCHANGED vars)
      BY <1>1, <2>1 DEF Wait, Die, DieUnstarted, Tick, vars, histVars, Types
    <3>2. ASSUME NEW d \in Callers PROVE ~(Acquire(d) \/ Cancel(d) \/ Leave(d))
      BY <1>1, <2>1 DEF Acquire, Cancel, Leave, Types
    <3>3. Serve
      BY <1>1, <3>1, <3>2 DEF Next, PumpStep
    <3>4. ~(Serve /\ Queued = {})
      BY <1>1, <2>1 DEF Serve, Types
    <3> QED
      BY <3>3, <3>4
  <2>3. Pick[1] \in Queued
    BY <2>1, <2>2, Picked DEF Types
  <2>4. state' = [state EXCEPT ![Pick[1]] = "served"]
    BY <2>2 DEF Serve
  <2> QED
    BY <2>1, <2>3, <2>4 DEF Queued, Types
<1>2. ASSUME Inv, [Next]_vars PROVE [ahead' > ahead => Served]_vars
  BY <1>1, <1>2
<1> QED
  BY Invariance, <1>2, PTL DEF Spec, ChargedIsServed

-----------------------------------------------------------------------------
(* Whose turn it is                                                         *)

\* Normal callers that wait, and those of them before c.
Normal == Queued \cap Others
AheadOf(c) == {d \in Normal : Before(lane["normal"], d, c)}

Counters ==
    /\ passed \in [Callers -> 0..(Burst * Cardinality(Others) + 1)]
    /\ front \in [Callers -> 0..Cardinality(Others)]

\* What may still pass a normal caller: a burst for each one before it, and
\* what is left of the present one.
WaitsItsTurn ==
    /\ \A c \in Callers : c \notin Normal => passed[c] = 0
    /\ \A c \in Normal :
           passed[c] + Burst * Cardinality(AheadOf(c)) <= Burst * front[c] + burst

TurnInv == Inv /\ Counters /\ WaitsItsTurn

\* Sets of normal callers are finite and counted by their inclusion.
LEMMA NormalSize ==
  ASSUME IsFiniteSet(Others)
  PROVE  /\ \A S \in SUBSET Others : /\ IsFiniteSet(S) /\ Cardinality(S) \in Nat
                                      /\ Cardinality(S) <= Cardinality(Others)
         /\ \A S \in SUBSET Others, R \in SUBSET Others :
              R \subseteq S => Cardinality(R) <= Cardinality(S)
         /\ \A S \in SUBSET Others, R \in SUBSET Others, d \in Others :
              d \in S /\ R \subseteq S \ {d} => Cardinality(R) <= Cardinality(S) - 1
  BY FS_Subset, FS_CardinalityType, FS_RemoveElement

\* A burst more or less for each caller.
LEMMA Bursts ==
  ASSUME NEW m \in Nat, NEW n \in Nat
  PROVE  /\ Burst * m \in Nat
         /\ m <= n => Burst * m <= Burst * n
         /\ m <= n - 1 => Burst * m + Burst <= Burst * n
<1>1. Burst \in Nat
  BY ParametersAssumption
<1> QED
  BY <1>1, SMT

\* A step whose normal waiters are no more, whose order is the same and whose
\* counters stand still keeps their turns.
LEMMA SameTurns ==
  ASSUME IsFiniteSet(Others), Types, Counters, WaitsItsTurn,
         Normal' \subseteq Normal,
         \A d, c \in Normal' : Before(lane'["normal"], d, c) => Before(lane["normal"], d, c),
         burst' = burst,
         \A c \in Callers : passed'[c] = IF c \in Normal' THEN passed[c] ELSE 0,
         \A c \in Normal' : front'[c] = front[c]
  PROVE  WaitsItsTurn'
<1>1. ASSUME NEW c \in Normal'
      PROVE  passed'[c] + Burst * Cardinality(AheadOf(c)') <= Burst * front'[c] + burst'
  <2>1. /\ AheadOf(c) \in SUBSET Others /\ AheadOf(c)' \in SUBSET Others
        /\ AheadOf(c)' \subseteq AheadOf(c)
    BY DEF AheadOf, Normal
  <2> DEFINE m == Cardinality(AheadOf(c)')
             n == Cardinality(AheadOf(c))
  <2>2. m \in Nat /\ n \in Nat /\ m <= n
    BY <2>1, NormalSize
  <2> HIDE DEF m, n
  <2>3. Burst * m <= Burst * n /\ Burst * m \in Nat /\ Burst * n \in Nat
    BY <2>2, Bursts
  <2>4. c \in Normal /\ c \in Callers
    BY DEF Normal, Queued
  <2>5. passed[c] \in Nat /\ front[c] \in Nat /\ burst \in Nat /\ Burst * front[c] \in Nat
    BY <2>4, Bursts DEF Types, Counters
  <2>6. passed[c] + Burst * n <= Burst * front[c] + burst
    BY <2>4 DEF WaitsItsTurn, n
  <2>7. passed'[c] = passed[c] /\ front'[c] = front[c]
    BY <2>4
  <2>8. passed[c] + Burst * m <= Burst * front[c] + burst
    BY <2>3, <2>5, <2>6
  <2> QED
    BY <2>7, <2>8 DEF m
<1>2. \A c \in Callers : c \notin Normal' => passed'[c] = 0
  OBVIOUS
<1> QED
  BY <1>1, <1>2 DEF WaitsItsTurn

\* A step keeps the counters within their bounds.
LEMMA StepCounters ==
  ASSUME IsFiniteSet(Others), TurnInv, [Next]_vars PROVE Counters'
<1> DEFINE N == Cardinality(Others)
<1>1. N \in Nat /\ Burst \in Nat /\ Cardinality(Normal) \in 0..N /\ Burst * N \in Nat
  <2>1. N \in Nat
    BY FS_CardinalityType
  <2> QED
    BY <2>1, NormalSize, Bursts, ParametersAssumption DEF Normal
<1> HIDE DEF N
<1>2. Counters <=> /\ passed \in [Callers -> 0..(Burst * N + 1)]
                   /\ front \in [Callers -> 0..N]
  BY DEF Counters, N
<1>3. Counters' <=> /\ passed' \in [Callers -> 0..(Burst * N + 1)]
                    /\ front' \in [Callers -> 0..N]
  BY DEF Counters, N
<1>4. LanesFit /\ Counters /\ burst \in 0..Burst
  BY DEF TurnInv, Inv, Types
<1>5. ASSUME NEW c \in Callers, Acquire(c) \/ Cancel(c) \/ Leave(c) PROVE Counters'
  <2>1. CASE Acquire(c)
    BY <1>1, <1>2, <1>3, <1>4, <2>1 DEF Acquire, Normal
  <2>2. CASE Cancel(c)
    BY <1>1, <1>2, <1>3, <1>4, <2>2 DEF Cancel, Forget
  <2>3. CASE Leave(c)
    BY <1>2, <1>3, <1>4, <2>3 DEF Leave, histVars
  <2> QED
    BY <1>5, <2>1, <2>2, <2>3
<1>6. CASE Serve
  <2>1. CASE Queued = {}
    BY <1>2, <1>3, <1>4, <1>6, <2>1 DEF Serve
  <2>2. CASE Queued # {}
    <3>1. Pick[1] \in Queued
      BY <1>4, <2>2, Picked
    <3>2. /\ front' = [front EXCEPT ![Pick[1]] = 0]
          /\ passed' = [d \in Callers |->
                          IF d = Pick[1] THEN 0
                          ELSE IF Pick[1] \in Money /\ d \in Queued \cap Others THEN OneMore(passed[d])
                          ELSE passed[d]]
      BY <1>6, <2>2 DEF Serve
    <3>3. ASSUME NEW d \in Callers PROVE OneMore(passed[d]) \in 0..(Burst * N + 1)
      <4>1. passed[d] \in 0..(Burst * N + 1)
        BY <1>2, <1>4
      <4>2. OneMore(passed[d]) = IF passed[d] > Burst * N THEN passed[d] ELSE passed[d] + 1
        BY DEF OneMore, N
      <4> QED
        BY <1>1, <4>1, <4>2
    <3>4. passed' \in [Callers -> 0..(Burst * N + 1)]
      <4>1. 0 \in 0..(Burst * N + 1)
        BY <1>1
      <4> QED
        BY <1>2, <1>4, <3>2, <3>3, <4>1
    <3>5. front' \in [Callers -> 0..N]
      <4>1. 0 \in 0..N /\ front \in [Callers -> 0..N]
        BY <1>1, <1>2, <1>4
      <4> QED
        BY <3>2, <4>1
    <3> QED
      BY <1>3, <3>4, <3>5
  <2> QED
    BY <2>1, <2>2
<1>7. CASE Die
  BY <1>1, <1>2, <1>3, <1>4, <1>7 DEF Die, Forget
<1>8. CASE Wait \/ DieUnstarted \/ Tick \/ UNCHANGED vars
  BY <1>2, <1>3, <1>4, <1>8 DEF Wait, DieUnstarted, Tick, vars, callVars, histVars
<1> QED
  BY <1>5, <1>6, <1>7, <1>8 DEF Next, PumpStep

\* A slot keeps the turns: a priority one uses up a part of the burst, a normal
\* one takes the caller that is before all the others.
LEMMA ServeTurns ==
  ASSUME IsFiniteSet(Others), TurnInv, Serve, Queued # {} PROVE WaitsItsTurn'
<1> DEFINE h == Pick[1]
<1>1. /\ Types /\ LanesFit /\ Counters /\ WaitsItsTurn
      /\ h \in Queued /\ Pick[2] \in 0..Burst
      /\ h \in Money /\ Normal # {} => Pick[2] = burst + 1
      /\ h \in Others => Pick[2] = 0 /\ \A c \in Normal : c # h => Before(lane["normal"], h, c)
  BY Picked DEF TurnInv, Inv, Types, Normal
<1>2. /\ state' = [state EXCEPT ![h] = "served"]
      /\ burst' = Pick[2]
      /\ front' = [front EXCEPT ![h] = 0]
      /\ passed' = [d \in Callers |->
                      IF d = h THEN 0
                      ELSE IF h \in Money /\ d \in Normal THEN OneMore(passed[d])
                      ELSE passed[d]]
      /\ \A w \in Lanes : lane'[w] = Keep(lane[w], Queued \ {h})
  <2>1. /\ state' = [state EXCEPT ![h] = "served"] /\ burst' = Pick[2]
        /\ front' = [front EXCEPT ![h] = 0]
    BY DEF Serve
  <2>2. lane' = [w \in Lanes |-> Keep(lane[w], Queued \ {h})]
    BY DEF Serve
  <2>3. passed' = [d \in Callers |->
                     IF d = h THEN 0
                     ELSE IF h \in Money /\ d \in Queued \cap Others THEN OneMore(passed[d])
                     ELSE passed[d]]
    BY DEF Serve
  <2> HIDE DEF h
  <2> QED
    BY <2>1, <2>2, <2>3 DEF Normal
<1> HIDE DEF h
<1>3. /\ Queued' = Queued \ {h} /\ Normal' = Normal \ {h}
      /\ Normal \subseteq Callers /\ h \in Callers
  BY <1>1, <1>2 DEF Queued, Normal, Types
<1>4. \A d, c : Before(lane'["normal"], d, c) => Before(lane["normal"], d, c)
  <2>1. "normal" \in Lanes /\ lane["normal"] \in Seq(Callers)
    BY <1>1 DEF LanesFit, Fits, Lanes
  <2> QED
    BY <1>2, <2>1, KeptInOrder
<1>5. ASSUME NEW c \in Normal'
      PROVE  passed'[c] + Burst * Cardinality(AheadOf(c)') <= Burst * front'[c] + burst'
  <2> DEFINE m == Cardinality(AheadOf(c)')
             n == Cardinality(AheadOf(c))
  <2>1. /\ AheadOf(c) \in SUBSET Others /\ AheadOf(c)' \in SUBSET Others
        /\ AheadOf(c)' \subseteq AheadOf(c) \ {h}
    BY <1>3, <1>4 DEF AheadOf, Normal
  <2>2. c \in Normal /\ c # h /\ c \in Callers
    BY <1>3
  <2>3. m \in Nat /\ n \in Nat /\ m <= n
    BY <2>1, NormalSize
  <2>4. h \in Others => m <= n - 1
    <3>1. h \in Others => h \in AheadOf(c)
      BY <1>1, <2>2 DEF AheadOf, Normal
    <3> QED
      BY <2>1, <3>1, NormalSize
  <2>5. passed[c] + Burst * n <= Burst * front[c] + burst /\ front'[c] = front[c]
    BY <1>1, <1>2, <2>2 DEF WaitsItsTurn, Counters
  <2> HIDE DEF m, n
  <2>6. /\ passed[c] \in Nat /\ front[c] \in Nat /\ burst \in 0..Burst
        /\ Burst \in Nat /\ Burst * front[c] \in Nat
        /\ Burst * m \in Nat /\ Burst * n \in Nat /\ Burst * m <= Burst * n
    BY <1>1, <2>2, <2>3, Bursts DEF Types, Counters
  <2>7. CASE h \in Others
    <3>1. passed'[c] = passed[c] /\ burst' = 0
      BY <1>1, <1>2, <2>2, <2>7, LanesAssumption
    <3>2. Burst * m + Burst <= Burst * n
      BY <2>3, <2>4, <2>7, Bursts
    <3>3. passed[c] + Burst * m <= Burst * front[c]
      BY <2>5, <2>6, <3>2
    <3> QED
      BY <2>5, <2>6, <3>1, <3>3 DEF m
  <2>8. CASE h \in Money
    <3>1. passed'[c] = OneMore(passed[c]) /\ burst' = burst + 1
      BY <1>1, <1>2, <2>2, <2>8
    <3>2. passed'[c] \in Nat /\ passed'[c] <= passed[c] + 1
      BY <2>6, <3>1 DEF OneMore
    <3>3. passed'[c] + Burst * m <= Burst * front[c] + burst + 1
      BY <2>5, <2>6, <3>2
    <3> QED
      BY <2>5, <2>6, <3>1, <3>3 DEF m
  <2> QED
    BY <1>1, <1>3, <2>7, <2>8 DEF Callers
<1>6. ASSUME NEW c \in Callers, c \notin Normal' PROVE passed'[c] = 0
  BY <1>1, <1>2, <1>3, <1>6 DEF WaitsItsTurn
<1> QED
  BY <1>5, <1>6 DEF WaitsItsTurn

\* A caller that joins has all the normal ones before it, and nobody behind it.
LEMMA AcquireTurns ==
  ASSUME IsFiniteSet(Others), TurnInv, NEW c \in Callers, Acquire(c) PROVE WaitsItsTurn'
<1> DEFINE q == lane["normal"]
<1>1. /\ Types /\ LanesFit /\ Counters /\ WaitsItsTurn
      /\ c \notin Queued /\ c \notin Waiting /\ Queued' = Queued \cup {c}
      /\ front' = [front EXCEPT ![c] = Cardinality(Normal)]
      /\ burst' = burst /\ passed' = passed
  BY DEF TurnInv, Inv, Types, Acquire, Queued, Waiting, Normal
<1>2. c \in Others => /\ LaneOf(c) = "normal" /\ lane'["normal"] = Append(q, c)
                      /\ Fits(q, "normal", Queued, Waiting)
  BY <1>1, LanesAssumption DEF Acquire, LaneOf, Lanes, LanesFit
<1>3. c \notin Others => lane'["normal"] = q
  BY <1>1 DEF Acquire, LaneOf, Lanes, LanesFit, Callers
<1>4. c \in Others => /\ \A d : ~Before(lane'["normal"], c, d)
                      /\ \A d, e : e # c /\ Before(lane'["normal"], d, e) => Before(q, d, e)
  <2>1. SUFFICES ASSUME c \in Others
                 PROVE  /\ \A d : ~Before(Append(q, c), c, d)
                        /\ \A d, e : e # c /\ Before(Append(q, c), d, e) => Before(q, d, e)
    BY <1>2
  <2>2. Fits(q, LaneOf(c), Queued, Waiting)
    BY <1>2, <2>1
  <2> HIDE DEF q
  <2> QED
    BY <1>1, <2>2, JoinedFits
<1>5. /\ Normal' = IF c \in Others THEN Normal \cup {c} ELSE Normal
      /\ c \notin Normal /\ Normal \subseteq Callers
  BY <1>1 DEF Normal, Queued
<1>6. ASSUME NEW d \in Normal'
      PROVE  passed'[d] + Burst * Cardinality(AheadOf(d)') <= Burst * front'[d] + burst'
  <2> DEFINE m == Cardinality(AheadOf(d)')
  <2>1. /\ AheadOf(d)' \in SUBSET Others /\ AheadOf(d) \in SUBSET Others
        /\ Normal \in SUBSET Others
    BY DEF AheadOf, Normal
  <2>2. m \in Nat /\ Burst * m \in Nat /\ burst \in Nat
    BY <1>1, <2>1, NormalSize, Bursts DEF Types
  <2>3. CASE d = c
    <3>1. AheadOf(d)' \subseteq Normal
      BY <1>4, <1>5 DEF AheadOf
    <3>2. m <= Cardinality(Normal) /\ Cardinality(Normal) \in Nat
      BY <2>1, <3>1, NormalSize
    <3>3. passed'[d] = 0 /\ front'[d] = Cardinality(Normal)
      BY <1>1, <1>5, <2>3 DEF WaitsItsTurn, Counters
    <3> HIDE DEF m
    <3>4. Burst * m <= Burst * Cardinality(Normal) /\ Burst * Cardinality(Normal) \in Nat
      BY <2>2, <3>2, Bursts
    <3> QED
      BY <1>1, <2>2, <3>3, <3>4 DEF m
  <2>4. CASE d # c
    <3>1. d \in Normal /\ d \in Callers
      BY <1>5, <2>4
    <3>2. AheadOf(d)' \subseteq AheadOf(d)
      BY <1>3, <1>4, <1>5, <2>4 DEF AheadOf
    <3> DEFINE n == Cardinality(AheadOf(d))
    <3>3. m <= n /\ n \in Nat
      BY <2>1, <3>2, NormalSize
    <3>4. passed[d] + Burst * n <= Burst * front[d] + burst /\ passed[d] \in Nat /\ front[d] \in Nat
      BY <1>1, <3>1 DEF WaitsItsTurn, Counters
    <3>5. passed'[d] = passed[d] /\ front'[d] = front[d]
      BY <1>1, <2>4, <3>1 DEF Counters
    <3> HIDE DEF m, n
    <3>6. Burst * m <= Burst * n /\ Burst * n \in Nat /\ Burst * front[d] \in Nat
      BY <2>2, <3>3, <3>4, Bursts
    <3> QED
      BY <1>1, <2>2, <3>4, <3>5, <3>6 DEF m
  <2> QED
    BY <2>3, <2>4
<1>7. ASSUME NEW d \in Callers, d \notin Normal' PROVE passed'[d] = 0
  BY <1>1, <1>5, <1>7 DEF WaitsItsTurn
<1> QED
  BY <1>6, <1>7 DEF WaitsItsTurn

\* A step keeps the turns.
LEMMA StepTurns ==
  ASSUME IsFiniteSet(Others), TurnInv, [Next]_vars PROVE WaitsItsTurn'
<1>1. Types /\ LanesFit /\ Counters /\ WaitsItsTurn /\ Normal \subseteq Callers
  BY DEF TurnInv, Inv, Normal, Queued
<1>2. ASSUME NEW c \in Callers, Cancel(c) PROVE WaitsItsTurn'
  <2>1. Normal' = Normal \ {c}
    BY <1>1, <1>2 DEF Cancel, Normal, Queued, Types
  <2>2. /\ burst' = burst /\ lane' = lane
        /\ \A d \in Callers : passed'[d] = IF d \in Normal' THEN passed[d] ELSE 0
        /\ \A d \in Normal' : front'[d] = front[d]
    BY <1>1, <1>2, <2>1 DEF Cancel, Forget, WaitsItsTurn
  <2> QED
    BY <1>1, <2>1, <2>2, SameTurns
<1>3. ASSUME NEW c \in Callers, Leave(c) PROVE WaitsItsTurn'
  <2>1. Normal' = Normal /\ burst' = burst /\ passed' = passed /\ front' = front
    BY <1>1, <1>3 DEF Leave, Normal, Queued, Types, histVars
  <2>2. \A d, e : Before(lane'["normal"], d, e) => Before(lane["normal"], d, e)
    <3>1. /\ "normal" \in Lanes /\ lane["normal"] \in Seq(Callers)
          /\ \/ lane'["normal"] = lane["normal"]
             \/ lane'["normal"] = Keep(lane["normal"], Callers \ {c})
      BY <1>1, <1>3 DEF Leave, LanesFit, Fits, Lanes
    <3> QED
      BY <3>1, KeptInOrder
  <2>3. \A d \in Callers : passed'[d] = IF d \in Normal' THEN passed[d] ELSE 0
    BY <1>1, <2>1 DEF WaitsItsTurn
  <2> QED
    BY <1>1, <2>1, <2>2, <2>3, SameTurns
<1>4. CASE Serve /\ Queued = {}
  <2>1. Normal' = {} /\ passed' = passed /\ Normal = {}
    BY <1>4 DEF Serve, Normal, Queued
  <2> QED
    BY <1>1, <2>1 DEF WaitsItsTurn
<1>5. CASE Wait
  <2>1. /\ Normal' = Normal /\ UNCHANGED <<burst, passed, front>>
        /\ Normal # {} => lane' = lane
    BY <1>5 DEF Wait, Normal, Queued, histVars
  <2>2. \A d \in Callers : passed'[d] = IF d \in Normal' THEN passed[d] ELSE 0
    BY <1>1, <2>1 DEF WaitsItsTurn
  <2> QED
    BY <1>1, <2>1, <2>2, SameTurns
<1>6. CASE Die
  <2>1. Normal' = {} /\ \A d \in Callers : passed'[d] = 0
    BY <1>1, <1>6 DEF Die, Forget, Normal, Queued, WaitsItsTurn
  <2> QED
    BY <2>1 DEF WaitsItsTurn
<1>7. CASE DieUnstarted \/ Tick \/ UNCHANGED vars
  <2>1. Normal' = Normal /\ UNCHANGED <<lane, burst, passed, front>>
    BY <1>7 DEF DieUnstarted, Tick, vars, callVars, histVars, Normal, Queued
  <2>2. \A d \in Callers : passed'[d] = IF d \in Normal' THEN passed[d] ELSE 0
    BY <1>1, <2>1 DEF WaitsItsTurn
  <2> QED
    BY <1>1, <2>1, <2>2, SameTurns
<1> QED
  BY <1>2, <1>3, <1>4, <1>5, <1>6, <1>7, AcquireTurns, ServeTurns DEF Next, PumpStep

\* With finitely many normal callers each waits its turn, in every reachable
\* state.
THEOREM TurnInvariance ==
  ASSUME IsFiniteSet(Others) PROVE Spec => []TurnInv
<1>1. Init => TurnInv
  <2> SUFFICES ASSUME Init PROVE TurnInv
    OBVIOUS
  <2>1. Normal = {} /\ passed = [c \in Callers |-> 0] /\ front = [c \in Callers |-> 0]
    BY DEF Init, Normal, Queued
  <2>2. Counters
    <3>1. Cardinality(Others) \in Nat
      BY FS_CardinalityType
    <3>2. 0 \in 0..(Burst * Cardinality(Others) + 1) /\ 0 \in 0..Cardinality(Others)
      BY <3>1, Bursts
    <3> QED
      BY <2>1, <3>2 DEF Counters
  <2> QED
    BY <2>1, <2>2, InitInv DEF TurnInv, WaitsItsTurn
<1>2. TurnInv /\ [Next]_vars => TurnInv'
  <2> SUFFICES ASSUME TurnInv, [Next]_vars PROVE TurnInv'
    OBVIOUS
  <2>1. Inv'
    BY StepTypes, StepLanes, StepClock, StepStrands DEF TurnInv, Inv, Types
  <2> QED
    BY <2>1, StepCounters, StepTurns DEF TurnInv
<1> QED
  BY <1>1, <1>2, PTL DEF Spec

\* Every variable keeps its type, and a lane holds the futures of its own
\* callers, each once, and every one that is not done.
THEOREM TypesHold ==
  ASSUME IsFiniteSet(Others) PROVE Spec => []TypeOK
<1>1. TurnInv => TypeOK
  <2> SUFFICES ASSUME TurnInv PROVE TypeOK
    OBVIOUS
  <2>1. Types /\ LanesFit /\ Counters
    BY DEF TurnInv, Inv
  <2>2. lane \in [Lanes -> Seq(Callers)]
    BY <2>1 DEF LanesFit, Fits
  <2>3. ASSUME NEW w \in Lanes
        PROVE  /\ IsInjective(lane[w])
               /\ ToSet(lane[w]) \subseteq
                      {c \in Callers : LaneOf(c) = w /\ state[c] \in {"queued", "cancelled"}}
    <3>1. Fits(lane[w], w, Queued, Waiting) /\ DOMAIN lane[w] = 1..Len(lane[w])
      BY <2>1, <2>2 DEF LanesFit
    <3>2. IsInjective(lane[w])
      BY <3>1 DEF Fits, IsInjective
    <3> QED
      BY <3>1, <3>2 DEF Fits, ToSet, Waiting
  <2>4. ASSUME NEW c \in Queued PROVE c \in ToSet(lane[LaneOf(c)])
    <3>1. LaneOf(c) \in Lanes
      BY DEF LaneOf, Lanes
    <3> QED
      BY <2>1, <2>2, <3>1 DEF LanesFit, Fits, ToSet
  <2> QED
    BY <2>1, <2>2, <2>3, <2>4 DEF TypeOK, Types, States, Counters
<1> QED
  BY <1>1, TurnInvariance, PTL

\* "STARVATION BOUND": a normal caller lets no more priority slots pass than a
\* burst for each normal caller before it and one for itself, however callers
\* come, time out and come back.
THEOREM StarvationIsBounded ==
  ASSUME IsFiniteSet(Others) PROVE Spec => []StarvationBound
<1>1. TurnInv => StarvationBound
  <2> SUFFICES ASSUME TurnInv, NEW c \in Normal PROVE passed[c] <= Burst * (front[c] + 1)
    BY DEF StarvationBound, Normal
  <2> DEFINE n == Cardinality(AheadOf(c))
  <2>1. c \in Callers /\ AheadOf(c) \in SUBSET Others
    BY DEF Normal, Queued, AheadOf
  <2>2. passed[c] + Burst * n <= Burst * front[c] + burst
    BY DEF TurnInv, WaitsItsTurn
  <2>3. n \in Nat /\ passed[c] \in Nat /\ front[c] \in Nat /\ burst \in 0..Burst
    BY <2>1, NormalSize DEF TurnInv, Inv, Types, Counters
  <2> HIDE DEF n
  <2>4. /\ Burst * n \in Nat /\ Burst * front[c] \in Nat
        /\ Burst * (front[c] + 1) = Burst * front[c] + Burst
    BY <2>3, Bursts
  <2> QED
    BY <2>2, <2>3, <2>4
<1> QED
  BY <1>1, TurnInvariance, PTL
=============================================================================
