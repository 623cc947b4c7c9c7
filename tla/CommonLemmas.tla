---------------------------- MODULE CommonLemmas ----------------------------
(***************************************************************************)
(* The facts about finite sets that reference counts rest on, about least  *)
(* numbers that searches rest on, and about loops over a sequence.         *)
(***************************************************************************)
EXTENDS Integers, FiniteSets, FiniteSetTheorems, WellFoundedInduction, TLAPS

\* What the cardinality of a finite set does when an element comes or goes;
\* the counters of the runtime (strong, weak,
\* senders, receivers, waiting_receivers) are compared with it.
LEMMA CardinalityStep ==
    ASSUME NEW S, IsFiniteSet(S)
    PROVE  /\ Cardinality(S) \in Nat
           /\ Cardinality(S) = 0 <=> S = {}
           /\ \A x : x \notin S => Cardinality(S \cup {x}) = Cardinality(S) + 1
           /\ \A x \in S : Cardinality(S \ {x}) = Cardinality(S) - 1
<1>1. Cardinality(S) \in Nat
  BY FS_CardinalityType
<1>2. Cardinality(S) = 0 <=> S = {}
  BY FS_EmptySet
<1>3. ASSUME NEW x, x \notin S
      PROVE  Cardinality(S \cup {x}) = Cardinality(S) + 1
  BY <1>3, FS_AddElement
<1>4. ASSUME NEW x \in S
      PROVE  Cardinality(S \ {x}) = Cardinality(S) - 1
  BY FS_RemoveElement
<1> QED
  BY <1>1, <1>2, <1>3, <1>4

\* Numbers that satisfy a test have a least one: the search of the registry for
\* a node and of a store's slots for one to reuse end at the first.
LEMMA FirstIndex ==
    ASSUME NEW S, S \subseteq Nat, S # {}
    PROVE  \E i \in S : \A j \in S : i <= j
<1> DEFINE Below(i) == 0..i
           T == {Below(i) : i \in S}
<1>1. T \subseteq FiniteSubsetsOf(Nat) /\ T # {}
  <2>1. \A i \in S : Below(i) \subseteq Nat /\ IsFiniteSet(Below(i))
    BY FS_Interval
  <2> QED
    BY <2>1 DEF FiniteSubsetsOf
<1>2. IsWellFoundedOn(StrictSubsetOrdering(Nat), FiniteSubsetsOf(Nat))
  BY FS_StrictSubsetOrderingWellFounded
<1>3. \E x \in T : \A y \in T : ~(<<y, x>> \in StrictSubsetOrdering(Nat))
  <2> HIDE DEF T
  <2> QED
    BY <1>1, <1>2, WFMin
<1>4. PICK i \in S : \A y \in T : ~(<<y, Below(i)>> \in StrictSubsetOrdering(Nat))
  BY <1>3
<1>5. ASSUME NEW j \in S, j < i PROVE FALSE
  <2>1. Below(j) \in T /\ ~(<<Below(j), Below(i)>> \in StrictSubsetOrdering(Nat))
    BY <1>4
  <2>2. Below(j) \subseteq Below(i) /\ i \in Below(i) /\ i \notin Below(j)
    BY <1>5
  <2>3. Below(j) \in SUBSET Nat /\ Below(i) \in SUBSET Nat
    OBVIOUS
  <2> QED
    BY <2>1, <2>2, <2>3 DEF StrictSubsetOrdering
<1> QED
  BY <1>5

\* What holds of the first n numbers whenever it holds of all before them
\* holds up to N: the induction by which chains and loops are reasoned about.
LEMMA InductionUpTo ==
    ASSUME NEW N \in Nat, NEW S,
           \A n \in 0..N : (\A m \in 0..(n - 1) : m \in S) => n \in S
    PROVE  \A n \in 0..N : n \in S
<1> DEFINE Missing == {n \in 0..N : n \notin S}
<1> SUFFICES ASSUME Missing # {} PROVE FALSE
  OBVIOUS
<1>1. PICK i \in Missing : \A j \in Missing : i <= j
  <2>1. Missing \subseteq Nat
    OBVIOUS
  <2> HIDE DEF Missing
  <2> QED
    BY <2>1, FirstIndex
<1>2. \A m \in 0..(i - 1) : m \in S
  BY <1>1
<1> QED
  BY <1>1, <1>2

\* g is the sequence of states of a loop of N turns with bodies F from base.
IsLoop(g, N, base, F) == g[0] = base /\ \A n \in 1..N : g[n] = F[n][g[n - 1]]
LoopRuns(N, S, base, F) == \E g : IsLoop(g, N, base, F) /\ \A n \in 0..N : g[n] \in S[n]

\* A loop of N turns, each of which takes the states allowed before it to those
\* allowed after it, has such a sequence: the recursive function that defines
\* it exists.
LEMMA Iteration ==
    ASSUME NEW N \in Nat, NEW S, NEW base \in S[0],
           NEW F, \A n \in 1..N : F[n] \in [S[n - 1] -> S[n]]
    PROVE  LoopRuns(N, S, base, F)
<1> DEFINE Upto(n, g) == /\ DOMAIN g = 0..n /\ g[0] = base
                         /\ \A m \in 0..n : g[m] \in S[m]
                         /\ \A m \in 1..n : g[m] = F[m][g[m - 1]]
           Done == {n \in 0..N : \E g : Upto(n, g)}
<1>1. ASSUME NEW n \in 0..N, \A m \in 0..(n - 1) : m \in Done
      PROVE  n \in Done
  <2>1. CASE n = 0
    <3>1. Upto(0, [m \in 0..0 |-> base])
      OBVIOUS
    <3> QED
      BY <2>1, <3>1
  <2>2. CASE n # 0
    <3>1. n - 1 \in Done
      <4> HIDE DEF Done
      <4> QED
        BY <1>1, <2>2
    <3>2. PICK g : Upto(n - 1, g)
      BY <3>1
    <3> DEFINE h == [m \in 0..n |-> IF m = n THEN F[n][g[n - 1]] ELSE g[m]]
    <3>3. F[n][g[n - 1]] \in S[n]
      <4>1. n \in 1..N /\ n - 1 \in 0..(n - 1)
        BY <2>2
      <4>2. F[n] \in [S[n - 1] -> S[n]] /\ g[n - 1] \in S[n - 1]
        BY <3>2, <4>1
      <4> QED
        BY <4>2
    <3>4. DOMAIN h = 0..n /\ h[0] = base /\ \A m \in 0..n : h[m] \in S[m]
      BY <2>2, <3>2, <3>3
    <3>5. ASSUME NEW m \in 1..n PROVE h[m] = F[m][h[m - 1]]
      BY <2>2, <3>2
    <3>6. Upto(n, h)
      BY <3>4, <3>5
    <3> QED
      BY <3>6
  <2> QED
    BY <2>1, <2>2
<1>2. N \in Done
  <2> HIDE DEF Done
  <2>1. \A n \in 0..N : n \in Done
    BY <1>1, InductionUpTo
  <2> QED
    BY <2>1
<1>3. PICK g : Upto(N, g)
  BY <1>2
<1> QED
  BY <1>3 DEF LoopRuns, IsLoop

\* What every turn of a loop keeps, holds after each.
LEMMA LoopKeeps ==
    ASSUME NEW N \in Nat, NEW S, NEW g, g[0] \in S[0],
           \A n \in 1..N : g[n - 1] \in S[n - 1] => g[n] \in S[n]
    PROVE  \A n \in 0..N : g[n] \in S[n]
<1> DEFINE Kept == {n \in 0..N : g[n] \in S[n]}
<1>1. ASSUME NEW n \in 0..N, \A m \in 0..(n - 1) : m \in Kept
      PROVE  n \in Kept
  <2>1. CASE n = 0
    BY <2>1
  <2>2. CASE n # 0
    <3>1. n \in 1..N /\ n - 1 \in 0..(n - 1)
      BY <2>2
    <3>2. n - 1 \in Kept
      <4> HIDE DEF Kept
      <4> QED
        BY <1>1, <3>1
    <3> QED
      BY <3>1, <3>2
  <2> QED
    BY <2>1, <2>2
<1>2. \A n \in 0..N : n \in Kept
  <2> HIDE DEF Kept
  <2> QED
    BY <1>1, InductionUpTo
<1> QED
  BY <1>2
=============================================================================
