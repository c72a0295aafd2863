--------------------------- MODULE DataInduction ---------------------------
(***************************************************************************)
(* Induction for data.  The induction theorems of the library take the     *)
(* property as an operator; here it is the set of the values that have it, *)
(* and the step of a recursion is a function.                              *)
(***************************************************************************)
EXTENDS Integers, WellFoundedInduction, TLAPS

\* A set of natural numbers has a least element.
LEMMA LeastNumber ==
  ASSUME NEW S \in SUBSET Nat, S # {}
  PROVE  \E n \in S : \A m \in S : n <= m
<1> DEFINE Less == {ss \in Nat \X Nat : ss[1] < ss[2]}
<1>1. IsWellFoundedOn(Less, Nat)
  BY NatLessThanWellFounded DEF OpToRel
<1>2. PICK x \in S : \A y \in S : <<y, x>> \notin Less
  <2> HIDE DEF Less
  <2> QED BY <1>1, WFMin
<1>3. \A y \in S : ~(y < x)
  BY <1>2
<1> QED BY <1>3

\* What holds for 0, and for n + 1 if it holds for n, holds for every number.
LEMMA NumberInduction ==
  ASSUME NEW S, 0 \in S, \A n \in Nat : n \in S => n + 1 \in S
  PROVE  Nat \subseteq S
<1> DEFINE Without == Nat \ S
<1>1. SUFFICES ASSUME Without # {} PROVE FALSE
  OBVIOUS
<1>2. PICK n \in Without : \A m \in Without : n <= m
  BY <1>1, LeastNumber
<1>3. n # 0 /\ n - 1 \in Nat /\ n - 1 \in S
  BY <1>2
<1> QED BY <1>2, <1>3

\* The same up to a bound.
LEMMA BoundedInduction ==
  ASSUME NEW N \in Nat, NEW S, 0 \in S, \A n \in 0 .. (N - 1) : n \in S => n + 1 \in S
  PROVE  0 .. N \subseteq S
<1> DEFINE T == S \union {n \in Nat : n > N}
<1>1. 0 \in T
  OBVIOUS
<1>2. ASSUME NEW n \in Nat, n \in T PROVE n + 1 \in T
  BY <1>2
<1>3. Nat \subseteq T
  <2> HIDE DEF T
  <2> QED BY <1>1, <1>2, NumberInduction
<1> QED BY <1>3

\* Of the elements of a set, one has the least number.
LEMMA LeastRank ==
  ASSUME NEW S, S # {}, NEW rank, \A s \in S : rank[s] \in Nat
  PROVE  \E s \in S : \A t \in S : rank[s] <= rank[t]
<1> DEFINE Ranks == {rank[s] : s \in S}
<1>1. Ranks \in SUBSET Nat /\ Ranks # {}
  OBVIOUS
<1>2. PICK n \in Ranks : \A m \in Ranks : n <= m
  <2> HIDE DEF Ranks
  <2> QED BY <1>1, LeastNumber
<1> QED BY <1>2

\* The value of f at d is base[d], or what step makes of d and the value at next[d].
Solves(f, D, V, stop, base, next, step) ==
    /\ f \in [D -> V]
    /\ \A d \in D : f[d] = IF d \in stop THEN base[d] ELSE step[<<d, f[next[d]]>>]

\* next[d] has a lower rank than d.
Ranked(D, V, stop, base, next, step, rank, N) ==
    /\ base \in [D -> V] /\ next \in [D -> D] /\ step \in [D \X V -> V]
    /\ N \in Nat /\ rank \in [D -> 0 .. N]
    /\ \A d \in D \ stop : rank[next[d]] < rank[d]

\* A function can be defined by recursion.
LEMMA Recursion ==
  ASSUME NEW D, NEW V, NEW stop, NEW base, NEW next, NEW step, NEW rank, NEW N,
         Ranked(D, V, stop, base, next, step, rank, N)
  PROVE  \E f : Solves(f, D, V, stop, base, next, step)
<1> USE DEF Ranked
<1> DEFINE Meets(f, d) == f[d] = IF d \in stop THEN base[d] ELSE step[<<d, f[next[d]]>>]
           Up(n) == \E f \in [D -> V] : \A d \in D : rank[d] < n => Meets(f, d)
           S == {n \in Nat : Up(n)}
<1>1. 0 \in S
  <2>1. \A d \in D : ~(rank[d] < 0)
    OBVIOUS
  <2> QED BY <2>1
<1>2. ASSUME NEW n \in Nat, n \in S PROVE n + 1 \in S
  <2>1. PICK g \in [D -> V] : \A d \in D : rank[d] < n => Meets(g, d)
    BY <1>2
  <2> DEFINE f == [d \in D |-> IF d \in stop THEN base[d] ELSE step[<<d, g[next[d]]>>]]
  <2>2. f \in [D -> V]
    <3>1. \A d \in D : base[d] \in V /\ step[<<d, g[next[d]]>>] \in V
      OBVIOUS
    <3> QED BY <3>1
  <2>3. ASSUME NEW d \in D, rank[d] < n PROVE f[d] = g[d]
    BY <2>1, <2>3
  <2>4. ASSUME NEW d \in D, rank[d] < n + 1 PROVE Meets(f, d)
    <3>1. CASE d \in stop
      BY <3>1
    <3>2. CASE d \notin stop
      <4>1. next[d] \in D /\ rank[next[d]] < n
        BY <2>4, <3>2
      <4>2. f[next[d]] = g[next[d]]
        BY <2>3, <4>1
      <4> QED BY <3>2, <4>2
    <3> QED BY <3>1, <3>2
  <2>5. Up(n + 1)
    <3> HIDE DEF f
    <3> QED BY <2>2, <2>4
  <2> QED BY <2>5
<1>3. N + 1 \in S
  <2> HIDE DEF S
  <2>1. Nat \subseteq S
    BY <1>1, <1>2, NumberInduction
  <2> QED BY <2>1
<1>4. PICK f \in [D -> V] : \A d \in D : rank[d] < N + 1 => Meets(f, d)
  BY <1>3
<1>5. \A d \in D : Meets(f, d)
  BY <1>4
<1> QED BY <1>5 DEF Solves
============================================================================
