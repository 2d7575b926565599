----------------------------- MODULE Inductions ------------------------------
(***************************************************************************)
(* Least and greatest elements of sets of natural numbers, induction over  *)
(* such sets, and functions that are built step by step: the proofs about  *)
(* searches, sections, lengths and recursive functions rest on them.  They *)
(* state about a set what the induction theorems of the library state      *)
(* about an operator, which the provers cannot instantiate.                *)
(***************************************************************************)
EXTENDS Integers, WellFoundedInduction, TLAPS

\* A nonempty set of natural numbers has a least element: inductions below go
\* by the least counterexample.
LEMMA LeastNat ==
  ASSUME NEW S \in SUBSET Nat, S # {}
  PROVE  \E x \in S : \A y \in S : x <= y
<1> DEFINE R == OpToRel(<, Nat)
<1>1. IsWellFoundedOn(R, Nat)
  BY NatLessThanWellFounded, Zenon
<1> HIDE DEF R
<1>2. PICK x \in S : \A y \in S : ~(<<y, x>> \in R)
  BY <1>1, WFMin, Zenon
<1>3. ASSUME NEW y \in S, y < x
      PROVE  <<y, x>> \in R
  BY <1>3 DEF R, OpToRel
<1>4. \A y \in S : ~(y < x)
  BY <1>2, <1>3
<1>5. \A y \in S : x \in Nat /\ y \in Nat
  OBVIOUS
<1> QED
  BY <1>4, <1>5

\* A bounded set of natural numbers that is not empty has a greatest element.
LEMMA GreatestNat ==
  ASSUME NEW S \in SUBSET Nat, NEW b \in Nat, \A x \in S : x <= b, S # {}
  PROVE  \E m \in S : \A x \in S : x <= m
<1> DEFINE U == {u \in Nat : \A x \in S : x <= u}
<1>1. U # {} /\ U \in SUBSET Nat
  OBVIOUS
<1>2. PICK u \in U : \A v \in U : u <= v
  <2> HIDE DEF U
  <2> QED BY <1>1, LeastNat
<1>3. SUFFICES u \in S
  OBVIOUS
<1>4. SUFFICES ASSUME u \notin S PROVE FALSE
  OBVIOUS
<1>5. u \in Nat /\ \A x \in S : x \in Nat /\ x <= u - 1
  BY <1>4
<1>6. u - 1 \in Nat
  <2>1. PICK x \in S : TRUE
    OBVIOUS
  <2>2. x \in Nat /\ x <= u - 1
    BY <1>5
  <2> QED BY <1>5, <2>2
<1>7. u - 1 \in U
  BY <1>5, <1>6
<1> QED
  <2>1. ~(u <= u - 1)
    BY <1>5
  <2> HIDE DEF U
  <2> QED BY <1>2, <2>1, <1>7

\* Induction, as a fact about sets: a set that has 0 and the successor of each
\* of its numbers has them all.
LEMMA UpwardNat ==
  ASSUME NEW G, 0 \in G, \A n \in Nat : n \in G => n + 1 \in G
  PROVE  \A n \in Nat : n \in G
<1> DEFINE B == {n \in Nat : n \notin G}
<1>1. SUFFICES ASSUME B # {} PROVE FALSE
  OBVIOUS
<1>2. B \in SUBSET Nat /\ \A n \in Nat : n \in B <=> n \notin G
  OBVIOUS
<1> HIDE DEF B
<1>3. PICK n \in B : \A m \in B : n <= m
  BY <1>1, <1>2, LeastNat
<1>4. n \in Nat /\ n # 0
  BY <1>2
<1>5. n - 1 \in Nat /\ ~(n <= n - 1) /\ (n - 1) + 1 = n
  BY <1>4
<1> QED
  BY <1>2, <1>3, <1>5

\* Induction downwards from b to a.
LEMMA DownwardNat ==
  ASSUME NEW a \in Nat, NEW b \in Nat, NEW G,
         b \in G, \A n \in a..(b - 1) : n + 1 \in G => n \in G
  PROVE  \A n \in a..b : n \in G
<1> DEFINE B == {n \in a..b : n \notin G}
<1>1. SUFFICES ASSUME B # {} PROVE FALSE
  OBVIOUS
<1>2. /\ B \in SUBSET Nat /\ \A n \in B : n <= b
      /\ \A n \in a..b : n \in B <=> n \notin G
      /\ \A n \in B : n \in a..b
  OBVIOUS
<1> HIDE DEF B
<1>3. PICK n \in B : \A m \in B : m <= n
  BY <1>1, <1>2, GreatestNat
<1>4. n \in a..b /\ n # b /\ n \notin G
  BY <1>2
<1>5. n \in a..(b - 1) /\ n + 1 \in a..b /\ ~(n + 1 <= n)
  BY <1>4
<1> QED
  BY <1>2, <1>3, <1>4, <1>5

\* The functions on 0..b, with values in S, that have the value first at 0 and
\* take a step from each value to the next.
Iterations(b, S, first, step) ==
    {f \in [0..b -> S] : /\ f[0] = first
                         /\ \A n \in 1..b : f[n] = step[n][f[n - 1]]}

\* There is one.
LEMMA IterationExists ==
  ASSUME NEW b \in Nat, NEW S, NEW first \in S, NEW step \in [1..b -> [S -> S]]
  PROVE  \E f : f \in Iterations(b, S, first, step)
<1> DEFINE P(f, t) == /\ f[0] = first
                      /\ \A n \in 1..t : f[n] = step[n][f[n - 1]]
           G == {t \in Nat : t <= b => \E f \in [0..t -> S] : P(f, t)}
<1>1. 0 \in G
  <2> DEFINE f == [n \in 0..0 |-> first]
  <2>1. f \in [0..0 -> S] /\ P(f, 0)
    OBVIOUS
  <2> HIDE DEF f, P
  <2> QED BY <2>1
<1>2. ASSUME NEW t \in Nat, t \in G
      PROVE  t + 1 \in G
  <2>1. SUFFICES ASSUME t + 1 <= b
                 PROVE  \E f \in [0..(t + 1) -> S] : P(f, t + 1)
    OBVIOUS
  <2>2. PICK f \in [0..t -> S] : P(f, t)
    BY <1>2, <2>1
  <2> DEFINE h == [n \in 0..(t + 1) |-> IF n = t + 1 THEN step[t + 1][f[t]]
                                        ELSE f[n]]
  <2>3. h \in [0..(t + 1) -> S]
    <3>1. step[t + 1] \in [S -> S] /\ f[t] \in S
      BY <2>1
    <3>2. step[t + 1][f[t]] \in S
      BY <3>1
    <3> QED BY <2>2, <3>2
  <2>4. P(h, t + 1)
    <3>1. h[0] = f[0]
      OBVIOUS
    <3>2. ASSUME NEW n \in 1..(t + 1)
          PROVE  h[n] = step[n][h[n - 1]]
      <4>1. h[n - 1] = f[n - 1]
        OBVIOUS
      <4>2. CASE n = t + 1
        BY <4>1, <4>2
      <4>3. CASE n # t + 1
        BY <2>2, <4>1, <4>3
      <4> QED BY <4>2, <4>3
    <3> QED BY <2>2, <3>1, <3>2
  <2> HIDE DEF h, P
  <2> QED BY <2>3, <2>4
<1>3. b \in G
  <2> HIDE DEF G
  <2> QED BY <1>1, <1>2, UpwardNat
<1>4. PICK f \in [0..b -> S] : P(f, b)
  BY <1>3
<1>5. f \in Iterations(b, S, first, step)
  BY <1>4 DEF Iterations
<1> QED
  BY <1>5

=============================================================================
