---------------------------- MODULE NatRecursion ----------------------------
(***************************************************************************)
(* Primitive recursion and induction on the naturals, for the recursive    *)
(* functions of the model.  A module that proves about                     *)
(*     f[n \in Nat] == IF n = 0 THEN Base ELSE Step(f[n - 1], n)           *)
(* instantiates this one with that base and that step.                     *)
(***************************************************************************)
EXTENDS Integers, WellFoundedInduction, TLAPS

CONSTANTS Base,      \* the value at 0
          Step(_, _) \* the value at n, from the one at n - 1 and n

\* A set of numbers that holds 0, and n + 1 with every n, holds them all.
THEOREM Induction ==
    ASSUME NEW S, 0 \in S, \A n \in Nat : n \in S => n + 1 \in S
    PROVE  \A n \in Nat : n \in S
  <1> DEFINE T == {n \in Nat : n \notin S}
             R == OpToRel(<, Nat)
  <1>1. SUFFICES ASSUME T # {} PROVE FALSE
    OBVIOUS
  <1>2. \A x, y \in Nat : y < x => <<y, x>> \in R
    BY SMT DEF OpToRel
  <1>3. IsWellFoundedOn(R, Nat)
    BY NatLessThanWellFounded, Zenon
  <1> HIDE DEF R
  <1>4. T \subseteq Nat
    OBVIOUS
  <1>5. PICK x \in T : \A y \in T : ~ (<<y, x>> \in R)
    BY <1>1, <1>3, <1>4, WFMin
  <1>6. x \in Nat \ {0} /\ x - 1 \in Nat /\ x - 1 < x
    OBVIOUS
  <1>7. x - 1 \in S
    BY <1>2, <1>5, <1>6
  <1> QED
    BY <1>6, <1>7

\* There is a function that satisfies the recursion; the definition's CHOOSE is one.
THEOREM Recursion == \E f : f = [n \in Nat |-> IF n = 0 THEN Base ELSE Step(f[n - 1], n)]
  <1> DEFINE P(f, n) == f[0] = Base /\ \A m \in 1 .. n : f[m] = Step(f[m - 1], m)
             G(n)    == CHOOSE f : P(f, n)
             F       == [n \in Nat |-> G(n)[n]]
  <1>1. \A n \in Nat : \E f : P(f, n)
    <2> DEFINE S == {n \in Nat : \E f : P(f, n)}
    <2>1. 0 \in S
      <3>1. P([m \in {0} |-> Base], 0)
        OBVIOUS
      <3> QED
        BY <3>1
    <2>2. ASSUME NEW n \in Nat, n \in S PROVE n + 1 \in S
      <3>1. PICK f : P(f, n)
        BY <2>2
      <3> DEFINE h == [m \in 0 .. n + 1 |-> IF m <= n THEN f[m] ELSE Step(f[n], m)]
      <3>2. h[0] = f[0]
        OBVIOUS
      <3>3. ASSUME NEW m \in 1 .. n + 1 PROVE h[m] = Step(h[m - 1], m)
        <4>1. h[m - 1] = f[m - 1]
          OBVIOUS
        <4>2. CASE m <= n
          BY <3>1, <4>1, <4>2
        <4>3. CASE m = n + 1
          <5>1. m - 1 = n
            BY <4>3
          <5>2. h[m] = Step(f[n], m)
            BY <4>3
          <5> QED
            BY <4>1, <5>1, <5>2
        <4> QED
          BY <4>2, <4>3
      <3> HIDE DEF h
      <3>4. P(h, n + 1)
        BY <3>1, <3>2, <3>3
      <3> QED
        BY <3>4
    <2> HIDE DEF S
    <2>3. \A n \in Nat : n \in S
      BY <2>1, <2>2, Induction
    <2> QED
      BY <2>3 DEF S
  <1>2. \A n \in Nat : P(G(n), n)
    BY <1>1
  <1>3. \A m \in Nat : \A n \in Nat : m <= n => G(n)[m] = G(m)[m]
    <2> DEFINE S == {m \in Nat : \A n \in Nat : \A k \in Nat : m <= n /\ m <= k => G(n)[m] = G(k)[m]}
    <2>1. 0 \in S
      BY <1>2
    <2>2. ASSUME NEW m \in Nat, m \in S PROVE m + 1 \in S
      <3>1. SUFFICES ASSUME NEW n \in Nat, NEW k \in Nat, m + 1 <= n, m + 1 <= k
                     PROVE  G(n)[m + 1] = G(k)[m + 1]
        OBVIOUS
      <3>2. G(n)[m] = G(k)[m]
        BY <2>2, <3>1
      <3>3. \A j \in Nat : m + 1 <= j => G(j)[m + 1] = Step(G(j)[m], m + 1)
        <4>1. ASSUME NEW j \in Nat, m + 1 <= j PROVE G(j)[m + 1] = Step(G(j)[m], m + 1)
          <5>1. m + 1 \in 1 .. j /\ (m + 1) - 1 = m
            BY <4>1
          <5>2. \A i \in 1 .. j : G(j)[i] = Step(G(j)[i - 1], i)
            BY <1>2
          <5> HIDE DEF G
          <5>3. G(j)[m + 1] = Step(G(j)[(m + 1) - 1], m + 1)
            BY <5>1, <5>2
          <5> QED
            BY <5>1, <5>3
        <4> QED
          BY <4>1
      <3> HIDE DEF G
      <3> QED
        BY <3>1, <3>2, <3>3
    <2> HIDE DEF S
    <2>3. \A m \in Nat : m \in S
      BY <2>1, <2>2, Induction
    <2> QED
      BY <2>3 DEF S
  <1> HIDE DEF G
  <1>4. ASSUME NEW n \in Nat PROVE F[n] = IF n = 0 THEN Base ELSE Step(F[n - 1], n)
    <2>1. CASE n = 0
      BY <1>2, <2>1
    <2>2. CASE n # 0
      <3>1. n - 1 \in Nat /\ n \in 1 .. n /\ n - 1 <= n
        BY <2>2
      <3>2. G(n)[n] = Step(G(n)[n - 1], n)
        BY <1>2, <3>1
      <3>3. G(n)[n - 1] = F[n - 1]
        BY <1>3, <3>1
      <3> QED
        BY <2>2, <3>2, <3>3
    <2> QED
      BY <2>1, <2>2
  <1> HIDE DEF F
  <1>5. F = [n \in Nat |-> IF n = 0 THEN Base ELSE Step(F[n - 1], n)]
    <2>1. F = [n \in Nat |-> F[n]]
      BY DEF F
    <2> QED
      BY <1>4, <2>1
  <1> QED
    BY <1>5
=============================================================================
