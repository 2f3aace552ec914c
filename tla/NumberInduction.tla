-------------------------- MODULE NumberInduction ---------------------------
(***************************************************************************)
(* Induction over the natural numbers in the form of a set, from the order *)
(* of the numbers, for what is written or built one item after another.    *)
(***************************************************************************)
EXTENDS WellFoundedInduction, TLAPS

(* Every non-empty set of numbers has a least one.                         *)
LEMMA Least ==
    ASSUME NEW T \in SUBSET Nat, T # {}
    PROVE  \E n \in T : \A m \in T : n <= m
  <1> DEFINE R == OpToRel(<, Nat)
  <1>1. IsWellFoundedOn(R, Nat)
    BY NatLessThanWellFounded, Zenon
  <1>2. ASSUME NEW m \in Nat, NEW n \in Nat, <<m, n>> \notin R
        PROVE  n <= m
    BY <1>2 DEF OpToRel
  <1> HIDE DEF R
  <1>3. \E n \in T : \A m \in T : ~(<<m, n>> \in R)
    BY <1>1, WFMin, Zenon
  <1> QED
    BY <1>2, <1>3

(* Induction over a set, since no lemma can be cited for an operator.      *)
LEMMA SetInduction ==
    ASSUME NEW T, 0 \in T, \A n \in Nat : n \in T => n + 1 \in T
    PROVE  Nat \subseteq T
  <1>1. SUFFICES ASSUME Nat \ T # {} PROVE FALSE
    OBVIOUS
  <1>2. PICK n \in Nat \ T : \A m \in Nat \ T : n <= m
    BY <1>1, Least
  <1>3. n # 0 /\ n - 1 \in Nat
    BY <1>2
  <1>4. n - 1 \in T
    BY <1>2, <1>3
  <1> QED
    BY <1>2, <1>3, <1>4

\* From one to the next by a function.
Iterates(f, next, n) == \A i \in 1 .. n : f[i] = next[f[i - 1]]

(* What is got by taking a function again and again is there.              *)
LEMMA IterationExists ==
    ASSUME NEW D, NEW first \in D, NEW next \in [D -> D], NEW n \in Nat
    PROVE  \E f \in [0 .. n -> D] : f[0] = first /\ Iterates(f, next, n)
  <1> DEFINE Begins(f, k) == f[0] = first /\ Iterates(f, next, k)
             There(k) == \E f \in [0 .. k -> D] : Begins(f, k)
             T == {k \in Nat : There(k)}
  <1>1. 0 \in T
    <2> DEFINE f == [i \in 0 .. 0 |-> first]
    <2>1. f \in [0 .. 0 -> D] /\ Begins(f, 0)
      BY DEF Iterates
    <2> HIDE DEF f
    <2>2. There(0)
      BY <2>1
    <2> HIDE DEF There
    <2> QED
      BY <2>2
  <1>2. ASSUME NEW k \in Nat, k \in T
        PROVE  k + 1 \in T
    <2>1. PICK f \in [0 .. k -> D] : Begins(f, k)
      BY <1>2
    <2> DEFINE longer == [i \in 0 .. k + 1 |-> IF i = k + 1 THEN next[f[k]] ELSE f[i]]
    <2>2. k \in 0 .. k
      OBVIOUS
    <2>3. longer \in [0 .. k + 1 -> D]
      BY <2>2
    <2>4. longer[0] = first
      BY <2>1
    <2>5. ASSUME NEW i \in 1 .. k + 1
          PROVE  longer[i] = next[longer[i - 1]]
      <3>1. i - 1 \in 0 .. k /\ longer[i - 1] = f[i - 1]
        OBVIOUS
      <3>2. CASE i = k + 1
        <4>1. longer[i] = next[f[k]] /\ i - 1 = k
          BY <3>2
        <4> HIDE DEF longer
        <4> QED
          BY <3>1, <4>1
      <3>3. CASE i \in 1 .. k
        <4>1. longer[i] = f[i] /\ f[i] = next[f[i - 1]]
          BY <2>1, <3>3 DEF Iterates
        <4> HIDE DEF longer
        <4> QED
          BY <3>1, <4>1
      <3>4. i = k + 1 \/ i \in 1 .. k
        OBVIOUS
      <3> QED
        BY <3>2, <3>3, <3>4
    <2> HIDE DEF longer
    <2>6. Begins(longer, k + 1)
      BY <2>4, <2>5 DEF Iterates
    <2>7. There(k + 1)
      BY <2>3, <2>6
    <2> HIDE DEF There
    <2> QED
      BY <2>7
  <1> HIDE DEF T
  <1>3. n \in T
    BY <1>1, <1>2, SetInduction
  <1> HIDE DEF There
  <1>4. There(n)
    BY <1>3 DEF T
  <1> QED
    BY <1>4 DEF There

(* What begins in a set and is not led out of it by any step remains there. *)
LEMMA RemainsInside ==
    ASSUME NEW D, NEW n \in Nat, NEW f, f[0] \in D,
           \A i \in 1 .. n : f[i - 1] \in D => f[i] \in D,
           NEW i \in 0 .. n
    PROVE  f[i] \in D
  <1> DEFINE T == {k \in Nat : k <= n => f[k] \in D}
  <1>1. 0 \in T
    OBVIOUS
  <1>2. ASSUME NEW k \in Nat, k \in T, k + 1 <= n
        PROVE  f[k + 1] \in D
    <2>1. k + 1 \in 1 .. n /\ (k + 1) - 1 = k /\ f[k] \in D
      BY <1>2
    <2> QED
      BY <2>1
  <1>3. \A k \in Nat : k \in T => k + 1 \in T
    BY <1>2
  <1> HIDE DEF T
  <1>4. i \in T
    BY <1>1, <1>3, SetInduction
  <1> QED
    BY <1>4 DEF T
=============================================================================
