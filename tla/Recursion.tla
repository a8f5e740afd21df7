------------------------------ MODULE Recursion ------------------------------
(***************************************************************************)
(* Induction over the natural numbers for sets instead of predicates, and  *)
(* what it says of functions that are defined recursively: that the        *)
(* recursive equation has a solution.                                      *)
(***************************************************************************)
EXTENDS Naturals, WellFoundedInduction, TLAPS

\* A set of numbers that is not empty has a least element.
LEMMA Least ==
    ASSUME NEW S \in SUBSET Nat, S # {}
    PROVE  \E n \in S : \A m \in S : n <= m
<1> DEFINE R == OpToRel(<, Nat)
<1>1. IsWellFoundedOn(R, Nat)
  BY NatLessThanWellFounded
<1>2. \A i, j \in Nat : i < j => <<i, j>> \in R
  BY DEF OpToRel
<1> HIDE DEF R
<1>3. PICK n \in S : \A m \in S : ~ (<<m, n>> \in R)
  BY <1>1, WFMin
<1>4. ASSUME NEW m \in S PROVE n <= m
  <2>1. n \in Nat /\ m \in Nat
    OBVIOUS
  <2>2. <<m, n>> \notin R
    BY <1>3
  <2>3. ~ (m < n)
    BY <1>2, <2>1, <2>2
  <2> QED BY <2>1, <2>3
<1> QED BY <1>4

\* Induction from 0 to N.
LEMMA Induction ==
    ASSUME NEW N \in Nat, NEW S, 0 \in S,
           \A n \in 0..N : n # N /\ n \in S => n + 1 \in S
    PROVE  \A n \in 0..N : n \in S
<1> DEFINE rest == {n \in 0..N : n \notin S}
<1> SUFFICES rest = {}
  OBVIOUS
<1> SUFFICES ASSUME rest # {} PROVE FALSE
  OBVIOUS
<1>1. rest \in SUBSET Nat
  OBVIOUS
<1>2. PICK n \in rest : \A m \in rest : n <= m
  BY <1>1, Least
<1>3. n \in 1..N /\ n - 1 \in 0..N /\ n - 1 # N /\ ~ (n <= n - 1) /\ (n - 1) + 1 = n
  BY <1>2
<1>4. n - 1 \in S
  BY <1>2, <1>3
<1> QED BY <1>2, <1>3, <1>4

\* g, on 0..N, starts with x and goes on by the steps of "step".
Iterates(g, N, X, x, step) ==
    /\ g \in [0..N -> X]
    /\ g[0] = x
    /\ \A n \in 1..N : g[n] = step[n][g[n - 1]]

\* Such a function exists.
LEMMA Iteration ==
    ASSUME NEW N \in Nat, NEW X, NEW x, x \in X,
           NEW step, \A n \in 1..N, y \in X : step[n][y] \in X
    PROVE  \E g : Iterates(g, N, X, x, step)
<1> DEFINE Upto(k, g) == /\ g \in [0..k -> X] /\ g[0] = x
                         /\ \A n \in 1..k : g[n] = step[n][g[n - 1]]
           S == {k \in 0..N : \E g \in [0..k -> X] : Upto(k, g)}
<1>1. 0 \in S
  <2> DEFINE g == [n \in 0..0 |-> x]
  <2>1. g \in [0..0 -> X] /\ Upto(0, g) /\ 0 \in 0..N
    OBVIOUS
  <2> HIDE DEF g
  <2> QED BY <2>1
<1>2. ASSUME NEW k \in 0..N, k # N, k \in S PROVE k + 1 \in S
  <2>1. PICK g \in [0..k -> X] : Upto(k, g)
    BY <1>2
  <2>2. k + 1 \in 1..N /\ k \in 0..k /\ g[k] \in X
    BY <1>2
  <2> DEFINE y == step[k + 1][g[k]]
             h == [n \in 0..k + 1 |-> IF n = k + 1 THEN y ELSE g[n]]
  <2>3. y \in X
    BY <2>2
  <2>4. \A n \in 0..k + 1 : n # k + 1 => n \in 0..k
    BY <1>2
  <2>5. h \in [0..k + 1 -> X]
    BY <2>1, <2>3, <2>4
  <2>6. \A n \in 0..k : h[n] = g[n]
    BY <1>2
  <2>7. h[0] = x
    BY <2>1, <2>6
  <2>8. ASSUME NEW n \in 1..k + 1 PROVE h[n] = step[n][h[n - 1]]
    <3>1. CASE n = k + 1
      <4>1. h[n] = y /\ n - 1 = k
        BY <3>1, <1>2
      <4>2. h[n - 1] = g[k]
        BY <2>2, <2>6, <4>1
      <4> HIDE DEF h
      <4> QED BY <3>1, <4>1, <4>2
    <3>2. CASE n # k + 1
      <4>1. n \in 1..k /\ n \in 0..k /\ n - 1 \in 0..k
        BY <3>2, <1>2
      <4>2. h[n] = g[n] /\ h[n - 1] = g[n - 1]
        BY <2>6, <4>1
      <4> HIDE DEF h
      <4> QED BY <2>1, <4>1, <4>2
    <3> QED BY <3>1, <3>2
  <2> HIDE DEF h
  <2>9. Upto(k + 1, h)
    BY <2>5, <2>7, <2>8
  <2> QED BY <1>2, <2>5, <2>9
<1>3. N \in S
  <2> HIDE DEF S
  <2>1. \A n \in 0..N : n \in S
    BY <1>1, <1>2, Induction
  <2> QED BY <2>1
<1> QED BY <1>3 DEF Iterates
=============================================================================
