---------------------------- MODULE NumberLemmas ----------------------------
(***************************************************************************)
(* Induction and recursion in a form the provers can use: over sets of     *)
(* numbers and functions instead of operators.                             *)
(***************************************************************************)
EXTENDS Integers, WellFoundedInduction, TLAPS

LEMMA HasLeast ==
  ASSUME NEW S, S \subseteq Nat, S # {}
  PROVE  \E m \in S : \A k \in S : m <= k
<1> DEFINE R == OpToRel(<, Nat)
<1>1. IsWellFoundedOn(R, Nat)
  BY NatLessThanWellFounded
<1>2. \A x, y \in Nat : y < x => <<y, x>> \in R
  BY DEF OpToRel
<1> HIDE DEF R
<1>3. PICK m \in S : \A k \in S : ~ (<<k, m>> \in R)
  BY <1>1, WFMin
<1>4. \A k \in S : ~ (k < m)
  BY <1>2, <1>3
<1> QED BY <1>3, <1>4

\* A set of numbers that holds n whenever it holds all smaller ones.
LEMMA StrongInduction ==
  ASSUME NEW S, \A n \in Nat : (\A m \in 0 .. n-1 : m \in S) => n \in S
  PROVE  \A n \in Nat : n \in S
<1> SUFFICES ASSUME ~ \A n \in Nat : n \in S PROVE FALSE
  OBVIOUS
<1> DEFINE Rest == {n \in Nat : n \notin S}
<1>1. PICK m \in Rest : \A k \in Rest : m <= k
  BY HasLeast
<1>2. \A k \in 0 .. m-1 : k \in S
  BY <1>1
<1> QED BY <1>1, <1>2

\* A set that holds 0, and n+1 whenever it holds n.
LEMMA Induction ==
  ASSUME NEW S, 0 \in S, \A n \in Nat : n \in S => n+1 \in S
  PROVE  \A n \in Nat : n \in S
<1>1. ASSUME NEW n \in Nat, \A m \in 0 .. n-1 : m \in S
      PROVE  n \in S
  <2>1. CASE n = 0
    BY <2>1
  <2>2. CASE n # 0
    <3>1. n-1 \in Nat /\ n-1 \in 0 .. n-1 /\ n = (n-1) + 1
      BY <2>2
    <3> QED BY <1>1, <3>1
  <2> QED BY <2>1, <2>2
<1> QED BY <1>1, StrongInduction

\* A function whose values up to n are defined one from another exists.
Follows(f, n, a, step) == f[0] = a /\ \A i \in 1..n : f[i] = step[i][f[i-1]]

LEMMA Recursion ==
  ASSUME NEW n \in Nat, NEW V, NEW a \in V, NEW step \in [1..n -> [V -> V]]
  PROVE  \E f \in [0..n -> V] : Follows(f, n, a, step)
<1> DEFINE Upto(m) == \E f \in [0..m -> V] : f[0] = a /\ \A i \in 1..m : f[i] = step[i][f[i-1]]
           S == {m \in Nat : m <= n => Upto(m)}
<1>1. 0 \in S
  <2> DEFINE g == [i \in 0..0 |-> a]
  <2>1. g \in [0..0 -> V] /\ g[0] = a /\ \A i \in 1..0 : g[i] = step[i][g[i-1]]
    OBVIOUS
  <2> HIDE DEF g
  <2>2. Upto(0)
    BY <2>1
  <2> QED BY <2>2
<1>2. ASSUME NEW m \in Nat, m \in S
      PROVE  m+1 \in S
  <2> SUFFICES ASSUME m+1 <= n PROVE Upto(m+1)
    OBVIOUS
  <2>1. PICK f \in [0..m -> V] : f[0] = a /\ \A i \in 1..m : f[i] = step[i][f[i-1]]
    BY <1>2
  <2> DEFINE g == [i \in 0 .. m+1 |-> IF i <= m THEN f[i] ELSE step[m+1][f[m]]]
  <2>2. step[m+1][f[m]] \in V
    BY <2>1
  <2>3. g \in [0 .. m+1 -> V] /\ g[0] = a
    BY <2>1, <2>2
  <2>4. \A i \in 1 .. m+1 : g[i] = step[i][g[i-1]]
    BY <2>1
  <2> HIDE DEF g
  <2> QED BY <2>3, <2>4
<1>3. n \in S
  <2> HIDE DEF S
  <2> QED BY <1>1, <1>2, Induction
<1> QED BY <1>3 DEF Follows

\* So does a function defined at each number from its value at a smaller one.
Descends(f, small, a, step, below) ==
  \A n \in Nat : f[n] = IF n \in small THEN a[n] ELSE step[n][f[below[n]]]

LEMMA Descent ==
  ASSUME NEW V, NEW small, NEW a \in [Nat -> V], NEW step \in [Nat -> [V -> V]],
         NEW below \in [Nat -> Nat], \A n \in Nat : n \notin small => below[n] < n
  PROVE  \E f \in [Nat -> V] : Descends(f, small, a, step, below)
<1> DEFINE Rule(f, n) == f[n] = IF n \in small THEN a[n] ELSE step[n][f[below[n]]]
           Part(f, n) == f \in [0..n -> V] /\ \A m \in 0..n : Rule(f, m)
           S == {n \in Nat : \E f : Part(f, n)}
           T(f, g, m) == {n \in Nat : n <= m => f[n] = g[n]}
<1>1. ASSUME NEW n \in Nat, \A m \in 0 .. n-1 : m \in S PROVE n \in S
  <2>1. CASE n = 0
    <3> DEFINE f == [m \in 0..0 |-> a[0]]
    <3>1. 0 \in small
      BY <2>1
    <3>2. Part(f, 0)
      BY <3>1
    <3> HIDE DEF f, Part
    <3> QED BY <2>1, <3>2
  <2>2. CASE n # 0
    <3>1. PICK f : Part(f, n-1)
      <4>1. n-1 \in 0 .. n-1
        BY <2>2
      <4>2. n-1 \in S
        BY <1>1, <4>1
      <4> QED BY <4>2
    <3> DEFINE g == [m \in 0..n |-> IF m < n THEN f[m]
                                   ELSE IF n \in small THEN a[n] ELSE step[n][f[below[n]]]]
    <3>2. n \notin small => below[n] \in 0 .. n-1 /\ step[n][f[below[n]]] \in V
      BY <2>2, <3>1
    <3>3. g \in [0..n -> V]
      BY <2>2, <3>1, <3>2
    <3>4. \A m \in 0 .. n-1 : g[m] = f[m] /\ Rule(f, m) /\ (m \notin small => below[m] \in 0 .. n-1)
      BY <2>2, <3>1
    <3>5. g[n] = IF n \in small THEN a[n] ELSE step[n][f[below[n]]]
      OBVIOUS
    <3> HIDE DEF g
    <3>6. \A m \in 0 .. n-1 : Rule(g, m)
      BY <3>4
    <3>7. Rule(g, n)
      BY <3>2, <3>4, <3>5
    <3>8. \A m \in 0..n : m \in 0 .. n-1 \/ m = n
      BY <2>2
    <3>9. \A m \in 0..n : Rule(g, m)
      <4> HIDE DEF Rule
      <4> QED BY <3>6, <3>7, <3>8
    <3>10. Part(g, n)
      <4> HIDE DEF Rule
      <4> QED BY <3>3, <3>9
    <3> HIDE DEF Part
    <3> QED BY <3>10
  <2> QED BY <2>1, <2>2
<1>2. \A n \in Nat : \E f : Part(f, n)
  <2> HIDE DEF Part
  <2> DEFINE R == S
  <2>1. \A n \in Nat : (\A m \in 0 .. n-1 : m \in R) => n \in R
    BY <1>1
  <2> HIDE DEF R
  <2>2. \A n \in Nat : n \in R
    BY <2>1, StrongInduction
  <2> QED BY <2>2 DEF R
<1>3. ASSUME NEW m \in Nat, NEW k \in Nat, NEW f, NEW g, Part(f, m), Part(g, k), m <= k
      PROVE  f[m] = g[m]
  <2> DEFINE R == T(f, g, m)
  <2>1. ASSUME NEW n \in Nat, \A i \in 0 .. n-1 : i \in R PROVE n \in R
    <3> SUFFICES ASSUME n <= m PROVE f[n] = g[n]
      OBVIOUS
    <3>1. n \in 0..m /\ n \in 0..k
      BY <1>3
    <3>2. Rule(f, n) /\ Rule(g, n)
      BY <1>3, <3>1
    <3>3. n \notin small => f[below[n]] = g[below[n]]
      <4> SUFFICES ASSUME n \notin small PROVE f[below[n]] = g[below[n]]
        OBVIOUS
      <4>1. below[n] \in 0 .. n-1 /\ below[n] <= m
        OBVIOUS
      <4> QED BY <2>1, <4>1
    <3> QED BY <3>2, <3>3
  <2> HIDE DEF R
  <2>2. \A n \in Nat : n \in R
    BY <2>1, StrongInduction
  <2> QED BY <2>2 DEF R
<1> DEFINE part(n) == CHOOSE f : Part(f, n)
           h == [n \in Nat |-> part(n)[n]]
<1>4. \A n \in Nat : Part(part(n), n)
  <2> HIDE DEF Part
  <2> QED BY <1>2
<1> HIDE DEF part
<1>5. \A n \in Nat : h[n] \in V
  BY <1>4
<1>6. h \in [Nat -> V]
  BY <1>5
<1>7. ASSUME NEW n \in Nat
      PROVE  h[n] = IF n \in small THEN a[n] ELSE step[n][h[below[n]]]
  <2>1. Rule(part(n), n)
    BY <1>4
  <2>2. CASE n \in small
    BY <2>1, <2>2
  <2>3. CASE n \notin small
    <3> DEFINE b == below[n]
    <3>1. b \in Nat /\ b <= n
      BY <2>3
    <3>2. part(b)[b] = part(n)[b]
      <4> HIDE DEF b, Part
      <4> QED BY <1>3, <1>4, <3>1
    <3> QED BY <2>1, <2>3, <3>1, <3>2
  <2> QED BY <2>2, <2>3
<1> QED BY <1>6, <1>7 DEF Descends
=============================================================================
