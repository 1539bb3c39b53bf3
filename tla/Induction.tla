----------------------------- MODULE Induction -----------------------------
(***************************************************************************)
(* Induction and recursion on the natural numbers, stated for sets and     *)
(* functions rather than for operators, so that the provers can use them:  *)
(* a set of numbers with 0 that is closed under successor has them all,    *)
(* and a recursion defines a function.  They rest on the library's theorem *)
(* that the order of the natural numbers is well-founded.                  *)
(***************************************************************************)
EXTENDS Integers, WellFoundedInduction, TLAPS

Below == {p \in Nat \X Nat : p[1] < p[2]}

\* Numbers do not descend for ever.
LEMMA BelowIsWellFounded == IsWellFoundedOn(Below, Nat)
<1>1. Below = OpToRel(<, Nat) BY Zenon DEF Below, OpToRel
<1> QED BY <1>1, NatLessThanWellFounded, Zenon

\* Induction: nothing is left outside a set that has 0 and, with a number, the next.
LEMMA SetInduction ==
  ASSUME NEW S \in SUBSET Nat, 0 \in S, \A n \in S : n + 1 \in S
  PROVE  S = Nat
<1> SUFFICES ASSUME Nat \ S # {} PROVE FALSE OBVIOUS
<1>1. PICK x \in Nat \ S : \A y \in Nat \ S : <<y, x>> \notin Below
  BY WFMin, BelowIsWellFounded
<1>2. x - 1 \in Nat /\ <<x - 1, x>> \in Below BY <1>1 DEF Below
<1>3. x - 1 \in S BY <1>1, <1>2
<1>4. (x - 1) + 1 \in S BY <1>3
<1> QED BY <1>2, <1>4

-----------------------------------------------------------------------------
\* Recursion: the value at n + 1 is next[<<n, v>>], v being the value at n.

Starting(f, first, next, n) ==
  f[0] = first /\ \A i \in 0..(n - 1) : f[i + 1] = next[<<i, f[i]>>]

Follows(f, first, next) ==
  f[0] = first /\ \A n \in Nat : f[n + 1] = next[<<n, f[n]>>]

\* There is such a function up to every number.
LEMMA PrefixExists ==
  ASSUME NEW V, NEW first \in V, NEW next \in [Nat \X V -> V], NEW n \in Nat
  PROVE  \E f \in [0..n -> V] : Starting(f, first, next, n)
<1> DEFINE S == {k \in Nat : \E f \in [0..k -> V] : Starting(f, first, next, k)}
<1>1. 0 \in S
  <2> DEFINE f == [i \in 0..0 |-> first]
  <2>1. f \in [0..0 -> V] /\ Starting(f, first, next, 0) BY DEF Starting
  <2> QED BY <2>1
<1>2. ASSUME NEW k \in S PROVE k + 1 \in S
  <2>1. k \in Nat OBVIOUS
  <2>2. PICK f \in [0..k -> V] : Starting(f, first, next, k) OBVIOUS
  <2> DEFINE g == [i \in 0..(k + 1) |-> IF i = k + 1 THEN next[<<k, f[k]>>] ELSE f[i]]
  <2>3. f[k] \in V BY <2>1
  <2>4. next[<<k, f[k]>>] \in V BY <2>1, <2>3
  <2>5. g \in [0..(k + 1) -> V] BY <2>1, <2>4
  <2>6. g[0] = first BY <2>1, <2>2 DEF Starting
  <2>7. ASSUME NEW i \in 0..k PROVE g[i + 1] = next[<<i, g[i]>>]
    <3>1. CASE i = k
      <4>1. g[k + 1] = next[<<k, f[k]>>] /\ g[k] = f[k] BY <2>1
      <4> QED BY <3>1, <4>1
    <3>2. CASE i # k
      <4>1. i \in 0..(k - 1) /\ i + 1 \in 0..k BY <2>1, <3>2
      <4> QED BY <2>1, <2>2, <4>1 DEF Starting
    <3> QED BY <3>1, <3>2
  <2> HIDE DEF g
  <2>8. Starting(g, first, next, k + 1)
    <3>1. 0..((k + 1) - 1) = 0..k BY <2>1
    <3> QED BY <3>1, <2>6, <2>7 DEF Starting
  <2> QED BY <2>1, <2>5, <2>8
<1> HIDE DEF S
<1>3. S = Nat
  <2>1. S \in SUBSET Nat BY DEF S
  <2> QED BY <2>1, <1>1, <1>2, SetInduction
<1> QED BY <1>3 DEF S

\* Two of them agree.
LEMMA PrefixesAgree ==
  ASSUME NEW first, NEW next, NEW n \in Nat, NEW f, NEW g,
         Starting(f, first, next, n), Starting(g, first, next, n)
  PROVE  f[n] = g[n]
<1> DEFINE S == {i \in Nat : i <= n => f[i] = g[i]}
<1>1. 0 \in S BY DEF Starting
<1>2. ASSUME NEW i \in S PROVE i + 1 \in S
  <2> SUFFICES ASSUME i + 1 <= n PROVE f[i + 1] = g[i + 1] OBVIOUS
  <2>1. i \in Nat /\ f[i] = g[i] OBVIOUS
  <2>2. i \in 0..(n - 1) BY <2>1
  <2>3. f[i + 1] = next[<<i, f[i]>>] /\ g[i + 1] = next[<<i, g[i]>>]
    BY <2>2 DEF Starting
  <2> QED BY <2>1, <2>3
<1> HIDE DEF S
<1>3. S = Nat
  <2>1. S \in SUBSET Nat BY DEF S
  <2> QED BY <2>1, <1>1, <1>2, SetInduction
<1> QED BY <1>3 DEF S

\* Hence there is one function on all numbers.
LEMMA Recursion ==
  ASSUME NEW V, NEW first \in V, NEW next \in [Nat \X V -> V]
  PROVE  \E f \in [Nat -> V] : Follows(f, first, next)
<1> DEFINE P(n) == CHOOSE f \in [0..n -> V] : Starting(f, first, next, n)
           f == [n \in Nat |-> P(n)[n]]
<1>1. \A n \in Nat : P(n) \in [0..n -> V] /\ Starting(P(n), first, next, n)
  BY PrefixExists
<1> HIDE DEF P
<1>2. f \in [Nat -> V]
  <2> SUFFICES ASSUME NEW n \in Nat PROVE P(n)[n] \in V OBVIOUS
  <2> QED BY <1>1
<1>3. f[0] = first BY <1>1 DEF Starting
<1>4. ASSUME NEW n \in Nat PROVE f[n + 1] = next[<<n, f[n]>>]
  <2>1. n + 1 \in Nat /\ n \in 0..((n + 1) - 1) OBVIOUS
  <2>2. Starting(P(n + 1), first, next, n + 1) /\ Starting(P(n), first, next, n)
    BY <1>1, <2>1
  <2>3. P(n + 1)[n + 1] = next[<<n, P(n + 1)[n]>>] BY <2>1, <2>2 DEF Starting
  <2>4. P(n + 1)[n] = P(n)[n]
    <3>1. Starting(P(n + 1), first, next, n) BY <2>2 DEF Starting
    <3> QED BY <3>1, <2>2, PrefixesAgree
  <2> QED BY <2>1, <2>3, <2>4
<1> HIDE DEF f
<1>5. Follows(f, first, next) BY <1>3, <1>4 DEF Follows
<1> QED BY <1>2, <1>5

\* The same for the way recursive functions of integers are defined.
Defines(f, first, next) ==
  f = [n \in Nat |-> IF n = 0 THEN first ELSE next[<<n - 1, f[n - 1]>>]]

LEMMA IntegerRecursion ==
  ASSUME NEW first \in Int, NEW next \in [Nat \X Int -> Int]
  PROVE  \E f \in [Nat -> Int] : Defines(f, first, next)
<1>1. PICK f \in [Nat -> Int] : Follows(f, first, next)
  <2> DEFINE V == Int
  <2>1. first \in V /\ next \in [Nat \X V -> V] OBVIOUS
  <2> HIDE DEF V
  <2>2. \E f \in [Nat -> V] : Follows(f, first, next) BY <2>1, Recursion
  <2> QED BY <2>2 DEF V
<1>2. ASSUME NEW n \in Nat, n # 0 PROVE f[n] = next[<<n - 1, f[n - 1]>>]
  <2>1. n - 1 \in Nat /\ (n - 1) + 1 = n BY <1>2
  <2> QED BY <1>1, <2>1 DEF Follows
<1>3. Defines(f, first, next) BY <1>1, <1>2 DEF Defines, Follows
<1> QED BY <1>3

\* The values of a function whose recursion stays in the integers are integers.
LEMMA IntegerValues ==
  ASSUME NEW f, f[0] \in Int, \A n \in Nat : f[n] \in Int => f[n + 1] \in Int
  PROVE  \A n \in Nat : f[n] \in Int
<1> DEFINE S == {n \in Nat : f[n] \in Int}
<1>1. 0 \in S /\ \A n \in S : n + 1 \in S OBVIOUS
<1> HIDE DEF S
<1>2. S = Nat
  <2>1. S \in SUBSET Nat BY DEF S
  <2> QED BY <2>1, <1>1, SetInduction
<1> QED BY <1>2 DEF S
=============================================================================
