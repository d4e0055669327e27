----------------------------- MODULE Induction -----------------------------
(* Induction and recursion over the natural numbers, stated with sets and     *)
(* functions in the place of operators: the library's theorems on them, whose *)
(* parameter is an operator, cannot be instantiated by the provers.           *)
EXTENDS Integers, WellFoundedInduction, TLAPS

\* A least counterexample, in the place of an induction.
LEMMA Smallest ==
    ASSUME NEW S \in SUBSET Nat, S # {}
    PROVE  \E n \in S : \A m \in S : n <= m
<1> DEFINE R == OpToRel(<, Nat)
<1>1. IsWellFoundedOn(R, Nat)
    BY NatLessThanWellFounded, Zenon
<1>2. \A x, y \in Nat : y < x => <<y, x>> \in R
    BY DEF OpToRel
<1> HIDE DEF R
<1>3. \E x \in S : \A y \in S : ~(<<y, x>> \in R)
    BY <1>1, WFMin
<1>4. PICK n \in S : \A y \in S : ~(<<y, n>> \in R)
    BY <1>3
<1>5. \A m \in S : ~(m < n)
    BY <1>2, <1>4
<1>6. \A m \in S : n <= m
    BY <1>5
<1> QED BY <1>6

\* Induction up to n.
LEMMA UpTo ==
    ASSUME NEW n \in Nat, NEW S, 0 \in S, \A k \in 1 .. n : k - 1 \in S => k \in S
    PROVE  \A k \in 0 .. n : k \in S
<1> DEFINE Others == {k \in 0 .. n : k \notin S}
<1>1. Others = {}
    <2> SUFFICES ASSUME Others # {} PROVE FALSE
        OBVIOUS
    <2>1. Others \in SUBSET Nat
        OBVIOUS
    <2>2. PICK k \in Others : \A j \in Others : k <= j
        BY <2>1, Smallest
    <2>3. k \in 1 .. n /\ k - 1 \in 0 .. n /\ ~(k <= k - 1)
        BY <2>2
    <2> QED BY <2>2, <2>3
<1> QED BY <1>1

\* A value of V for each place up to n, of which each is a function h[k] of the
\* one before it.
Steps(n, V) == [1 .. n -> [V -> V]]

Follows(g, n, V, a, h) ==
    /\ g \in [0 .. n -> V]
    /\ g[0] = a
    /\ \A k \in 1 .. n : g[k] = h[k][g[k - 1]]

LEMMA Recursion ==
    ASSUME NEW n \in Nat, NEW V, NEW a \in V, NEW h \in Steps(n, V)
    PROVE  \E g : Follows(g, n, V, a, h)
<1> USE DEF Steps
<1> DEFINE Chain(g, m) == /\ g \in [0 .. m -> V] /\ g[0] = a
                          /\ \A k \in 1 .. m : g[k] = h[k][g[k - 1]]
           S == {m \in 0 .. n : \E g : Chain(g, m)}
<1>1. 0 \in S
    <2>1. Chain([j \in 0 .. 0 |-> a], 0)
        OBVIOUS
    <2> HIDE DEF Chain
    <2> QED BY <2>1
<1>2. ASSUME NEW m \in 1 .. n, m - 1 \in S
      PROVE  m \in S
    <2>1. PICK g : Chain(g, m - 1)
        BY <1>2
    <2> DEFINE f == [j \in 0 .. m |-> IF j < m THEN g[j] ELSE h[m][g[m - 1]]]
    <2>2. g \in [0 .. m - 1 -> V] /\ h[m][g[m - 1]] \in V
        <3>1. g \in [0 .. m - 1 -> V] /\ m - 1 \in 0 .. m - 1
            BY <2>1
        <3>2. g[m - 1] \in V /\ h[m] \in [V -> V]
            BY <3>1
        <3> QED BY <3>1, <3>2
    <2>3. f \in [0 .. m -> V]
        BY <2>2
    <2>4. f[0] = a /\ f[m] = h[m][g[m - 1]] /\ \A j \in 0 .. m - 1 : f[j] = g[j]
        BY <2>1
    <2> HIDE DEF f
    <2>5. ASSUME NEW k \in 1 .. m
          PROVE  f[k] = h[k][f[k - 1]]
        <3>1. CASE k = m
            <4>1. f[m - 1] = g[m - 1]
                BY <2>4
            <4> QED BY <2>4, <3>1, <4>1
        <3>2. CASE k \in 1 .. m - 1
            <4>1. f[k] = g[k] /\ f[k - 1] = g[k - 1]
                BY <2>4, <3>2
            <4>2. g[k] = h[k][g[k - 1]]
                BY <2>1, <3>2
            <4> QED BY <4>1, <4>2
        <3> QED BY <3>1, <3>2
    <2>6. Chain(f, m)
        BY <2>3, <2>4, <2>5
    <2> HIDE DEF Chain
    <2> QED BY <2>6
<1> HIDE DEF Chain, S
<1>3. \A m \in 0 .. n : m \in S
    BY <1>1, <1>2, UpTo
<1>4. \E g : Chain(g, n)
    BY <1>3 DEF S
<1> QED BY <1>4 DEF Chain, Follows

=============================================================================
