------------------------- MODULE TimeWheel_proofs --------------------------
(* The timing wheels with any number of wheels and of slots: a timer is       *)
(* called once, when it is due, and not once it is removed.                   *)
EXTENDS TimeWheel, Induction, SequenceTheorems, TLAPS

Wheels == 1 .. WheelCount

Slots(k) == 1 .. Counts[k]

----------------------------------------------------------------------------
(* Recursion over the wheels                                                  *)

LEMMA CountsType == WheelCount \in Nat /\ WheelCount > 1 /\ \A k \in Wheels : Counts[k] \in Nat \ {0}
<1>1. Len(Counts) \in Nat /\ Counts \in [1 .. Len(Counts) -> Nat \ {0}]
    BY TimeWheelAssumption, LenProperties
<1> QED BY <1>1, TimeWheelAssumption DEF WheelCount, Wheels

\* How long the slots last: the code's 1, 60, 60 * 60 and so on.
LEMMA ParamType ==
    /\ Param[1] = 1
    /\ \A k \in Wheels : Param[k] \in Nat \ {0}
    /\ \A k \in Wheels : k < WheelCount => Param[k + 1] = Counts[k] * Param[k]
<1> DEFINE h == [j \in Wheels |-> [x \in Int |-> Counts[j] * x]]
<1>1. /\ h \in [Wheels -> [Int -> Int]]
      /\ \A k \in Wheels, x \in Int : h[k][x] = Counts[k] * x
    BY CountsType
<1> HIDE DEF h
<1>2. PICK g \in [0 .. WheelCount -> Int] :
          g[0] = 1 /\ \A k \in 1 .. WheelCount : g[k] = h[k][g[k - 1]]
    <2>1. WheelCount \in Nat /\ 1 \in Int
        BY CountsType
    <2>2. h \in Steps(WheelCount, Int)
        BY <1>1 DEF Steps, Wheels
    <2>3. \E g : Follows(g, WheelCount, Int, 1, h)
        BY ONLY <2>1, <2>2, Recursion
    <2> QED BY ONLY <2>3 DEF Follows
<1>3. \A k \in Wheels : g[k] = Counts[k] * g[k - 1]
    <2> SUFFICES ASSUME NEW k \in Wheels
                 PROVE  g[k] = Counts[k] * g[k - 1]
        OBVIOUS
    <2>1. k \in 1 .. WheelCount /\ g[k - 1] \in Int
        BY CountsType DEF Wheels
    <2> QED BY <1>1, <1>2, <2>1
<1> DEFINE p == [k \in 1 .. WheelCount |-> g[k - 1]]
<1>4. p = [k \in 1 .. WheelCount |-> IF k = 1 THEN 1 ELSE Counts[k - 1] * p[k - 1]]
    <2>1. ASSUME NEW k \in 1 .. WheelCount
          PROVE  p[k] = IF k = 1 THEN 1 ELSE Counts[k - 1] * p[k - 1]
        <3>1. CASE k = 1
            BY <1>2, <3>1
        <3>2. CASE k # 1
            <4>1. k - 1 \in Wheels /\ k - 1 \in 1 .. WheelCount
                BY <3>2, CountsType DEF Wheels
            <4>2. p[k] = g[k - 1] /\ p[k - 1] = g[(k - 1) - 1]
                BY <4>1
            <4>3. g[k - 1] = Counts[k - 1] * g[(k - 1) - 1]
                BY <1>3, <4>1
            <4> QED BY <3>2, <4>2, <4>3
        <3> QED BY <3>1, <3>2
    <2> QED BY <2>1
<1> HIDE DEF p
<1>5. Param = [k \in 1 .. WheelCount |-> IF k = 1 THEN 1 ELSE Counts[k - 1] * Param[k - 1]]
    BY <1>4 DEF Param
<1>6. 1 \in Wheels /\ Param[1] = 1
    BY <1>5, CountsType DEF Wheels
<1>7. ASSUME NEW k \in Wheels, k < WheelCount
      PROVE  Param[k + 1] = Counts[k] * Param[k]
    <2>1. k + 1 \in 1 .. WheelCount /\ k + 1 # 1 /\ (k + 1) - 1 = k
        BY <1>7, CountsType DEF Wheels
    <2> QED BY <1>5, <2>1
<1> DEFINE S == {k \in Wheels : Param[k] \notin Nat \ {0}}
<1>8. S = {}
    <2> SUFFICES ASSUME S # {} PROVE FALSE
        OBVIOUS
    <2>1. S \in SUBSET Nat
        BY CountsType DEF Wheels
    <2>2. PICK k \in S : \A j \in S : k <= j
        BY <2>1, Smallest
    <2>3. k \in Wheels /\ Param[k] \notin Nat \ {0}
        BY <2>2
    <2>4. k - 1 \in Wheels /\ k - 1 < WheelCount /\ (k - 1) + 1 = k
        BY <1>6, <2>3, CountsType DEF Wheels
    <2>5. k - 1 \notin S
        BY <2>2, <2>4, CountsType DEF Wheels
    <2>6. Param[k - 1] \in Nat \ {0} /\ Counts[k - 1] \in Nat \ {0}
        BY <2>4, <2>5, CountsType
    <2>7. Param[k] = Counts[k - 1] * Param[k - 1]
        BY <1>7, <2>4
    <2>8. \A x, y \in Nat \ {0} : x * y \in Nat \ {0}
        OBVIOUS
    <2> QED BY <2>3, <2>6, <2>7, <2>8
<1>9. \A k \in Wheels : Param[k] \in Nat \ {0}
    BY <1>8
<1> QED BY <1>6, <1>7, <1>9

\* What a wheel has counted when each of its slots counts as Param says.
LEMMA ElapsedSum ==
    ASSUME NEW cur \in [Wheels -> Nat]
    PROVE  /\ Elapsed(cur, 1) = 0
           /\ \A k \in Wheels : Elapsed(cur, k) \in Int
           /\ \A k \in Wheels : k < WheelCount =>
                  Elapsed(cur, k + 1) = Elapsed(cur, k) + cur[k] * Param[k]
<1> DEFINE h == [j \in Wheels |-> [x \in Int |-> x + cur[j] * Param[j]]]
<1>1. \A j \in Wheels : cur[j] * Param[j] \in Int
    BY ParamType
<1>2. /\ h \in [Wheels -> [Int -> Int]]
      /\ \A k \in Wheels, x \in Int : h[k][x] = x + cur[k] * Param[k]
    BY <1>1
<1> HIDE DEF h
<1>3. PICK g \in [0 .. WheelCount -> Int] :
          g[0] = 0 /\ \A k \in 1 .. WheelCount : g[k] = h[k][g[k - 1]]
    <2>1. WheelCount \in Nat /\ 0 \in Int
        BY CountsType
    <2>2. h \in Steps(WheelCount, Int)
        BY <1>2 DEF Steps, Wheels
    <2>3. \E g : Follows(g, WheelCount, Int, 0, h)
        BY ONLY <2>1, <2>2, Recursion
    <2> QED BY ONLY <2>3 DEF Follows
<1>4. \A j \in 1 .. WheelCount : g[j] = g[j - 1] + cur[j] * Param[j]
    <2> SUFFICES ASSUME NEW j \in 1 .. WheelCount
                 PROVE  g[j] = g[j - 1] + cur[j] * Param[j]
        OBVIOUS
    <2>1. j \in Wheels /\ g[j - 1] \in Int
        BY CountsType DEF Wheels
    <2> QED BY <1>2, <1>3, <2>1
<1>5. g = [j \in 0 .. WheelCount |-> IF j = 0 THEN 0 ELSE g[j - 1] + cur[j] * Param[j]]
    <2>1. \A j \in 0 .. WheelCount :
              g[j] = IF j = 0 THEN 0 ELSE g[j - 1] + cur[j] * Param[j]
        BY <1>3, <1>4, CountsType
    <2> QED BY <1>3, <2>1
<1> DEFINE sum == CHOOSE f : f = [j \in 0 .. WheelCount |->
                                     IF j = 0 THEN 0 ELSE f[j - 1] + cur[j] * Param[j]]
<1>6. sum = [j \in 0 .. WheelCount |-> IF j = 0 THEN 0 ELSE sum[j - 1] + cur[j] * Param[j]]
    BY <1>5
<1>7. \A k : Elapsed(cur, k) = sum[k - 1]
    BY DEF Elapsed
<1> HIDE DEF sum
<1>8. sum[0] = 0 /\ \A j \in 1 .. WheelCount : sum[j] = sum[j - 1] + cur[j] * Param[j]
    BY <1>6, CountsType
<1> DEFINE S == {j \in 0 .. WheelCount : sum[j] \notin Int}
<1>9. S = {}
    <2> SUFFICES ASSUME S # {} PROVE FALSE
        OBVIOUS
    <2>1. S \in SUBSET Nat
        BY CountsType
    <2>2. PICK j \in S : \A i \in S : j <= i
        BY <2>1, Smallest
    <2>3. j \in 0 .. WheelCount /\ sum[j] \notin Int
        BY <2>2
    <2>4. j \in 1 .. WheelCount /\ j - 1 \in 0 .. WheelCount /\ ~(j <= j - 1)
        BY <1>8, <2>3, CountsType
    <2>5. sum[j - 1] \in Int
        BY <2>2, <2>4
    <2>6. cur[j] * Param[j] \in Int /\ sum[j] = sum[j - 1] + cur[j] * Param[j]
        BY <1>1, <1>8, <2>4 DEF Wheels
    <2> QED BY <2>3, <2>5, <2>6
<1>10. \A k \in Wheels : Elapsed(cur, k) \in Int
    <2>1. \A k \in Wheels : k - 1 \in 0 .. WheelCount
        BY CountsType DEF Wheels
    <2>2. \A j \in 0 .. WheelCount : sum[j] \in Int
        BY <1>9
    <2> QED BY <1>7, <2>1, <2>2
<1>11. Elapsed(cur, 1) = 0
    BY <1>7, <1>8
<1>12. ASSUME NEW k \in Wheels, k < WheelCount
       PROVE  Elapsed(cur, k + 1) = Elapsed(cur, k) + cur[k] * Param[k]
    <2>1. k \in 1 .. WheelCount /\ (k + 1) - 1 = k
        BY CountsType DEF Wheels
    <2>2. Elapsed(cur, k + 1) = sum[k] /\ Elapsed(cur, k) = sum[k - 1]
        BY <1>7, <2>1
    <2> QED BY <1>8, <2>1, <2>2
<1> QED BY <1>10, <1>11, <1>12

LEMMA OnWheels ==
    ASSUME NEW S \in SUBSET Wheels, 1 \in S, \A k \in S : k < WheelCount => k + 1 \in S
    PROVE  S = Wheels
<1> DEFINE Others == Wheels \ S
<1>1. Others = {}
    <2> SUFFICES ASSUME Others # {} PROVE FALSE
        OBVIOUS
    <2>1. Others \in SUBSET Nat
        BY CountsType DEF Wheels
    <2>2. PICK k \in Others : \A j \in Others : k <= j
        BY <2>1, Smallest
    <2>3. k \in Wheels /\ k \notin S /\ k # 1
        BY <2>2
    <2>4. k - 1 \in Wheels /\ ~(k <= k - 1) /\ k - 1 < WheelCount /\ (k - 1) + 1 = k
        BY <2>3, CountsType DEF Wheels
    <2>5. k - 1 \in S
        BY <2>2, <2>4
    <2> QED BY <2>3, <2>4, <2>5
<1> QED BY <1>1

LEMMA Products ==
    ASSUME NEW x \in Nat, NEW y \in Nat, NEW p \in Nat
    PROVE  /\ x * p \in Nat
           /\ x <= y => x * p <= y * p
           /\ x < y => x * p + p <= y * p
<1>1. x * p \in Nat /\ y * p \in Nat
    OBVIOUS
<1>2. ASSUME x <= y
      PROVE  x * p <= y * p
    <2>1. (y - x) * p \in Nat
        BY <1>2
    <2>2. (y - x) * p = y * p - x * p
        OBVIOUS
    <2> QED BY <1>1, <2>1, <2>2
<1>3. ASSUME x < y
      PROVE  x * p + p <= y * p
    <2>1. (y - x - 1) * p \in Nat
        BY <1>3
    <2>2. (y - x - 1) * p = y * p - x * p - p
        OBVIOUS
    <2> QED BY <1>1, <2>1, <2>2
<1> QED BY <1>1, <1>2, <1>3

----------------------------------------------------------------------------
(* Where the wheels are                                                       *)

\* Wheel w is being walked, none if w is 0: those below it have just come
\* round, and it is the only one that can stand at its last slot.
Turning(cur, w) ==
    \A k \in Wheels :
        /\ cur[k] <= Counts[k]
        /\ cur[k] = Counts[k] => k = w
        /\ k < w => cur[k] = 0
        /\ k = w => cur[k] > 0

Walked(cur, w, k, s) == k = w /\ s = cur[k]

\* How long until slot s of wheel k is walked.
Ahead(cur, w, k, s) == IF Walked(cur, w, k, s) THEN 0 ELSE CompTime(cur, k, s)

\* What the wheels below have counted is less than a slot, unless one of them
\* is about to come round.
LEMMA ElapsedBound ==
    ASSUME NEW cur \in [Wheels -> Nat], NEW w \in 0 .. WheelCount, Turning(cur, w),
           NEW k \in Wheels
    PROVE  /\ Elapsed(cur, k) \in 0 .. Param[k]
           /\ k <= w => Elapsed(cur, k) = 0
           /\ w = 0 \/ cur[w] < Counts[w] => Elapsed(cur, k) < Param[k]
<1> DEFINE B(j) == /\ Elapsed(cur, j) \in 0 .. Param[j]
                   /\ j <= w => Elapsed(cur, j) = 0
                   /\ w = 0 \/ cur[w] < Counts[w] => Elapsed(cur, j) < Param[j]
           S == {j \in Wheels : B(j)}
<1>1. 1 \in S
    <2>1. 1 \in Wheels
        BY CountsType DEF Wheels
    <2>2. Elapsed(cur, 1) = 0 /\ Param[1] = 1
        BY ElapsedSum, ParamType
    <2> QED BY <2>1, <2>2
<1>2. ASSUME NEW j \in S, j < WheelCount
      PROVE  j + 1 \in S
    <2>1. j \in Wheels /\ j # 0 /\ j + 1 \in Wheels /\ B(j)
        BY <1>2, CountsType DEF Wheels
    <2> DEFINE e == Elapsed(cur, j)
               f == Elapsed(cur, j + 1)
               p == Param[j]
               c == Counts[j]
               m == cur[j] * p
               q == Param[j + 1]
    <2>2. f = e + m /\ q = c * p
        BY <1>2, <2>1, ElapsedSum, ParamType
    <2>3. p \in Nat \ {0} /\ q \in Nat \ {0} /\ c \in Nat \ {0} /\ cur[j] \in Nat
        BY <2>1, ParamType, CountsType
    <2>4. /\ m \in Nat
          /\ cur[j] <= c => m <= q
          /\ cur[j] < c => m + p <= q
        BY <2>2, <2>3, Products
    <2>5. /\ cur[j] <= c
          /\ j # w => cur[j] < c
          /\ j < w => cur[j] = 0
        BY <2>1, <2>3 DEF Turning
    <2>6. e \in 0 .. p /\ (j <= w => e = 0) /\ (w = 0 \/ cur[w] < Counts[w] => e < p)
        BY <2>1
    <2>7. j < w => m = 0
        BY <2>3, <2>5
    <2> HIDE DEF e, f, p, m, q
    <2>8. f \in 0 .. q
        BY <2>2, <2>3, <2>4, <2>5, <2>6 DEF Wheels
    <2>9. j + 1 <= w => f = 0
        BY <2>1, <2>2, <2>3, <2>6, <2>7 DEF Wheels
    <2>10. ASSUME w = 0 \/ cur[w] < Counts[w]
           PROVE  f < q
        <3>1. cur[j] < c
            BY <2>1, <2>5, <2>10
        <3> QED BY <2>2, <2>3, <2>4, <2>6, <2>10, <3>1
    <2> QED BY <2>1, <2>8, <2>9, <2>10 DEF f, q
<1> HIDE DEF B
<1>3. S = Wheels
    BY <1>1, <1>2, OnWheels
<1> QED BY <1>3 DEF B

LEMMA SlotsUntilRange ==
    ASSUME NEW cur \in [Wheels -> Nat], NEW k \in Wheels, cur[k] <= Counts[k],
           NEW s \in Slots(k)
    PROVE  SlotsUntil(cur, k, s) \in 1 .. Counts[k]
<1>1. Counts[k] \in Nat \ {0} /\ cur[k] \in Nat
    BY CountsType
<1> QED BY <1>1 DEF SlotsUntil, Slots

LEMMA CompTimeType ==
    ASSUME NEW cur \in [Wheels -> Nat], NEW k \in Wheels, cur[k] <= Counts[k],
           NEW s \in Slots(k)
    PROVE  /\ CompTime(cur, k, s) = SlotsUntil(cur, k, s) * Param[k] - Elapsed(cur, k)
           /\ SlotsUntil(cur, k, s) \in Nat
           /\ Elapsed(cur, k) \in Int
           /\ CompTime(cur, k, s) \in Int
<1>1. SlotsUntil(cur, k, s) \in Nat /\ Param[k] \in Nat /\ Elapsed(cur, k) \in Int
    BY SlotsUntilRange, CountsType, ParamType, ElapsedSum
<1> QED BY <1>1 DEF CompTime

\* Between ticks no slot that a timer can stand in is due at once.
LEMMA NothingOverdue ==
    ASSUME NEW cur \in [Wheels -> Nat], Turning(cur, 0), NEW k \in Wheels,
           NEW s \in Slots(k)
    PROVE  CompTime(cur, k, s) >= 1
<1> DEFINE n == SlotsUntil(cur, k, s)
           p == Param[k]
<1>1. cur[k] <= Counts[k]
    BY DEF Turning
<1>2. n \in Nat \ {0} /\ p \in Nat \ {0} /\ CompTime(cur, k, s) = n * p - Elapsed(cur, k)
    BY <1>1, SlotsUntilRange, CompTimeType, ParamType, CountsType
<1>3. 0 \in 0 .. WheelCount
    BY CountsType
<1>4. Elapsed(cur, k) \in Nat /\ Elapsed(cur, k) < p
    BY <1>2, <1>3, ElapsedBound
<1>5. n * p \in Nat /\ n * p >= p
    <2>1. 0 * p + p <= n * p
        BY <1>2, Products
    <2> QED BY <1>2, <2>1
<1> QED BY <1>2, <1>4, <1>5

\* A tick brings every slot nearer by one, and the one it starts to walk was
\* one tick away.
Ticked(cur) == [cur EXCEPT ![1] = @ + 1]

LEMMA TickTurns ==
    ASSUME NEW cur \in [Wheels -> Nat], Turning(cur, 0),
           NEW new, new = Ticked(cur)
    PROVE  /\ new \in [Wheels -> Nat]
           /\ new[1] <= Counts[1]
           /\ Turning(new, 1)
           /\ \A k \in Wheels : \A s \in Slots(k) :
                 CompTime(cur, k, s) = 1 + Ahead(new, 1, k, s)
<1>1. 1 \in Wheels /\ \A k \in Wheels : cur[k] \in Nat /\ Counts[k] \in Nat \ {0}
    BY CountsType DEF Wheels
<1>2. \A k \in Wheels : cur[k] < Counts[k]
    BY <1>1 DEF Turning, Wheels
<1>3. /\ new \in [Wheels -> Nat]
      /\ new[1] = cur[1] + 1
      /\ \A k \in Wheels : k # 1 => new[k] = cur[k]
    BY <1>1 DEF Ticked
<1>4. new[1] <= Counts[1]
    BY <1>1, <1>2, <1>3
<1>5. Turning(new, 1)
    BY <1>1, <1>2, <1>3 DEF Turning, Wheels
<1>6. \A k \in Wheels : k # 1 => Elapsed(new, k) = Elapsed(cur, k) + 1
    <2> DEFINE S == {k \in Wheels : k # 1 => Elapsed(new, k) = Elapsed(cur, k) + 1}
    <2>1. 1 \in S
        BY <1>1
    <2>2. ASSUME NEW k \in S, k < WheelCount
          PROVE  k + 1 \in S
        <3>1. k \in Wheels /\ k + 1 \in Wheels
            BY <2>2, CountsType DEF Wheels
        <3>2. /\ Elapsed(new, k + 1) = Elapsed(new, k) + new[k] * Param[k]
              /\ Elapsed(cur, k + 1) = Elapsed(cur, k) + cur[k] * Param[k]
              /\ Elapsed(new, k) \in Int /\ Elapsed(cur, k) \in Int
            BY <1>3, <2>2, <3>1, ElapsedSum
        <3>3. CASE k = 1
            <4>1. Elapsed(new, k) = 0 /\ Elapsed(cur, k) = 0 /\ Param[k] = 1
                BY <1>3, <3>3, ElapsedSum, ParamType
            <4> QED BY <1>1, <1>3, <3>1, <3>2, <3>3, <4>1
        <3>4. CASE k # 1
            <4>1. new[k] * Param[k] = cur[k] * Param[k] /\ cur[k] * Param[k] \in Int
                BY <1>1, <1>3, <3>1, <3>4, ParamType
            <4>2. Elapsed(new, k) = Elapsed(cur, k) + 1
                BY <2>2, <3>4
            <4> QED BY <3>1, <3>2, <4>1, <4>2
        <3> QED BY <3>3, <3>4
    <2>3. S \in SUBSET Wheels
        OBVIOUS
    <2> HIDE DEF S
    <2>4. S = Wheels
        BY <2>1, <2>2, <2>3, OnWheels
    <2> QED BY <2>4 DEF S
<1>7. ASSUME NEW k \in Wheels, NEW s \in Slots(k)
      PROVE  CompTime(cur, k, s) = 1 + Ahead(new, 1, k, s)
    <2>1. cur[k] <= Counts[k] /\ new[k] <= Counts[k]
        BY <1>1, <1>2, <1>3, <1>4
    <2>2. /\ CompTime(cur, k, s) = SlotsUntil(cur, k, s) * Param[k] - Elapsed(cur, k)
          /\ CompTime(new, k, s) = SlotsUntil(new, k, s) * Param[k] - Elapsed(new, k)
          /\ SlotsUntil(cur, k, s) \in Nat /\ SlotsUntil(new, k, s) \in Nat
          /\ Elapsed(cur, k) \in Int /\ Elapsed(new, k) \in Int
        BY <1>3, <2>1, CompTimeType
    <2>3. CASE k = 1
        <3>1. Elapsed(cur, k) = 0 /\ Elapsed(new, k) = 0 /\ Param[k] = 1
            BY <1>3, <2>3, ElapsedSum, ParamType
        <3>2. /\ CompTime(cur, k, s) = SlotsUntil(cur, k, s)
              /\ CompTime(new, k, s) = SlotsUntil(new, k, s)
            BY <2>2, <3>1
        <3>3. /\ s = new[k] => SlotsUntil(cur, k, s) = 1
              /\ s # new[k] => SlotsUntil(cur, k, s) = 1 + SlotsUntil(new, k, s)
            BY <1>1, <1>2, <1>3, <2>3 DEF SlotsUntil, Slots
        <3> QED BY <2>3, <3>2, <3>3 DEF Walked, Ahead
    <2>4. CASE k # 1
        <3>1. SlotsUntil(cur, k, s) = SlotsUntil(new, k, s)
            BY <1>3, <2>4 DEF SlotsUntil
        <3>2. Elapsed(new, k) = Elapsed(cur, k) + 1
            BY <1>6, <2>4
        <3>3. SlotsUntil(cur, k, s) * Param[k] \in Int
            BY <2>2, ParamType
        <3> QED BY <2>2, <2>4, <3>1, <3>2, <3>3 DEF Walked, Ahead
    <2> QED BY <2>3, <2>4
<1> QED BY <1>3, <1>4, <1>5, <1>7

\* When the walked wheel has come round, it starts again and the next one goes
\* on by a slot: no slot changes its time, and the one that is walked next is
\* due.
Turned(cur, w) ==
    [j \in 1 .. WheelCount |-> CASE j = w -> 0
                                 [] j = w + 1 -> cur[j] + 1
                                 [] OTHER -> cur[j]]

NextWalked(w) == IF w < WheelCount THEN w + 1 ELSE 0

LEMMA RoundTurns ==
    ASSUME NEW cur \in [Wheels -> Nat], NEW w \in Wheels, Turning(cur, w),
           cur[w] = Counts[w], NEW new, new = Turned(cur, w)
    PROVE  /\ new \in [Wheels -> Nat]
           /\ NextWalked(w) \in 0 .. WheelCount
           /\ Turning(new, NextWalked(w))
           /\ \A k \in Wheels : \A s \in Slots(k) :
                 ~Walked(cur, w, k, s) =>
                     CompTime(cur, k, s) = Ahead(new, NextWalked(w), k, s)
<1>1. /\ WheelCount \in Nat /\ w \in Nat /\ w >= 1 /\ w <= WheelCount /\ 0 \notin Wheels
      /\ \A k \in Wheels : k \in Nat /\ cur[k] \in Nat /\ Counts[k] \in Nat \ {0}
      /\ w \in 0 .. WheelCount
    BY CountsType DEF Wheels
<1>2. /\ \A k \in Wheels : k # w => cur[k] < Counts[k]
      /\ \A k \in Wheels : k < w => cur[k] = 0
    BY <1>1 DEF Turning
<1>3. /\ new \in [Wheels -> Nat]
      /\ new[w] = 0
      /\ \A k \in Wheels : k = w + 1 => new[k] = cur[k] + 1
      /\ \A k \in Wheels : k # w /\ k # w + 1 => new[k] = cur[k]
    BY <1>1 DEF Turned, Wheels
<1> DEFINE v == NextWalked(w)
<1>4. /\ v \in 0 .. WheelCount
      /\ \A k \in Wheels : k = v <=> k = w + 1
      /\ \A k \in Wheels : k < v => k <= w
    BY <1>1 DEF NextWalked, Wheels
<1> HIDE DEF v
<1>5. Turning(new, v)
    <2> SUFFICES ASSUME NEW k \in Wheels
                 PROVE  /\ new[k] <= Counts[k]
                        /\ new[k] = Counts[k] => k = v
                        /\ k < v => new[k] = 0
                        /\ k = v => new[k] > 0
        BY DEF Turning
    <2>1. CASE k = w
        BY <1>1, <1>3, <1>4, <2>1
    <2>2. CASE k = w + 1
        BY <1>1, <1>2, <1>3, <1>4, <2>2
    <2>3. CASE k # w /\ k # w + 1
        BY <1>1, <1>2, <1>3, <1>4, <2>3
    <2> QED BY <2>1, <2>2, <2>3
<1>6. \A k \in Wheels : /\ Elapsed(new, k) \in Int /\ Elapsed(cur, k) \in Int
                        /\ k <= w => Elapsed(new, k) = 0 /\ Elapsed(cur, k) = 0
    <2> DEFINE S == {k \in Wheels : k <= w => Elapsed(new, k) = 0}
    <2>1. 1 \in S
        BY <1>3, CountsType, ElapsedSum DEF Wheels
    <2>2. ASSUME NEW k \in S, k < WheelCount
          PROVE  k + 1 \in S
        <3> SUFFICES ASSUME k + 1 <= w
                     PROVE  Elapsed(new, k + 1) = 0
            BY <2>2, CountsType DEF Wheels
        <3>1. k \in Wheels /\ k < w /\ new[k] = 0 /\ Param[k] \in Nat
            BY <1>1, <1>2, <1>3, ParamType
        <3>2. Elapsed(new, k) = 0 /\ new[k] * Param[k] = 0
            BY <1>1, <3>1
        <3> QED BY <1>3, <2>2, <3>1, <3>2, ElapsedSum
    <2>3. S \in SUBSET Wheels
        OBVIOUS
    <2> HIDE DEF S
    <2>4. S = Wheels
        BY <2>1, <2>2, <2>3, OnWheels
    <2>5. \A k \in Wheels : k <= w => Elapsed(cur, k) = 0
        BY <1>1, ElapsedBound
    <2> QED BY <1>3, <2>4, <2>5, ElapsedSum DEF S
<1>7. ASSUME w + 1 \in Wheels
      PROVE  Elapsed(cur, w + 1) = Param[w + 1] /\ Elapsed(new, w + 1) = 0
    <2>1. w < WheelCount
        BY <1>1, <1>7 DEF Wheels
    <2>2. Elapsed(cur, w + 1) = Elapsed(cur, w) + cur[w] * Param[w]
        BY <2>1, ElapsedSum
    <2>3. Elapsed(new, w + 1) = Elapsed(new, w) + new[w] * Param[w]
        BY <1>3, <2>1, ElapsedSum
    <2>4. Param[w + 1] = cur[w] * Param[w] /\ Param[w] \in Nat /\ Param[w + 1] \in Nat
        BY <1>7, <2>1, ParamType
    <2>5. Elapsed(new, w) = 0 /\ Elapsed(cur, w) = 0
        BY <1>1, <1>6
    <2> QED BY <1>3, <2>2, <2>3, <2>4, <2>5
<1>8. \A k \in Wheels : k > w + 1 => Elapsed(new, k) = Elapsed(cur, k)
    <2> DEFINE S == {k \in Wheels : k > w + 1 => Elapsed(new, k) = Elapsed(cur, k)}
    <2>1. 1 \in S
        BY <1>1 DEF Wheels
    <2>2. ASSUME NEW k \in S, k < WheelCount
          PROVE  k + 1 \in S
        <3> SUFFICES ASSUME k + 1 > w + 1
                     PROVE  Elapsed(new, k + 1) = Elapsed(cur, k + 1)
            BY <2>2, CountsType DEF Wheels
        <3>1. k \in Wheels /\ cur[k] \in Nat /\ Param[k] \in Nat
            BY <1>1, ParamType
        <3>2. /\ Elapsed(new, k + 1) = Elapsed(new, k) + new[k] * Param[k]
              /\ Elapsed(cur, k + 1) = Elapsed(cur, k) + cur[k] * Param[k]
              /\ Elapsed(new, k) \in Int /\ Elapsed(cur, k) \in Int
            BY <1>3, <2>2, <3>1, ElapsedSum
        <3>3. CASE k = w + 1
            <4>1. new[k] * Param[k] = cur[k] * Param[k] + Param[k] /\ cur[k] * Param[k] \in Int
                BY <1>3, <3>1, <3>3
            <4>2. Elapsed(cur, k) = Param[k] /\ Elapsed(new, k) = 0
                BY <1>7, <3>1, <3>3
            <4> QED BY <3>1, <3>2, <4>1, <4>2
        <3>4. CASE k > w + 1
            <4>1. new[k] = cur[k] /\ Elapsed(new, k) = Elapsed(cur, k)
                BY <1>1, <1>3, <3>1, <3>4
            <4> QED BY <3>2, <4>1
        <3>5. k = w + 1 \/ k > w + 1
            BY <1>1, <3>1
        <3> QED BY <3>3, <3>4, <3>5
    <2>3. S \in SUBSET Wheels
        OBVIOUS
    <2> HIDE DEF S
    <2>4. S = Wheels
        BY <2>1, <2>2, <2>3, OnWheels
    <2> QED BY <2>4 DEF S
<1>9. ASSUME NEW k \in Wheels, NEW s \in Slots(k), ~Walked(cur, w, k, s)
      PROVE  CompTime(cur, k, s) = Ahead(new, v, k, s)
    <2>1. cur[k] <= Counts[k] /\ new[k] <= Counts[k]
        BY <1>5 DEF Turning
    <2>2. /\ CompTime(cur, k, s) = SlotsUntil(cur, k, s) * Param[k] - Elapsed(cur, k)
          /\ CompTime(new, k, s) = SlotsUntil(new, k, s) * Param[k] - Elapsed(new, k)
          /\ SlotsUntil(cur, k, s) \in Nat /\ SlotsUntil(new, k, s) \in Nat
          /\ Elapsed(cur, k) \in Int /\ Elapsed(new, k) \in Int
        BY <1>3, <2>1, CompTimeType
    <2>3. s \in Nat /\ s >= 1 /\ s <= Counts[k]
        BY <1>1 DEF Slots
    <2>4. CASE k < w
        <3>1. new[k] = cur[k] /\ Elapsed(new, k) = Elapsed(cur, k)
            BY <1>1, <1>3, <1>6, <2>4
        <3>2. SlotsUntil(new, k, s) = SlotsUntil(cur, k, s)
            BY <3>1 DEF SlotsUntil
        <3> QED BY <1>1, <1>4, <2>2, <2>4, <3>1, <3>2 DEF Walked, Ahead
    <2>5. CASE k = w
        <3>1. s < cur[k]
            BY <1>1, <1>9, <2>3, <2>5 DEF Walked
        <3>2. SlotsUntil(new, k, s) = SlotsUntil(cur, k, s)
            BY <1>1, <1>3, <2>3, <2>5, <3>1 DEF SlotsUntil
        <3>3. Elapsed(new, k) = Elapsed(cur, k)
            BY <1>1, <1>6, <2>5
        <3> QED BY <1>1, <1>4, <2>2, <2>5, <3>2, <3>3 DEF Walked, Ahead
    <2>6. CASE k = w + 1
        <3>1. new[k] = cur[k] + 1 /\ k = v
            BY <1>3, <1>4, <2>6
        <3>2. Elapsed(cur, k) = Param[k] /\ Elapsed(new, k) = 0
            BY <1>7, <2>6
        <3>3. cur[k] \in Nat /\ new[k] \in Nat /\ Counts[k] \in Nat /\ Param[k] \in Nat
            BY <1>1, <1>3, ParamType
        <3>4. /\ s = new[k] => SlotsUntil(cur, k, s) = 1
              /\ s # new[k] => SlotsUntil(cur, k, s) = SlotsUntil(new, k, s) + 1
            BY <2>1, <2>3, <3>1, <3>3 DEF SlotsUntil
        <3>5. CASE s = new[k]
            BY <2>2, <3>1, <3>2, <3>3, <3>4, <3>5 DEF Walked, Ahead
        <3>6. CASE s # new[k]
            <4>1. (SlotsUntil(new, k, s) + 1) * Param[k] = SlotsUntil(new, k, s) * Param[k] + Param[k]
                  /\ SlotsUntil(new, k, s) * Param[k] \in Int
                BY <2>2, <3>3
            <4> QED BY <2>2, <3>1, <3>2, <3>3, <3>4, <3>6, <4>1 DEF Walked, Ahead
        <3> QED BY <3>5, <3>6
    <2>7. CASE k > w + 1
        <3>1. new[k] = cur[k] /\ Elapsed(new, k) = Elapsed(cur, k)
            BY <1>1, <1>3, <1>8, <2>7
        <3>2. SlotsUntil(new, k, s) = SlotsUntil(cur, k, s)
            BY <3>1 DEF SlotsUntil
        <3>3. k # w + 1 /\ k \in Nat
            BY <1>1, <2>7
        <3> QED BY <1>4, <2>2, <3>1, <3>2, <3>3 DEF Walked, Ahead
    <2>8. k < w \/ k = w \/ k = w + 1 \/ k > w + 1
        BY <1>1
    <2> QED BY <2>4, <2>5, <2>6, <2>7, <2>8
<1> QED BY <1>3, <1>4, <1>5, <1>9 DEF v

----------------------------------------------------------------------------
(* Where Add puts a timer                                                     *)

LEMMA Division ==
    ASSUME NEW d \in Nat, NEW p \in Nat \ {0}
    PROVE  /\ d \div p \in Nat
           /\ (d \div p) * p <= d
           /\ d < (d \div p) * p + p
    OBVIOUS

\* The slot of Add, by its distance q from the current one.
LEMMA Ring ==
    ASSUME NEW c \in Nat \ {0}, NEW n \in 0 .. c, NEW q \in 1 .. c
    PROVE  ((q + n - 1) % c) + 1 = IF q + n <= c THEN q + n ELSE q + n - c
<1>1. CASE q + n <= c
    <2>1. (q + n - 1) \in 0 .. c - 1
        BY <1>1
    <2> QED BY <1>1, <2>1
<1>2. CASE q + n > c
    <2>1. (q + n - 1 - c) \in 0 .. c - 1
        BY <1>2
    <2> QED BY <1>2, <2>1
<1> QED BY <1>1, <1>2

\* Add finds the least wheel whose range holds the delay.
LEMMA WheelFound ==
    ASSUME NEW d \in Nat \ {0}, d <= WheelRange(WheelCount), NEW k, k = WheelFor(d)
    PROVE  /\ k \in Wheels
           /\ d <= Counts[k] * Param[k]
           /\ k # 1 => d > Param[k]
<1> DEFINE S == {j \in Wheels : d <= WheelRange(j)}
<1>1. S \in SUBSET Nat /\ WheelCount \in S
    BY CountsType DEF Wheels
<1>2. PICK j \in S : \A i \in S : j <= i
    BY <1>1, Smallest
<1>3. \A i \in 1 .. j - 1 : i \in Wheels /\ ~(j <= i)
    BY <1>2, CountsType DEF Wheels
<1>4. \A i \in Wheels : WheelRange(i) \in Nat
    <2>1. \A x, y \in Nat : x * y \in Nat
        OBVIOUS
    <2> QED BY <2>1, CountsType, ParamType DEF WheelRange
<1>5. \A i \in 1 .. j - 1 : d > WheelRange(i)
    <2> SUFFICES ASSUME NEW i \in 1 .. j - 1
                 PROVE  d > WheelRange(i)
        OBVIOUS
    <2>1. i \in Wheels /\ i \notin S
        BY <1>2, <1>3
    <2>2. ~(d <= WheelRange(i)) /\ WheelRange(i) \in Nat
        BY <1>4, <2>1
    <2> QED BY <2>2
<1>6. j \in 1 .. WheelCount /\ d <= WheelRange(j)
    BY <1>2 DEF Wheels
<1>7. /\ k \in 1 .. WheelCount
      /\ d <= WheelRange(k)
      /\ \A i \in 1 .. k - 1 : d > WheelRange(i)
    BY <1>5, <1>6 DEF WheelFor
<1>8. ASSUME k # 1
      PROVE  d > Param[k]
    <2>1. k - 1 \in Wheels /\ k - 1 < WheelCount /\ (k - 1) + 1 = k /\ k - 1 \in 1 .. k - 1
        BY <1>7, <1>8, CountsType DEF Wheels
    <2>2. Param[k] = WheelRange(k - 1)
        BY <2>1, ParamType DEF WheelRange
    <2> QED BY <1>7, <2>1, <2>2
<1> QED BY <1>7, <1>8 DEF Wheels, WheelRange

\* The slot is the one that is due when the timer is, but for what is left
\* after whole slots, less than two of them; it is walked only if the delay is
\* the whole range of the wheel that is being walked.
LEMMA PlaceFits ==
    ASSUME NEW cur \in [Wheels -> Nat], NEW w \in 0 .. WheelCount, Turning(cur, w),
           NEW d \in Nat \ {0}, d <= WheelRange(WheelCount), NEW k, k = WheelFor(d),
           NEW s, s = ((d \div Param[k] + cur[k] - 1) % Counts[k]) + 1
    PROVE  /\ k \in Wheels /\ s \in Slots(k)
           /\ CompTime(cur, k, s) \in Int
           /\ k = 1 => CompTime(cur, k, s) = d
           /\ k # 1 => d - CompTime(cur, k, s) \in 0 .. 2 * Param[k] - 1
           /\ Walked(cur, w, k, s) => d = WheelRange(w)
<1> DEFINE p == Param[k]
           c == Counts[k]
           q == d \div p
           n == cur[k]
           e == Elapsed(cur, k)
<1>1. k \in Wheels /\ d <= c * p /\ (k # 1 => d > p)
    BY WheelFound
<1>2. p \in Nat \ {0} /\ c \in Nat \ {0} /\ n \in Nat
    BY <1>1, ParamType, CountsType
<1>3. n <= c
    BY <1>1 DEF Turning
<1>4. k = 1 => p = 1
    BY ParamType
<1>5. q \in Nat /\ q * p <= d /\ d < q * p + p /\ q * p \in Nat
    BY <1>2, Division, Products
<1>6. q \in 1 .. c
    <2>1. q # 0
        <3>1. SUFFICES ASSUME q = 0 PROVE FALSE
            OBVIOUS
        <3>2. q * p = 0
            BY <1>2, <3>1
        <3>3. d < p
            BY <1>2, <1>5, <3>2
        <3> QED BY <1>1, <1>2, <1>4, <3>3
    <2>2. q <= c
        <3>1. SUFFICES ASSUME c < q PROVE FALSE
            BY <1>2, <1>5
        <3>2. c * p + p <= q * p /\ c * p \in Nat
            BY <1>2, <1>5, <3>1, Products
        <3> QED BY <1>1, <1>2, <1>5, <3>2
    <2> QED BY <1>5, <2>1, <2>2
<1>7. s = IF q + n <= c THEN q + n ELSE q + n - c
    <2>1. s = ((q + n - 1) % c) + 1
        OBVIOUS
    <2>2. c \in Nat \ {0} /\ n \in 0 .. c
        BY <1>2, <1>3
    <2> HIDE DEF q, n, c
    <2> QED BY <1>6, <2>1, <2>2, Ring
<1>8. s \in Slots(k) /\ SlotsUntil(cur, k, s) = q
    BY <1>2, <1>3, <1>6, <1>7 DEF Slots, SlotsUntil
<1>9. CompTime(cur, k, s) = q * p - e /\ CompTime(cur, k, s) \in Int
    BY <1>1, <1>3, <1>8, CompTimeType
<1>10. e \in 0 .. p /\ (k = 1 => e = 0)
    BY <1>1, ElapsedBound, ElapsedSum
<1>11. k = 1 => q * p = d
    BY <1>2, <1>4, <1>5
<1>12. ASSUME Walked(cur, w, k, s)
       PROVE  d = WheelRange(w)
    <2>1. q = c /\ k = w
        BY <1>2, <1>3, <1>6, <1>7, <1>12 DEF Walked
    <2> QED BY <1>1, <1>2, <1>5, <2>1 DEF WheelRange
<1> HIDE DEF q, e, p
<1>13. k = 1 => CompTime(cur, k, s) = d
    BY <1>5, <1>9, <1>10, <1>11
<1>14. k # 1 => d - CompTime(cur, k, s) \in 0 .. 2 * p - 1
    BY <1>2, <1>5, <1>9, <1>10
<1> QED BY <1>1, <1>8, <1>9, <1>12, <1>13, <1>14 DEF p

\* A timer that moves down does not come back into the slot it comes from.
LEMMA MovesOut ==
    ASSUME NEW w \in Wheels, Counts[w] > 1, NEW d \in 0 .. 2 * Param[w] - 1
    PROVE  d # WheelRange(w) /\ d < WheelRange(w)
<1>1. Counts[w] \in Nat /\ Param[w] \in Nat \ {0}
    BY CountsType, ParamType
<1>2. 2 * Param[w] <= Counts[w] * Param[w] /\ Counts[w] * Param[w] \in Nat
    BY <1>1, Products
<1> QED BY <1>1, <1>2 DEF WheelRange

LEMMA RangesGrow ==
    ASSUME NEW k \in Wheels
    PROVE  WheelRange(k) \in Nat \ {0} /\ WheelRange(k) <= WheelRange(WheelCount)
<1>1. \A j \in Wheels : WheelRange(j) \in Nat \ {0}
    <2>1. \A x, y \in Nat \ {0} : x * y \in Nat \ {0}
        OBVIOUS
    <2> QED BY <2>1, CountsType, ParamType DEF WheelRange
<1>2. \A j \in Wheels : j + 1 \in Wheels => WheelRange(j) <= WheelRange(j + 1)
    <2> SUFFICES ASSUME NEW j \in Wheels, j + 1 \in Wheels
                 PROVE  WheelRange(j) <= WheelRange(j + 1)
        OBVIOUS
    <2>1. j < WheelCount
        BY CountsType DEF Wheels
    <2>2. Param[j + 1] = WheelRange(j)
        BY <2>1, ParamType DEF WheelRange
    <2>3. Counts[j + 1] \in Nat \ {0} /\ Param[j + 1] \in Nat
        BY CountsType, ParamType
    <2>4. 0 * Param[j + 1] + Param[j + 1] <= Counts[j + 1] * Param[j + 1]
        BY <2>3, Products
    <2> QED BY <2>2, <2>3, <2>4 DEF WheelRange
<1> DEFINE S == {j \in Wheels : \A i \in Wheels : i <= j => WheelRange(i) <= WheelRange(j)}
<1>3. 1 \in S
    BY <1>1, CountsType DEF Wheels
<1>4. ASSUME NEW j \in S, j < WheelCount
      PROVE  j + 1 \in S
    <2>1. j \in Wheels /\ j + 1 \in Wheels
        BY <1>4, CountsType DEF Wheels
    <2>2. ASSUME NEW i \in Wheels, i <= j + 1
          PROVE  WheelRange(i) <= WheelRange(j + 1)
        <3>1. i = j + 1 \/ i <= j
            BY <2>1, <2>2, CountsType DEF Wheels
        <3>2. WheelRange(i) \in Nat /\ WheelRange(j) \in Nat /\ WheelRange(j + 1) \in Nat
            BY <1>1, <2>1
        <3>3. WheelRange(j) <= WheelRange(j + 1)
            BY <1>2, <2>1
        <3>4. i <= j => WheelRange(i) <= WheelRange(j)
            OBVIOUS
        <3> QED BY <3>1, <3>2, <3>3, <3>4
    <2> QED BY <2>1, <2>2
<1>5. S \in SUBSET Wheels
    OBVIOUS
<1>6. S = Wheels
    <2> HIDE DEF S
    <2> QED BY <1>3, <1>4, <1>5, OnWheels
<1>7. WheelCount \in Wheels /\ k <= WheelCount
    BY CountsType DEF Wheels
<1> QED BY <1>1, <1>6, <1>7

----------------------------------------------------------------------------
(* The invariant                                                              *)

TvecRecord ==
    [TimeOut : Int, CompTime : Int, RegWheel : Nat, RegSlot : Nat, RegIndex : Nat,
     status : {"new", "added", "removed"}, delay : Int, due : Int, calls : Seq(Int)]

Typed(st) ==
    /\ st = [cur |-> st.cur, slot |-> st.slot, tvec |-> st.tvec]
    /\ st.cur \in [Wheels -> Nat]
    /\ st.slot = [k \in Wheels |-> st.slot[k]]
    /\ \A k \in Wheels : st.slot[k] \in [Slots(k) -> Seq(Timers)]
    /\ st.tvec \in [Timers -> TvecRecord]

Waits(r) == r.status = "added" /\ r.calls = <<>>

Properly(r, k, s, i) == Waits(r) /\ r.RegWheel = k /\ r.RegSlot = s /\ r.RegIndex = i

\* What stands in a slot is registered there and waits, but for element g of
\* the slot being walked, which has been dealt with, and for the timers X.
Registered(st, w, g, X) ==
    \A k \in Wheels : \A s \in Slots(k) : \A i \in 1 .. Len(st.slot[k][s]) :
        ~(Walked(st.cur, w, k, s) /\ i = g) =>
            /\ st.slot[k][s][i] \notin X
            /\ Properly(st.tvec[st.slot[k][s][i]], k, s, i)

StandsAt(st, w, g, t, k, s, i) ==
    /\ k \in Wheels /\ s \in Slots(k) /\ i \in 1 .. Len(st.slot[k][s])
    /\ st.slot[k][s][i] = t
    /\ ~(Walked(st.cur, w, k, s) /\ i = g)

\* Timer t stands where it is registered.
Stands(st, w, g, t) ==
    StandsAt(st, w, g, t, st.tvec[t].RegWheel, st.tvec[t].RegSlot, st.tvec[t].RegIndex)

\* What is left of a timer's delay when its slot is due.
Rest(r) == IF r.RegWheel = 1 THEN 0 ELSE r.TimeOut - r.CompTime

\* A timer is due when its slot is and what is left has passed.
Timed(cur, now, w, r) ==
    /\ Rest(r) \in 0 .. 2 * Param[r.RegWheel] - 1
    /\ r.due = now + Rest(r) + Ahead(cur, w, r.RegWheel, r.RegSlot)

History(r) ==
    r.calls \in IF r.status = "added" THEN {<<>>, <<r.due>>} ELSE {<<>>}

OnSchedule(st, now, w, g, X) ==
    \A t \in Timers \ X : Waits(st.tvec[t]) =>
        Stands(st, w, g, t) /\ Timed(st.cur, now, w, st.tvec[t])

Good(st, now, w, g, X) ==
    /\ Typed(st)
    /\ Turning(st.cur, w)
    /\ Registered(st, w, g, X)
    /\ OnSchedule(st, now, w, g, X)
    /\ \A t \in Timers : History(st.tvec[t])

LoopInv ==
    \/ loop = Idle
    \/ /\ loop.wheel \in Wheels
       /\ loop = Walk(IF loop.wheel = 1 THEN "run" ELSE "move", loop.wheel, mgr)

IInv == Tick \in Nat /\ Good(mgr, Tick, loop.wheel, 0, {}) /\ LoopInv

\* Wheels of more than one slot, as the code's are, and scripts that keep to
\* the delays Add asserts, remove a timer only while it waits and between
\* ticks, and ask in a callback for no delay that is a wheel's whole range.
OrdinaryUse ==
    /\ \A k \in Wheels : Counts[k] > 1
    /\ Delays \subseteq 0 .. WheelRange(WheelCount)
    /\ CbDelays \subseteq 0 .. WheelRange(WheelCount)
    /\ \A k \in Wheels : WheelRange(k) \notin CbDelays
    /\ Uses \subseteq {"removeWaiting"}

----------------------------------------------------------------------------
(* What the operations do to the fields                                       *)

LEMMA TvecFields ==
    ASSUME NEW r \in TvecRecord
    PROVE  /\ r.TimeOut \in Int /\ r.CompTime \in Int /\ r.delay \in Int /\ r.due \in Int
           /\ r.RegWheel \in Nat /\ r.RegSlot \in Nat /\ r.RegIndex \in Nat
           /\ r.status \in {"new", "added", "removed"} /\ r.calls \in Seq(Int)
    BY DEF TvecRecord

Reregistered(r, k, s, i) ==
    [r EXCEPT !.RegWheel = k, !.RegSlot = s, !.RegIndex = i]

Ordered(r, d, due) ==
    [r EXCEPT !.status = "added", !.delay = d, !.due = due, !.TimeOut = d]

LEMMA NewOrder ==
    ASSUME NEW r \in TvecRecord, NEW d \in Int, NEW due \in Int
    PROVE  LET n == Ordered(r, d, due) IN
           /\ n \in TvecRecord
           /\ n.status = "added" /\ n.due = due /\ n.TimeOut = d /\ n.calls = r.calls
<1> DEFINE a == [r EXCEPT !.status = "added"]
           b == [a EXCEPT !.delay = d]
           c == [b EXCEPT !.due = due]
<1>1. a \in TvecRecord /\ a.status = "added" /\ a.calls = r.calls
    BY DEF TvecRecord
<1> HIDE DEF a
<1>2. b \in TvecRecord /\ b.status = "added" /\ b.calls = r.calls
    BY <1>1 DEF TvecRecord
<1> HIDE DEF b
<1>3. c \in TvecRecord /\ c.status = "added" /\ c.calls = r.calls /\ c.due = due
    BY <1>2 DEF TvecRecord
<1>4. Ordered(r, d, due) = [c EXCEPT !.TimeOut = d]
    BY DEF a, b, c, Ordered
<1> HIDE DEF c
<1> QED BY <1>3, <1>4 DEF TvecRecord

LEMMA NewRegistration ==
    ASSUME NEW r \in TvecRecord, NEW k \in Nat, NEW s \in Nat, NEW i \in Nat
    PROVE  LET n == Reregistered(r, k, s, i) IN
           /\ n \in TvecRecord
           /\ n.RegWheel = k /\ n.RegSlot = s /\ n.RegIndex = i
           /\ n.TimeOut = r.TimeOut /\ n.CompTime = r.CompTime
           /\ n.status = r.status /\ n.due = r.due /\ n.calls = r.calls
<1> DEFINE a == [r EXCEPT !.RegWheel = k]
           b == [a EXCEPT !.RegSlot = s]
<1>1. /\ a \in TvecRecord
      /\ a.RegWheel = k /\ a.TimeOut = r.TimeOut /\ a.CompTime = r.CompTime
      /\ a.status = r.status /\ a.due = r.due /\ a.calls = r.calls
    BY DEF TvecRecord
<1> HIDE DEF a
<1>2. /\ b \in TvecRecord
      /\ b.RegWheel = k /\ b.RegSlot = s
      /\ b.TimeOut = r.TimeOut /\ b.CompTime = r.CompTime
      /\ b.status = r.status /\ b.due = r.due /\ b.calls = r.calls
    BY <1>1 DEF TvecRecord
<1>3. Reregistered(r, k, s, i) = [b EXCEPT !.RegIndex = i]
    BY DEF a, Reregistered
<1> HIDE DEF b
<1> QED BY <1>2, <1>3 DEF TvecRecord

WithRecord(st, t, r) == [st EXCEPT !.tvec[t] = r]

LEMMA NewRecord ==
    ASSUME NEW st, Typed(st), NEW t \in Timers, NEW r \in TvecRecord
    PROVE  LET n == WithRecord(st, t, r) IN
           /\ Typed(n)
           /\ n.cur = st.cur /\ n.slot = st.slot
           /\ n.tvec[t] = r
           /\ \A u \in Timers : u # t => n.tvec[u] = st.tvec[u]
<1> DEFINE n == WithRecord(st, t, r)
<1>1. n = [st EXCEPT !.tvec[t] = r]
    BY DEF WithRecord
<1> HIDE DEF n
<1>2. /\ n.cur = st.cur /\ n.slot = st.slot
      /\ n.tvec = [st.tvec EXCEPT ![t] = r]
      /\ n = [cur |-> n.cur, slot |-> n.slot, tvec |-> n.tvec]
    BY <1>1 DEF Typed
<1> QED BY <1>2 DEF Typed, n

\* The value n differs from st by t at the end of slot s of wheel k, and in
\* the record of t.
GrowsBy(st, n, k, s, t) ==
    /\ Typed(n)
    /\ n.cur = st.cur
    /\ n.slot[k][s] = Append(st.slot[k][s], t)
    /\ \A j \in Wheels : \A x \in Slots(j) :
          j # k \/ x # s => n.slot[j][x] = st.slot[j][x]
    /\ \A u \in Timers : u # t => n.tvec[u] = st.tvec[u]

LEMMA RegisterEffect ==
    ASSUME NEW st, Typed(st), NEW t \in Timers, NEW k \in Wheels, NEW s \in Slots(k),
           NEW n, n = Register(st, t, k, s)
    PROVE  /\ GrowsBy(st, n, k, s, t)
           /\ n.tvec[t] = Reregistered(st.tvec[t], k, s, Len(st.slot[k][s]) + 1)
<1> DEFINE r == Reregistered(st.tvec[t], k, s, Len(st.slot[k][s]) + 1)
           q == Append(st.slot[k][s], t)
<1>1. k \in Nat /\ s \in Nat /\ st.slot[k][s] \in Seq(Timers)
    BY CountsType DEF Typed, Wheels, Slots
<1>2. Len(st.slot[k][s]) \in Nat /\ q \in Seq(Timers)
    BY <1>1, LenProperties, AppendProperties
<1>3. r \in TvecRecord
    <2>1. st.tvec[t] \in TvecRecord /\ Len(st.slot[k][s]) + 1 \in Nat
        BY <1>2 DEF Typed
    <2> QED BY <1>1, <2>1, NewRegistration
<1>4. n = [st EXCEPT !.slot[k][s] = q, !.tvec[t] = r]
    BY DEF Register, Reregistered
<1> HIDE DEF r, q
<1>5. /\ n.cur = st.cur
      /\ n.slot = [st.slot EXCEPT ![k][s] = q]
      /\ n.tvec = [st.tvec EXCEPT ![t] = r]
      /\ n = [cur |-> n.cur, slot |-> n.slot, tvec |-> n.tvec]
    BY <1>4 DEF Typed
<1>6. n.tvec \in [Timers -> TvecRecord] /\ n.tvec[t] = r
      /\ \A u \in Timers : u # t => n.tvec[u] = st.tvec[u]
    BY <1>3, <1>5 DEF Typed
<1>7. /\ n.slot[k] = [st.slot[k] EXCEPT ![s] = q]
      /\ n.slot = [j \in Wheels |-> n.slot[j]]
      /\ \A j \in Wheels : j # k => n.slot[j] = st.slot[j]
    BY <1>5 DEF Typed
<1>8. /\ n.slot[k] \in [Slots(k) -> Seq(Timers)]
      /\ n.slot[k][s] = q
      /\ \A x \in Slots(k) : x # s => n.slot[k][x] = st.slot[k][x]
    BY <1>2, <1>7 DEF Typed
<1>9. Typed(n)
    BY <1>5, <1>6, <1>7, <1>8 DEF Typed
<1> QED BY <1>5, <1>6, <1>7, <1>8, <1>9 DEF r, q, GrowsBy

\* The slot of Add.
SlotFor(cur, d, k) == ((d \div Param[k] + cur[k] - 1) % Counts[k]) + 1

LEMMA PlaceEffect ==
    ASSUME NEW st, Typed(st), NEW t \in Timers, NEW d,
           NEW k \in Wheels, k = WheelFor(d),
           NEW s \in Slots(k), s = SlotFor(st.cur, d, k),
           CompTime(st.cur, k, s) \in Int,
           NEW n, n = Place(st, d, t)
    PROVE  /\ GrowsBy(st, n, k, s, t)
           /\ n.tvec[t].RegWheel = k /\ n.tvec[t].RegSlot = s
           /\ n.tvec[t].RegIndex = Len(st.slot[k][s]) + 1
           /\ n.tvec[t].TimeOut = st.tvec[t].TimeOut
           /\ k # 1 => n.tvec[t].CompTime = CompTime(st.cur, k, s)
           /\ n.tvec[t].status = st.tvec[t].status
           /\ n.tvec[t].due = st.tvec[t].due
           /\ n.tvec[t].calls = st.tvec[t].calls
<1> DEFINE c == CompTime(st.cur, k, s)
           timed == IF k = 1 THEN st ELSE [st EXCEPT !.tvec[t].CompTime = c]
<1>1. n = Register(timed, t, k, s)
    BY DEF Place, SlotFor
<1>2. st.tvec[t] \in TvecRecord
    BY DEF Typed
<1>3. /\ Typed(timed)
      /\ timed.cur = st.cur /\ timed.slot = st.slot
      /\ timed.tvec[t] \in TvecRecord
      /\ k # 1 => timed.tvec[t].CompTime = c
      /\ timed.tvec[t].TimeOut = st.tvec[t].TimeOut
      /\ timed.tvec[t].status = st.tvec[t].status
      /\ timed.tvec[t].due = st.tvec[t].due
      /\ timed.tvec[t].calls = st.tvec[t].calls
      /\ \A u \in Timers : u # t => timed.tvec[u] = st.tvec[u]
    <2>1. CASE k = 1
        BY <1>2, <2>1
    <2>2. CASE k # 1
        <3> DEFINE r == [st.tvec[t] EXCEPT !.CompTime = c]
        <3>1. timed = WithRecord(st, t, r)
            BY <2>2 DEF WithRecord
        <3>2. /\ r \in TvecRecord
              /\ r.CompTime = c
              /\ r.TimeOut = st.tvec[t].TimeOut /\ r.status = st.tvec[t].status
              /\ r.due = st.tvec[t].due /\ r.calls = st.tvec[t].calls
            BY <1>2 DEF TvecRecord
        <3> HIDE DEF r, timed
        <3> QED BY <2>2, <3>1, <3>2, NewRecord
    <2> QED BY <2>1, <2>2
<1> HIDE DEF timed
<1> DEFINE r == timed.tvec[t]
           i == Len(timed.slot[k][s]) + 1
           m == Reregistered(r, k, s, i)
<1>4. GrowsBy(st, n, k, s, t) /\ n.tvec[t] = m
    <2> HIDE DEF c
    <2>1. n = Register(timed, t, k, s) /\ Typed(timed)
        BY <1>1, <1>3
    <2>2. k \in Wheels /\ s \in Slots(k) /\ t \in Timers
        OBVIOUS
    <2>3. /\ GrowsBy(timed, n, k, s, t)
          /\ n.tvec[t] = Reregistered(timed.tvec[t], k, s, Len(timed.slot[k][s]) + 1)
        BY ONLY <2>1, <2>2, RegisterEffect
    <2> QED BY <1>3, <2>3 DEF GrowsBy
<1>5. k \in Nat /\ s \in Nat /\ i \in Nat
    <2>1. k \in Nat /\ s \in Nat /\ timed.slot[k][s] \in Seq(Timers)
        BY <1>3, CountsType DEF Typed, Wheels, Slots
    <2> QED BY <2>1, LenProperties
<1>6. /\ m.RegWheel = k /\ m.RegSlot = s /\ m.RegIndex = i
      /\ m.TimeOut = r.TimeOut /\ m.CompTime = r.CompTime
      /\ m.status = r.status /\ m.due = r.due /\ m.calls = r.calls
    <2>1. r \in TvecRecord
        BY <1>3
    <2> HIDE DEF r, i
    <2> QED BY ONLY <1>5, <2>1, NewRegistration
<1> HIDE DEF m, c
<1> QED BY <1>3, <1>4, <1>6 DEF c

----------------------------------------------------------------------------
(* The operations keep the invariant                                          *)

LEMMA WalkedIsSlot ==
    ASSUME NEW cur \in [Wheels -> Nat], NEW w \in Wheels, Turning(cur, w)
    PROVE  cur[w] \in Slots(w)
    BY CountsType DEF Turning, Slots

LEMMA Appended ==
    ASSUME NEW q \in Seq(Timers), NEW t \in Timers, NEW p, p = Append(q, t)
    PROVE  /\ Len(q) \in Nat /\ Len(p) = Len(q) + 1
           /\ p[Len(q) + 1] = t
           /\ Len(q) + 1 \in 1 .. Len(p)
           /\ \A i \in 1 .. Len(q) : i \in 1 .. Len(p) /\ p[i] = q[i]
           /\ \A i \in 1 .. Len(p) : i # Len(q) + 1 => i \in 1 .. Len(q) /\ p[i] = q[i]
<1>1. /\ Len(q) \in Nat /\ Len(p) = Len(q) + 1
      /\ p[Len(q) + 1] = t
      /\ \A i \in 1 .. Len(q) : p[i] = q[i]
    BY LenProperties, AppendProperties
<1>2. /\ Len(q) + 1 \in 1 .. Len(p)
      /\ \A i \in 1 .. Len(q) : i \in 1 .. Len(p)
      /\ \A i \in 1 .. Len(p) : i # Len(q) + 1 => i \in 1 .. Len(q)
    BY ONLY <1>1
<1> QED BY ONLY <1>1, <1>2

\* A timer is put at the end of a slot that is not being walked.
LEMMA Grown ==
    ASSUME NEW st, NEW now, NEW w, NEW g, NEW t \in Timers, Good(st, now, w, g, {t}),
           NEW k \in Wheels, NEW s \in Slots(k), ~Walked(st.cur, w, k, s),
           NEW n, GrowsBy(st, n, k, s, t),
           Properly(n.tvec[t], k, s, Len(st.slot[k][s]) + 1),
           Timed(n.cur, now, w, n.tvec[t])
    PROVE  Good(n, now, w, g, {})
<1>1. /\ Typed(st) /\ Turning(st.cur, w)
      /\ Registered(st, w, g, {t})
      /\ OnSchedule(st, now, w, g, {t})
      /\ \A u \in Timers : History(st.tvec[u])
    BY DEF Good
<1>2. \A j \in Wheels : \A x \in Slots(j) : st.slot[j][x] \in Seq(Timers)
    BY <1>1 DEF Typed
<1>3. PICK m : m = Len(st.slot[k][s])
    OBVIOUS
<1>4. /\ m + 1 \in 1 .. Len(n.slot[k][s])
      /\ n.slot[k][s][m + 1] = t
      /\ \A i \in 1 .. Len(st.slot[k][s]) :
            i \in 1 .. Len(n.slot[k][s]) /\ n.slot[k][s][i] = st.slot[k][s][i]
      /\ \A i \in 1 .. Len(n.slot[k][s]) :
            i # m + 1 => i \in 1 .. Len(st.slot[k][s]) /\ n.slot[k][s][i] = st.slot[k][s][i]
    <2>1. st.slot[k][s] \in Seq(Timers) /\ n.slot[k][s] = Append(st.slot[k][s], t)
        BY <1>2 DEF GrowsBy
    <2> QED BY <1>3, <2>1, Appended
<1>cur. n.cur = st.cur /\ Typed(n)
    BY DEF GrowsBy
<1>slot. \A j \in Wheels : \A x \in Slots(j) :
          j # k \/ x # s => n.slot[j][x] = st.slot[j][x]
    BY DEF GrowsBy
<1>tvec. \A u \in Timers : u # t => n.tvec[u] = st.tvec[u]
    BY DEF GrowsBy
\* The elements of a slot, before and now.
<1>5. ASSUME NEW j \in Wheels, NEW x \in Slots(j), NEW i \in 1 .. Len(n.slot[j][x]),
             ~(j = k /\ x = s /\ i = m + 1)
      PROVE  i \in 1 .. Len(st.slot[j][x]) /\ n.slot[j][x][i] = st.slot[j][x][i]
    <2>1. CASE j = k /\ x = s
        BY <1>4, <1>5, <2>1
    <2>2. CASE j # k \/ x # s
        BY <1>5, <1>slot, <2>2
    <2> QED BY <2>1, <2>2
<1>6. ASSUME NEW j \in Wheels, NEW x \in Slots(j), NEW i \in 1 .. Len(st.slot[j][x])
      PROVE  i \in 1 .. Len(n.slot[j][x]) /\ n.slot[j][x][i] = st.slot[j][x][i]
    <2>1. CASE j = k /\ x = s
        BY <1>4, <1>6, <2>1
    <2>2. CASE j # k \/ x # s
        BY <1>6, <1>slot, <2>2
    <2> QED BY <2>1, <2>2
<1>7. Registered(n, w, g, {})
    <2> SUFFICES ASSUME NEW j \in Wheels, NEW x \in Slots(j),
                        NEW i \in 1 .. Len(n.slot[j][x]),
                        ~(Walked(n.cur, w, j, x) /\ i = g)
                 PROVE  Properly(n.tvec[n.slot[j][x][i]], j, x, i)
        BY DEF Registered
    <2>0. Properly(n.tvec[t], k, s, m + 1)
        BY <1>3
    <2>1. CASE j = k /\ x = s /\ i = m + 1
        BY <1>4, <2>0, <2>1
    <2>2. CASE ~(j = k /\ x = s /\ i = m + 1)
        <3>1. i \in 1 .. Len(st.slot[j][x]) /\ n.slot[j][x][i] = st.slot[j][x][i]
            BY <1>5, <2>2
        <3>2. /\ st.slot[j][x][i] # t
              /\ Properly(st.tvec[st.slot[j][x][i]], j, x, i)
            BY <1>1, <1>cur, <3>1 DEF Registered
        <3>3. st.slot[j][x][i] \in Timers
            BY <1>2, <3>1, ElementOfSeq
        <3> QED BY <1>tvec, <3>1, <3>2, <3>3
    <2> QED BY <2>1, <2>2
<1>8. OnSchedule(n, now, w, g, {})
    <2> SUFFICES ASSUME NEW u \in Timers, Waits(n.tvec[u])
                 PROVE  Stands(n, w, g, u) /\ Timed(n.cur, now, w, n.tvec[u])
        BY DEF OnSchedule
    <2>1. CASE u = t
        <3>1. n.tvec[t].RegWheel = k /\ n.tvec[t].RegSlot = s /\ n.tvec[t].RegIndex = m + 1
            BY <1>3 DEF Properly
        <3>2. ~Walked(n.cur, w, k, s)
            BY <1>cur
        <3>3. Stands(n, w, g, t)
            BY <1>4, <3>1, <3>2 DEF Stands, StandsAt
        <3> QED BY <2>1, <3>3
    <2>2. CASE u # t
        <3>1. n.tvec[u] = st.tvec[u]
            BY <1>tvec, <2>2
        <3>2. Stands(st, w, g, u) /\ Timed(st.cur, now, w, st.tvec[u])
            BY <1>1, <2>2, <3>1 DEF OnSchedule
        <3>3. \A j, x, i : StandsAt(st, w, g, u, j, x, i) => StandsAt(n, w, g, u, j, x, i)
            BY <1>6, <1>cur DEF StandsAt
        <3>4. Stands(n, w, g, u)
            BY <3>1, <3>2, <3>3 DEF Stands
        <3> QED BY <1>cur, <3>1, <3>2, <3>4
    <2> QED BY <2>1, <2>2
<1>9. \A u \in Timers : History(n.tvec[u])
    <2>1. History(n.tvec[t])
        BY DEF History, Properly, Waits
    <2> QED BY <1>1, <1>tvec, <2>1
<1> QED BY <1>1, <1>7, <1>8, <1>9, <1>cur DEF Good

\* A record that Add is about to put in a slot, d ticks ahead.
DueIn(r, now, d) == Waits(r) /\ r.TimeOut = d /\ r.due = now + d

\* So it is by Add.
LEMMA PlaceKeeps ==
    ASSUME NEW st, NEW now \in Int, NEW w \in 0 .. WheelCount, NEW g \in Nat,
           NEW t \in Timers, Good(st, now, w, g, {t}),
           NEW d \in Nat \ {0}, d <= WheelRange(WheelCount),
           w # 0 => d # WheelRange(w),
           DueIn(st.tvec[t], now, d),
           NEW n, n = Place(st, d, t)
    PROVE  /\ Good(n, now, w, g, {})
           /\ n.cur = st.cur
           /\ w # 0 => n.slot[w][st.cur[w]] = st.slot[w][st.cur[w]]
<1>0. Waits(st.tvec[t]) /\ st.tvec[t].TimeOut = d /\ st.tvec[t].due = now + d
    BY DEF DueIn
<1> USE <1>0
<1>1. Typed(st) /\ Turning(st.cur, w) /\ st.cur \in [Wheels -> Nat]
    BY DEF Good, Typed
<1>2. PICK k : k = WheelFor(d)
    OBVIOUS
<1>3. PICK s : s = SlotFor(st.cur, d, k)
    OBVIOUS
<1>4. PICK c : c = CompTime(st.cur, k, s)
    OBVIOUS
<1>5. /\ k \in Wheels /\ s \in Slots(k) /\ c \in Int
      /\ k = 1 => c = d
      /\ k # 1 => d - c \in 0 .. 2 * Param[k] - 1
      /\ Walked(st.cur, w, k, s) => d = WheelRange(w)
    BY <1>1, <1>2, <1>3, <1>4, PlaceFits DEF SlotFor
<1>6. ~Walked(st.cur, w, k, s)
    <2>1. k # 0
        BY <1>5 DEF Wheels
    <2> QED BY <1>5, <2>1 DEF Walked
<1>7. /\ GrowsBy(st, n, k, s, t)
      /\ n.tvec[t].RegWheel = k /\ n.tvec[t].RegSlot = s
      /\ n.tvec[t].RegIndex = Len(st.slot[k][s]) + 1
      /\ n.tvec[t].TimeOut = d
      /\ k # 1 => n.tvec[t].CompTime = c
      /\ n.tvec[t].status = st.tvec[t].status
      /\ n.tvec[t].due = now + d
      /\ n.tvec[t].calls = st.tvec[t].calls
    <2>1. k \in Wheels /\ s \in Slots(k) /\ CompTime(st.cur, k, s) \in Int
        BY <1>4, <1>5
    <2>2. t \in Timers /\ st.tvec[t].TimeOut = d /\ st.tvec[t].due = now + d
          /\ n = Place(st, d, t)
        OBVIOUS
    <2> QED BY ONLY <1>1, <1>2, <1>3, <1>4, <2>1, <2>2, PlaceEffect
<1>8. Properly(n.tvec[t], k, s, Len(st.slot[k][s]) + 1)
    BY <1>7 DEF Properly, Waits
<1>9. Timed(n.cur, now, w, n.tvec[t])
    <2>1. Ahead(n.cur, w, n.tvec[t].RegWheel, n.tvec[t].RegSlot) = c
        BY <1>4, <1>6, <1>7 DEF GrowsBy, Ahead
    <2>2. CASE k = 1
        <3>1. Rest(n.tvec[t]) = 0 /\ Param[k] = 1 /\ n.tvec[t].RegWheel = k
            BY <1>7, <2>2, ParamType DEF Rest
        <3>2. n.tvec[t].due = now + 0 + c
            BY <1>5, <1>7, <2>2
        <3> QED BY <2>1, <3>1, <3>2 DEF Timed
    <2>3. CASE k # 1
        <3>1. /\ Rest(n.tvec[t]) = d - c /\ n.tvec[t].RegWheel = k
              /\ Rest(n.tvec[t]) \in 0 .. 2 * Param[k] - 1
            BY <1>5, <1>7, <2>3 DEF Rest
        <3>2. n.tvec[t].due = now + (d - c) + c
            BY <1>5, <1>7
        <3> QED BY <2>1, <3>1, <3>2 DEF Timed
    <2> QED BY <2>2, <2>3
<1>10. Good(n, now, w, g, {})
    <2>1. Good(st, now, w, g, {t}) /\ t \in Timers
        OBVIOUS
    <2> QED BY ONLY <1>5, <1>6, <1>7, <1>8, <1>9, <2>1, Grown
<1>11. ASSUME w # 0
       PROVE  n.slot[w][st.cur[w]] = st.slot[w][st.cur[w]]
    <2>1. w \in Wheels
        BY <1>11 DEF Wheels
    <2>2. st.cur[w] \in Slots(w)
        BY <1>1, <2>1, WalkedIsSlot
    <2> QED BY <1>6, <1>7, <2>1, <2>2 DEF Walked, GrowsBy
<1> QED BY <1>7, <1>10, <1>11 DEF GrowsBy

\* The record of a timer that is due to stand nowhere may change.
LEMMA Altered ==
    ASSUME NEW st, NEW now, NEW w, NEW g, NEW X, Good(st, now, w, g, X),
           NEW t \in Timers, t \in X \/ ~Waits(st.tvec[t]),
           NEW r \in TvecRecord, History(r),
           NEW Y, X \subseteq {t}, Y \subseteq {t}, t \in Y \/ ~Waits(r)
    PROVE  Good(WithRecord(st, t, r), now, w, g, Y)
<1> DEFINE n == WithRecord(st, t, r)
<1>1. /\ Typed(st) /\ Turning(st.cur, w)
      /\ Registered(st, w, g, X)
      /\ OnSchedule(st, now, w, g, X)
      /\ \A u \in Timers : History(st.tvec[u])
    BY DEF Good
<1>2. /\ Typed(n)
      /\ n.cur = st.cur /\ n.slot = st.slot
      /\ n.tvec[t] = r
      /\ \A u \in Timers : u # t => n.tvec[u] = st.tvec[u]
    BY <1>1, NewRecord
<1> HIDE DEF n
<1>3. \A k \in Wheels : \A s \in Slots(k) : st.slot[k][s] \in Seq(Timers)
    BY <1>1 DEF Typed
<1>4. Registered(n, w, g, Y)
    <2> SUFFICES ASSUME NEW k \in Wheels, NEW s \in Slots(k),
                        NEW i \in 1 .. Len(st.slot[k][s]),
                        ~(Walked(st.cur, w, k, s) /\ i = g)
                 PROVE  /\ st.slot[k][s][i] \notin Y
                        /\ Properly(n.tvec[st.slot[k][s][i]], k, s, i)
        BY <1>2 DEF Registered
    <2>1. st.slot[k][s][i] \notin X /\ Properly(st.tvec[st.slot[k][s][i]], k, s, i)
        BY <1>1 DEF Registered
    <2>2. st.slot[k][s][i] # t
        <3> SUFFICES ASSUME st.slot[k][s][i] = t PROVE FALSE
            OBVIOUS
        <3>1. Properly(st.tvec[t], k, s, i) /\ t \notin X
            BY <2>1
        <3>2. Waits(st.tvec[t])
            BY <3>1 DEF Properly
        <3> QED BY <3>1, <3>2
    <2>3. st.slot[k][s][i] \in Timers
        BY <1>3, ElementOfSeq
    <2> QED BY <1>2, <2>1, <2>2, <2>3
<1>5. OnSchedule(n, now, w, g, Y)
    <2> SUFFICES ASSUME NEW u \in Timers \ Y, Waits(n.tvec[u])
                 PROVE  Stands(n, w, g, u) /\ Timed(n.cur, now, w, n.tvec[u])
        BY DEF OnSchedule
    <2>1. u # t /\ n.tvec[u] = st.tvec[u] /\ u \notin X
        BY <1>2
    <2>2. Stands(st, w, g, u) /\ Timed(st.cur, now, w, st.tvec[u])
        BY <1>1, <2>1 DEF OnSchedule
    <2> QED BY <1>2, <2>1, <2>2 DEF Stands, StandsAt
<1>6. \A u \in Timers : History(n.tvec[u])
    BY <1>1, <1>2
<1> QED BY <1>1, <1>2, <1>4, <1>5, <1>6 DEF Good, n

LEMMA FirstCall ==
    ASSUME NEW q, q = <<>>, NEW x \in Int
    PROVE  Append(q, x) = <<x>> /\ <<x>> \in Seq(Int) /\ <<x>> # <<>>
<1>1. Append(q, x) \in Seq(Int) /\ Len(Append(q, x)) = 1 /\ Append(q, x)[1] = x
    BY AppendProperties
<1>2. <<x>> \in Seq(Int) /\ Len(<<x>>) = 1 /\ <<x>>[1] = x
    OBVIOUS
<1>3. Append(q, x) = <<x>>
    BY <1>1, <1>2, SeqEqual
<1> QED BY <1>2, <1>3

\* A timer is called when it is due.
LEMMA CallKeeps ==
    ASSUME NEW st, Tick \in Nat, NEW w, NEW g, NEW t \in Timers,
           Good(st, Tick, w, g, {t}), Waits(st.tvec[t]), st.tvec[t].due = Tick,
           NEW n, n = Call(st, t)
    PROVE  /\ Good(n, Tick, w, g, {})
           /\ n.cur = st.cur /\ n.slot = st.slot
<1> DEFINE r == [st.tvec[t] EXCEPT !.calls = Append(@, Tick)]
<1>1. Typed(st) /\ st.tvec[t] \in TvecRecord
    BY DEF Good, Typed
<1>2. st.tvec[t].calls = <<>> /\ st.tvec[t].status = "added"
    BY DEF Waits
<1>3. /\ Append(st.tvec[t].calls, Tick) = <<Tick>>
      /\ <<Tick>> \in Seq(Int) /\ <<Tick>> # <<>>
    BY <1>2, FirstCall
<1>4. r \in TvecRecord /\ r.calls = <<Tick>> /\ r.status = "added" /\ r.due = Tick
    BY <1>1, <1>2, <1>3 DEF TvecRecord
<1>5. n = WithRecord(st, t, r)
    BY DEF Call, WithRecord
<1> HIDE DEF r
<1>6. History(r) /\ ~Waits(r)
    BY <1>3, <1>4 DEF History, Waits
<1>7. Good(n, Tick, w, g, {})
    BY <1>4, <1>5, <1>6, Altered
<1>8. n.cur = st.cur /\ n.slot = st.slot
    BY <1>1, <1>4, <1>5, NewRecord
<1> QED BY <1>7, <1>8

\* A script adds a timer of its own.
LEMMA AddNewKeeps ==
    ASSUME NEW st, Tick \in Nat, NEW w \in 0 .. WheelCount, NEW g \in Nat,
           Good(st, Tick, w, g, {}),
           NEW t \in Timers, st.tvec[t].status = "new",
           NEW d \in 0 .. WheelRange(WheelCount), w # 0 => d # WheelRange(w),
           NEW n, n = AddTimer(st, t, d)
    PROVE  /\ Good(n, Tick, w, g, {})
           /\ n.cur = st.cur
           /\ w # 0 => n.slot[w][st.cur[w]] = st.slot[w][st.cur[w]]
<1> DEFINE r == Ordered(st.tvec[t], d, Tick + d)
           m == WithRecord(st, t, r)
<1>1. Typed(st) /\ st.tvec[t] \in TvecRecord /\ History(st.tvec[t])
    BY DEF Good, Typed
<1>2. WheelRange(WheelCount) \in Nat /\ WheelCount \in Wheels
    BY CountsType, RangesGrow DEF Wheels
<1>3. d \in Nat
    BY <1>2
<1>4. st.tvec[t].calls = <<>> /\ ~Waits(st.tvec[t])
    BY <1>1 DEF History, Waits
<1>5. /\ r \in TvecRecord /\ r.calls = <<>> /\ r.status = "added"
      /\ r.due = Tick + d /\ r.TimeOut = d
    <2>1. d \in Int /\ Tick + d \in Int /\ st.tvec[t] \in TvecRecord
        BY <1>1, <1>3
    <2>2. /\ r \in TvecRecord /\ r.calls = st.tvec[t].calls /\ r.status = "added"
          /\ r.due = Tick + d /\ r.TimeOut = d
        BY ONLY <2>1, NewOrder
    <2> QED BY <1>4, <2>2
<1>6. n = Add(m, d, t)
    BY DEF AddTimer, WithRecord, Ordered
<1> HIDE DEF r, m
<1>7. History(r) /\ Waits(r)
    BY <1>5 DEF History, Waits
<1>8. Good(m, Tick, w, g, {t})
    BY <1>4, <1>5, <1>7, Altered DEF m
<1>9. m.cur = st.cur /\ m.slot = st.slot /\ m.tvec[t] = r
    BY <1>1, <1>5, NewRecord DEF m
<1>10. Waits(m.tvec[t]) /\ m.tvec[t].due = Tick + d /\ m.tvec[t].TimeOut = d
    BY <1>5, <1>7, <1>9
<1>11. CASE d = 0
    <2>1. n = Call(m, t) /\ m.tvec[t].due = Tick
        BY <1>6, <1>10, <1>11 DEF Add
    <2>2. Good(n, Tick, w, g, {}) /\ n.cur = m.cur /\ n.slot = m.slot
        BY <1>8, <1>10, <2>1, CallKeeps
    <2> QED BY <1>9, <2>2
<1>12. CASE d # 0
    <2>1. n = Place(m, d, t) /\ d \in Nat \ {0} /\ d <= WheelRange(WheelCount)
        BY <1>2, <1>3, <1>6, <1>12 DEF Add
    <2>2. Tick \in Int /\ (w # 0 => d # WheelRange(w))
        OBVIOUS
    <2>3. w \in 0 .. WheelCount /\ g \in Nat /\ t \in Timers
        OBVIOUS
    <2>4. DueIn(m.tvec[t], Tick, d)
        BY ONLY <1>10 DEF DueIn
    <2>5. /\ Good(n, Tick, w, g, {}) /\ n.cur = m.cur
          /\ w # 0 => n.slot[w][m.cur[w]] = m.slot[w][m.cur[w]]
        BY ONLY <1>8, <2>1, <2>2, <2>3, <2>4, PlaceKeeps
    <2> QED BY <1>9, <2>5
<1> QED BY <1>11, <1>12

----------------------------------------------------------------------------
(* table.remove                                                               *)

LEMMA RemovedAt ==
    ASSUME NEW S, NEW q \in Seq(S), NEW i \in 1 .. Len(q), NEW p, p = RemoveAt(q, i)
    PROVE  /\ p \in Seq(S)
           /\ Len(q) \in Nat /\ Len(p) = Len(q) - 1
           /\ \A j \in 1 .. Len(p) : p[j] = IF j < i THEN q[j] ELSE q[j + 1]
<1> DEFINE a == SubSeq(q, 1, i - 1)
           b == SubSeq(q, i + 1, Len(q))
<1>1. Len(q) \in Nat /\ i \in Nat /\ i >= 1 /\ i <= Len(q)
    BY LenProperties
<1>2. \A j \in 1 .. Len(q) : q[j] \in S
    BY ElementOfSeq
<1>3. /\ a \in Seq(S) /\ Len(a) = i - 1
      /\ \A j \in 1 .. i - 1 : a[j] = q[j]
    <2>1. \A j \in 1 .. i - 1 : q[j] \in S
        BY <1>1, <1>2
    <2>2. /\ a \in Seq(S)
          /\ Len(a) = IF 1 <= i - 1 THEN (i - 1) - 1 + 1 ELSE 0
          /\ \A j \in 1 .. (i - 1) - 1 + 1 : a[j] = q[1 + j - 1]
        <3>1. 1 \in Int /\ i - 1 \in Int
            BY <1>1
        <3> QED BY <2>1, <3>1, SubSeqProperties
    <2> HIDE DEF a
    <2> QED BY <1>1, <2>2
<1>4. /\ b \in Seq(S) /\ Len(b) = Len(q) - i
      /\ \A j \in 1 .. Len(q) - i : b[j] = q[i + j]
    <2>1. \A j \in i + 1 .. Len(q) : q[j] \in S
        BY <1>1, <1>2
    <2>2. /\ b \in Seq(S)
          /\ Len(b) = IF i + 1 <= Len(q) THEN Len(q) - (i + 1) + 1 ELSE 0
          /\ \A j \in 1 .. Len(q) - (i + 1) + 1 : b[j] = q[(i + 1) + j - 1]
        <3>1. Len(q) \in Int /\ i + 1 \in Int
            BY <1>1
        <3> QED BY <2>1, <3>1, SubSeqProperties
    <2> HIDE DEF b
    <2> QED BY <1>1, <2>2
<1>5. p = a \o b
    BY DEF RemoveAt
<1> HIDE DEF a, b
<1>6. /\ p \in Seq(S) /\ Len(p) = Len(a) + Len(b)
      /\ \A j \in 1 .. Len(a) + Len(b) : p[j] = IF j <= Len(a) THEN a[j] ELSE b[j - Len(a)]
    <2>1. a \in Seq(S) /\ b \in Seq(S)
        BY <1>3, <1>4
    <2>2. /\ a \o b \in Seq(S) /\ Len(a \o b) = Len(a) + Len(b)
          /\ \A j \in 1 .. Len(a) + Len(b) :
                (a \o b)[j] = IF j <= Len(a) THEN a[j] ELSE b[j - Len(a)]
        BY ONLY <2>1, ConcatProperties
    <2> QED BY ONLY <1>5, <2>2
<1>7. Len(p) = Len(q) - 1
    BY <1>1, <1>3, <1>4, <1>6
<1>8. ASSUME NEW j \in 1 .. Len(p)
      PROVE  p[j] = IF j < i THEN q[j] ELSE q[j + 1]
    <2>1. p[j] = IF j <= i - 1 THEN a[j] ELSE b[j - (i - 1)]
        BY <1>1, <1>3, <1>4, <1>6, <1>7
    <2>2. CASE j < i
        BY <1>1, <1>3, <1>7, <2>1, <2>2
    <2>3. CASE ~(j < i)
        <3>1. j - (i - 1) \in 1 .. Len(q) - i /\ i + (j - (i - 1)) = j + 1
            BY <1>1, <1>7, <2>3
        <3>2. b[j - (i - 1)] = q[j + 1]
            BY <1>4, <3>1
        <3> QED BY <1>1, <2>1, <2>3, <3>2
    <2> QED BY <2>2, <2>3
<1> QED BY <1>1, <1>6, <1>7, <1>8

WithSlot(st, k, s, q) == [st EXCEPT !.slot[k][s] = q]

LEMMA NewSlot ==
    ASSUME NEW st, Typed(st), NEW k \in Wheels, NEW s \in Slots(k), NEW q \in Seq(Timers),
           NEW n, n = WithSlot(st, k, s, q)
    PROVE  /\ Typed(n)
           /\ n.cur = st.cur /\ n.tvec = st.tvec
           /\ n.slot[k][s] = q
           /\ \A j \in Wheels : \A x \in Slots(j) :
                 j # k \/ x # s => n.slot[j][x] = st.slot[j][x]
<1>1. /\ n.cur = st.cur /\ n.tvec = st.tvec
      /\ n.slot = [st.slot EXCEPT ![k][s] = q]
      /\ n = [cur |-> n.cur, slot |-> n.slot, tvec |-> n.tvec]
    BY DEF Typed, WithSlot
<1>2. /\ n.slot[k] = [st.slot[k] EXCEPT ![s] = q]
      /\ n.slot = [j \in Wheels |-> n.slot[j]]
      /\ \A j \in Wheels : j # k => n.slot[j] = st.slot[j]
    BY <1>1 DEF Typed
<1>3. /\ n.slot[k] \in [Slots(k) -> Seq(Timers)]
      /\ n.slot[k][s] = q
      /\ \A x \in Slots(k) : x # s => n.slot[k][x] = st.slot[k][x]
    BY <1>2 DEF Typed
<1> QED BY <1>1, <1>2, <1>3 DEF Typed

\* The value n differs from st by the last element of slot s of wheel k.
ShrinksBy(st, n, k, s, g) ==
    /\ Typed(n)
    /\ n.cur = st.cur /\ n.tvec = st.tvec
    /\ Len(st.slot[k][s]) = g /\ Len(n.slot[k][s]) = g - 1
    /\ \A j \in 1 .. g - 1 : n.slot[k][s][j] = st.slot[k][s][j]
    /\ \A j \in Wheels : \A x \in Slots(j) :
          j # k \/ x # s => n.slot[j][x] = st.slot[j][x]

LEMMA Shrunk ==
    ASSUME NEW st, NEW now, NEW w \in Wheels, NEW g \in Nat \ {0},
           Good(st, now, w, g, {}),
           NEW s, s = st.cur[w], NEW n, ShrinksBy(st, n, w, s, g)
    PROVE  Good(n, now, w, 0, {})
<1>1. /\ Typed(st) /\ Turning(st.cur, w)
      /\ Registered(st, w, g, {})
      /\ OnSchedule(st, now, w, g, {})
      /\ \A u \in Timers : History(st.tvec[u])
    BY DEF Good
<1>2. Typed(n) /\ n.cur = st.cur /\ n.tvec = st.tvec
    BY DEF ShrinksBy
<1>3. \A k \in Wheels : \A x \in Slots(k) :
          Walked(st.cur, w, k, x) <=> k = w /\ x = s
    BY DEF Walked
<1>last. /\ \A i \in 1 .. Len(n.slot[w][s]) :
               /\ i \in 1 .. Len(st.slot[w][s]) /\ n.slot[w][s][i] = st.slot[w][s][i]
               /\ i # g
         /\ \A i \in 1 .. Len(st.slot[w][s]) :
               i # g => /\ i \in 1 .. Len(n.slot[w][s])
                        /\ n.slot[w][s][i] = st.slot[w][s][i]
                        /\ i # 0
    <2>1. /\ Len(st.slot[w][s]) = g /\ Len(n.slot[w][s]) = g - 1
          /\ \A j \in 1 .. g - 1 : n.slot[w][s][j] = st.slot[w][s][j]
        BY DEF ShrinksBy
    <2>2. g \in Nat \ {0}
        OBVIOUS
    <2> QED BY ONLY <2>1, <2>2
<1>4. ASSUME NEW k \in Wheels, NEW x \in Slots(k), NEW i \in 1 .. Len(n.slot[k][x])
      PROVE  /\ i \in 1 .. Len(st.slot[k][x]) /\ n.slot[k][x][i] = st.slot[k][x][i]
             /\ ~(Walked(st.cur, w, k, x) /\ i = g)
    <2>1. CASE k = w /\ x = s
        BY <1>last, <1>4, <2>1
    <2>2. CASE k # w \/ x # s
        BY <1>3, <1>4, <2>2 DEF ShrinksBy
    <2> QED BY <2>1, <2>2
<1>5. ASSUME NEW k \in Wheels, NEW x \in Slots(k), NEW i \in 1 .. Len(st.slot[k][x]),
             ~(Walked(st.cur, w, k, x) /\ i = g)
      PROVE  /\ i \in 1 .. Len(n.slot[k][x]) /\ n.slot[k][x][i] = st.slot[k][x][i]
             /\ i # 0
    <2> USE <1>5
    <2>1. CASE k = w /\ x = s
        <3>1. i # g /\ i \in 1 .. Len(st.slot[w][s])
            BY <1>3, <2>1
        <3> QED BY <1>last, <2>1, <3>1
    <2>2. CASE k # w \/ x # s
        BY <1>3, <1>5, <2>2 DEF ShrinksBy
    <2> QED BY <2>1, <2>2
<1>6. Registered(n, w, 0, {})
    <2> SUFFICES ASSUME NEW k \in Wheels, NEW x \in Slots(k), NEW i \in 1 .. Len(n.slot[k][x])
                 PROVE  Properly(n.tvec[n.slot[k][x][i]], k, x, i)
        BY DEF Registered
    <2>1. Properly(st.tvec[st.slot[k][x][i]], k, x, i)
        BY <1>1, <1>4 DEF Registered
    <2> QED BY <1>2, <1>4, <2>1
<1>7. OnSchedule(n, now, w, 0, {})
    <2> SUFFICES ASSUME NEW u \in Timers, Waits(st.tvec[u])
                 PROVE  Stands(n, w, 0, u) /\ Timed(st.cur, now, w, st.tvec[u])
        BY <1>2 DEF OnSchedule
    <2>1. Stands(st, w, g, u) /\ Timed(st.cur, now, w, st.tvec[u])
        BY <1>1 DEF OnSchedule
    <2>2. \A k, x, i : StandsAt(st, w, g, u, k, x, i) => StandsAt(n, w, 0, u, k, x, i)
        BY <1>5 DEF StandsAt
    <2> QED BY <1>2, <2>1, <2>2 DEF Stands
<1> QED BY <1>1, <1>2, <1>6, <1>7 DEF Good

\* onTime and cashData take the element they have dealt with out of the slot,
\* the last one.
Dropped(st, w, g, n) ==
    /\ Len(st.slot[w][st.cur[w]]) = g
    /\ n = WithSlot(st, w, st.cur[w], RemoveAt(st.slot[w][st.cur[w]], g))

LEMMA DropKeeps ==
    ASSUME NEW st, NEW now, NEW w \in Wheels, NEW g \in Nat \ {0},
           Good(st, now, w, g, {}), NEW n, Dropped(st, w, g, n)
    PROVE  /\ Good(n, now, w, 0, {})
           /\ n.cur = st.cur
           /\ Len(n.slot[w][st.cur[w]]) = g - 1
<1>0. /\ Len(st.slot[w][st.cur[w]]) = g
      /\ n = WithSlot(st, w, st.cur[w], RemoveAt(st.slot[w][st.cur[w]], g))
    BY DEF Dropped
<1> USE <1>0
<1>1. Typed(st) /\ Turning(st.cur, w) /\ st.cur \in [Wheels -> Nat]
    BY DEF Good, Typed
<1>2. PICK s : s = st.cur[w]
    OBVIOUS
<1>3. s \in Slots(w) /\ st.slot[w][s] \in Seq(Timers)
    BY <1>1, <1>2, WalkedIsSlot DEF Typed
<1>4. PICK p : p = RemoveAt(st.slot[w][s], g)
    OBVIOUS
<1>5. Len(st.slot[w][s]) = g /\ g \in 1 .. Len(st.slot[w][s])
    BY <1>2
<1>6. /\ p \in Seq(Timers) /\ Len(p) = g - 1
      /\ \A j \in 1 .. g - 1 : p[j] = st.slot[w][s][j]
    <2>1. /\ p \in Seq(Timers) /\ Len(p) = g - 1
          /\ \A j \in 1 .. Len(p) : p[j] = IF j < g THEN st.slot[w][s][j] ELSE st.slot[w][s][j + 1]
        BY <1>3, <1>4, <1>5, RemovedAt
    <2> QED BY <2>1
<1>7. n = WithSlot(st, w, s, p)
    BY <1>2, <1>4
<1>8. ShrinksBy(st, n, w, s, g)
    <2>1. Typed(st) /\ w \in Wheels /\ s \in Slots(w) /\ p \in Seq(Timers)
        BY <1>1, <1>3, <1>6
    <2>2. /\ Typed(n) /\ n.cur = st.cur /\ n.tvec = st.tvec
          /\ n.slot[w][s] = p
          /\ \A j \in Wheels : \A x \in Slots(j) :
                j # w \/ x # s => n.slot[j][x] = st.slot[j][x]
        BY ONLY <1>7, <2>1, NewSlot
    <2> QED BY ONLY <1>5, <1>6, <2>2 DEF ShrinksBy
<1>9. Good(n, now, w, 0, {})
    BY <1>2, <1>8, Shrunk
<1> QED BY ONLY <1>2, <1>8, <1>9 DEF ShrinksBy

----------------------------------------------------------------------------
(* Remove, between ticks                                                      *)

MovedUp(r) == [r EXCEPT !.RegIndex = @ - 1]

\* A record after element i of slot s of wheel k is gone.
Reindexed(r, k, s, i) ==
    IF Waits(r) /\ r.RegWheel = k /\ r.RegSlot = s /\ r.RegIndex > i THEN MovedUp(r) ELSE r

LEMMA MovingUp ==
    ASSUME NEW r \in TvecRecord, r.RegIndex \in Nat \ {0}, NEW n, n = MovedUp(r)
    PROVE  /\ n \in TvecRecord
           /\ n.RegIndex = r.RegIndex - 1
           /\ n.RegWheel = r.RegWheel /\ n.RegSlot = r.RegSlot
           /\ n.TimeOut = r.TimeOut /\ n.CompTime = r.CompTime
           /\ n.status = r.status /\ n.due = r.due /\ n.calls = r.calls
<1>1. PICK i \in Nat : i = r.RegIndex - 1
    OBVIOUS
<1>2. n = [r EXCEPT !.RegIndex = i]
    BY <1>1 DEF MovedUp
<1>3. n.RegIndex = r.RegIndex - 1
    BY <1>1, <1>2 DEF TvecRecord
<1> QED BY ONLY <1>2, <1>3, r \in TvecRecord, i \in Nat DEF TvecRecord

LEMMA Reindexing ==
    ASSUME NEW r \in TvecRecord, NEW k, NEW s, NEW i \in Nat, NEW n, n = Reindexed(r, k, s, i)
    PROVE  /\ n \in TvecRecord
           /\ Waits(n) <=> Waits(r)
           /\ n.RegWheel = r.RegWheel /\ n.RegSlot = r.RegSlot
           /\ n.RegIndex = IF Waits(r) /\ r.RegWheel = k /\ r.RegSlot = s /\ r.RegIndex > i
                           THEN r.RegIndex - 1 ELSE r.RegIndex
           /\ History(n) <=> History(r)
           /\ \A cur, now, w : Timed(cur, now, w, n) <=> Timed(cur, now, w, r)
<1>1. CASE Waits(r) /\ r.RegWheel = k /\ r.RegSlot = s /\ r.RegIndex > i
    <2>1. n = MovedUp(r)
        BY <1>1 DEF Reindexed
    <2>2. r.RegIndex \in Nat \ {0}
        BY <1>1, TvecFields
    <2>3. /\ n \in TvecRecord
          /\ n.RegIndex = r.RegIndex - 1
          /\ n.RegWheel = r.RegWheel /\ n.RegSlot = r.RegSlot
          /\ n.TimeOut = r.TimeOut /\ n.CompTime = r.CompTime
          /\ n.status = r.status /\ n.due = r.due /\ n.calls = r.calls
        BY ONLY <2>1, <2>2, r \in TvecRecord, MovingUp
    <2>4. Waits(n) <=> Waits(r)
        BY <2>3 DEF Waits
    <2>5. History(n) <=> History(r)
        BY <2>3 DEF History
    <2>6. \A cur, now, w : Timed(cur, now, w, n) <=> Timed(cur, now, w, r)
        BY <2>3 DEF Timed, Rest
    <2> QED BY <1>1, <2>3, <2>4, <2>5, <2>6
<1>2. CASE ~(Waits(r) /\ r.RegWheel = k /\ r.RegSlot = s /\ r.RegIndex > i)
    BY <1>2 DEF Reindexed
<1> QED BY <1>1, <1>2

\* Timer t is gone from element i of slot s of wheel k.
CutBy(st, n, k, s, i, t) ==
    /\ Typed(n)
    /\ n.cur = st.cur
    /\ Len(n.slot[k][s]) = Len(st.slot[k][s]) - 1
    /\ \A j \in 1 .. Len(n.slot[k][s]) :
          n.slot[k][s][j] = IF j < i THEN st.slot[k][s][j] ELSE st.slot[k][s][j + 1]
    /\ \A j \in Wheels : \A x \in Slots(j) :
          j # k \/ x # s => n.slot[j][x] = st.slot[j][x]
    /\ ~Waits(n.tvec[t]) /\ History(n.tvec[t])
    /\ \A u \in Timers : u # t => n.tvec[u] = Reindexed(st.tvec[u], k, s, i)

LEMMA CutKeeps ==
    ASSUME NEW st, NEW now, Good(st, now, 0, 0, {}),
           NEW t \in Timers, NEW k \in Wheels, NEW s \in Slots(k),
           NEW i \in 1 .. Len(st.slot[k][s]), st.slot[k][s][i] = t,
           NEW n, CutBy(st, n, k, s, i, t)
    PROVE  Good(n, now, 0, 0, {})
<1>1. /\ Typed(st) /\ Turning(st.cur, 0)
      /\ Registered(st, 0, 0, {})
      /\ OnSchedule(st, now, 0, 0, {})
      /\ \A u \in Timers : History(st.tvec[u])
    BY DEF Good
<1>2. Typed(n) /\ n.cur = st.cur
    BY DEF CutBy
<1>3. \A x : \A j \in Wheels : ~Walked(st.cur, 0, j, x)
    BY DEF Walked, Wheels
<1>4. \A u \in Timers : u # t => n.tvec[u] = Reindexed(st.tvec[u], k, s, i)
    BY DEF CutBy
<1>5. \A j \in Wheels : \A x \in Slots(j) : j # k \/ x # s => n.slot[j][x] = st.slot[j][x]
    BY DEF CutBy
<1>6. \A j \in Wheels : \A x \in Slots(j) : st.slot[j][x] \in Seq(Timers)
    BY <1>1 DEF Typed
<1>7. PICK m \in Nat : m = Len(st.slot[k][s])
    BY <1>6, LenProperties
<1>8. /\ Len(n.slot[k][s]) = m - 1 /\ i \in 1 .. m
      /\ \A j \in 1 .. m - 1 :
            n.slot[k][s][j] = IF j < i THEN st.slot[k][s][j] ELSE st.slot[k][s][j + 1]
    BY <1>7 DEF CutBy
<1>9. \A j \in Wheels : \A x \in Slots(j) : \A a \in 1 .. Len(st.slot[j][x]) :
          /\ st.slot[j][x][a] \in Timers
          /\ Properly(st.tvec[st.slot[j][x][a]], j, x, a)
    BY <1>1, <1>3, <1>6, ElementOfSeq DEF Registered
<1>10. \A u \in Timers : st.tvec[u] \in TvecRecord
    BY <1>1 DEF Typed
\* The elements that stay, before and behind element i.
<1>11. ASSUME NEW j \in Wheels, NEW x \in Slots(j), NEW a \in 1 .. Len(st.slot[j][x]),
              ~(j = k /\ x = s /\ a = i),
              NEW b, b = IF j = k /\ x = s /\ a > i THEN a - 1 ELSE a
       PROVE  /\ b \in 1 .. Len(n.slot[j][x])
              /\ n.slot[j][x][b] = st.slot[j][x][a]
              /\ Properly(n.tvec[st.slot[j][x][a]], j, x, b)
    <2>1. PICK u \in Timers : u = st.slot[j][x][a]
        BY <1>9
    <2>2. Properly(st.tvec[u], j, x, a) /\ Properly(st.tvec[t], k, s, i)
        BY <1>9, <2>1
    <2>3. u # t
        BY <1>11, <2>2 DEF Properly
    <2>4. n.tvec[u] = Reindexed(st.tvec[u], k, s, i) /\ st.tvec[u] \in TvecRecord
        BY <1>4, <1>10, <2>3
    <2>5. /\ Waits(n.tvec[u]) <=> Waits(st.tvec[u])
          /\ n.tvec[u].RegWheel = st.tvec[u].RegWheel /\ n.tvec[u].RegSlot = st.tvec[u].RegSlot
          /\ n.tvec[u].RegIndex =
                IF Waits(st.tvec[u]) /\ st.tvec[u].RegWheel = k /\ st.tvec[u].RegSlot = s
                   /\ st.tvec[u].RegIndex > i
                THEN st.tvec[u].RegIndex - 1 ELSE st.tvec[u].RegIndex
        <3>1. i \in Nat
            BY <1>8
        <3> QED BY ONLY <2>4, <3>1, Reindexing
    <2>6. Properly(n.tvec[u], j, x, b)
        BY <1>11, <2>2, <2>5 DEF Properly
    <2>7. b \in 1 .. Len(n.slot[j][x]) /\ n.slot[j][x][b] = u
        <3>1. CASE j = k /\ x = s
            <4>1. a \in 1 .. m /\ a # i /\ u = st.slot[k][s][a]
                BY <1>7, <1>11, <2>1, <3>1
            <4>2. b = IF a > i THEN a - 1 ELSE a
                BY <1>11, <3>1
            <4>3. b \in 1 .. m - 1 /\ (IF b < i THEN a = b ELSE a = b + 1)
                BY ONLY <1>7, <1>8, <4>1, <4>2
            <4>4. n.slot[k][s][b] = u
                BY <1>8, <4>1, <4>3
            <4> QED BY <1>8, <3>1, <4>3, <4>4
        <3>2. CASE j # k \/ x # s
            BY <1>5, <1>11, <2>1, <3>2
        <3> QED BY <3>1, <3>2
    <2> QED BY <2>1, <2>6, <2>7
\* There are no others.
<1>12. ASSUME NEW j \in Wheels, NEW x \in Slots(j), NEW b \in 1 .. Len(n.slot[j][x])
       PROVE  \E a \in 1 .. Len(st.slot[j][x]) :
                  /\ ~(j = k /\ x = s /\ a = i)
                  /\ b = IF j = k /\ x = s /\ a > i THEN a - 1 ELSE a
    <2>1. CASE j = k /\ x = s
        <3>1. b \in 1 .. m - 1
            BY <1>8, <1>12, <2>1
        <3>2. PICK a : a = IF b < i THEN b ELSE b + 1
            OBVIOUS
        <3>3. a \in 1 .. m /\ a # i /\ b = IF a > i THEN a - 1 ELSE a
            BY ONLY <1>7, <1>8, <3>1, <3>2
        <3> QED BY <1>7, <2>1, <3>3
    <2>2. CASE j # k \/ x # s
        BY <1>5, <1>12, <2>2
    <2> QED BY <2>1, <2>2
<1>13. Registered(n, 0, 0, {})
    <2> SUFFICES ASSUME NEW j \in Wheels, NEW x \in Slots(j), NEW b \in 1 .. Len(n.slot[j][x])
                 PROVE  Properly(n.tvec[n.slot[j][x][b]], j, x, b)
        BY DEF Registered
    <2>1. PICK a \in 1 .. Len(st.slot[j][x]) :
                  /\ ~(j = k /\ x = s /\ a = i)
                  /\ b = IF j = k /\ x = s /\ a > i THEN a - 1 ELSE a
        BY <1>12
    <2> QED BY <1>11, <2>1
<1>14. OnSchedule(n, now, 0, 0, {})
    <2> SUFFICES ASSUME NEW u \in Timers, Waits(n.tvec[u])
                 PROVE  Stands(n, 0, 0, u) /\ Timed(n.cur, now, 0, n.tvec[u])
        BY DEF OnSchedule
    <2>1. u # t
        BY DEF CutBy
    <2>2. /\ n.tvec[u] = Reindexed(st.tvec[u], k, s, i) /\ st.tvec[u] \in TvecRecord
          /\ i \in Nat
        BY <1>4, <1>8, <1>10, <2>1
    <2>3. /\ Waits(st.tvec[u])
          /\ Timed(st.cur, now, 0, n.tvec[u]) <=> Timed(st.cur, now, 0, st.tvec[u])
        <3>1. Waits(n.tvec[u])
            OBVIOUS
        <3> QED BY ONLY <2>2, <3>1, Reindexing
    <2>4. Stands(st, 0, 0, u) /\ Timed(st.cur, now, 0, st.tvec[u])
        BY <1>1, <2>3 DEF OnSchedule
    <2>5. PICK j, x, a : StandsAt(st, 0, 0, u, j, x, a)
        BY <2>4 DEF Stands
    <2>6. /\ j \in Wheels /\ x \in Slots(j) /\ a \in 1 .. Len(st.slot[j][x])
          /\ st.slot[j][x][a] = u
          /\ ~(j = k /\ x = s /\ a = i)
        BY <2>1, <2>5 DEF StandsAt
    <2>7. PICK b : b = IF j = k /\ x = s /\ a > i THEN a - 1 ELSE a
        OBVIOUS
    <2>8. /\ b \in 1 .. Len(n.slot[j][x]) /\ n.slot[j][x][b] = u
          /\ Properly(n.tvec[u], j, x, b)
        BY ONLY <1>11, <2>6, <2>7
    <2>9. StandsAt(n, 0, 0, u, j, x, b)
        BY <1>2, <1>3, <2>6, <2>8 DEF StandsAt
    <2>10. Stands(n, 0, 0, u)
        BY <2>8, <2>9 DEF Stands, Properly
    <2> QED BY <1>2, <2>3, <2>4, <2>10
<1>15. ASSUME NEW u \in Timers
       PROVE  History(n.tvec[u])
    <2>1. CASE u = t
        BY <2>1 DEF CutBy
    <2>2. CASE u # t
        <3>1. /\ n.tvec[u] = Reindexed(st.tvec[u], k, s, i) /\ st.tvec[u] \in TvecRecord
              /\ i \in Nat
            BY <1>4, <1>8, <1>10, <2>2
        <3>2. History(n.tvec[u]) <=> History(st.tvec[u])
            BY ONLY <3>1, Reindexing
        <3> QED BY <1>1, <3>2
    <2> QED BY <2>1, <2>2
<1> QED BY <1>1, <1>2, <1>13, <1>14, <1>15 DEF Good

LEMMA MaxOfOne ==
    ASSUME NEW a \in Int
    PROVE  Max({a}) = a
    BY DEF Max

Ended(r) == [r EXCEPT !.status = "removed"]

LEMMA Ending ==
    ASSUME NEW r \in TvecRecord, r.calls = <<>>, NEW n, n = Ended(r)
    PROVE  /\ n \in TvecRecord
           /\ n.RegWheel = r.RegWheel /\ n.RegSlot = r.RegSlot /\ n.RegIndex = r.RegIndex
           /\ n.status = "removed" /\ n.calls = <<>>
    BY DEF TvecRecord, Ended

LEMMA Unregistered ==
    ASSUME NEW r \in TvecRecord, NEW n, n = NoReg(r)
    PROVE  n \in TvecRecord /\ n.status = r.status /\ n.calls = r.calls
<1>1. n = Reregistered(r, 0, 0, 0)
    BY DEF NoReg, Reregistered
<1> QED BY ONLY <1>1, r \in TvecRecord, NewRegistration

\* Where the timer u stands in the shortened slot p, from element i on.
Behind(p, i, u) == {j \in i .. Len(p) : p[j] = u}

MovedTo(p, i, u, r) == IF Behind(p, i, u) = {} THEN r ELSE [r EXCEPT !.RegIndex = Max(Behind(p, i, u))]

Shifted(st, p, i, t) ==
    [u \in Timers |-> MovedTo(p, i, u, IF u = t THEN NoReg(st.tvec[t]) ELSE st.tvec[u])]

WithRecords(st, R) == [st EXCEPT !.tvec = R]

\* Remove, for a timer that stands where it is registered.
LEMMA RemoveIs ==
    ASSUME NEW st, Typed(st), NEW t \in Timers,
           NEW k \in Wheels, NEW s \in Slots(k), NEW i \in 1 .. Len(st.slot[k][s]),
           st.tvec[t].RegWheel = k, st.tvec[t].RegSlot = s, st.tvec[t].RegIndex = i,
           NEW p, p = RemoveAt(st.slot[k][s], i),
           NEW n, n = RemoveTimer(st, t)
    PROVE  n = WithRecords(WithSlot(st, k, s, p), Shifted(st, p, i, t))
<1>1. k # 0 /\ i # 0 /\ i \in 1 .. Len(st.slot[k][s])
    BY DEF Wheels
<1>2. Len(st.slot[k][s]) \in Nat
    BY LenProperties DEF Typed
<1>3. Removable(st.slot[k][s], i) /\ TableRemove(st.slot[k][s], i) = p
    BY <1>1, <1>2 DEF Removable, TableRemove
<1>4. n = [st EXCEPT
              !.slot[k][s] = p,
              !.tvec = [u \in Timers |->
                  IF {j \in i .. Len(p) : p[j] = u} = {}
                  THEN IF u = t THEN NoReg(st.tvec[t]) ELSE st.tvec[u]
                  ELSE [(IF u = t THEN NoReg(st.tvec[t]) ELSE st.tvec[u])
                           EXCEPT !.RegIndex = Max({j \in i .. Len(p) : p[j] = u})]]]
    BY <1>1, <1>3 DEF RemoveTimer
<1> QED BY ONLY <1>4 DEF MovedTo, Behind, Shifted, WithSlot, WithRecords

LEMMA RemoveEffect ==
    ASSUME NEW st, Typed(st), NEW k \in Wheels, NEW s \in Slots(k), NEW p \in Seq(Timers),
           NEW R, R \in [Timers -> TvecRecord],
           NEW n, n = WithRecords(WithSlot(st, k, s, p), R)
    PROVE  /\ Typed(n)
           /\ n.cur = st.cur /\ n.tvec = R
           /\ n.slot[k][s] = p
           /\ \A j \in Wheels : \A x \in Slots(j) :
                 j # k \/ x # s => n.slot[j][x] = st.slot[j][x]
<1>1. PICK m : m = WithSlot(st, k, s, p)
    OBVIOUS
<1>2. /\ Typed(m) /\ m.cur = st.cur
      /\ m.slot[k][s] = p
      /\ \A j \in Wheels : \A x \in Slots(j) :
            j # k \/ x # s => m.slot[j][x] = st.slot[j][x]
    BY <1>1, NewSlot
<1>3. n = [m EXCEPT !.tvec = R]
    BY <1>1 DEF WithRecords
<1>4. m = [cur |-> m.cur, slot |-> m.slot, tvec |-> m.tvec]
    BY <1>2 DEF Typed
<1>5. /\ n.cur = m.cur /\ n.slot = m.slot /\ n.tvec = R
      /\ n = [cur |-> n.cur, slot |-> n.slot, tvec |-> n.tvec]
    BY ONLY <1>3, <1>4
<1>6. Typed(n)
    BY ONLY <1>2, <1>5, R \in [Timers -> TvecRecord] DEF Typed
<1> QED BY ONLY <1>2, <1>5, <1>6

\* The timers behind the removed one move up, and their index with them.
LEMMA RemoveCuts ==
    ASSUME NEW st, NEW now, Good(st, now, 0, 0, {}), NEW t \in Timers,
           NEW k, NEW s, NEW i, Properly(st.tvec[t], k, s, i),
           NEW n, n = RemoveTimer(WithRecord(st, t, Ended(st.tvec[t])), t)
    PROVE  /\ k \in Wheels /\ s \in Slots(k) /\ i \in 1 .. Len(st.slot[k][s])
           /\ st.slot[k][s][i] = t
           /\ CutBy(st, n, k, s, i, t)
<1>0. Waits(st.tvec[t]) /\ k = st.tvec[t].RegWheel /\ s = st.tvec[t].RegSlot
      /\ i = st.tvec[t].RegIndex
    BY DEF Properly
<1> USE <1>0
<1>1. /\ Typed(st)
      /\ Registered(st, 0, 0, {})
      /\ OnSchedule(st, now, 0, 0, {})
    BY DEF Good
<1>2. k \in Wheels /\ s \in Slots(k) /\ i \in 1 .. Len(st.slot[k][s]) /\ st.slot[k][s][i] = t
    <2>1. Stands(st, 0, 0, t)
        BY <1>1 DEF OnSchedule
    <2>2. StandsAt(st, 0, 0, t, k, s, i)
        BY <2>1 DEF Stands
    <2> QED BY ONLY <2>2 DEF StandsAt
<1>3. \A u \in Timers : st.tvec[u] \in TvecRecord
    BY <1>1 DEF Typed
<1>4. st.slot[k][s] \in Seq(Timers) /\ Len(st.slot[k][s]) \in Nat /\ i \in Nat
    <2>1. st.slot[k][s] \in Seq(Timers)
        BY ONLY <1>1, <1>2 DEF Typed
    <2>2. Len(st.slot[k][s]) \in Nat
        BY ONLY <2>1, LenProperties
    <2> QED BY ONLY <1>2, <2>1, <2>2
<1>5. \A a \in 1 .. Len(st.slot[k][s]) : Properly(st.tvec[st.slot[k][s][a]], k, s, a)
    <2>1. ~Walked(st.cur, 0, k, s)
        BY ONLY <1>2 DEF Walked, Wheels
    <2> QED BY ONLY <1>1, <1>2, <2>1 DEF Registered
<1>6. PICK r : r = Ended(st.tvec[t])
    OBVIOUS
<1>7. /\ r \in TvecRecord
      /\ r.RegWheel = k /\ r.RegSlot = s /\ r.RegIndex = i
      /\ r.status = "removed" /\ r.calls = <<>>
    <2>1. st.tvec[t] \in TvecRecord /\ st.tvec[t].calls = <<>>
        BY <1>3 DEF Waits
    <2>2. /\ r \in TvecRecord
          /\ r.RegWheel = st.tvec[t].RegWheel /\ r.RegSlot = st.tvec[t].RegSlot
          /\ r.RegIndex = st.tvec[t].RegIndex
          /\ r.status = "removed" /\ r.calls = <<>>
        BY ONLY <1>6, <2>1, Ending
    <2> QED BY <2>2
<1>8. PICK m : m = WithRecord(st, t, r)
    OBVIOUS
<1>9. n = RemoveTimer(m, t)
    BY <1>6, <1>8
<1>10. /\ Typed(m)
       /\ m.cur = st.cur /\ m.slot = st.slot
       /\ m.tvec[t] = r
       /\ \A u \in Timers : u # t => m.tvec[u] = st.tvec[u]
    BY <1>1, <1>7, <1>8, NewRecord
<1>11. PICK p : p = RemoveAt(st.slot[k][s], i)
    OBVIOUS
<1>12. /\ p \in Seq(Timers) /\ Len(p) = Len(st.slot[k][s]) - 1
       /\ \A j \in 1 .. Len(p) : p[j] = IF j < i THEN st.slot[k][s][j] ELSE st.slot[k][s][j + 1]
    <2>1. st.slot[k][s] \in Seq(Timers) /\ i \in 1 .. Len(st.slot[k][s])
        BY ONLY <1>2, <1>4
    <2> QED BY ONLY <1>11, <2>1, RemovedAt
<1>13. PICK R : R = Shifted(m, p, i, t)
    OBVIOUS
<1>14. n = WithRecords(WithSlot(m, k, s, p), R)
    <2>1. i \in 1 .. Len(m.slot[k][s]) /\ p = RemoveAt(m.slot[k][s], i)
        BY ONLY <1>2, <1>10, <1>11
    <2>2. m.tvec[t].RegWheel = k /\ m.tvec[t].RegSlot = s /\ m.tvec[t].RegIndex = i
        BY ONLY <1>7, <1>10
    <2>3. Typed(m) /\ t \in Timers /\ k \in Wheels /\ s \in Slots(k)
        BY <1>2, <1>10
    <2>4. n = WithRecords(WithSlot(m, k, s, p), Shifted(m, p, i, t))
        BY ONLY <1>9, <2>1, <2>2, <2>3, RemoveIs
    <2> QED BY ONLY <1>13, <2>4
<1>15. ASSUME NEW u \in Timers, NEW j \in Behind(p, i, u)
       PROVE  /\ j \in Nat /\ j >= i
              /\ Properly(st.tvec[u], k, s, j + 1)
    <2>1. j \in i .. Len(p) /\ p[j] = u
        BY <1>15 DEF Behind
    <2>2. /\ j \in Nat /\ j >= i /\ j \in 1 .. Len(p) /\ ~(j < i)
          /\ j + 1 \in 1 .. Len(st.slot[k][s])
        BY ONLY <1>2, <1>4, <1>12, <2>1
    <2>3. st.slot[k][s][j + 1] = u
        BY ONLY <1>12, <2>1, <2>2
    <2> QED BY ONLY <1>5, <2>2, <2>3
<1>16. R[t] = NoReg(r)
    <2>1. Behind(p, i, t) = {}
        <3>1. \A j \in Behind(p, i, t) : j >= i /\ j \in Nat /\ i = j + 1
            BY <1>15 DEF Properly
        <3> QED BY <1>4, <3>1
    <2> QED BY <1>10, <1>13, <2>1 DEF MovedTo, Shifted
<1>17. ASSUME NEW u \in Timers, u # t
       PROVE  R[u] = Reindexed(st.tvec[u], k, s, i)
    <2>1. R[u] = MovedTo(p, i, u, st.tvec[u])
        BY <1>10, <1>13, <1>17 DEF Shifted
    <2>2. CASE Waits(st.tvec[u]) /\ st.tvec[u].RegWheel = k /\ st.tvec[u].RegSlot = s
               /\ st.tvec[u].RegIndex > i
        <3>1. PICK a : a = st.tvec[u].RegIndex
            OBVIOUS
        <3>2. a \in 1 .. Len(st.slot[k][s]) /\ st.slot[k][s][a] = u /\ a > i
            <4>1. Stands(st, 0, 0, u)
                BY <1>1, <2>2 DEF OnSchedule
            <4>2. StandsAt(st, 0, 0, u, k, s, a)
                BY ONLY <2>2, <3>1, <4>1 DEF Stands
            <4> QED BY ONLY <2>2, <3>1, <4>2 DEF StandsAt
        <3>3. a - 1 \in i .. Len(p) /\ p[a - 1] = u
            <4>1. /\ a - 1 \in i .. Len(p) /\ a - 1 \in 1 .. Len(p) /\ ~(a - 1 < i)
                  /\ (a - 1) + 1 = a
                BY ONLY <1>2, <1>4, <1>12, <3>2
            <4>2. p[a - 1] = st.slot[k][s][(a - 1) + 1]
                BY ONLY <1>12, <4>1
            <4> QED BY <3>2, <4>1, <4>2
        <3>4. a - 1 \in Behind(p, i, u)
            BY <3>3 DEF Behind
        <3>5. \A j \in Behind(p, i, u) : j \in Nat /\ j + 1 = a
            BY <1>15, <3>1 DEF Properly
        <3>6. Behind(p, i, u) = {a - 1} /\ a - 1 \in Int
            BY ONLY <3>4, <3>5
        <3>7. Max(Behind(p, i, u)) = a - 1 /\ Behind(p, i, u) # {}
            BY <3>6, MaxOfOne
        <3>8. R[u] = [st.tvec[u] EXCEPT !.RegIndex = a - 1]
            BY ONLY <2>1, <3>7 DEF MovedTo
        <3>9. [st.tvec[u] EXCEPT !.RegIndex = a - 1] = MovedUp(st.tvec[u])
            BY ONLY <3>1 DEF MovedUp
        <3> QED BY <2>2, <3>8, <3>9 DEF Reindexed
    <2>3. CASE ~(Waits(st.tvec[u]) /\ st.tvec[u].RegWheel = k /\ st.tvec[u].RegSlot = s
                 /\ st.tvec[u].RegIndex > i)
        <3>1. Behind(p, i, u) = {}
            <4>1. SUFFICES ASSUME NEW j \in Behind(p, i, u) PROVE FALSE
                OBVIOUS
            <4>2. /\ j \in Nat /\ j >= i
                  /\ Waits(st.tvec[u]) /\ st.tvec[u].RegWheel = k /\ st.tvec[u].RegSlot = s
                  /\ st.tvec[u].RegIndex = j + 1
                BY <1>15, <4>1 DEF Properly
            <4>3. j + 1 > i
                BY ONLY <1>4, <4>2
            <4> QED BY <2>3, <4>2, <4>3
        <3> QED BY <2>1, <2>3, <3>1 DEF MovedTo, Reindexed
    <2> QED BY <2>2, <2>3
<1>18. R[t] \in TvecRecord /\ ~Waits(R[t]) /\ History(R[t])
    <2>1. R[t] \in TvecRecord /\ R[t].status = "removed" /\ R[t].calls = <<>>
        BY ONLY <1>7, <1>16, Unregistered
    <2> QED BY <2>1 DEF Waits, History
<1>19. R \in [Timers -> TvecRecord]
    <2>1. ASSUME NEW u \in Timers
          PROVE  R[u] \in TvecRecord
        <3>1. CASE u = t
            BY <1>18, <3>1
        <3>2. CASE u # t
            <4>1. R[u] = Reindexed(st.tvec[u], k, s, i) /\ st.tvec[u] \in TvecRecord
                BY <1>3, <1>17, <3>2
            <4> QED BY ONLY <1>4, <4>1, Reindexing
        <3> QED BY <3>1, <3>2
    <2>2. R = [u \in Timers |-> R[u]]
        BY ONLY <1>13 DEF Shifted
    <2> QED BY ONLY <2>1, <2>2
<1>20. /\ Typed(n)
       /\ n.cur = m.cur /\ n.tvec = R
       /\ n.slot[k][s] = p
       /\ \A j \in Wheels : \A x \in Slots(j) :
             j # k \/ x # s => n.slot[j][x] = m.slot[j][x]
    <2>1. Typed(m) /\ k \in Wheels /\ s \in Slots(k) /\ p \in Seq(Timers)
        BY ONLY <1>2, <1>10, <1>12
    <2> QED BY ONLY <1>14, <1>19, <2>1, RemoveEffect
<1>21. CutBy(st, n, k, s, i, t)
    BY ONLY <1>10, <1>12, <1>17, <1>18, <1>20 DEF CutBy
<1> QED BY <1>2, <1>21

LEMMA RemoveKeeps ==
    ASSUME NEW st, NEW now, Good(st, now, 0, 0, {}), NEW t \in Timers, Waits(st.tvec[t]),
           NEW n, n = RemoveTimer(WithRecord(st, t, Ended(st.tvec[t])), t)
    PROVE  Good(n, now, 0, 0, {})
<1>1. PICK k, s, i : Properly(st.tvec[t], k, s, i)
    BY DEF Properly
<1>2. /\ k \in Wheels /\ s \in Slots(k) /\ i \in 1 .. Len(st.slot[k][s])
      /\ st.slot[k][s][i] = t
      /\ CutBy(st, n, k, s, i, t)
    BY <1>1, RemoveCuts
<1> QED BY <1>2, CutKeeps

----------------------------------------------------------------------------
(* Turning the wheels keeps the invariant                                     *)

WithCur(st, cur) == [st EXCEPT !.cur = cur]

\* The wheels turn, and time goes on, by as much for every slot in use.
LEMMA TurnKeeps ==
    ASSUME NEW st, NEW now \in Int, NEW later \in Int, NEW w, NEW v,
           Good(st, now, w, 0, {}),
           NEW new, new \in [Wheels -> Nat], Turning(new, v),
           \A k \in Wheels : \A s \in Slots(k) :
               st.slot[k][s] # <<>> =>
                   now + Ahead(st.cur, w, k, s) = later + Ahead(new, v, k, s),
           \A k \in Wheels : \A s \in Slots(k) :
               Ahead(st.cur, w, k, s) \in Int /\ Ahead(new, v, k, s) \in Int,
           NEW n, n = WithCur(st, new)
    PROVE  Good(n, later, v, 0, {})
<1>1. /\ Typed(st)
      /\ Registered(st, w, 0, {})
      /\ OnSchedule(st, now, w, 0, {})
      /\ \A u \in Timers : History(st.tvec[u])
    BY DEF Good
<1>2. Typed(n) /\ n.cur = new /\ n.slot = st.slot /\ n.tvec = st.tvec
    BY <1>1 DEF Typed, WithCur
<1>3. Registered(n, v, 0, {})
    <2> SUFFICES ASSUME NEW k \in Wheels, NEW s \in Slots(k),
                        NEW i \in 1 .. Len(st.slot[k][s])
                 PROVE  Properly(st.tvec[st.slot[k][s][i]], k, s, i)
        BY <1>2 DEF Registered
    <2>1. i # 0
        OBVIOUS
    <2> QED BY <1>1, <2>1 DEF Registered
<1>4. OnSchedule(n, later, v, 0, {})
    <2> SUFFICES ASSUME NEW u \in Timers, Waits(st.tvec[u])
                 PROVE  Stands(n, v, 0, u) /\ Timed(new, later, v, st.tvec[u])
        BY <1>2 DEF OnSchedule
    <2>1. Stands(st, w, 0, u) /\ Timed(st.cur, now, w, st.tvec[u])
        BY <1>1 DEF OnSchedule
    <2>2. PICK k, s, i : /\ k = st.tvec[u].RegWheel /\ s = st.tvec[u].RegSlot
                         /\ i = st.tvec[u].RegIndex
        OBVIOUS
    <2>3. StandsAt(st, w, 0, u, k, s, i)
        BY ONLY <2>1, <2>2 DEF Stands
    <2>4. /\ k \in Wheels /\ s \in Slots(k) /\ i \in 1 .. Len(st.slot[k][s])
          /\ st.slot[k][s][i] = u
        BY ONLY <2>3 DEF StandsAt
    <2>5. i # 0 /\ st.slot[k][s] # <<>>
        BY ONLY <2>4
    <2>6. StandsAt(n, v, 0, u, k, s, i)
        BY ONLY <1>2, <2>4, <2>5 DEF StandsAt
    <2>7. Stands(n, v, 0, u)
        BY ONLY <1>2, <2>2, <2>6 DEF Stands
    <2>8. now + Ahead(st.cur, w, k, s) = later + Ahead(new, v, k, s)
        BY <2>4, <2>5
    <2>9. Ahead(st.cur, w, k, s) \in Int /\ Ahead(new, v, k, s) \in Int
        BY <2>4
    <2>10. /\ Rest(st.tvec[u]) \in 0 .. 2 * Param[k] - 1
           /\ st.tvec[u].due = now + Rest(st.tvec[u]) + Ahead(st.cur, w, k, s)
        BY ONLY <2>1, <2>2 DEF Timed
    <2>11. st.tvec[u].due = later + Rest(st.tvec[u]) + Ahead(new, v, k, s)
        <3>1. now \in Int /\ later \in Int
            OBVIOUS
        <3>2. Rest(st.tvec[u]) \in Int
            BY ONLY <2>10
        <3> QED BY ONLY <2>8, <2>9, <2>10, <3>1, <3>2
    <2>12. Timed(new, later, v, st.tvec[u])
        BY ONLY <2>2, <2>10, <2>11 DEF Timed
    <2> QED BY <2>7, <2>12
<1> QED BY <1>1, <1>2, <1>3, <1>4 DEF Good

LEMMA AheadType ==
    ASSUME NEW cur \in [Wheels -> Nat], NEW w, Turning(cur, w)
    PROVE  \A k \in Wheels : \A s \in Slots(k) :
               CompTime(cur, k, s) \in Int /\ Ahead(cur, w, k, s) \in Int
<1> SUFFICES ASSUME NEW k \in Wheels, NEW s \in Slots(k)
             PROVE  CompTime(cur, k, s) \in Int /\ Ahead(cur, w, k, s) \in Int
    OBVIOUS
<1>1. cur[k] <= Counts[k]
    BY DEF Turning
<1>2. CompTime(cur, k, s) \in Int
    BY <1>1, CompTimeType
<1> QED BY <1>2 DEF Ahead

LEMMA WalkFields ==
    ASSUME NEW phase, NEW k, NEW st
    PROVE  /\ Walk(phase, k, st).phase = phase
           /\ Walk(phase, k, st).wheel = k
           /\ Walk(phase, k, st).i = Len(st.slot[k][st.cur[k]])
    BY DEF Walk, Current

LEMMA OnTimeKeeps ==
    ASSUME IInv, OnTime
    PROVE  IInv'
<1>1. loop = Idle /\ loop.wheel = 0
    BY DEF OnTime, Idle
<1>2. Good(mgr, Tick, 0, 0, {}) /\ Tick \in Nat
    BY <1>1 DEF IInv
<1>3. PICK new : new = Ticked(mgr.cur)
    OBVIOUS
<1>4. Typed(mgr) /\ mgr.cur \in [Wheels -> Nat] /\ Turning(mgr.cur, 0)
    BY <1>2 DEF Good, Typed
<1>5. /\ new \in [Wheels -> Nat]
      /\ new[1] <= Counts[1]
      /\ Turning(new, 1)
      /\ \A k \in Wheels : \A s \in Slots(k) :
            CompTime(mgr.cur, k, s) = 1 + Ahead(new, 1, k, s)
    BY ONLY <1>3, <1>4, TickTurns
<1>6. Tick' = Tick + 1 /\ mgr' = WithCur(mgr, new)
    BY <1>3 DEF OnTime, Ticked, WithCur
<1>7. \A k \in Wheels : \A s \in Slots(k) : ~Walked(mgr.cur, 0, k, s)
    BY DEF Walked, Wheels
<1>8. \A k \in Wheels : \A s \in Slots(k) :
          /\ Ahead(mgr.cur, 0, k, s) \in Int /\ Ahead(new, 1, k, s) \in Int
    BY <1>4, <1>5, AheadType
<1>9. \A k \in Wheels : \A s \in Slots(k) :
          Tick + Ahead(mgr.cur, 0, k, s) = (Tick + 1) + Ahead(new, 1, k, s)
    <2> SUFFICES ASSUME NEW k \in Wheels, NEW s \in Slots(k)
                 PROVE  Tick + Ahead(mgr.cur, 0, k, s) = (Tick + 1) + Ahead(new, 1, k, s)
        OBVIOUS
    <2>1. Ahead(mgr.cur, 0, k, s) = 1 + Ahead(new, 1, k, s)
        BY <1>5, <1>7 DEF Ahead
    <2> QED BY <1>2, <1>8, <2>1
<1>10. Good(mgr', Tick', 1, 0, {})
    <2>1. Tick \in Int /\ Tick + 1 \in Int
        BY <1>2
    <2>2. \A k \in Wheels : \A s \in Slots(k) :
              mgr.slot[k][s] # <<>> =>
                  Tick + Ahead(mgr.cur, 0, k, s) = (Tick + 1) + Ahead(new, 1, k, s)
        BY <1>9
    <2>3. Good(mgr', Tick + 1, 1, 0, {})
        BY ONLY <1>2, <1>5, <1>6, <1>8, <2>1, <2>2, TurnKeeps
    <2> QED BY <1>6, <2>3
<1>11. loop' = Walk("run", 1, mgr')
    <2>1. mgr'.cur = new
        BY ONLY <1>4, <1>6 DEF Typed, WithCur
    <2>2. mgr'.cur[1] <= Counts[1]
        BY <1>5, <2>1
    <2> QED BY <2>2 DEF OnTime
<1>12. loop'.wheel = 1 /\ 1 \in Wheels
    BY <1>11, WalkFields, CountsType DEF Wheels
<1>13. LoopInv'
    BY <1>11, <1>12 DEF LoopInv
<1> QED BY <1>2, <1>6, <1>10, <1>12, <1>13 DEF IInv

LEMMA TurnKeepsIInv ==
    ASSUME IInv, Turn
    PROVE  IInv'
<1>1. loop.phase \in {"run", "move"} /\ loop.i = 0 /\ Tick' = Tick
    BY DEF Turn
<1>2. PICK w : w = loop.wheel
    OBVIOUS
<1>3. Good(mgr, Tick, w, 0, {}) /\ Tick \in Nat
    BY <1>2 DEF IInv
<1>4. w \in Wheels /\ loop = Walk(IF w = 1 THEN "run" ELSE "move", w, mgr)
    <2>1. loop # Idle
        BY <1>1 DEF Idle
    <2> QED BY <1>2, <2>1 DEF IInv, LoopInv
<1>5. Typed(mgr) /\ mgr.cur \in [Wheels -> Nat] /\ Turning(mgr.cur, w)
    BY <1>3 DEF Good, Typed
<1>6. mgr.cur[w] \in Slots(w)
    BY <1>4, <1>5, WalkedIsSlot
<1>7. mgr.slot[w][mgr.cur[w]] = <<>>
    <2>1. Len(mgr.slot[w][mgr.cur[w]]) = 0
        BY <1>1, <1>4, WalkFields
    <2>2. mgr.slot[w][mgr.cur[w]] \in Seq(Timers)
        BY <1>4, <1>5, <1>6 DEF Typed
    <2> QED BY ONLY <2>1, <2>2, EmptySeq
\* So no slot in use is being walked.
<1>8. \A k \in Wheels : \A s \in Slots(k) :
          mgr.slot[k][s] # <<>> => ~Walked(mgr.cur, w, k, s)
    BY ONLY <1>7 DEF Walked
<1>9. CASE mgr.cur[w] # Counts[w]
    <2>1. mgr' = mgr /\ loop' = Idle
        BY <1>2, <1>9 DEF Turn
    <2>2. Turning(mgr.cur, 0)
        BY <1>4, <1>5, <1>9 DEF Turning, Wheels
    <2>3. \A k \in Wheels : \A s \in Slots(k) : ~Walked(mgr.cur, 0, k, s)
        BY DEF Walked, Wheels
    <2>4. \A k \in Wheels : \A s \in Slots(k) :
              mgr.slot[k][s] # <<>> =>
                  Tick + Ahead(mgr.cur, w, k, s) = Tick + Ahead(mgr.cur, 0, k, s)
        BY <1>8, <2>3 DEF Ahead
    <2>5. \A k \in Wheels : \A s \in Slots(k) :
              Ahead(mgr.cur, w, k, s) \in Int /\ Ahead(mgr.cur, 0, k, s) \in Int
        BY <1>5, <2>2, AheadType
    <2>6. mgr = WithCur(mgr, mgr.cur)
        BY <1>5 DEF Typed, WithCur
    <2>7. Tick \in Int
        BY <1>3
    <2>8. Good(mgr, Tick, 0, 0, {})
        BY ONLY <1>3, <1>5, <2>2, <2>4, <2>5, <2>6, <2>7, TurnKeeps
    <2>9. loop'.wheel = 0
        BY <2>1 DEF Idle
    <2> QED BY <1>1, <1>3, <2>1, <2>8, <2>9 DEF IInv, LoopInv
<1>10. CASE mgr.cur[w] = Counts[w]
    <2>1. PICK new, v : new = Turned(mgr.cur, w) /\ v = NextWalked(w)
        OBVIOUS
    <2>2. mgr' = WithCur(mgr, new)
        BY <1>2, <1>10, <2>1 DEF Turn, WithCur, Turned
    <2>3. loop' = IF w < WheelCount THEN Walk("move", w + 1, mgr') ELSE Idle
        BY <1>2, <1>10 DEF Turn
    <2>4. /\ new \in [Wheels -> Nat]
          /\ Turning(new, v)
          /\ \A k \in Wheels : \A s \in Slots(k) :
                ~Walked(mgr.cur, w, k, s) => CompTime(mgr.cur, k, s) = Ahead(new, v, k, s)
        BY ONLY <1>4, <1>5, <1>10, <2>1, RoundTurns
    <2>5. \A k \in Wheels : \A s \in Slots(k) :
              mgr.slot[k][s] # <<>> =>
                  Tick + Ahead(mgr.cur, w, k, s) = Tick + Ahead(new, v, k, s)
        BY <1>8, <2>4 DEF Ahead
    <2>6. \A k \in Wheels : \A s \in Slots(k) :
              Ahead(mgr.cur, w, k, s) \in Int /\ Ahead(new, v, k, s) \in Int
        BY <1>5, <2>4, AheadType
    <2>7. Tick \in Int
        BY <1>3
    <2>8. Good(mgr', Tick, v, 0, {})
        BY ONLY <1>3, <2>2, <2>4, <2>5, <2>6, <2>7, TurnKeeps
    <2>9. CASE w < WheelCount
        <3>1. v = w + 1 /\ v \in Wheels /\ v # 1
            BY <1>4, <2>1, <2>9, CountsType DEF NextWalked, Wheels
        <3>2. loop' = Walk("move", v, mgr')
            BY <2>3, <2>9, <3>1
        <3>3. loop'.wheel = v
            BY ONLY <3>2, WalkFields
        <3>4. LoopInv'
            BY <3>1, <3>2, <3>3 DEF LoopInv
        <3> QED BY <1>1, <1>3, <2>8, <3>3, <3>4 DEF IInv
    <2>10. CASE ~(w < WheelCount)
        <3>1. v = 0 /\ loop' = Idle /\ loop'.wheel = 0
            BY <2>1, <2>3, <2>10 DEF NextWalked, Idle
        <3> QED BY <1>1, <1>3, <2>8, <3>1 DEF IInv, LoopInv
    <2> QED BY <2>9, <2>10
<1> QED BY <1>9, <1>10

----------------------------------------------------------------------------
(* Dealing with a timer keeps the invariant                                   *)

\* The timer at the last element of the walked slot stands nowhere else.
LEMMA TakenUp ==
    ASSUME NEW st, NEW now, NEW w \in Wheels, Good(st, now, w, 0, {}),
           NEW i, i = Len(Current(st, w)), i # 0,
           NEW t, t = Current(st, w)[i]
    PROVE  /\ i \in Nat \ {0} /\ t \in Timers
           /\ Properly(st.tvec[t], w, st.cur[w], i)
           /\ Timed(st.cur, now, w, st.tvec[t])
           /\ Good(st, now, w, i, {t})
<1>1. /\ Typed(st) /\ Turning(st.cur, w) /\ st.cur \in [Wheels -> Nat]
      /\ Registered(st, w, 0, {})
      /\ OnSchedule(st, now, w, 0, {})
      /\ \A u \in Timers : History(st.tvec[u])
    BY DEF Good, Typed
<1>2. PICK s \in Slots(w) : s = st.cur[w]
    BY <1>1, WalkedIsSlot
<1>3. st.slot[w][s] \in Seq(Timers)
    BY <1>1, <1>2 DEF Typed
<1>4. i = Len(st.slot[w][s]) /\ t = st.slot[w][s][i]
    BY <1>2 DEF Current
<1>5. i \in Nat \ {0} /\ i \in 1 .. Len(st.slot[w][s])
    BY <1>3, <1>4, LenProperties
<1>6. t \in Timers
    BY <1>3, <1>4, <1>5, ElementOfSeq
<1>7. \A k \in Wheels : \A x \in Slots(k) : \A a \in 1 .. Len(st.slot[k][x]) :
          Properly(st.tvec[st.slot[k][x][a]], k, x, a)
    <2> SUFFICES ASSUME NEW k \in Wheels, NEW x \in Slots(k), NEW a \in 1 .. Len(st.slot[k][x])
                 PROVE  Properly(st.tvec[st.slot[k][x][a]], k, x, a)
        OBVIOUS
    <2>1. a # 0
        OBVIOUS
    <2> QED BY <1>1, <2>1 DEF Registered
<1>8. Properly(st.tvec[t], w, s, i)
    BY <1>4, <1>5, <1>7
<1>9. Timed(st.cur, now, w, st.tvec[t])
    <2>1. Waits(st.tvec[t])
        BY ONLY <1>8 DEF Properly
    <2> QED BY ONLY <1>1, <1>6, <2>1 DEF OnSchedule
<1>10. Registered(st, w, i, {t})
    <2>1. PICK X : X = {t}
        OBVIOUS
    <2>2. ASSUME NEW k \in Wheels, NEW x \in Slots(k), NEW a \in 1 .. Len(st.slot[k][x]),
                 ~(Walked(st.cur, w, k, x) /\ a = i)
          PROVE  /\ st.slot[k][x][a] \notin X
                 /\ Properly(st.tvec[st.slot[k][x][a]], k, x, a)
        <3>1. Properly(st.tvec[st.slot[k][x][a]], k, x, a)
            BY <1>7
        <3>2. ~(k = w /\ x = s /\ a = i)
            BY <1>2, <2>2 DEF Walked
        <3>3. st.slot[k][x][a] # t
            BY ONLY <1>8, <3>1, <3>2 DEF Properly
        <3> QED BY ONLY <2>1, <3>1, <3>3
    <2>3. Registered(st, w, i, X)
        BY ONLY <2>2 DEF Registered
    <2> QED BY <2>1, <2>3
<1>11. OnSchedule(st, now, w, i, {t})
    <2> SUFFICES ASSUME NEW u \in Timers, u # t, Waits(st.tvec[u])
                 PROVE  Stands(st, w, i, u) /\ Timed(st.cur, now, w, st.tvec[u])
        BY DEF OnSchedule
    <2>1. Stands(st, w, 0, u) /\ Timed(st.cur, now, w, st.tvec[u])
        BY <1>1 DEF OnSchedule
    <2>2. \A k, x, a : StandsAt(st, w, 0, u, k, x, a) => StandsAt(st, w, i, u, k, x, a)
        BY <1>2, <1>4 DEF StandsAt, Walked
    <2> QED BY <2>1, <2>2 DEF Stands
<1>12. Good(st, now, w, i, {t})
    BY ONLY <1>1, <1>10, <1>11 DEF Good
<1> QED BY ONLY <1>2, <1>5, <1>6, <1>8, <1>9, <1>12

\* What a callback may do.
LEMMA EffectsKeep ==
    ASSUME OrdinaryUse, NEW st, Tick \in Nat, NEW w \in Wheels, NEW g \in Nat,
           Good(st, Tick, w, g, {}), NEW n \in Effects(st)
    PROVE  /\ Good(n, Tick, w, g, {})
           /\ n.cur = st.cur
           /\ n.slot[w][st.cur[w]] = st.slot[w][st.cur[w]]
<1>1. n = st \/ n \in Adds(st, CbDelays)
    BY DEF Effects, If, OrdinaryUse
<1>2. CASE n = st
    BY <1>2
<1>3. CASE n \in Adds(st, CbDelays)
    <2>1. PICK t \in Timers, d \in CbDelays : st.tvec[t].status = "new" /\ n = AddTimer(st, t, d)
        BY <1>3 DEF Adds
    <2>2. d \in 0 .. WheelRange(WheelCount) /\ d # WheelRange(w)
        BY DEF OrdinaryUse
    <2>3. w \in 0 .. WheelCount /\ w # 0
        BY CountsType DEF Wheels
    <2>4. Tick \in Nat /\ g \in Nat /\ Good(st, Tick, w, g, {})
        OBVIOUS
    <2> QED BY ONLY <2>1, <2>2, <2>3, <2>4, AddNewKeeps
<1> QED BY <1>1, <1>2, <1>3

\* The end of both loop bodies.
LEMMA GoOnKeeps ==
    ASSUME NEW w \in Wheels, loop.wheel = w,
           NEW phase, loop = Walk(phase, w, mgr), loop.i # 0,
           NEW st, NEW now, Good(st, now, w, loop.i, {}),
           st.cur = mgr.cur, st.slot[w][st.cur[w]] = mgr.slot[w][st.cur[w]],
           RemoveAndGoOn(st)
    PROVE  /\ Good(mgr', now, w, 0, {})
           /\ loop' = Walk(phase, w, mgr')
           /\ loop'.wheel = w
<1>1. Typed(st) /\ Turning(st.cur, w) /\ st.cur \in [Wheels -> Nat]
    BY DEF Good, Typed
<1>2. PICK g : g = loop.i
    OBVIOUS
<1>3. PICK s : s = st.cur[w]
    OBVIOUS
<1>4. s \in Slots(w) /\ st.slot[w][s] \in Seq(Timers)
    BY <1>1, <1>3, WalkedIsSlot DEF Typed
<1>5. Len(st.slot[w][s]) = g
    BY <1>2, <1>3, WalkFields
<1>6. g \in Nat \ {0}
    BY <1>2, <1>4, <1>5, LenProperties
<1>7. Removable(st.slot[w][s], g) /\ TableRemove(st.slot[w][s], g) = RemoveAt(st.slot[w][s], g)
    BY ONLY <1>5, <1>6 DEF Removable, TableRemove
<1>8. /\ mgr' = WithSlot(st, w, st.cur[w], RemoveAt(st.slot[w][st.cur[w]], g))
      /\ loop' = [loop EXCEPT !.i = @ - 1]
    BY <1>2, <1>3, <1>7 DEF RemoveAndGoOn, Current, WithSlot
<1>9. /\ Good(mgr', now, w, 0, {})
      /\ mgr'.cur = st.cur
      /\ Len(mgr'.slot[w][st.cur[w]]) = g - 1
    <2>1. Good(st, now, w, g, {}) /\ w \in Wheels
        BY <1>2
    <2>2. Len(st.slot[w][st.cur[w]]) = g
        BY <1>3, <1>5
    <2>3. Dropped(st, w, g, mgr')
        BY ONLY <1>8, <2>2 DEF Dropped
    <2> QED BY ONLY <1>6, <2>1, <2>3, DropKeeps
<1>10. loop' = [phase |-> phase, wheel |-> w, i |-> g - 1]
    <2>1. loop = [phase |-> phase, wheel |-> w, i |-> g]
        BY <1>2 DEF Walk
    <2> QED BY ONLY <1>8, <2>1
<1>11. loop' = Walk(phase, w, mgr') /\ loop'.wheel = w
    BY ONLY <1>9, <1>10 DEF Walk, Current
<1> QED BY <1>9, <1>11

LEMMA RunTimerKeeps ==
    ASSUME OrdinaryUse, IInv, RunTimer
    PROVE  IInv'
<1>1. loop.phase = "run" /\ loop.i > 0 /\ loop.i # 0 /\ Tick' = Tick
    BY DEF RunTimer
<1>2. loop.wheel \in Wheels /\ loop = Walk(IF loop.wheel = 1 THEN "run" ELSE "move", loop.wheel, mgr)
    <2>1. loop # Idle
        BY <1>1 DEF Idle
    <2> QED BY <2>1 DEF IInv, LoopInv
<1>3. loop.wheel = 1
    BY ONLY <1>1, <1>2, WalkFields
<1>4. loop = Walk("run", 1, mgr) /\ 1 \in Wheels
    BY ONLY <1>2, <1>3
<1>5. Good(mgr, Tick, 1, 0, {}) /\ Tick \in Nat
    BY <1>3 DEF IInv
<1>6. PICK i : i = loop.i
    OBVIOUS
<1>7. PICK t : t = Current(mgr, 1)[i]
    OBVIOUS
<1>8. i = Len(Current(mgr, 1)) /\ i # 0
    BY ONLY <1>1, <1>4, <1>6, WalkFields DEF Current
<1>9. /\ i \in Nat \ {0} /\ t \in Timers
      /\ Properly(mgr.tvec[t], 1, mgr.cur[1], i)
      /\ Timed(mgr.cur, Tick, 1, mgr.tvec[t])
      /\ Good(mgr, Tick, 1, i, {t})
    BY ONLY <1>4, <1>5, <1>7, <1>8, TakenUp
<1>10. PICK st : st = Call(mgr, t)
    OBVIOUS
<1>11. PICK n \in Effects(st) : RemoveAndGoOn(n)
    <2>1. i <= Len(Current(mgr, 1))
        BY ONLY <1>8, <1>9
    <2> QED BY <1>6, <1>7, <1>10, <2>1 DEF RunTimer
<1>12. Waits(mgr.tvec[t]) /\ mgr.tvec[t].due = Tick
    <2>1. mgr.tvec[t].RegWheel = 1 /\ mgr.tvec[t].RegSlot = mgr.cur[1]
        BY ONLY <1>9 DEF Properly
    <2>2. Rest(mgr.tvec[t]) = 0 /\ Ahead(mgr.cur, 1, 1, mgr.cur[1]) = 0
        BY ONLY <2>1 DEF Rest, Ahead, Walked
    <2>3. mgr.tvec[t].due = Tick + 0 + 0
        BY ONLY <1>9, <2>1, <2>2 DEF Timed
    <2>4. Waits(mgr.tvec[t])
        BY ONLY <1>9 DEF Properly
    <2> QED BY ONLY <1>5, <2>3, <2>4
<1>13. Good(st, Tick, 1, i, {}) /\ st.cur = mgr.cur /\ st.slot = mgr.slot
    BY ONLY <1>5, <1>9, <1>10, <1>12, CallKeeps
<1>14. /\ Good(n, Tick, 1, i, {})
       /\ n.cur = st.cur
       /\ n.slot[1][st.cur[1]] = st.slot[1][st.cur[1]]
    <2>1. OrdinaryUse /\ i \in Nat
        BY <1>9
    <2> QED BY ONLY <1>4, <1>5, <1>11, <1>13, <2>1, EffectsKeep
<1>15. Good(mgr', Tick, 1, 0, {}) /\ loop' = Walk("run", 1, mgr') /\ loop'.wheel = 1
    <2>1. Good(n, Tick, 1, loop.i, {}) /\ n.cur = mgr.cur
          /\ n.slot[1][n.cur[1]] = mgr.slot[1][n.cur[1]]
        BY ONLY <1>6, <1>13, <1>14
    <2> QED BY ONLY <1>1, <1>3, <1>4, <1>11, <2>1, GoOnKeeps
<1>16. LoopInv'
    BY <1>4, <1>15 DEF LoopInv
<1> QED BY <1>1, <1>5, <1>15, <1>16 DEF IInv

Due(r, d) == [r EXCEPT !.TimeOut = d]

LEMMA LessToGo ==
    ASSUME NEW r \in TvecRecord, NEW d \in Int, NEW n, n = Due(r, d)
    PROVE  /\ n \in TvecRecord /\ n.TimeOut = d
           /\ n.status = r.status /\ n.due = r.due /\ n.calls = r.calls
    BY DEF TvecRecord, Due

LEMMA MoveTimerKeeps ==
    ASSUME OrdinaryUse, IInv, MoveTimer
    PROVE  IInv'
<1>1. loop.phase = "move" /\ loop.i > 0 /\ loop.i # 0 /\ Tick' = Tick
    <2>1. loop.phase = "move" /\ loop.i > 0 /\ Tick' = Tick
        BY Zenon DEF MoveTimer
    <2> QED BY ONLY <2>1
<1>2. PICK w : w = loop.wheel
    OBVIOUS
<1>3. w \in Wheels /\ loop = Walk(IF w = 1 THEN "run" ELSE "move", w, mgr)
    <2>1. loop # Idle
        BY <1>1 DEF Idle
    <2> QED BY <1>2, <2>1 DEF IInv, LoopInv
<1>4. w # 1
    BY ONLY <1>1, <1>3, WalkFields
<1>5. loop = Walk("move", w, mgr)
    BY ONLY <1>3, <1>4
<1>6. Good(mgr, Tick, w, 0, {}) /\ Tick \in Nat
    BY <1>2 DEF IInv
<1>7. PICK i : i = loop.i
    OBVIOUS
<1>8. PICK t : t = Current(mgr, w)[i]
    OBVIOUS
<1>9. i = Len(Current(mgr, w)) /\ i # 0
    BY ONLY <1>1, <1>5, <1>7, WalkFields DEF Current
<1>10. /\ i \in Nat \ {0} /\ t \in Timers
       /\ Properly(mgr.tvec[t], w, mgr.cur[w], i)
       /\ Timed(mgr.cur, Tick, w, mgr.tvec[t])
       /\ Good(mgr, Tick, w, i, {t})
    BY ONLY <1>3, <1>6, <1>8, <1>9, TakenUp
<1>11. PICK d : d = mgr.tvec[t].TimeOut - mgr.tvec[t].CompTime
    OBVIOUS
<1>12. PICK m : m = WithRecord(mgr, t, Due(mgr.tvec[t], d))
    OBVIOUS
<1>13. PICK st : st = Add(m, d, t)
    OBVIOUS
<1>14. PICK n \in (IF d <= 0 THEN Effects(st) ELSE {st}) : RemoveAndGoOn(n)
    <2> DEFINE u == Current(mgr, loop.wheel)[loop.i]
               rest == mgr.tvec[u].TimeOut - mgr.tvec[u].CompTime
               cut == [mgr EXCEPT !.tvec[u].TimeOut = rest]
    <2>1. loop.i <= Len(Current(mgr, loop.wheel))
        BY ONLY <1>2, <1>7, <1>9, <1>10
    <2>2. \E x \in (IF rest <= 0 THEN Effects(Add(cut, rest, u)) ELSE {Add(cut, rest, u)}) :
              RemoveAndGoOn(x)
        BY <2>1, Zenon DEF MoveTimer
    <2>3. u = t /\ rest = d
        BY ONLY <1>2, <1>7, <1>8, <1>11
    <2>4. cut = WithRecord(mgr, u, Due(mgr.tvec[u], rest))
        BY ONLY DEF WithRecord, Due
    <2> HIDE DEF u, rest, cut
    <2>5. Add(cut, rest, u) = st
        BY ONLY <1>12, <1>13, <2>3, <2>4
    <2> QED BY ONLY <2>2, <2>3, <2>5
\* What is left is less than two slots of the wheel it comes from.
<1>15. Waits(mgr.tvec[t]) /\ mgr.tvec[t].due = Tick + d /\ d \in 0 .. 2 * Param[w] - 1
    <2>1. mgr.tvec[t].RegWheel = w /\ mgr.tvec[t].RegSlot = mgr.cur[w]
        BY ONLY <1>10 DEF Properly
    <2>2. Rest(mgr.tvec[t]) = d /\ Ahead(mgr.cur, w, w, mgr.cur[w]) = 0
        BY ONLY <1>4, <1>11, <2>1 DEF Rest, Ahead, Walked
    <2>3. d \in 0 .. 2 * Param[w] - 1 /\ mgr.tvec[t].due = Tick + d + 0
        BY ONLY <1>10, <2>1, <2>2 DEF Timed
    <2>4. Waits(mgr.tvec[t])
        BY ONLY <1>10 DEF Properly
    <2> QED BY ONLY <1>6, <2>3, <2>4
<1>16. d \in Nat /\ d # WheelRange(w) /\ d <= WheelRange(WheelCount)
    <2>1. Counts[w] > 1
        BY <1>3 DEF OrdinaryUse
    <2>2. d # WheelRange(w) /\ d < WheelRange(w)
        BY ONLY <1>3, <1>15, <2>1, MovesOut
    <2>3. WheelRange(w) \in Nat /\ WheelRange(w) <= WheelRange(WheelCount)
        BY ONLY <1>3, RangesGrow
    <2>4. WheelRange(WheelCount) \in Nat
        BY CountsType, RangesGrow DEF Wheels
    <2> QED BY ONLY <1>15, <2>2, <2>3, <2>4
<1>17. /\ Good(m, Tick, w, i, {t})
       /\ m.cur = mgr.cur /\ m.slot = mgr.slot
       /\ Waits(m.tvec[t]) /\ m.tvec[t].due = Tick + d /\ m.tvec[t].TimeOut = d
    <2>1. PICK r : r = Due(mgr.tvec[t], d)
        OBVIOUS
    <2>2. Typed(mgr) /\ mgr.tvec[t] \in TvecRecord /\ History(mgr.tvec[t])
        BY <1>6, <1>10 DEF Good, Typed
    <2>3. /\ r \in TvecRecord /\ r.TimeOut = d
          /\ r.status = mgr.tvec[t].status /\ r.due = mgr.tvec[t].due
          /\ r.calls = mgr.tvec[t].calls
        BY ONLY <1>16, <2>1, <2>2, LessToGo
    <2>4. Waits(r) /\ History(r)
        BY ONLY <1>15, <2>2, <2>3 DEF Waits, History
    <2>5. Good(m, Tick, w, i, {t})
        BY ONLY <1>10, <1>12, <2>1, <2>3, <2>4, Altered
    <2>6. m.cur = mgr.cur /\ m.slot = mgr.slot /\ m.tvec[t] = r
        BY ONLY <1>10, <1>12, <2>1, <2>2, <2>3, NewRecord
    <2> QED BY ONLY <1>15, <2>3, <2>4, <2>5, <2>6
<1>18. /\ Good(n, Tick, w, i, {})
       /\ n.cur = mgr.cur
       /\ n.slot[w][mgr.cur[w]] = mgr.slot[w][mgr.cur[w]]
    <2>1. CASE d = 0
        <3>1. st = Call(m, t) /\ n \in Effects(st)
            BY ONLY <1>13, <1>14, <2>1 DEF Add
        <3>2. m.tvec[t].due = Tick
            BY ONLY <1>6, <1>17, <2>1
        <3>3. Good(st, Tick, w, i, {}) /\ st.cur = m.cur /\ st.slot = m.slot
            BY ONLY <1>6, <1>10, <1>17, <3>1, <3>2, CallKeeps
        <3>4. OrdinaryUse /\ i \in Nat
            BY <1>10
        <3>5. /\ Good(n, Tick, w, i, {})
              /\ n.cur = st.cur
              /\ n.slot[w][st.cur[w]] = st.slot[w][st.cur[w]]
            BY ONLY <1>3, <1>6, <3>1, <3>3, <3>4, EffectsKeep
        <3> QED BY ONLY <1>17, <3>3, <3>5
    <2>2. CASE d # 0
        <3>1. d \in Nat \ {0} /\ d <= WheelRange(WheelCount) /\ (w # 0 => d # WheelRange(w))
            BY ONLY <1>16, <2>2
        <3>2. n = Place(m, d, t)
            BY ONLY <1>13, <1>14, <3>1 DEF Add
        <3>3. Tick \in Int /\ i \in Nat /\ t \in Timers
            BY ONLY <1>6, <1>10
        <3>4. w \in 0 .. WheelCount /\ w # 0
            BY ONLY <1>3, CountsType DEF Wheels
        <3>5. DueIn(m.tvec[t], Tick, d)
            BY ONLY <1>17 DEF DueIn
        <3>6. /\ Good(n, Tick, w, i, {})
              /\ n.cur = m.cur
              /\ w # 0 => n.slot[w][m.cur[w]] = m.slot[w][m.cur[w]]
            BY ONLY <1>17, <3>1, <3>2, <3>3, <3>4, <3>5, PlaceKeeps
        <3> QED BY ONLY <1>17, <3>4, <3>6
    <2> QED BY ONLY <2>1, <2>2
<1>19. Good(mgr', Tick, w, 0, {}) /\ loop' = Walk("move", w, mgr') /\ loop'.wheel = w
    <2>1. Good(n, Tick, w, loop.i, {}) /\ n.cur = mgr.cur
          /\ n.slot[w][n.cur[w]] = mgr.slot[w][n.cur[w]]
        BY ONLY <1>7, <1>18
    <2>2. loop.wheel = w /\ RemoveAndGoOn(n)
        BY <1>2, <1>14
    <2> QED BY ONLY <1>1, <1>3, <1>5, <2>1, <2>2, GoOnKeeps
<1>20. LoopInv'
    BY <1>3, <1>4, <1>19 DEF LoopInv
<1> QED BY <1>1, <1>6, <1>19, <1>20 DEF IInv

----------------------------------------------------------------------------
(* The invariant                                                              *)

LEMMA Initially ==
    ASSUME Init
    PROVE  IInv
<1>1. Tick = 0 /\ loop = Idle /\ loop.wheel = 0
    BY DEF Init, Idle
<1>2. /\ mgr.cur = [k \in 1 .. WheelCount |-> 0]
      /\ mgr.slot = [k \in 1 .. WheelCount |-> [s \in 1 .. Counts[k] |-> <<>>]]
      /\ mgr.tvec = [t \in Timers |->
             [TimeOut |-> 0, CompTime |-> 0, RegWheel |-> 0, RegSlot |-> 0, RegIndex |-> 0,
              status |-> "new", delay |-> 0, due |-> 0, calls |-> <<>>]]
      /\ mgr = [cur |-> mgr.cur, slot |-> mgr.slot, tvec |-> mgr.tvec]
    BY DEF Init
<1>3. /\ mgr.cur \in [Wheels -> Nat]
      /\ \A k \in Wheels : mgr.cur[k] = 0
      /\ \A k \in Wheels : \A s \in Slots(k) : mgr.slot[k][s] = <<>>
    BY ONLY <1>2 DEF Wheels, Slots
<1>4. <<>> \in Seq(Int) /\ <<>> \in Seq(Timers) /\ Len(<<>>) = 0
    BY EmptySeq
<1>5. mgr.slot = [k \in Wheels |-> mgr.slot[k]]
      /\ \A k \in Wheels : mgr.slot[k] \in [Slots(k) -> Seq(Timers)]
    BY ONLY <1>2, <1>4 DEF Wheels, Slots
<1>6. \A t \in Timers : mgr.tvec[t].status = "new" /\ mgr.tvec[t].calls = <<>>
    BY ONLY <1>2
<1>7. mgr.tvec \in [Timers -> TvecRecord]
    <2>1. [TimeOut |-> 0, CompTime |-> 0, RegWheel |-> 0, RegSlot |-> 0, RegIndex |-> 0,
           status |-> "new", delay |-> 0, due |-> 0, calls |-> <<>>] \in TvecRecord
        BY ONLY <1>4 DEF TvecRecord
    <2> QED BY ONLY <1>2, <2>1
<1>8. Typed(mgr)
    BY ONLY <1>2, <1>3, <1>5, <1>7 DEF Typed
<1>9. Turning(mgr.cur, 0)
    <2>1. \A k \in Wheels : Counts[k] \in Nat \ {0} /\ k # 0 /\ ~(k < 0)
        BY CountsType DEF Wheels
    <2> QED BY ONLY <1>3, <2>1 DEF Turning
<1>10. Registered(mgr, 0, 0, {})
    <2>1. \A k \in Wheels : \A s \in Slots(k) : 1 .. Len(mgr.slot[k][s]) = {}
        BY ONLY <1>3, <1>4
    <2> QED BY ONLY <2>1 DEF Registered
<1>11. OnSchedule(mgr, 0, 0, 0, {})
    BY ONLY <1>6 DEF OnSchedule, Waits
<1>12. \A t \in Timers : History(mgr.tvec[t])
    BY ONLY <1>6 DEF History
<1>13. Good(mgr, 0, 0, 0, {})
    BY ONLY <1>8, <1>9, <1>10, <1>11, <1>12 DEF Good
<1> QED BY <1>1, <1>13 DEF IInv, LoopInv

LEMMA ScriptKeeps ==
    ASSUME OrdinaryUse, IInv, Script
    PROVE  IInv'
<1>1. loop = Idle /\ loop.wheel = 0 /\ UNCHANGED <<Tick, loop>>
    BY DEF Script, Idle
<1>2. Good(mgr, Tick, 0, 0, {}) /\ Tick \in Nat
    BY <1>1 DEF IInv
<1>3. mgr' \in Adds(mgr, Delays) \/ mgr' \in Removes(mgr)
    BY DEF Script, If, OrdinaryUse
<1>4. CASE mgr' \in Adds(mgr, Delays)
    <2>1. PICK t \in Timers, d \in Delays :
              mgr.tvec[t].status = "new" /\ mgr' = AddTimer(mgr, t, d)
        BY <1>4 DEF Adds
    <2>2. d \in 0 .. WheelRange(WheelCount)
        BY DEF OrdinaryUse
    <2>3. 0 \in 0 .. WheelCount /\ 0 \in Nat /\ ~(0 # 0)
        BY CountsType
    <2>4. Good(mgr', Tick, 0, 0, {})
        BY ONLY <1>2, <2>1, <2>2, <2>3, AddNewKeeps
    <2> QED BY <1>1, <1>2, <2>4 DEF IInv, LoopInv
<1>5. CASE mgr' \in Removes(mgr)
    <2>1. PICK t \in Waiting(mgr) :
              mgr' = RemoveTimer([mgr EXCEPT !.tvec[t].status = "removed"], t)
        BY <1>5 DEF Removes
    <2>2. t \in Timers /\ Waits(mgr.tvec[t])
        BY ONLY <2>1 DEF Waiting, Waits
    <2>3. mgr' = RemoveTimer(WithRecord(mgr, t, Ended(mgr.tvec[t])), t)
        BY ONLY <2>1 DEF WithRecord, Ended
    <2>4. Good(mgr', Tick, 0, 0, {})
        BY ONLY <1>2, <2>2, <2>3, RemoveKeeps
    <2> QED BY <1>1, <1>2, <2>4 DEF IInv, LoopInv
<1> QED BY <1>3, <1>4, <1>5

LEMMA Step ==
    ASSUME OrdinaryUse, IInv, [Next]_vars
    PROVE  IInv'
<1>1. CASE Script
    BY <1>1, ScriptKeeps
<1>2. CASE OnTime
    BY <1>2, OnTimeKeeps
<1>3. CASE RunTimer
    BY <1>3, RunTimerKeeps
<1>4. CASE MoveTimer
    BY <1>4, MoveTimerKeeps
<1>5. CASE Turn
    BY <1>5, TurnKeepsIInv
<1>6. CASE UNCHANGED vars
    <2>1. Tick' = Tick /\ mgr' = mgr /\ loop' = loop
        BY <1>6 DEF vars
    <2> QED BY <2>1 DEF IInv, LoopInv
<1>7. CASE Done
    BY <1>6, <1>7 DEF Done
<1> QED BY <1>1, <1>2, <1>3, <1>4, <1>5, <1>6, <1>7 DEF Next

\* The inductive invariant, of scripts in ordinary use: every timer stands in
\* the slot it is registered in, and its slot's time and what is left after it
\* add up to the tick it is due.
THEOREM Inductive ==
    ASSUME OrdinaryUse
    PROVE  Spec => []IInv
<1>1. Init => IInv
    BY Initially
<1>2. IInv /\ [Next]_vars => IInv'
    BY Step
<1> QED BY <1>1, <1>2, PTL DEF Spec

----------------------------------------------------------------------------
(* What it implies                                                            *)

\* A timer is called once, at the tick it is due, through whichever wheels
\* cashData of timewheel.lua moves it, whatever is added or removed meanwhile:
\* of any number of wheels, slots and timers.
THEOREM CalledWhenDue ==
    ASSUME OrdinaryUse
    PROVE  Spec => []FiresOnTime
<1>1. IInv => FiresOnTime
    <2> SUFFICES ASSUME IInv, NEW t \in Timers, mgr.tvec[t].status = "added"
                 PROVE  /\ mgr.tvec[t].calls \in {<<>>, <<mgr.tvec[t].due>>}
                        /\ loop = Idle /\ Tick >= mgr.tvec[t].due =>
                              mgr.tvec[t].calls = <<mgr.tvec[t].due>>
        BY Zenon DEF FiresOnTime
    <2>1. History(mgr.tvec[t])
        BY DEF IInv, Good
    <2>2. mgr.tvec[t].calls \in {<<>>, <<mgr.tvec[t].due>>}
        BY ONLY <2>1, mgr.tvec[t].status = "added" DEF History
    <2>3. ASSUME loop = Idle, mgr.tvec[t].calls = <<>>
          PROVE  ~(Tick >= mgr.tvec[t].due)
        <3>1. loop.wheel = 0
            BY <2>3 DEF Idle
        <3>2. Good(mgr, Tick, 0, 0, {}) /\ Tick \in Nat
            BY <3>1 DEF IInv
        <3>3. Waits(mgr.tvec[t])
            BY <2>3 DEF Waits
        <3>4. Stands(mgr, 0, 0, t) /\ Timed(mgr.cur, Tick, 0, mgr.tvec[t])
            BY ONLY <3>2, <3>3, t \in Timers DEF Good, OnSchedule
        <3>5. PICK k, s : k = mgr.tvec[t].RegWheel /\ s = mgr.tvec[t].RegSlot
            OBVIOUS
        <3>6. k \in Wheels /\ s \in Slots(k)
            BY ONLY <3>4, <3>5 DEF Stands, StandsAt
        <3>7. mgr.cur \in [Wheels -> Nat] /\ Turning(mgr.cur, 0)
            BY ONLY <3>2 DEF Good, Typed
        <3>8. CompTime(mgr.cur, k, s) >= 1 /\ CompTime(mgr.cur, k, s) \in Int
            BY ONLY <3>6, <3>7, NothingOverdue, AheadType
        <3>9. ~Walked(mgr.cur, 0, k, s)
            BY ONLY <3>6 DEF Walked, Wheels
        <3>10. /\ Rest(mgr.tvec[t]) \in 0 .. 2 * Param[k] - 1
               /\ mgr.tvec[t].due = Tick + Rest(mgr.tvec[t]) + CompTime(mgr.cur, k, s)
            BY ONLY <3>4, <3>5, <3>9 DEF Timed, Ahead
        <3> QED BY ONLY <3>2, <3>8, <3>10
    <2> QED BY ONLY <2>2, <2>3
<1> QED BY <1>1, Inductive, PTL

\* A timer that Remove of timewheel.lua took out before its time is not called.
THEOREM RemovedStaysSilent ==
    ASSUME OrdinaryUse
    PROVE  Spec => []RemovedIsSilent
<1>1. IInv => RemovedIsSilent
    BY DEF IInv, Good, History, RemovedIsSilent
<1> QED BY <1>1, Inductive, PTL

\* Between ticks the registration of a timer that waits, RegWheel, RegSlot and
\* RegIndex, is the only place it stands, which is what Remove relies on.
THEOREM RegistrationHolds ==
    ASSUME OrdinaryUse
    PROVE  Spec => []RegistrationIsExact
<1>1. IInv => RegistrationIsExact
    <2> SUFFICES ASSUME IInv, loop = Idle,
                        NEW t \in Timers, NEW k \in 1 .. WheelCount, NEW s \in 1 .. Counts[k]
                 PROVE  {i \in DOMAIN mgr.slot[k][s] : mgr.slot[k][s][i] = t} =
                            IF /\ t \in Waiting(mgr)
                               /\ mgr.tvec[t].RegWheel = k /\ mgr.tvec[t].RegSlot = s
                            THEN {mgr.tvec[t].RegIndex} ELSE {}
        BY Zenon DEF RegistrationIsExact
    <2>1. k \in Wheels /\ s \in Slots(k)
        BY DEF Wheels, Slots
    <2>2. loop.wheel = 0
        BY DEF Idle
    <2>3. Good(mgr, Tick, 0, 0, {})
        BY <2>2 DEF IInv
    <2>4. mgr.slot[k][s] \in Seq(Timers)
        BY ONLY <2>1, <2>3 DEF Good, Typed
    <2>5. DOMAIN mgr.slot[k][s] = 1 .. Len(mgr.slot[k][s])
        BY ONLY <2>4, LenProperties
    <2>6. \A i \in 1 .. Len(mgr.slot[k][s]) : Properly(mgr.tvec[mgr.slot[k][s][i]], k, s, i)
        <3>1. \A i \in 1 .. Len(mgr.slot[k][s]) : i # 0
            OBVIOUS
        <3> QED BY ONLY <2>1, <2>3, <3>1 DEF Good, Registered
    <2>7. ASSUME t \in Waiting(mgr), mgr.tvec[t].RegWheel = k, mgr.tvec[t].RegSlot = s
          PROVE  /\ mgr.tvec[t].RegIndex \in 1 .. Len(mgr.slot[k][s])
                 /\ mgr.slot[k][s][mgr.tvec[t].RegIndex] = t
        <3>1. t \in Timers /\ Waits(mgr.tvec[t])
            BY ONLY <2>7 DEF Waiting, Waits
        <3>2. Stands(mgr, 0, 0, t)
            BY ONLY <2>3, <3>1 DEF Good, OnSchedule
        <3>3. StandsAt(mgr, 0, 0, t, k, s, mgr.tvec[t].RegIndex)
            BY ONLY <2>7, <3>2 DEF Stands
        <3> QED BY ONLY <3>3 DEF StandsAt
    <2>8. \A i \in 1 .. Len(mgr.slot[k][s]) :
              mgr.slot[k][s][i] = t =>
                  /\ t \in Waiting(mgr)
                  /\ mgr.tvec[t].RegWheel = k /\ mgr.tvec[t].RegSlot = s
                  /\ mgr.tvec[t].RegIndex = i
        BY ONLY <2>6, t \in Timers DEF Properly, Waits, Waiting
    <2> QED BY ONLY <2>5, <2>7, <2>8
<1> QED BY <1>1, Inductive, PTL

=============================================================================
