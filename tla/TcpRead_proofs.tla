--------------------------- MODULE TcpRead_proofs --------------------------
(* The scripts are told what the peer sent: streams of any number of messages *)
(* of any size, cut into segments anywhere.                                   *)
EXTENDS TcpRead, Induction, SequenceTheorems, TLAPS

LEMMA FunctionIsSeq ==
    ASSUME NEW S, NEW n \in Nat, NEW f \in [1 .. n -> S]
    PROVE  f \in Seq(S) /\ Len(f) = n
    OBVIOUS

----------------------------------------------------------------------------
(* Fields that hold a number                                                  *)

LEMMA BaseType == Base \in Nat /\ Base > 6 /\ Half \in Nat /\ Half > 3 /\ Base = 2 * Half
    BY BaseAssumption DEF Half

LEMMA Division ==
    ASSUME NEW d \in Nat, NEW p \in Nat \ {0}
    PROVE  /\ d \div p \in Nat /\ d % p \in 0 .. p - 1
           /\ d % p = d - p * (d \div p)
    OBVIOUS

\* The digits of v, lowest first, and what is left above them.
LEMMA ShiftedIs ==
    ASSUME NEW v \in Nat, NEW n \in Nat, NEW p \in Nat \ {0}
    PROVE  /\ Shifted(v, n, p)[0] = v
           /\ \A k \in 1 .. n : Shifted(v, n, p)[k] = Shifted(v, n, p)[k - 1] \div p
           /\ \A k \in 0 .. n : Shifted(v, n, p)[k] \in Nat
<1> DEFINE h == [k \in 1 .. n |-> [x \in Nat |-> x \div p]]
<1>1. \A x \in Nat : x \div p \in Nat
    BY Division
<1>2. h \in Steps(n, Nat)
    BY <1>1 DEF Steps
<1>3. \E g : Follows(g, n, Nat, v, h)
    BY ONLY <1>2, n \in Nat, v \in Nat, Recursion
<1>4. PICK g : Follows(g, n, Nat, v, h)
    BY <1>3
<1>5. g = [k \in 0 .. n |-> IF k = 0 THEN v ELSE g[k - 1] \div p]
    <2>1. g \in [0 .. n -> Nat] /\ g[0] = v /\ \A k \in 1 .. n : g[k] = h[k][g[k - 1]]
        BY <1>4 DEF Follows
    <2>2. ASSUME NEW k \in 1 .. n
          PROVE  g[k] = g[k - 1] \div p
        <3>1. k - 1 \in 0 .. n
            OBVIOUS
        <3> QED BY <2>1, <3>1
    <2> QED BY <2>1, <2>2
<1> DEFINE rest == CHOOSE f : f = [k \in 0 .. n |-> IF k = 0 THEN v ELSE f[k - 1] \div p]
<1>6. rest = [k \in 0 .. n |-> IF k = 0 THEN v ELSE rest[k - 1] \div p]
    BY <1>5
<1>7. Shifted(v, n, p) = rest
    BY DEF Shifted
<1> HIDE DEF rest
<1>8. /\ rest[0] = v
      /\ \A k \in 1 .. n : rest[k] = rest[k - 1] \div p
    BY <1>6
<1> DEFINE S == {k \in 0 .. n : rest[k] \in Nat}
<1>9. \A k \in 0 .. n : k \in S
    <2>1. 0 \in S
        BY <1>8
    <2>2. ASSUME NEW k \in 1 .. n, k - 1 \in S
          PROVE  k \in S
        BY <1>1, <1>8, <2>2
    <2> HIDE DEF S
    <2> QED BY <2>1, <2>2, UpTo
<1> QED BY <1>7, <1>8, <1>9

LEMMA BigEndianIs ==
    ASSUME NEW q \in Seq(Int)
    PROVE  \E value \in [0 .. Len(q) -> Int] :
               /\ value[0] = 0
               /\ \A k \in 1 .. Len(q) : value[k] = value[k - 1] * Base + q[k]
               /\ BigEndian(q) = value[Len(q)]
<1>1. PICK n \in Nat : n = Len(q)
    BY LenProperties
<1>2. \A k \in 1 .. n : q[k] \in Int
    BY <1>1, ElementOfSeq
<1> DEFINE h == [k \in 1 .. n |-> [x \in Int |-> x * Base + q[k]]]
<1>3. h \in Steps(n, Int)
    BY <1>2, BaseType DEF Steps
<1>4. \E g : Follows(g, n, Int, 0, h)
    <2>1. 0 \in Int
        OBVIOUS
    <2> QED BY ONLY <1>3, <2>1, n \in Nat, Recursion
<1>5. PICK g : Follows(g, n, Int, 0, h)
    BY <1>4
<1>6. g = [k \in 0 .. n |-> IF k = 0 THEN 0 ELSE g[k - 1] * Base + q[k]]
    <2>1. g \in [0 .. n -> Int] /\ g[0] = 0 /\ \A k \in 1 .. n : g[k] = h[k][g[k - 1]]
        BY <1>5 DEF Follows
    <2>2. ASSUME NEW k \in 1 .. n
          PROVE  g[k] = g[k - 1] * Base + q[k]
        <3>1. k - 1 \in 0 .. n
            OBVIOUS
        <3> QED BY <2>1, <3>1
    <2> QED BY <2>1, <2>2
<1> DEFINE value == CHOOSE f : f = [k \in 0 .. n |->
                                       IF k = 0 THEN 0 ELSE f[k - 1] * Base + q[k]]
<1>7. value = [k \in 0 .. n |-> IF k = 0 THEN 0 ELSE value[k - 1] * Base + q[k]]
    BY <1>6
<1>8. BigEndian(q) = value[n]
    BY <1>1 DEF BigEndian
<1> HIDE DEF value
<1>9. value[0] = 0 /\ \A k \in 1 .. n : value[k] = value[k - 1] * Base + q[k]
    BY <1>7
<1> DEFINE S == {k \in 0 .. n : value[k] \in Int}
<1>10. \A k \in 0 .. n : k \in S
    <2>1. 0 \in S
        BY <1>9
    <2>2. ASSUME NEW k \in 1 .. n, k - 1 \in S
          PROVE  k \in S
        <3>1. value[k - 1] \in Int /\ q[k] \in Int /\ Base \in Int
            BY <1>2, <2>2, BaseType
        <3>2. value[k - 1] * Base + q[k] \in Int
            BY ONLY <3>1
        <3> QED BY <1>9, <3>2
    <2> HIDE DEF S
    <2> QED BY <2>1, <2>2, UpTo
<1>11. value \in [0 .. n -> Int]
    BY <1>7, <1>10
<1> QED BY <1>1, <1>8, <1>9, <1>11

LEMMA RoundTrip ==
    ASSUME NEW v \in Nat, NEW n \in Nat, FitsIn(v, n)
    PROVE  /\ Digits(v, n) \in Seq(0 .. Base - 1)
           /\ Len(Digits(v, n)) = n
           /\ BigEndian(Digits(v, n)) = v
<1> DEFINE d == Digits(v, n)
           s == Shifted(v, n, Base)
<1>1. /\ s[0] = v /\ s[n] = 0
      /\ \A k \in 1 .. n : s[k] = s[k - 1] \div Base
      /\ \A k \in 0 .. n : s[k] \in Nat
    <2>1. Base \in Nat \ {0}
        BY BaseType
    <2> QED BY <2>1, ShiftedIs DEF FitsIn
<1>2. d = [k \in 1 .. n |-> s[n - k] % Base]
    BY DEF Digits
<1> HIDE DEF d, s
<1>3. ASSUME NEW k \in 1 .. n
      PROVE  d[k] \in 0 .. Base - 1 /\ s[n - k] = Base * s[n - (k - 1)] + d[k]
    <2>1. n - k \in 0 .. n /\ n - (k - 1) \in 1 .. n /\ (n - (k - 1)) - 1 = n - k
        OBVIOUS
    <2>2. PICK x \in Nat : x = s[n - k]
        BY <1>1, <2>1
    <2>3. PICK y \in Int : y = s[n - (k - 1)]
        BY <1>1, <2>1
    <2>4. PICK z : z = d[k]
        OBVIOUS
    <2>5. y = x \div Base /\ z = x % Base
        BY <1>1, <1>2, <2>1, <2>2, <2>3, <2>4
    <2>6. Base \in Nat \ {0} /\ x \in Nat
        BY BaseType
    <2>7. z \in 0 .. Base - 1 /\ z = x - Base * y
        BY ONLY <2>5, <2>6, Division
    <2> QED BY <2>2, <2>3, <2>4, <2>7, BaseType
<1>4. d \in [1 .. n -> 0 .. Base - 1]
    BY <1>2, <1>3
<1>5. d \in Seq(0 .. Base - 1) /\ Len(d) = n
    BY <1>4, FunctionIsSeq
<1>6. d \in Seq(Int)
    <2>1. d \in [1 .. n -> Int]
        BY <1>4
    <2> QED BY <2>1, FunctionIsSeq
<1>7. PICK value \in [0 .. n -> Int] :
          /\ value[0] = 0
          /\ \A k \in 1 .. n : value[k] = value[k - 1] * Base + d[k]
          /\ BigEndian(d) = value[n]
    BY <1>5, <1>6, BigEndianIs
<1> DEFINE S == {k \in 0 .. n : value[k] = s[n - k]}
<1>8. \A k \in 0 .. n : k \in S
    <2>1. 0 \in S
        BY <1>1, <1>7
    <2>2. ASSUME NEW k \in 1 .. n, k - 1 \in S
          PROVE  k \in S
        <3>1. value[k] = value[k - 1] * Base + d[k] /\ value[k - 1] = s[n - (k - 1)]
            BY <1>7, <2>2
        <3>2. s[n - (k - 1)] \in Nat /\ d[k] \in Int
            BY <1>1, <1>3
        <3> QED BY <1>3, <3>1, <3>2, BaseType
    <2> HIDE DEF S
    <2> QED BY <2>1, <2>2, UpTo
<1>9. BigEndian(d) = v
    BY <1>1, <1>7, <1>8
<1> QED BY <1>5, <1>9 DEF d

LEMMA TwoDigits ==
    ASSUME NEW v \in Nat, v < Base * Base
    PROVE  FitsIn(v, 2)
<1>1. Base \in Nat \ {0}
    BY BaseType
<1>2. /\ Shifted(v, 2, Base)[0] = v
      /\ Shifted(v, 2, Base)[1] = Shifted(v, 2, Base)[0] \div Base
      /\ Shifted(v, 2, Base)[2] = Shifted(v, 2, Base)[1] \div Base
    BY <1>1, ShiftedIs
<1>3. PICK x : x = v \div Base
    OBVIOUS
<1>4. x \in Nat /\ v % Base \in 0 .. Base - 1 /\ v % Base = v - Base * x
    BY <1>1, <1>3, Division
<1>5. x < Base
    <2> SUFFICES ASSUME x >= Base PROVE FALSE
        BY <1>1, <1>4
    <2>1. PICK y \in Nat : x = Base + y
        BY <1>1, <1>4, x - Base \in Nat
    <2>2. Base * x = Base * Base + Base * y /\ Base * y \in Nat
        BY <1>1, <2>1
    <2> QED BY <1>1, <1>4, <2>2
<1>6. x \div Base = 0
    BY <1>1, <1>4, <1>5
<1> QED BY <1>2, <1>3, <1>6 DEF FitsIn

----------------------------------------------------------------------------
(* What the parsers make of the bytes that are there, q: the beginning of the *)
(* bytes b of one message, or all of them and those of the next messages.     *)

Agrees(q, b) == \A i \in 1 .. Len(b) : i <= Len(q) => q[i] = b[i]

\* The parser waits for the last byte of b and then cuts b.
Cuts(r, q, b, op, data) ==
    IF Len(q) < Len(b) THEN r.used = 0 ELSE r = Cut(Len(b), op, data)

Repeat(k, n) == [i \in 1 .. n |-> k]

LEMMA RepeatIs ==
    ASSUME NEW k \in Int, NEW n \in Nat
    PROVE  Repeat(k, n) \in Seq(Int) /\ Len(Repeat(k, n)) = n
    <1>1. Repeat(k, n) \in [1 .. n -> Int]
        BY DEF Repeat
    <1> QED BY <1>1, FunctionIsSeq

\* A part of q is the sequence d if its elements are.
LEMMA PartIs ==
    ASSUME NEW q \in Seq(Int), NEW d \in Seq(Int), NEW a \in Nat,
           a + Len(d) <= Len(q),
           \A i \in 1 .. Len(d) : q[a + i] = d[i]
    PROVE  SubSeq(q, a + 1, a + Len(d)) = d
<1>1. PICK n \in Nat : n = Len(d)
    BY LenProperties
<1>2. PICK m \in Nat : m = Len(q)
    BY LenProperties
<1>3. \A i \in a + 1 .. a + n : q[i] \in Int
    BY <1>1, <1>2, ElementOfSeq
<1>4. PICK s : s = SubSeq(q, a + 1, a + n)
    OBVIOUS
<1>5. /\ s \in Seq(Int)
      /\ Len(s) = IF a + 1 <= a + n THEN (a + n) - (a + 1) + 1 ELSE 0
      /\ \A i \in 1 .. (a + n) - (a + 1) + 1 : s[i] = q[(a + 1) + i - 1]
    BY <1>3, <1>4, SubSeqProperties
<1>6. Len(s) = n /\ \A i \in 1 .. n : s[i] = q[a + i]
    BY <1>5
<1>7. Len(s) = Len(d) /\ \A i \in 1 .. Len(s) : s[i] = d[i]
    BY <1>1, <1>6
<1>8. s = d
    BY <1>5, <1>7, SeqEqual
<1> QED BY <1>1, <1>4, <1>8

LEMMA Joined ==
    ASSUME NEW S, NEW s \in Seq(S), NEW t \in Seq(S), NEW m \in Nat, NEW n \in Nat,
           m = Len(s), n = Len(t)
    PROVE  /\ s \o t \in Seq(S)
           /\ Len(s \o t) = m + n
           /\ \A i \in 1 .. m : (s \o t)[i] = s[i]
           /\ \A i \in 1 .. n : (s \o t)[m + i] = t[i]
<1> DEFINE u == s \o t
<1>1. /\ u \in Seq(S) /\ Len(u) = m + n
      /\ \A i \in 1 .. m + n : u[i] = IF i <= m THEN s[i] ELSE t[i - m]
    BY ConcatProperties
<1> HIDE DEF u
<1>2. ASSUME NEW i \in 1 .. n PROVE u[m + i] = t[i]
    <2>1. m + i \in 1 .. m + n /\ ~(m + i <= m) /\ (m + i) - m = i
        OBVIOUS
    <2> QED BY <1>1, <2>1
<1>3. ASSUME NEW i \in 1 .. m PROVE u[i] = s[i]
    <2>1. i \in 1 .. m + n /\ i <= m
        OBVIOUS
    <2> QED BY <1>1, <2>1
<1> QED BY <1>1, <1>2, <1>3 DEF u

\* A head of x and d before n bytes of data, and what q, that agrees with it,
\* shows of them.
Shows(q, b, x, d, k, n) ==
    /\ b \in Seq(Int) /\ Len(b) = Len(x) + Len(d) + n
    /\ \A i \in 1 .. Len(x) : i <= Len(q) => q[i] = x[i]
    /\ Len(q) >= Len(x) + Len(d) => SubSeq(q, Len(x) + 1, Len(x) + Len(d)) = d
    /\ Len(q) >= Len(x) + Len(d) + n =>
          SubSeq(q, Len(x) + Len(d) + 1, Len(x) + Len(d) + n) = Repeat(k, n)
    /\ \A i \in 1 .. n : Len(x) + Len(d) + i <= Len(q) => q[Len(x) + Len(d) + i] = k

LEMMA HeadedIs ==
    ASSUME NEW x \in Seq(Int), NEW d \in Seq(Int), NEW k \in Int, NEW n \in Nat,
           NEW q \in Seq(Int), NEW b, b = (x \o d) \o Repeat(k, n), Agrees(q, b)
    PROVE  Shows(q, b, x, d, k, n)
<1>l. PICK lx \in Nat : lx = Len(x)
    BY LenProperties
<1>d. PICK ld \in Nat : ld = Len(d)
    BY LenProperties
<1>q. PICK lq \in Nat : lq = Len(q)
    BY LenProperties
<1>1. PICK h : h = x \o d
    OBVIOUS
<1>2. PICK r : r = Repeat(k, n)
    OBVIOUS
<1>3. PICK m \in Nat : m = lx + ld
    OBVIOUS
<1>4. /\ h \in Seq(Int) /\ Len(h) = m
      /\ \A i \in 1 .. lx : h[i] = x[i]
      /\ \A i \in 1 .. ld : h[lx + i] = d[i]
    BY ONLY <1>1, <1>3, <1>l, <1>d, lx \in Nat, ld \in Nat,
            x \in Seq(Int), d \in Seq(Int), Joined
<1>5. r \in Seq(Int) /\ Len(r) = n
    BY <1>2, RepeatIs
<1>6. /\ b \in Seq(Int) /\ Len(b) = m + n
      /\ \A i \in 1 .. m : b[i] = h[i]
      /\ \A i \in 1 .. n : b[m + i] = r[i]
    <2>1. /\ h \o r \in Seq(Int) /\ Len(h \o r) = m + n
          /\ \A i \in 1 .. m : (h \o r)[i] = h[i]
          /\ \A i \in 1 .. n : (h \o r)[m + i] = r[i]
        <3>1. h \in Seq(Int) /\ r \in Seq(Int) /\ m = Len(h) /\ n = Len(r)
            BY <1>4, <1>5
        <3> QED BY ONLY <3>1, m \in Nat, n \in Nat, Joined
    <2> QED BY <1>1, <1>2, <2>1
<1>7. \A i \in 1 .. m + n : i <= lq => q[i] = b[i]
    BY <1>q, <1>6 DEF Agrees
<1>8. ASSUME NEW i \in 1 .. lx, i <= lq PROVE q[i] = x[i]
    <2>1. i \in 1 .. m + n /\ i \in 1 .. m
        BY <1>3
    <2> QED BY <1>4, <1>6, <1>7, <1>8, <2>1
<1>9. ASSUME lq >= m PROVE SubSeq(q, lx + 1, m) = d
    <2>1. \A i \in 1 .. ld : q[lx + i] = d[i]
        <3> TAKE i \in 1 .. ld
        <3>1. PICK j : j = lx + i
            OBVIOUS
        <3>2. j \in 1 .. m + n /\ j <= lq /\ j \in 1 .. m
            BY ONLY <1>3, <1>9, <3>1, lx \in Nat, n \in Nat, lq \in Nat, i \in 1 .. ld,
                    ld \in Nat
        <3>3. q[j] = h[j] /\ h[lx + i] = d[i]
            BY <1>4, <1>6, <1>7, <3>2
        <3> QED BY <3>1, <3>3
    <2>2. lx + Len(d) <= Len(q) /\ lx + Len(d) = m
        BY <1>d, <1>q, <1>3, <1>9
    <2>3. \A i \in 1 .. Len(d) : q[lx + i] = d[i]
        BY <1>d, <2>1
    <2>4. SubSeq(q, lx + 1, lx + Len(d)) = d
        BY ONLY <2>2, <2>3, q \in Seq(Int), d \in Seq(Int), lx \in Nat, PartIs
    <2> QED BY ONLY <2>2, <2>4
<1>10. ASSUME NEW i \in 1 .. n, m + i <= lq
       PROVE  q[m + i] = r[i]
    <2>1. PICK j : j = m + i
        OBVIOUS
    <2>2. j \in 1 .. m + n /\ j <= lq
        BY <1>10, <2>1
    <2> QED BY <1>6, <1>7, <2>1, <2>2
<1>11. ASSUME lq >= m + n
       PROVE  SubSeq(q, m + 1, m + n) = r
    <2>1. \A i \in 1 .. n : q[m + i] = r[i]
        <3> TAKE i \in 1 .. n
        <3>1. m + i <= lq
            BY ONLY <1>11, m \in Nat, n \in Nat, lq \in Nat, i \in 1 .. n
        <3> QED BY <1>10, <3>1
    <2>2. m + Len(r) <= Len(q) /\ m + Len(r) = m + n
        BY <1>q, <1>5, <1>11
    <2>3. \A i \in 1 .. Len(r) : q[m + i] = r[i]
        BY <1>5, <2>1
    <2>4. SubSeq(q, m + 1, m + Len(r)) = r
        BY ONLY <1>5, <2>2, <2>3, q \in Seq(Int), m \in Nat, PartIs
    <2> QED BY ONLY <2>2, <2>4
<1>12. \A i \in 1 .. n : m + i <= lq => q[m + i] = k
    BY <1>2, <1>10 DEF Repeat
<1>13. /\ b \in Seq(Int) /\ Len(b) = m + n
       /\ \A i \in 1 .. lx : i <= lq => q[i] = x[i]
       /\ lq >= m => SubSeq(q, lx + 1, m) = d
       /\ lq >= m + n => SubSeq(q, m + 1, m + n) = Repeat(k, n)
       /\ \A i \in 1 .. n : m + i <= lq => q[m + i] = k
    BY <1>2, <1>6, <1>8, <1>9, <1>11, <1>12
<1>14. Len(x) + Len(d) = m
    BY <1>l, <1>d, <1>3
<1> QED BY ONLY <1>l, <1>d, <1>q, <1>13, <1>14 DEF Shows

\* A parser that cuts when the head and the length it holds are there.
LEMMA WaitsOrCuts ==
    ASSUME NEW q, NEW lq \in Nat, lq = Len(q),
           NEW head \in Nat, NEW n \in Nat, NEW lens, lq >= head => lens = n,
           NEW b, Len(b) = head + n, NEW data, NEW op,
           lq >= head + n => SubSeq(q, head + 1, head + n) = data,
           NEW r, lq < head \/ lq < head + lens => r = Wait,
           ~(lq < head \/ lq < head + lens) =>
                r = Cut(head + lens, op, SubSeq(q, head + 1, head + lens))
    PROVE  Cuts(r, q, b, op, data)
<1>1. CASE lq < head + n
    <2>1. lq < head \/ lq < head + lens
        BY <1>1
    <2> QED BY <1>1, <2>1 DEF Cuts, Wait
<1>2. CASE lq >= head + n
    <2>1. lens = n /\ ~(lq < head \/ lq < head + lens)
        BY <1>2
    <2>2. r = Cut(head + n, op, data)
        BY <1>2, <2>1
    <2>3. ~(Len(q) < Len(b))
        BY <1>2
    <2> QED BY <2>2, <2>3 DEF Cuts
<1> QED BY <1>1, <1>2

LEMMA One ==
    ASSUME NEW x \in Int
    PROVE  <<x>> \in Seq(Int) /\ Len(<<x>>) = 1 /\ <<x>>[1] = x
    OBVIOUS

\* The head of tcp1: its first byte x and the digits d of a longer length.
Tcp1Field(n, x, d) ==
    \/ n <= Half - 3 /\ x = n /\ d = <<>>
    \/ n > Half - 3 /\ x = Half - 2 /\ d = Digits(n, 2) /\ FitsIn(n, 2)
    \/ n > Half - 3 /\ x = Half - 1 /\ d = Digits(n, 4) /\ FitsIn(n, 4)

LEMMA Tcp1HeadIs ==
    ASSUME NEW n \in Nat, FitsIn(n, 4)
    PROVE  \E x \in 0 .. Half - 1, d \in Seq(Int) :
              Tcp1Field(n, x, d) /\ Tcp1Head(n) = <<x>> \o d
<1> DEFINE Goal == \E x \in 0 .. Half - 1, d \in Seq(Int) :
                      Tcp1Field(n, x, d) /\ Tcp1Head(n) = <<x>> \o d
<1>0. PICK square : square = Base * Base
    OBVIOUS
<1>1. n <= Half - 3 \/ n > Half - 3
    BY BaseType
<1>2. Tcp1Head(n) = CASE n <= Half - 3 -> <<n>>
                      [] n > Half - 3 /\ n < square -> <<Half - 2>> \o Digits(n, 2)
                      [] OTHER -> <<Half - 1>> \o Digits(n, 4)
    BY <1>0 DEF Tcp1Head
<1>3. ASSUME n <= Half - 3 PROVE Goal
    <2>1. Tcp1Head(n) = <<n>>
        BY <1>2, <1>3, BaseType
    <2>2. <<n>> \o <<>> = <<n>> /\ <<>> \in Seq(Int)
        BY One, ConcatEmptySeq
    <2>3. n \in 0 .. Half - 1 /\ Tcp1Field(n, n, <<>>)
        BY <1>3, BaseType DEF Tcp1Field
    <2> QED BY <2>1, <2>2, <2>3
<1>4. ASSUME n > Half - 3, n < square PROVE Goal
    <2>1. Tcp1Head(n) = <<Half - 2>> \o Digits(n, 2)
        BY <1>2, <1>4, BaseType
    <2>2. FitsIn(n, 2)
        BY <1>0, <1>4, TwoDigits
    <2>3. Digits(n, 2) \in Seq(Int)
        BY <2>2, RoundTrip, BaseType, SeqMonotonic, 0 .. Base - 1 \subseteq Int
    <2>4. Half - 2 \in 0 .. Half - 1 /\ Tcp1Field(n, Half - 2, Digits(n, 2))
        BY <1>4, <2>2, BaseType DEF Tcp1Field
    <2> QED BY <2>1, <2>3, <2>4
<1>5. ASSUME n > Half - 3, ~(n < square) PROVE Goal
    <2>1. Tcp1Head(n) = <<Half - 1>> \o Digits(n, 4)
        BY <1>2, <1>5, BaseType
    <2>2. Digits(n, 4) \in Seq(Int)
        BY RoundTrip, BaseType, SeqMonotonic, 0 .. Base - 1 \subseteq Int
    <2>3. Half - 1 \in 0 .. Half - 1 /\ Tcp1Field(n, Half - 1, Digits(n, 4))
        BY <1>5, BaseType DEF Tcp1Field
    <2> QED BY <2>1, <2>2, <2>3
<1> QED BY <1>1, <1>3, <1>4, <1>5

LEMMA Tcp1Cuts ==
    ASSUME NEW k \in Int, NEW n \in Nat, FitsIn(n, 4), NEW q \in Seq(Int), Len(q) > 0,
           NEW b, b = Tcp1Head(n) \o Repeat(k, n), Agrees(q, b)
    PROVE  /\ b \in Seq(Int) /\ Len(b) > 0
           /\ Cuts(Tcp1(q), q, b, None, Repeat(k, n))
<1>1. PICK x \in 0 .. Half - 1, d \in Seq(Int) :
          Tcp1Field(n, x, d) /\ Tcp1Head(n) = <<x>> \o d
    BY Tcp1HeadIs
<1>2. PICK ld \in Nat : ld = Len(d)
    BY LenProperties
<1>3. PICK lq \in Nat : lq = Len(q) /\ lq > 0
    BY LenProperties
<1>4. x \in Int /\ x < Half
    BY BaseType
<1>5. PICK h \in Seq(Int) : h = <<x>> /\ Len(h) = 1 /\ h[1] = x
    BY <1>4, One
<1>6. b = (h \o d) \o Repeat(k, n)
    BY <1>1, <1>5
<1>7. PICK head \in Nat : head = 1 + ld
    OBVIOUS
<1>8. /\ b \in Seq(Int) /\ Len(b) = head + n
      /\ q[1] = x
      /\ lq >= head => SubSeq(q, 2, head) = d
      /\ lq >= head + n => SubSeq(q, head + 1, head + n) = Repeat(k, n)
    <2>1. Shows(q, b, h, d, k, n)
        BY <1>6, HeadedIs
    <2>2. PICK one \in Nat : one = 1
        OBVIOUS
    <2>3. Len(h) + Len(d) = head /\ Len(h) = one /\ Len(q) = lq
        BY <1>2, <1>3, <1>5, <1>7, <2>2
    <2>4. /\ b \in Seq(Int) /\ Len(b) = head + n
          /\ \A i \in 1 .. one : i <= lq => q[i] = h[i]
          /\ lq >= head => SubSeq(q, one + 1, head) = d
          /\ lq >= head + n => SubSeq(q, head + 1, head + n) = Repeat(k, n)
        BY ONLY <2>1, <2>3 DEF Shows
    <2>5. q[1] = x
        BY ONLY <1>3, <1>5, <2>2, <2>4, lq \in Nat
    <2>6. one + 1 = 2
        BY <2>2
    <2> QED BY ONLY <2>4, <2>5, <2>6
<1>9. /\ ld = IF x = Half - 2 THEN 2 ELSE IF x = Half - 1 THEN 4 ELSE 0
      /\ IF ld = 0 THEN x = n ELSE n > 0 /\ BigEndian(d) = n
    <2>1. CASE n <= Half - 3 /\ x = n /\ d = <<>>
        <3>1. ld = 0
            BY <1>2, <2>1, EmptySeq
        <3> QED BY <2>1, <3>1, BaseType
    <2>2. CASE n > Half - 3 /\ x = Half - 2 /\ d = Digits(n, 2) /\ FitsIn(n, 2)
        <3>1. ld = 2 /\ BigEndian(d) = n
            BY <1>2, <2>2, RoundTrip
        <3> QED BY <2>2, <3>1, BaseType
    <2>3. CASE n > Half - 3 /\ x = Half - 1 /\ d = Digits(n, 4) /\ FitsIn(n, 4)
        <3>1. ld = 4 /\ BigEndian(d) = n
            BY <1>2, <2>3, RoundTrip
        <3> QED BY <2>3, <3>1, BaseType
    <2> QED BY <1>1, <2>1, <2>2, <2>3 DEF Tcp1Field
<1>10. Cuts(Tcp1(q), q, b, None, Repeat(k, n))
    <2>1. PICK lens : lens = IF head = 1 THEN q[1] ELSE BigEndian(SubSeq(q, 2, head))
        OBVIOUS
    <2>2. head = CASE q[1] = Half - 2 -> 3 [] q[1] = Half - 1 -> 5 [] OTHER -> 1
        BY ONLY <1>4, <1>7, <1>8, <1>9, BaseType
    <2>3. Tcp1(q) = IF lq < head \/ x >= Half \/ lens > lq - head THEN Wait
                    ELSE IF lens = 0 THEN Skip(head)
                    ELSE Cut(head + lens, None, SubSeq(q, head + 1, head + lens))
        BY <1>3, <1>8, <2>1, <2>2 DEF Tcp1
    <2>4. lq >= head => lens = n
        <3>1. CASE ld = 0
            BY ONLY <1>7, <1>8, <1>9, <2>1, <3>1
        <3>2. CASE ld # 0
            <4>1. head # 1
                BY <1>7, <3>2
            <4> QED BY ONLY <1>8, <1>9, <2>1, <3>2, <4>1
        <3> QED BY <3>1, <3>2
    <2>5. lq < head \/ lq < head + lens => Tcp1(q) = Wait
        BY <1>4, <2>3, <2>4, BaseType
    <2>6. ASSUME ~(lq < head \/ lq < head + lens)
          PROVE  Tcp1(q) = Cut(head + lens, None, SubSeq(q, head + 1, head + lens))
        <3>1. lens = n /\ ~(lq < head \/ x >= Half \/ lens > lq - head)
            BY <1>4, <2>4, <2>6, BaseType
        <3>2. CASE lens # 0
            BY <2>3, <3>1, <3>2
        <3>3. CASE lens = 0
            <4>1. Tcp1(q) = Skip(head)
                BY <2>3, <3>1, <3>3
            <4>2. SubSeq(q, head + 1, head + lens) = <<>> /\ head + lens = head
                BY <3>3, SubSeqEmpty
            <4> QED BY <4>1, <4>2 DEF Skip, Cut, Wait
        <3> QED BY <3>2, <3>3
    <2> QED BY <1>3, <1>8, <2>4, <2>5, <2>6, WaitsOrCuts
<1>11. head + n > 0
    BY <1>7
<1> QED BY <1>8, <1>10, <1>11

LEMMA Tcp2Cuts ==
    ASSUME NEW k \in Int, NEW n \in Nat, FitsIn(n, 2), NEW q \in Seq(Int),
           NEW b, b = Digits(n, 2) \o Repeat(k, n), Agrees(q, b)
    PROVE  /\ b \in Seq(Int) /\ Len(b) > 0
           /\ Cuts(Tcp2(q), q, b, None, Repeat(k, n))
<1>1. PICK lq \in Nat : lq = Len(q)
    BY LenProperties
<1>2. PICK d \in Seq(Int) : d = Digits(n, 2) /\ Len(d) = 2 /\ BigEndian(d) = n
    <2>1. /\ Digits(n, 2) \in Seq(0 .. Base - 1) /\ Len(Digits(n, 2)) = 2
          /\ BigEndian(Digits(n, 2)) = n
        BY RoundTrip
    <2>2. Digits(n, 2) \in Seq(Int)
        BY ONLY <2>1, BaseType, SeqMonotonic, 0 .. Base - 1 \subseteq Int
    <2> QED BY <2>1, <2>2
<1>3. PICK h \in Seq(Int) : h = <<>> /\ Len(h) = 0
    BY EmptySeq
<1>4. h \o d = d
    BY ONLY <1>3, d \in Seq(Int), ConcatEmptySeq
<1>5. Shows(q, b, h, d, k, n)
    <2>1. b = (h \o d) \o Repeat(k, n)
        BY ONLY <1>2, <1>4, b = Digits(n, 2) \o Repeat(k, n)
    <2> QED BY <2>1, HeadedIs
<1>6. /\ b \in Seq(Int) /\ Len(b) = 2 + n
      /\ lq >= 2 => SubSeq(q, 1, 2) = d
      /\ lq >= 2 + n => SubSeq(q, 2 + 1, 2 + n) = Repeat(k, n)
    <2>1. PICK zero \in Nat : zero = 0
        OBVIOUS
    <2>2. Len(h) + Len(d) = 2 /\ Len(h) = zero /\ Len(q) = lq
        BY <1>1, <1>2, <1>3, <2>1
    <2>3. /\ b \in Seq(Int) /\ Len(b) = 2 + n
          /\ lq >= 2 => SubSeq(q, zero + 1, 2) = d
          /\ lq >= 2 + n => SubSeq(q, 2 + 1, 2 + n) = Repeat(k, n)
        BY ONLY <1>5, <2>2 DEF Shows
    <2>4. zero + 1 = 1
        BY <2>1
    <2> QED BY ONLY <2>3, <2>4
<1>7. Cuts(Tcp2(q), q, b, None, Repeat(k, n))
    <2>1. PICK lens : lens = BigEndian(SubSeq(q, 1, 2))
        OBVIOUS
    <2>2. PICK head \in Nat : head = 2 /\ head + 1 = 3
        OBVIOUS
    <2>3. Tcp2(q) = IF lq < head \/ lens + head > lq THEN Wait
                    ELSE IF lens = 0 THEN Skip(head)
                    ELSE Cut(lens + head, None, SubSeq(q, head + 1, lens + head))
        BY <1>1, <2>1, <2>2 DEF Tcp2
    <2>4. lq >= head => lens = n
        BY <1>2, <1>6, <2>1, <2>2
    <2>5. lq < head \/ lq < head + lens => Tcp2(q) = Wait
        BY <2>3, <2>4
    <2>6. ASSUME ~(lq < head \/ lq < head + lens)
          PROVE  Tcp2(q) = Cut(head + lens, None, SubSeq(q, head + 1, head + lens))
        <3>1. lens = n /\ ~(lq < head \/ lens + head > lq) /\ lens + head = head + lens
            BY <2>4, <2>6
        <3>2. CASE lens # 0
            BY <2>3, <3>1, <3>2
        <3>3. CASE lens = 0
            <4>1. Tcp2(q) = Skip(head)
                BY <2>3, <3>1, <3>3
            <4>2. SubSeq(q, head + 1, head + lens) = <<>> /\ head + lens = head
                BY <3>3, SubSeqEmpty
            <4> QED BY <4>1, <4>2 DEF Skip, Cut, Wait
        <3> QED BY <3>2, <3>3
    <2>7. Len(b) = head + n /\ (lq >= head + n => SubSeq(q, head + 1, head + n) = Repeat(k, n))
        BY ONLY <1>6, <2>2
    <2> QED BY ONLY <1>1, <2>4, <2>5, <2>6, <2>7, lq \in Nat, head \in Nat, n \in Nat,
                    WaitsOrCuts
<1>8. 2 + n > 0
    OBVIOUS
<1> QED BY <1>6, <1>7, <1>8

LEMMA MinIs ==
    ASSUME NEW S, S \subseteq Int, NEW m \in S, \A i \in S : m <= i
    PROVE  Min(S) = m
<1>1. Min(S) \in S /\ \A i \in S : Min(S) <= i
    BY DEF Min
<1>2. Min(S) \in Int /\ m \in Int /\ Min(S) <= m /\ m <= Min(S)
    BY <1>1
<1> QED BY ONLY <1>2

\* The same with a head x that is not divided.
LEMMA HeadIs ==
    ASSUME NEW x \in Seq(Int), NEW k \in Int, NEW n \in Nat, NEW q \in Seq(Int),
           NEW b, b = x \o Repeat(k, n), Agrees(q, b)
    PROVE  Shows(q, b, x, <<>>, k, n)
<1>1. x \o <<>> = x /\ <<>> \in Seq(Int)
    BY ONLY x \in Seq(Int), ConcatEmptySeq, EmptySeq
<1>2. b = (x \o <<>>) \o Repeat(k, n)
    BY ONLY <1>1, b = x \o Repeat(k, n)
<1> QED BY ONLY <1>1, <1>2, x \in Seq(Int), k \in Int, n \in Nat, q \in Seq(Int),
                Agrees(q, b), HeadedIs

\* The length of a packet of mqtt: c bytes d of half a byte each, of which all
\* but the last are marked, and r[i] is what is left of n after i of them.
MqttField(n, c, d, r) ==
    /\ d \in Seq(Int) /\ Len(d) = c
    /\ r \in [0 .. c -> Nat] /\ r[0] = n /\ r[c] = 0
    /\ \A i \in 1 .. c : r[i - 1] = Half * r[i] + (d[i] % Half)
    /\ \A i \in 1 .. c - 1 : d[i] >= Half
    /\ d[c] < Half

LEMMA MqttLengthIs ==
    ASSUME NEW n \in Nat
    PROVE  \E c \in Nat \ {0} : \E r : MqttField(n, c, MqttLength(n), r)
<1> DEFINE rest == Shifted(n, n + 1, Half)
           Ends == {k \in 1 .. n + 1 : rest[k] = 0}
<1>1. PICK h \in Nat : h = Half /\ h > 3
    BY BaseType
<1>2. PICK e \in Nat : e = n + 1
    OBVIOUS
<1>3. /\ rest[0] = n
      /\ \A k \in 1 .. e : rest[k] = rest[k - 1] \div h
      /\ \A k \in 0 .. e : rest[k] \in Nat
    <2>1. h \in Nat \ {0}
        BY <1>1
    <2> QED BY <1>1, <1>2, <2>1, ShiftedIs
<1>4. MqttLength(n) =
          [k \in 1 .. Min(Ends) |-> (rest[k - 1] % h) + (IF rest[k] > 0 THEN h ELSE 0)]
    BY <1>1 DEF MqttLength
<1>5. Ends = {k \in 1 .. e : rest[k] = 0}
    BY <1>2
<1> HIDE DEF rest, Ends
<1>6. ASSUME NEW k \in 1 .. e
      PROVE  /\ rest[k - 1] = h * rest[k] + (rest[k - 1] % h)
             /\ rest[k - 1] % h \in 0 .. h - 1
    <2>1. k - 1 \in 0 .. e /\ k \in 0 .. e
        OBVIOUS
    <2>2. PICK x \in Nat : x = rest[k - 1]
        BY <1>3, <2>1
    <2>3. PICK y \in Nat : y = rest[k]
        BY <1>3, <2>1
    <2>4. y = x \div h /\ h \in Nat \ {0}
        BY <1>1, <1>3, <2>2, <2>3
    <2>5. x % h \in 0 .. h - 1 /\ x % h = x - h * y
        BY ONLY <2>4, x \in Nat, Division
    <2>6. h * y \in Nat /\ x = h * y + (x % h)
        BY ONLY <2>5, h \in Nat, x \in Nat, y \in Nat
    <2> QED BY ONLY <2>2, <2>3, <2>5, <2>6
\* What is left shrinks, so that nothing is left after n + 1 bytes.
<1> DEFINE S == {k \in 0 .. e : rest[k] = 0 \/ rest[k] + k <= n}
<1>7. \A k \in 0 .. e : k \in S
    <2>1. 0 \in S
        BY <1>2, <1>3
    <2>2. ASSUME NEW k \in 1 .. e, k - 1 \in S
          PROVE  k \in S
        <3>1. k - 1 \in 0 .. e /\ k \in 0 .. e
            OBVIOUS
        <3>2. PICK x \in Nat : x = rest[k - 1]
            BY <1>3, <3>1
        <3>3. PICK y \in Nat : y = rest[k]
            BY <1>3, <3>1
        <3>4. PICK z : z = x % h
            OBVIOUS
        <3>5. x = h * y + z /\ z \in 0 .. h - 1
            BY ONLY <1>6, <3>2, <3>3, <3>4
        <3>6. x = 0 \/ x + (k - 1) <= n
            BY <2>2, <3>2
        <3>7. y = 0 \/ y + 1 <= x
            <4>1. h * y = y + y + (h - 2) * y /\ (h - 2) * y \in Nat
                BY ONLY <1>1, h \in Nat, y \in Nat
            <4> QED BY ONLY <3>5, <4>1, x \in Nat, y \in Nat
        <3>8. y = 0 \/ y + k <= n
            BY ONLY <3>6, <3>7, x \in Nat, y \in Nat, n \in Nat, k \in 1 .. e, e \in Nat
        <3> QED BY <3>1, <3>3, <3>8
    <2> HIDE DEF S
    <2> QED BY <2>1, <2>2, UpTo
<1>8. e \in Ends
    <2>1. rest[e] = 0 \/ rest[e] + e <= n
        BY <1>7
    <2>2. rest[e] \in Nat
        BY <1>3
    <2> QED BY <1>2, <1>5, <2>1, <2>2
<1> HIDE DEF S
<1>9. PICK c \in Ends : \A k \in Ends : c <= k
    <2>1. Ends \in SUBSET Nat /\ Ends # {}
        BY <1>5, <1>8
    <2> QED BY ONLY <2>1, Smallest
<1>10. c \in 1 .. e /\ rest[c] = 0 /\ Min(Ends) = c
    <2>1. Ends \subseteq Int
        BY <1>5
    <2>2. Min(Ends) = c
        BY ONLY <1>9, <2>1, c \in Ends, MinIs
    <2> QED BY <1>5, <2>2
<1>11. ASSUME NEW k \in 1 .. c - 1 PROVE rest[k] > 0
    <2>1. k \in 1 .. e /\ k \in 0 .. e /\ ~(c <= k)
        BY <1>10
    <2>2. rest[k] # 0
        BY <1>5, <1>9, <2>1
    <2> QED BY <1>3, <2>1, <2>2
<1> DEFINE d == [k \in 1 .. c |-> (rest[k - 1] % h) + (IF rest[k] > 0 THEN h ELSE 0)]
           r == [k \in 0 .. c |-> rest[k]]
<1>12. MqttLength(n) = d
    BY <1>4, <1>10
<1>13. c \in Nat \ {0} /\ \A k \in 1 .. c : k \in 1 .. e /\ k - 1 \in 0 .. c
    BY <1>10
<1>14. ASSUME NEW k \in 1 .. c
       PROVE  /\ d[k] \in Int /\ r[k - 1] = h * r[k] + (d[k] % h)
              /\ rest[k] > 0 => d[k] >= h
              /\ ~(rest[k] > 0) => d[k] < h
    <2>1. k \in 1 .. e /\ k - 1 \in 0 .. c /\ k \in 0 .. c
        BY <1>13
    <2>2. PICK z \in 0 .. h - 1 : z = rest[k - 1] % h
        BY <1>6, <2>1
    <2>3. d[k] = IF rest[k] > 0 THEN z + h ELSE z + 0
        BY <2>2
    <2>4. z % h = z /\ (z + h) % h = z /\ z + 0 = z
        BY ONLY <1>1, h \in Nat, z \in 0 .. h - 1
    <2>5. d[k] % h = z
        BY ONLY <2>3, <2>4
    <2>6. rest[k - 1] = h * rest[k] + z
        BY ONLY <1>6, <2>1, <2>2
    <2>7. r[k - 1] = rest[k - 1] /\ r[k] = rest[k]
        BY ONLY <2>1
    <2>8. z + h \in Int /\ z \in Int /\ z + h >= h /\ z < h
        BY ONLY h \in Nat, z \in 0 .. h - 1
    <2> HIDE DEF d, r
    <2> QED BY ONLY <2>3, <2>4, <2>5, <2>6, <2>7, <2>8
<1>15. d \in Seq(Int) /\ Len(d) = c
    <2>1. d \in [1 .. c -> Int]
        <3>1. \A k \in 1 .. c : d[k] \in Int
            BY ONLY <1>14
        <3> QED BY ONLY <3>1
    <2> HIDE DEF d
    <2> QED BY ONLY <1>13, <2>1, FunctionIsSeq
<1>16. r \in [0 .. c -> Nat] /\ r[0] = n /\ r[c] = 0
    <2>1. \A k \in 0 .. c : k \in 0 .. e
        BY <1>10
    <2> QED BY <1>3, <1>10, <1>13, <2>1
<1>17. \A k \in 1 .. c - 1 : d[k] >= h
    <2>1. \A k \in 1 .. c - 1 : k \in 1 .. c
        BY <1>13
    <2> HIDE DEF d
    <2> QED BY ONLY <1>11, <1>14, <2>1
<1>18. d[c] < h
    <2>1. c \in 1 .. c /\ ~(rest[c] > 0)
        BY <1>10, <1>13
    <2> HIDE DEF d
    <2> QED BY ONLY <1>14, <2>1
<1> HIDE DEF d, r
<1>19. MqttField(n, c, d, r)
    BY ONLY <1>1, <1>14, <1>15, <1>16, <1>17, <1>18 DEF MqttField
<1> QED BY <1>12, <1>13, <1>19

\* The length that Mqtt reads from a head.
MqttValue(q, head) ==
    CHOOSE f : f = [k \in 0 .. head - 1 |->
        IF k = 0 THEN 0 ELSE f[k - 1] * Half + (q[head + 1 - k] % Half)]

LEMMA MqttDigits ==
    ASSUME NEW n \in Nat, NEW c \in Nat \ {0}, NEW d, NEW r, MqttField(n, c, d, r),
           NEW q, NEW head, head = c + 1, \A i \in 1 .. c : q[i + 1] = d[i]
    PROVE  MqttValue(q, head)[head - 1] = n
<1> DEFINE g == [k \in 0 .. c |-> r[c - k]]
<1>1. PICK h \in Nat : h = Half
    BY BaseType
<1>2. ASSUME NEW k \in 0 .. c
      PROVE  g[k] = IF k = 0 THEN 0 ELSE g[k - 1] * h + (q[head + 1 - k] % h)
    <2>1. CASE k = 0
        BY <2>1 DEF MqttField
    <2>2. CASE k # 0
        <3>1. PICK i \in 1 .. c : i = c + 1 - k
            BY <2>2
        <3>2. c - k = i - 1 /\ c - (k - 1) = i /\ k - 1 \in 0 .. c /\ head + 1 - k = i + 1
            BY <2>2, <3>1
        <3>3. g[k] = r[i - 1] /\ g[k - 1] = r[i]
            BY <3>2
        <3>4. r[i - 1] = h * r[i] + (d[i] % h) /\ r[i] \in Nat
            BY <1>1 DEF MqttField
        <3>5. h * r[i] = r[i] * h
            BY ONLY <3>4, h \in Nat
        <3>6. q[head + 1 - k] = d[i]
            BY <3>2
        <3> HIDE DEF g
        <3> QED BY ONLY <2>2, <3>3, <3>4, <3>5, <3>6
    <2> QED BY <2>1, <2>2
<1>3. g = [k \in 0 .. head - 1 |->
              IF k = 0 THEN 0 ELSE g[k - 1] * h + (q[head + 1 - k] % h)]
    <2>1. head - 1 = c
        OBVIOUS
    <2>2. g = [k \in 0 .. c |-> g[k]]
        OBVIOUS
    <2> HIDE DEF g
    <2> QED BY ONLY <1>2, <2>1, <2>2
<1> DEFINE digits == MqttValue(q, head)
<1>4. digits = [k \in 0 .. head - 1 |->
                   IF k = 0 THEN 0 ELSE digits[k - 1] * h + (q[head + 1 - k] % h)]
    <2>1. digits = CHOOSE f : f = [k \in 0 .. head - 1 |->
               IF k = 0 THEN 0 ELSE f[k - 1] * h + (q[head + 1 - k] % h)]
        BY ONLY <1>1 DEF MqttValue
    <2> HIDE DEF digits, g
    <2> QED BY ONLY <1>3, <2>1
<1> HIDE DEF digits
<1> DEFINE S == {k \in 0 .. c : digits[k] = g[k]}
<1>5. \A k \in 0 .. c : k \in S
    <2>0. head - 1 = c
        OBVIOUS
    <2>1. 0 \in S
        <3>1. 0 \in 0 .. c
            OBVIOUS
        <3>2. digits[0] = 0 /\ g[0] = 0
            BY ONLY <1>2, <1>4, <2>0, <3>1
        <3> QED BY <3>1, <3>2
    <2>2. ASSUME NEW k \in 1 .. c, k - 1 \in S
          PROVE  k \in S
        <3>1. k \in 0 .. c /\ k # 0
            OBVIOUS
        <3>2. digits[k] = digits[k - 1] * h + (q[head + 1 - k] % h)
            BY ONLY <1>4, <2>0, <3>1
        <3>3. g[k] = g[k - 1] * h + (q[head + 1 - k] % h)
            BY ONLY <1>2, <3>1
        <3>4. digits[k - 1] = g[k - 1]
            BY <2>2
        <3> HIDE DEF g
        <3> QED BY <3>1, <3>2, <3>3, <3>4
    <2> HIDE DEF S
    <2> QED BY ONLY <2>1, <2>2, c \in Nat \ {0}, UpTo
<1>6. digits[c] = g[c] /\ g[c] = r[0]
    <2>1. c \in 0 .. c /\ c - c = 0
        OBVIOUS
    <2> QED BY <1>5, <2>1
<1>7. r[0] = n /\ head - 1 = c
    BY DEF MqttField
<1> HIDE DEF g
<1> QED BY ONLY <1>6, <1>7 DEF digits

LEMMA MqttCuts ==
    ASSUME NEW k \in Int, NEW n \in Nat \ {0}, NEW q \in Seq(Int), Len(q) > 0,
           NEW b, b = (<<k>> \o MqttLength(n)) \o Repeat(k, n), Agrees(q, b)
    PROVE  /\ b \in Seq(Int) /\ Len(b) > 0
           /\ Cuts(Mqtt(q), q, b, k, Repeat(k, n))
<1>1. PICK lq \in Nat : lq = Len(q) /\ lq > 0
    BY LenProperties
<1>2. PICK h \in Nat \ {0} : h = Half
    BY BaseType
<1>3. n \in Nat /\ n > 0
    OBVIOUS
<1>4. PICK d : d = MqttLength(n)
    OBVIOUS
<1>5. PICK c \in Nat \ {0} : \E r : MqttField(n, c, d, r)
    BY ONLY <1>3, <1>4, MqttLengthIs
<1>6. PICK r : MqttField(n, c, d, r)
    BY <1>5
<1>7. /\ d \in Seq(Int) /\ Len(d) = c
      /\ \A i \in 1 .. c - 1 : d[i] >= h
      /\ d[c] < h
    BY <1>2, <1>6 DEF MqttField
<1>8. PICK x : x = <<k>> \o d
    OBVIOUS
<1>9. PICK head \in Nat : head = c + 1
    OBVIOUS
<1>10. x \in Seq(Int) /\ Len(x) = head /\ x[1] = k /\ \A i \in 1 .. c : x[i + 1] = d[i]
    <2>1. PICK y \in Seq(Int) : y = <<k>> /\ Len(y) = 1 /\ y[1] = k
        BY One
    <2>2. PICK ly \in Nat : ly = 1
        OBVIOUS
    <2>3. /\ y \o d \in Seq(Int) /\ Len(y \o d) = ly + c
          /\ \A i \in 1 .. ly : (y \o d)[i] = y[i]
          /\ \A i \in 1 .. c : (y \o d)[ly + i] = d[i]
        <3>1. ly = Len(y) /\ c = Len(d) /\ c \in Nat
            BY ONLY <1>7, <2>1, <2>2, c \in Nat \ {0}
        <3>2. d \in Seq(Int)
            BY ONLY <1>7
        <3> QED BY ONLY <3>1, <3>2, y \in Seq(Int), ly \in Nat, Joined
    <2>4. y \o d = x
        BY <1>8, <2>1
    <2>5. ly + c = head /\ 1 \in 1 .. ly /\ \A i \in 1 .. c : ly + i = i + 1
        BY ONLY <1>9, <2>2, c \in Nat \ {0}
    <2> QED BY ONLY <2>1, <2>3, <2>4, <2>5
<1>11. /\ b \in Seq(Int) /\ Len(b) = head + n
       /\ \A i \in 1 .. head : i <= lq => q[i] = x[i]
       /\ lq >= head + n => SubSeq(q, head + 1, head + n) = Repeat(k, n)
    <2>1. b = x \o Repeat(k, n)
        BY <1>4, <1>8
    <2>2. Shows(q, b, x, <<>>, k, n)
        BY ONLY <1>3, <1>10, <2>1, k \in Int, q \in Seq(Int), Agrees(q, b), HeadIs
    <2>3. Len(x) + Len(<<>>) = head
        BY ONLY <1>10, head \in Nat, EmptySeq
    <2> QED BY ONLY <1>1, <1>10, <2>2, <2>3 DEF Shows
<1>12. q[1] = k
    BY ONLY <1>1, <1>9, <1>10, <1>11, lq \in Nat, head \in Nat, c \in Nat \ {0}
<1>13. \A i \in 1 .. c : i + 1 <= lq => q[i + 1] = d[i] /\ d[i] \in Int
    <2>1. \A i \in 1 .. c : i + 1 \in 1 .. head
        BY ONLY <1>9, c \in Nat \ {0}
    <2>2. \A i \in 1 .. c : d[i] \in Int
        BY ONLY <1>7, ElementOfSeq
    <2> QED BY ONLY <1>10, <1>11, <2>1, <2>2
<1> DEFINE last == {i \in 2 .. lq : q[i] < h}
\* The bytes before the last of the length are marked.
<1>14. ASSUME NEW i \in 2 .. lq, i < head PROVE ~(q[i] < h)
    <2>1. PICK j \in 1 .. c - 1 : j + 1 = i
        BY ONLY <1>9, <1>14, i \in 2 .. lq, c \in Nat \ {0}, lq \in Nat, i - 1 \in 1 .. c - 1
    <2>2. j \in 1 .. c /\ j + 1 <= lq
        BY ONLY <2>1, i \in 2 .. lq, lq \in Nat, c \in Nat \ {0}
    <2>3. q[i] = d[j] /\ d[j] \in Int
        BY ONLY <1>13, <2>1, <2>2
    <2>4. d[j] >= h
        BY ONLY <1>7, j \in 1 .. c - 1
    <2> QED BY ONLY <2>3, <2>4, h \in Nat \ {0}
<1>15. ASSUME lq < head PROVE last = {}
    BY ONLY <1>14, <1>15, lq \in Nat, head \in Nat
<1>16. ASSUME lq >= head PROVE last # {} /\ Min(last) = head
    <2>1. c \in 1 .. c /\ c + 1 <= lq /\ head \in 2 .. lq
        BY ONLY <1>9, <1>16, c \in Nat \ {0}, lq \in Nat
    <2>2. q[head] < h
        BY ONLY <1>7, <1>9, <1>13, <2>1
    <2>3. head \in last
        BY ONLY <2>1, <2>2
    <2>4. \A i \in last : head <= i
        BY ONLY <1>14, lq \in Nat, head \in Nat
    <2>5. last \subseteq Int
        OBVIOUS
    <2> HIDE DEF last
    <2> QED BY ONLY <2>3, <2>4, <2>5, MinIs
<1> HIDE DEF last
<1> DEFINE digits == MqttValue(q, Min(last))
<1>17. Mqtt(q) = IF last = {} \/ Min(last) + 1 > lq \/ Min(last) + digits[Min(last) - 1] > lq
                 THEN Wait
                 ELSE Cut(Min(last) + digits[Min(last) - 1], q[1],
                          SubSeq(q, Min(last) + 1, Min(last) + digits[Min(last) - 1]))
    BY ONLY <1>1, <1>2 DEF Mqtt, MqttValue, last
<1>18. ASSUME lq >= head PROVE digits[head - 1] = n
    <2>1. digits = MqttValue(q, head)
        BY ONLY <1>16, <1>18
    <2> HIDE DEF digits
    <2>2. \A i \in 1 .. c : q[i + 1] = d[i]
        <3>1. \A i \in 1 .. c : i + 1 <= lq
            BY ONLY <1>9, <1>18, c \in Nat \ {0}, lq \in Nat
        <3> QED BY ONLY <1>13, <3>1
    <2> QED BY ONLY <1>3, <1>6, <1>9, <2>1, <2>2, c \in Nat \ {0}, MqttDigits
<1>19. Cuts(Mqtt(q), q, b, k, Repeat(k, n))
    <2>1. lq < head => Mqtt(q) = Wait
        BY ONLY <1>15, <1>17
    <2>2. lq >= head =>
            Mqtt(q) = IF head + 1 > lq \/ head + n > lq THEN Wait
                      ELSE Cut(head + n, k, SubSeq(q, head + 1, head + n))
        BY ONLY <1>12, <1>16, <1>17, <1>18
    <2>3. PICK lens : lens = n
        OBVIOUS
    <2>4. lq < head \/ lq < head + lens => Mqtt(q) = Wait
        BY ONLY <2>1, <2>2, <2>3, lq \in Nat, head \in Nat, <1>3
    <2>5. ~(lq < head \/ lq < head + lens) =>
            Mqtt(q) = Cut(head + lens, k, SubSeq(q, head + 1, head + lens))
        BY ONLY <2>2, <2>3, lq \in Nat, head \in Nat, <1>3
    <2>6. /\ lq = Len(q) /\ (lq >= head => lens = n) /\ Len(b) = head + n
          /\ lq >= head + n => SubSeq(q, head + 1, head + n) = Repeat(k, n)
        BY ONLY <1>1, <1>11, <2>3
    <2> QED BY ONLY <1>3, <2>4, <2>5, <2>6, lq \in Nat, head \in Nat, WaitsOrCuts
<1>20. head + n > 0
    BY <1>3
<1> QED BY ONLY <1>11, <1>19, <1>20

\* The head of a frame: the length, or its mark, and the digits d.
WebSockField(n, s, d) ==
    \/ n <= Half - 3 /\ s = n /\ d = <<>>
    \/ n > Half - 3 /\ s = Half - 2 /\ d = Digits(n, 2) /\ FitsIn(n, 2)
    \/ n > Half - 3 /\ s = Half - 1 /\ d = Digits(n, 8) /\ FitsIn(n, 8)

LEMMA Two ==
    ASSUME NEW x \in Int, NEW y \in Int
    PROVE  <<x, y>> \in Seq(Int) /\ Len(<<x, y>>) = 2 /\ <<x, y>>[1] = x /\ <<x, y>>[2] = y
    OBVIOUS

LEMMA Four == <<0, 0, 0, 0>> \in Seq(Int) /\ Len(<<0, 0, 0, 0>>) = 4
    OBVIOUS

LEMMA WebSockHeadIs ==
    ASSUME NEW k \in Int, NEW n \in Nat, FitsIn(n, 8)
    PROVE  \E s \in 0 .. Half - 1, d \in Seq(Int) :
              WebSockField(n, s, d) /\ WebSockHead(k, n) = <<k, s>> \o d
<1> DEFINE Goal == \E s \in 0 .. Half - 1, d \in Seq(Int) :
                      WebSockField(n, s, d) /\ WebSockHead(k, n) = <<k, s>> \o d
<1>0. PICK square : square = Base * Base
    OBVIOUS
<1>1. n <= Half - 3 \/ n > Half - 3
    BY BaseType
<1>2. WebSockHead(k, n) = CASE n <= Half - 3 -> <<k, n>>
                      [] n > Half - 3 /\ n < square -> <<k, Half - 2>> \o Digits(n, 2)
                      [] OTHER -> <<k, Half - 1>> \o Digits(n, 8)
    BY <1>0 DEF WebSockHead
<1>3. ASSUME n <= Half - 3 PROVE Goal
    <2>1. WebSockHead(k, n) = <<k, n>>
        BY <1>2, <1>3, BaseType
    <2>2. <<k, n>> \o <<>> = <<k, n>> /\ <<>> \in Seq(Int)
        BY Two, ConcatEmptySeq
    <2>3. n \in 0 .. Half - 1 /\ WebSockField(n, n, <<>>)
        BY <1>3, BaseType DEF WebSockField
    <2> QED BY <2>1, <2>2, <2>3
<1>4. ASSUME n > Half - 3, n < square PROVE Goal
    <2>1. WebSockHead(k, n) = <<k, Half - 2>> \o Digits(n, 2)
        BY <1>2, <1>4, BaseType
    <2>2. FitsIn(n, 2)
        BY <1>0, <1>4, TwoDigits
    <2>3. Digits(n, 2) \in Seq(Int)
        BY <2>2, RoundTrip, BaseType, SeqMonotonic, 0 .. Base - 1 \subseteq Int
    <2>4. Half - 2 \in 0 .. Half - 1 /\ WebSockField(n, Half - 2, Digits(n, 2))
        BY <1>4, <2>2, BaseType DEF WebSockField
    <2> QED BY <2>1, <2>3, <2>4
<1>5. ASSUME n > Half - 3, ~(n < square) PROVE Goal
    <2>1. WebSockHead(k, n) = <<k, Half - 1>> \o Digits(n, 8)
        BY <1>2, <1>5, BaseType
    <2>2. Digits(n, 8) \in Seq(Int)
        BY RoundTrip, BaseType, SeqMonotonic, 0 .. Base - 1 \subseteq Int
    <2>3. Half - 1 \in 0 .. Half - 1 /\ WebSockField(n, Half - 1, Digits(n, 8))
        BY <1>5, BaseType DEF WebSockField
    <2> QED BY <2>1, <2>2, <2>3
<1> QED BY <1>1, <1>3, <1>4, <1>5

MaskedHead(k, n) == [WebSockHead(k, n) EXCEPT ![2] = @ + Half] \o <<0, 0, 0, 0>>

LEMMA MaskedHeadIs ==
    ASSUME NEW k \in Int, NEW n \in Nat, FitsIn(n, 8)
    PROVE  \E s \in 0 .. Half - 1, d \in Seq(Int) :
              /\ WebSockField(n, s, d)
              /\ MaskedHead(k, n) \in Seq(Int)
              /\ Len(MaskedHead(k, n)) = Len(d) + 6
              /\ MaskedHead(k, n)[1] = k
              /\ MaskedHead(k, n)[2] = s + Half
              /\ \A i \in 1 .. Len(d) : MaskedHead(k, n)[2 + i] = d[i]
<1>1. PICK s \in 0 .. Half - 1, d \in Seq(Int) :
          WebSockField(n, s, d) /\ WebSockHead(k, n) = <<k, s>> \o d
    BY WebSockHeadIs
<1>2. PICK ld \in Nat : ld = Len(d)
    BY LenProperties
<1>3. s \in Int /\ s + Half \in Int
    BY BaseType
<1>4. PICK x \in Seq(Int) : x = <<k, s>> /\ Len(x) = 2 /\ x[1] = k /\ x[2] = s
    <2>1. /\ <<k, s>> \in Seq(Int) /\ Len(<<k, s>>) = 2
          /\ <<k, s>>[1] = k /\ <<k, s>>[2] = s
        BY ONLY <1>3, k \in Int, Two, Zenon
    <2> QED BY ONLY <2>1, Zenon
<1>5. PICK two \in Nat : two = 2
    OBVIOUS
<1>6. PICK u : u = x \o d
    OBVIOUS
<1>7. /\ u \in Seq(Int) /\ Len(u) = two + ld
      /\ \A i \in 1 .. two : u[i] = x[i]
      /\ \A i \in 1 .. ld : u[two + i] = d[i]
    <2>1. two = Len(x)
        BY ONLY <1>4, <1>5
    <2> QED BY ONLY <1>2, <1>6, <2>1, x \in Seq(Int), d \in Seq(Int), two \in Nat,
                    ld \in Nat, Joined
<1>8. u[1] = k /\ u[2] = s /\ 2 \in 1 .. Len(u)
    BY ONLY <1>2, <1>4, <1>5, <1>7, ld \in Nat
<1>9. PICK e \in Int : e = s + Half
    BY <1>3
<1>10. PICK v : v = [u EXCEPT ![2] = e]
    OBVIOUS
<1>11. /\ v \in Seq(Int) /\ Len(v) = Len(u)
       /\ \A i \in 1 .. Len(u) : v[i] = IF i = 2 THEN e ELSE u[i]
    BY ONLY <1>7, <1>8, <1>10, e \in Int, ExceptSeq
<1>12. PICK z \in Seq(Int) : z = <<0, 0, 0, 0>> /\ Len(z) = 4
    BY ONLY Four
<1>13a. PICK four \in Nat : four = 4
    OBVIOUS
<1>13. PICK m \in Nat : m = two + ld
    OBVIOUS
<1>14. /\ v \o z \in Seq(Int) /\ Len(v \o z) = m + 4
       /\ \A i \in 1 .. m : (v \o z)[i] = v[i]
    <2>1. v \in Seq(Int) /\ m = Len(v)
        BY ONLY <1>7, <1>11, <1>13
    <2>2. four = Len(z)
        BY ONLY <1>12, <1>13a
    <2>3. /\ v \o z \in Seq(Int) /\ Len(v \o z) = m + four
          /\ \A i \in 1 .. m : (v \o z)[i] = v[i]
        BY ONLY <2>1, <2>2, z \in Seq(Int), m \in Nat, four \in Nat, Joined
    <2> QED BY ONLY <1>13a, <2>3
<1>15. MaskedHead(k, n) = v \o z
    BY ONLY <1>1, <1>4, <1>6, <1>8, <1>9, <1>10, <1>12 DEF MaskedHead
<1>16. v[1] = k /\ v[2] = e /\ \A i \in 1 .. ld : v[2 + i] = d[i]
    <2>1. v[1] = k /\ v[2] = e
        BY ONLY <1>7, <1>8, <1>11, <1>5, ld \in Nat
    <2>2. ASSUME NEW i \in 1 .. ld PROVE v[2 + i] = d[i]
        <3>1. PICK j : j = 2 + i
            OBVIOUS
        <3>2. j \in 1 .. Len(u) /\ j # 2 /\ j = two + i
            BY ONLY <1>5, <1>7, <3>1, i \in 1 .. ld, ld \in Nat
        <3>3. v[j] = u[j]
            BY ONLY <1>11, <3>2
        <3> QED BY ONLY <1>7, <3>1, <3>2, <3>3, i \in 1 .. ld
    <2> QED BY <2>1, <2>2
<1>17. /\ (v \o z)[1] = k /\ (v \o z)[2] = e
       /\ \A i \in 1 .. ld : (v \o z)[2 + i] = d[i]
    <2>1. 1 \in 1 .. m /\ 2 \in 1 .. m
        BY ONLY <1>5, <1>13, ld \in Nat
    <2>2. ASSUME NEW i \in 1 .. ld PROVE (v \o z)[2 + i] = d[i]
        <3>1. 2 + i \in 1 .. m
            BY ONLY <1>5, <1>13, i \in 1 .. ld, ld \in Nat
        <3> QED BY ONLY <1>14, <1>16, <3>1, i \in 1 .. ld
    <2> QED BY ONLY <1>14, <1>16, <2>1, <2>2
<1>18. m + 4 = ld + 6
    BY ONLY <1>5, <1>13, ld \in Nat
<1>19. /\ WebSockField(n, s, d)
       /\ MaskedHead(k, n) \in Seq(Int)
       /\ Len(MaskedHead(k, n)) = Len(d) + 6
       /\ MaskedHead(k, n)[1] = k
       /\ MaskedHead(k, n)[2] = s + Half
       /\ \A i \in 1 .. Len(d) : MaskedHead(k, n)[2 + i] = d[i]
    BY ONLY <1>1, <1>2, <1>9, <1>14, <1>15, <1>17, <1>18
<1> QED BY ONLY <1>19, s \in 0 .. Half - 1, d \in Seq(Int), Zenon

LEMMA MaskTwice ==
    ASSUME NEW k \in 0 .. Base - 1
    PROVE  Mask(k) \in Int /\ Mask(Mask(k)) = k
    BY BaseType DEF Mask

LEMMA WebSockCuts ==
    ASSUME NEW k \in 0 .. Base - 1, NEW n \in Nat, FitsIn(n, 8), NEW q \in Seq(Int),
           Len(q) > 0, NEW b, b = MaskedHead(k, n) \o Repeat(Mask(k), n), Agrees(q, b)
    PROVE  /\ b \in Seq(Int) /\ Len(b) > 0
           /\ Cuts(WebSock(q), q, b, k, Repeat(k, n))
<1>1. PICK lq \in Nat : lq = Len(q) /\ lq > 0
    BY LenProperties
<1>2. PICK h \in Nat \ {0} : h = Half /\ h > 3 /\ Base = 2 * h
    BY BaseType
<1>3. k \in Int
    BY <1>2
<1>4. PICK s \in 0 .. Half - 1, d \in Seq(Int) :
          /\ WebSockField(n, s, d)
          /\ MaskedHead(k, n) \in Seq(Int)
          /\ Len(MaskedHead(k, n)) = Len(d) + 6
          /\ MaskedHead(k, n)[1] = k
          /\ MaskedHead(k, n)[2] = s + Half
          /\ \A i \in 1 .. Len(d) : MaskedHead(k, n)[2 + i] = d[i]
    BY ONLY <1>3, n \in Nat, FitsIn(n, 8), MaskedHeadIs
<1>5. PICK ld \in Nat : ld = Len(d)
    BY LenProperties
<1>6. PICK head \in Nat : head = ld + 6
    OBVIOUS
<1>7. PICK x \in Seq(Int) : x = MaskedHead(k, n)
    BY <1>4
<1>8. PICK c \in Int : c = Mask(k) /\ Mask(c) = k
    BY ONLY MaskTwice, k \in 0 .. Base - 1
<1>9. /\ Len(x) = head /\ x[1] = k /\ x[2] = s + h
      /\ \A i \in 1 .. ld : x[2 + i] = d[i]
    BY ONLY <1>2, <1>4, <1>5, <1>6, <1>7
<1>10. /\ b \in Seq(Int) /\ Len(b) = head + n
       /\ \A i \in 1 .. head : i <= lq => q[i] = x[i]
       /\ \A i \in 1 .. n : head + i <= lq => q[head + i] = c
    <2>1. b = x \o Repeat(c, n)
        BY ONLY <1>7, <1>8, b = MaskedHead(k, n) \o Repeat(Mask(k), n)
    <2>2. Shows(q, b, x, <<>>, c, n)
        BY ONLY <2>1, x \in Seq(Int), c \in Int, n \in Nat, q \in Seq(Int),
                Agrees(q, b), HeadIs
    <2>3. Len(x) + Len(<<>>) = head
        BY ONLY <1>9, head \in Nat, EmptySeq
    <2> QED BY ONLY <1>1, <1>9, <2>2, <2>3 DEF Shows
<1>11. s \in 0 .. h - 1
    BY ONLY <1>2, s \in 0 .. Half - 1
<1>12. lq >= 2 => q[2] = s + h /\ q[2] % h = s /\ ~(q[2] < h)
    <2>1. ASSUME lq >= 2 PROVE q[2] = s + h
        <3>1. 2 \in 1 .. head /\ 2 <= lq
            BY ONLY <1>6, <2>1, ld \in Nat, lq \in Nat
        <3> QED BY ONLY <1>9, <1>10, <3>1
    <2>2. (s + h) % h = s /\ ~(s + h < h)
        BY ONLY <1>11, h \in Nat \ {0}
    <2> QED BY ONLY <2>1, <2>2
<1>13. q[1] = k
    <2>1. 1 \in 1 .. head /\ 1 <= lq
        BY ONLY <1>1, <1>6, ld \in Nat, lq \in Nat
    <2> QED BY ONLY <1>9, <1>10, <2>1
<1>14. /\ ld = IF s = h - 2 THEN 2 ELSE IF s = h - 1 THEN 8 ELSE 0
       /\ IF ld = 0 THEN s = n ELSE BigEndian(d) = n
    <2>1. CASE n <= Half - 3 /\ s = n /\ d = <<>>
        <3>1. ld = 0
            BY ONLY <1>5, <2>1, EmptySeq
        <3> QED BY ONLY <1>2, <2>1, <3>1, n \in Nat, h \in Nat \ {0}
    <2>2. CASE n > Half - 3 /\ s = Half - 2 /\ d = Digits(n, 2) /\ FitsIn(n, 2)
        <3>1. ld = 2 /\ BigEndian(d) = n
            BY ONLY <1>5, <2>2, n \in Nat, 2 \in Nat, RoundTrip
        <3> QED BY ONLY <1>2, <2>2, <3>1, h \in Nat \ {0}
    <2>3. CASE n > Half - 3 /\ s = Half - 1 /\ d = Digits(n, 8) /\ FitsIn(n, 8)
        <3>1. ld = 8 /\ BigEndian(d) = n
            BY ONLY <1>5, <2>3, n \in Nat, 8 \in Nat, RoundTrip
        <3> QED BY ONLY <1>2, <2>3, <3>1, h \in Nat \ {0}
    <2> QED BY ONLY <1>4, <2>1, <2>2, <2>3 DEF WebSockField
<1>15. ASSUME lq >= head PROVE SubSeq(q, 3, head - 4) = d
    <2>1. PICK two \in Nat : two = 2
        OBVIOUS
    <2>2. ASSUME NEW i \in 1 .. Len(d) PROVE q[two + i] = d[i]
        <3>1. PICK j : j = 2 + i
            OBVIOUS
        <3>2. i \in 1 .. ld /\ j \in 1 .. head /\ j <= lq /\ j = two + i
            BY ONLY <1>5, <1>6, <1>15, <2>1, <3>1, i \in 1 .. Len(d), ld \in Nat, lq \in Nat
        <3>3. q[j] = x[j] /\ x[2 + i] = d[i]
            BY ONLY <1>9, <1>10, <3>2
        <3> QED BY ONLY <3>1, <3>2, <3>3
    <2>3. two + Len(d) <= Len(q) /\ two + Len(d) = head - 4 /\ two + 1 = 3
        BY ONLY <1>1, <1>5, <1>6, <1>15, <2>1, ld \in Nat, lq \in Nat
    <2>4. SubSeq(q, two + 1, two + Len(d)) = d
        BY ONLY <2>2, <2>3, two \in Nat, q \in Seq(Int), d \in Seq(Int), PartIs
    <2> QED BY ONLY <2>3, <2>4
<1>16. PICK lens : lens = IF head = 6 THEN s ELSE BigEndian(SubSeq(q, 3, head - 4))
    OBVIOUS
<1>17. lq >= head => lens = n
    <2>1. CASE ld = 0
        BY ONLY <1>6, <1>14, <1>16, <2>1
    <2>2. CASE ld # 0
        <3>1. head # 6
            BY ONLY <1>6, <2>2, ld \in Nat
        <3> QED BY ONLY <1>14, <1>15, <1>16, <2>2, <3>1
    <2> QED BY <2>1, <2>2
<1>18. head = CASE s = h - 2 -> 8 [] s = h - 1 -> 14 [] OTHER -> 6
    BY ONLY <1>6, <1>11, <1>14, h \in Nat \ {0}
<1> DEFINE data == [i \in 1 .. lens |-> Mask(q[head + i])]
<1>19. ASSUME lq >= 6
       PROVE  WebSock(q) = IF lq < head \/ lq < head + lens THEN Wait
                           ELSE Cut(head + lens, k, data)
    <2>1. ~(lq < 6) /\ q[2] % h = s /\ ~(q[2] < h)
        BY ONLY <1>12, <1>19, lq \in Nat
    <2>2. WebSock(q) = IF lq < 6 THEN Wait
                       ELSE IF q[2] < h THEN Failed
                       ELSE IF lq < head \/ lq < head + lens THEN Wait
                       ELSE Cut(head + lens, q[1], data)
        <3> DEFINE H == CASE q[2] % Half = Half - 2 -> 8
                          [] q[2] % Half = Half - 1 -> 14
                          [] OTHER -> 6
                   L == IF H = 6 THEN q[2] % Half ELSE BigEndian(SubSeq(q, 3, H - 4))
        <3>1. H = head
            BY ONLY <1>2, <1>18, <2>1
        <3> HIDE DEF H
        <3>2. L = lens
            BY ONLY <1>2, <1>16, <2>1, <3>1
        <3>3. WebSock(q) = IF Len(q) < 6 THEN Wait
                           ELSE IF q[2] < Half THEN Failed
                           ELSE IF Len(q) < H \/ Len(q) < H + L THEN Wait
                           ELSE Cut(H + L, q[1], [i \in 1 .. L |-> Mask(q[H + i])])
            BY ONLY Zenon DEF WebSock, H
        <3> HIDE DEF L
        <3> QED BY ONLY <1>1, <1>2, <3>1, <3>2, <3>3 DEF data
    <2> HIDE DEF data
    <2> QED BY ONLY <1>13, <2>1, <2>2
<1>20. lq < 6 => WebSock(q) = Wait
    BY ONLY <1>1 DEF WebSock
<1>21. lq >= head + n => data = Repeat(k, n)
    <2> SUFFICES ASSUME lq >= head + n PROVE data = Repeat(k, n)
        OBVIOUS
    <2>1. lens = n
        BY ONLY <1>17, lq >= head + n, lq \in Nat, head \in Nat, n \in Nat
    <2>2. \A i \in 1 .. n : Mask(q[head + i]) = k
        <3> TAKE i \in 1 .. n
        <3>1. head + i <= lq
            BY ONLY lq >= head + n, lq \in Nat, head \in Nat, n \in Nat, i \in 1 .. n
        <3>2. q[head + i] = c
            BY ONLY <1>10, <3>1, i \in 1 .. n
        <3> QED BY ONLY <1>8, <3>2
    <2> QED BY ONLY <2>1, <2>2 DEF Repeat
<1> HIDE DEF data
<1>22. Cuts(WebSock(q), q, b, k, Repeat(k, n))
    <2>1. CASE lq < head + n
        <3>1. lq < 6 \/ (lq >= 6 /\ (lq < head \/ lq < head + lens))
            BY ONLY <1>17, <2>1, lq \in Nat, head \in Nat, n \in Nat
        <3>2. WebSock(q) = Wait
            BY ONLY <1>19, <1>20, <3>1
        <3> QED BY ONLY <1>1, <1>10, <2>1, <3>2 DEF Cuts, Wait
    <2>2. CASE lq >= head + n
        <3>1. lq >= 6 /\ lq >= head
            BY ONLY <1>6, <2>2, ld \in Nat, lq \in Nat, head \in Nat, n \in Nat
        <3>2. lens = n
            BY ONLY <1>17, <3>1
        <3>3. ~(lq < head \/ lq < head + n) /\ ~(lq < head + n)
            BY ONLY <2>2, <3>1, lq \in Nat, head \in Nat, n \in Nat
        <3>4. WebSock(q) = Cut(head + n, k, Repeat(k, n))
            BY ONLY <1>19, <1>21, <2>2, <3>1, <3>2, <3>3
        <3> QED BY ONLY <1>1, <1>10, <3>3, <3>4 DEF Cuts
    <2>3. lq < head + n \/ lq >= head + n
        BY ONLY lq \in Nat, head \in Nat, n \in Nat
    <2> QED BY ONLY <2>1, <2>2, <2>3
<1>23. head + n > 0
    BY ONLY <1>6, ld \in Nat, n \in Nat
<1> QED BY ONLY <1>10, <1>22, <1>23

----------------------------------------------------------------------------
(* What is looked for as text                                                 *)

LEMMA Finds ==
    ASSUME NEW q \in Seq(Int), NEW x \in Int, NEW m \in 1 .. Len(q), q[m] = x,
           \A i \in 1 .. m - 1 : q[i] # 0 /\ q[i] # x
    PROVE  m \in Found(q, x) /\ Found(q, x) # {} /\ Min(Found(q, x)) = m
<1>1. PICK lq \in Nat : lq = Len(q) /\ DOMAIN q = 1 .. lq
    BY LenProperties
<1>2. m \in Found(q, x)
    BY <1>1 DEF Found
<1>3. Found(q, x) \subseteq Int
    BY <1>1 DEF Found
<1>4. \A i \in Found(q, x) : m <= i
    BY <1>1 DEF Found
<1>5. Min(Found(q, x)) = m
    BY ONLY <1>2, <1>3, <1>4, MinIs
<1> QED BY <1>2, <1>5

LEMMA FindsNone ==
    ASSUME NEW q \in Seq(Int), NEW x \in Int, \A i \in 1 .. Len(q) : q[i] # x
    PROVE  Found(q, x) = {}
<1>1. DOMAIN q = 1 .. Len(q)
    BY LenProperties
<1> QED BY <1>1 DEF Found

\* The bytes of a handshake: with the key or without it.
KeyHello == <<Text, Key, HeadEnd>>
BareHello == <<Text, HeadEnd>>

LEMMA ShakeIs ==
    ASSUME NEW q \in Seq(Int), NEW bLinker \in BOOLEAN,
           NEW w \in {KeyHello, BareHello}, Agrees(q, w)
    PROVE  /\ w \in Seq(Int) /\ Len(w) \in {2, 3}
           /\ Len(q) < Len(w) => WebSockShake(q, bLinker) = Wait
           /\ Len(q) >= Len(w) =>
                 WebSockShake(q, bLinker) =
                     IF w = KeyHello \/ bLinker THEN Skip(Len(w)) ELSE Failed
<1>1. PICK lq \in Nat : lq = Len(q)
    BY LenProperties
<1>2. PICK m \in {2, 3} : m = IF w = KeyHello THEN 3 ELSE 2
    OBVIOUS
<1>3. /\ w \in Seq(Int) /\ Len(w) = m
      /\ w[m] = HeadEnd /\ w[1] = Text /\ (w = KeyHello => w[2] = Key)
    <2>1. CASE w = KeyHello
        <3>1. m = 3
            BY ONLY <1>2, <2>1
        <3>2. /\ KeyHello \in Seq(Int) /\ Len(KeyHello) = 3
              /\ KeyHello[1] = Text /\ KeyHello[2] = Key /\ KeyHello[3] = HeadEnd
            BY ONLY TRUE DEF KeyHello, Text, Key, HeadEnd
        <3> QED BY ONLY <2>1, <3>1, <3>2
    <2>2. CASE w # KeyHello
        <3>1. m = 2 /\ w = BareHello
            BY ONLY <1>2, <2>2, w \in {KeyHello, BareHello}
        <3>2. /\ BareHello \in Seq(Int) /\ Len(BareHello) = 2
              /\ BareHello[1] = Text /\ BareHello[2] = HeadEnd
            BY ONLY TRUE DEF BareHello, Text, HeadEnd
        <3> QED BY ONLY <2>2, <3>1, <3>2
    <2> QED BY ONLY <2>1, <2>2
<1>4. \A i \in 1 .. m : i <= lq => q[i] = w[i]
    BY ONLY <1>1, <1>3, Agrees(q, w) DEF Agrees
<1>5. \A i \in 1 .. m - 1 : w[i] \in Int /\ w[i] # 0 /\ w[i] # HeadEnd
    BY ONLY <1>2, <1>3, m \in {2, 3} DEF Text, Key, HeadEnd
<1>6. HeadEnd \in Int /\ Key \in Int
    BY DEF HeadEnd, Key
<1>7. ASSUME lq < m PROVE WebSockShake(q, bLinker) = Wait
    <2>1. \A i \in 1 .. Len(q) : q[i] # HeadEnd
        BY ONLY <1>1, <1>4, <1>5, <1>7, lq \in Nat, m \in {2, 3}
    <2>2. Found(q, HeadEnd) = {}
        BY ONLY <1>6, <2>1, q \in Seq(Int), FindsNone
    <2> QED BY ONLY <2>2 DEF WebSockShake
<1>8. ASSUME lq >= m
      PROVE  WebSockShake(q, bLinker) =
                 IF w = KeyHello \/ bLinker THEN Skip(m) ELSE Failed
    <2>1. m \in 1 .. Len(q) /\ q[m] = HeadEnd
        BY ONLY <1>1, <1>3, <1>4, <1>8, lq \in Nat, m \in {2, 3}
    <2>2. \A i \in 1 .. m - 1 : q[i] # 0 /\ q[i] # HeadEnd
        BY ONLY <1>4, <1>5, <1>8, lq \in Nat, m \in {2, 3}
    <2>3. Found(q, HeadEnd) # {} /\ Min(Found(q, HeadEnd)) = m
        BY ONLY <1>6, <2>1, <2>2, q \in Seq(Int), Finds
    <2>4. PICK p : p = SubSeq(q, 1, m)
        OBVIOUS
    <2>5. p = w
        <3>1. PICK zero \in Nat : zero = 0
            OBVIOUS
        <3>2. zero + Len(w) <= Len(q) /\ zero + Len(w) = m /\ zero + 1 = 1
            BY ONLY <1>1, <1>3, <1>8, <3>1, m \in {2, 3}, lq \in Nat
        <3>3. \A i \in 1 .. Len(w) : q[zero + i] = w[i]
            <4> TAKE i \in 1 .. Len(w)
            <4>1. zero + i = i /\ i \in 1 .. m /\ i <= lq
                BY ONLY <1>3, <1>8, <3>1, i \in 1 .. Len(w), m \in {2, 3}, lq \in Nat
            <4> QED BY ONLY <1>4, <4>1
        <3>4. SubSeq(q, zero + 1, zero + Len(w)) = w
            BY ONLY <1>3, <3>2, <3>3, zero \in Nat, q \in Seq(Int), PartIs
        <3> QED BY ONLY <2>4, <3>2, <3>4
    <2>6. Found(w, Key) = {} <=> w # KeyHello
        <3>1. ASSUME w = KeyHello PROVE Found(w, Key) # {}
            <4>1. 2 \in 1 .. Len(w) /\ w[2] = Key /\ w[1] # 0 /\ w[1] # Key
                BY ONLY <1>2, <1>3, <3>1 DEF Text, Key
            <4>2. \A i \in 1 .. 2 - 1 : w[i] # 0 /\ w[i] # Key
                BY ONLY <4>1
            <4> QED BY ONLY <1>3, <1>6, <4>1, <4>2, Finds
        <3>2. ASSUME w # KeyHello PROVE Found(w, Key) = {}
            <4>1. \A i \in 1 .. Len(w) : w[i] # Key
                BY ONLY <1>2, <1>3, <3>2 DEF Text, Key, HeadEnd
            <4> QED BY ONLY <1>3, <1>6, <4>1, FindsNone
        <3> QED BY <3>1, <3>2
    <2>7. WebSockShake(q, bLinker) = IF ~bLinker /\ Found(p, Key) = {} THEN Failed
                                     ELSE Skip(m)
        BY ONLY <2>3, <2>4 DEF WebSockShake
    <2> QED BY ONLY <2>5, <2>6, <2>7, bLinker \in BOOLEAN
<1>9. lq < m \/ lq >= m
    BY ONLY lq \in Nat, m \in {2, 3}
<1> QED BY ONLY <1>1, <1>3, <1>7, <1>8, m \in {2, 3}

\* Http of a request of which all is there, and before.
HttpSized(q) == {i \in DOMAIN q : q[i] <= ContentLength(0) /\ i \in Found(q, q[i])}

LEMMA HttpIs ==
    ASSUME NEW q
    PROVE  /\ Found(q, HeadEnd) = {} => Http(q) = Wait
           /\ HttpSized(q) = {} /\ Found(q, Chunked) # {}
              /\ Found(SubSeq(q, Min(Found(q, HeadEnd)) + 1, Len(q)), ChunkEnd) = {}
                 => Http(q) = Wait
           /\ \A m, lens :
                 /\ Found(q, HeadEnd) # {} /\ Min(Found(q, HeadEnd)) = m
                 /\ \/ HttpSized(q) # {} /\ lens = ContentLength(0) - q[Min(HttpSized(q))]
                    \/ /\ HttpSized(q) = {} /\ Found(q, Chunked) # {}
                       /\ Found(SubSeq(q, m + 1, Len(q)), ChunkEnd) # {}
                       /\ lens = Min(Found(SubSeq(q, m + 1, Len(q)), ChunkEnd))
                    \/ HttpSized(q) = {} /\ Found(q, Chunked) = {} /\ lens = 0
                 => Http(q) = IF Len(q) < m + lens THEN Wait
                              ELSE Cut(m + lens, None, SubSeq(q, 1, m + lens))
<1>1. PICK ends : ends = Found(q, HeadEnd)
    OBVIOUS
<1>2. PICK sized : sized = HttpSized(q)
    OBVIOUS
<1>3. PICK head : head = Min(ends)
    OBVIOUS
<1>4. PICK chunk : chunk = Found(SubSeq(q, head + 1, Len(q)), ChunkEnd)
    OBVIOUS
<1>5. PICK marked : marked = Found(q, Chunked)
    OBVIOUS
<1>6. PICK lens : lens = CASE sized # {} -> ContentLength(0) - q[Min(sized)]
                           [] sized = {} /\ marked # {} -> Min(chunk)
                           [] OTHER -> 0
    OBVIOUS
<1>7. Http(q) = IF ends = {} \/ (sized = {} /\ marked # {} /\ chunk = {})
                   \/ Len(q) < head + lens
                THEN Wait ELSE Cut(head + lens, None, SubSeq(q, 1, head + lens))
    BY ONLY <1>1, <1>2, <1>3, <1>4, <1>5, <1>6 DEF Http, HttpSized
<1>8. sized # {} => lens = ContentLength(0) - q[Min(sized)]
    BY ONLY <1>6
<1>9. sized = {} /\ marked # {} => lens = Min(chunk)
    BY ONLY <1>6
<1>10. sized = {} /\ marked = {} => lens = 0
    BY ONLY <1>6
<1> QED BY ONLY <1>1, <1>2, <1>3, <1>4, <1>5, <1>7, <1>8, <1>9, <1>10

\* When all of b is there, and nothing else, it is what is cut.
LEMMA WholeIs ==
    ASSUME NEW q \in Seq(Int), NEW b \in Seq(Int), Agrees(q, b), Len(q) = Len(b)
    PROVE  SubSeq(q, 1, Len(b)) = b
<1>1. PICK lq \in Nat : lq = Len(q) /\ lq = Len(b)
    BY LenProperties
<1>2. \A i \in 1 .. Len(q) : q[i] = b[i]
    BY ONLY <1>1, lq \in Nat, Agrees(q, b) DEF Agrees
<1>3. q = b
    BY ONLY <1>2, q \in Seq(Int), b \in Seq(Int), Len(q) = Len(b), SeqEqual
<1> QED BY ONLY <1>3, q \in Seq(Int), Len(q) = Len(b), SubSeqFull

LEMMA TextIs ==
    /\ Text \in Int /\ Text < 0 /\ HeadEnd \in Int /\ HeadEnd < 0
    /\ Chunked \in Int /\ Chunked < 0 /\ ChunkEnd \in Int /\ ChunkEnd < 0
    /\ Text # HeadEnd /\ Text # Chunked /\ HeadEnd # Chunked /\ ChunkEnd # HeadEnd
    /\ ChunkEnd # Chunked /\ ChunkEnd # Text
    /\ ContentLength(0) = -10
    /\ Text > -10 /\ HeadEnd > -10 /\ Chunked > -10 /\ ChunkEnd > -10
    BY DEF Text, HeadEnd, Chunked, ChunkEnd, ContentLength

LEMMA PlainCuts ==
    ASSUME NEW q \in Seq(Int), Len(q) > 0, NEW b, b = <<Text, HeadEnd>>, Agrees(q, b),
           Len(q) <= Len(b)
    PROVE  /\ b \in Seq(Int) /\ Len(b) > 0
           /\ Cuts(Http(q), q, b, None, b)
<1>1. PICK lq \in Nat : lq = Len(q) /\ lq > 0
    BY LenProperties
<1>2. b \in Seq(Int) /\ Len(b) = 2 /\ b[1] = Text /\ b[2] = HeadEnd
    BY ONLY TextIs, b = <<Text, HeadEnd>>, Two
<1>3. q[1] = Text /\ (lq = 2 => q[2] = HeadEnd) /\ lq \in {1, 2}
    BY ONLY <1>1, <1>2, Agrees(q, b), lq \in Nat, Len(q) <= Len(b) DEF Agrees
<1>4. CASE lq = 1
    <2>1. \A i \in 1 .. Len(q) : q[i] # HeadEnd
        BY ONLY <1>1, <1>3, <1>4, TextIs
    <2>2. Found(q, HeadEnd) = {}
        BY ONLY <2>1, TextIs, q \in Seq(Int), FindsNone
    <2>3. Http(q) = Wait
        BY ONLY <2>2, HttpIs
    <2> QED BY ONLY <1>1, <1>2, <1>4, <2>3 DEF Cuts, Wait
<1>5. CASE lq = 2
    <2>1. 2 \in 1 .. Len(q) /\ q[2] = HeadEnd /\ \A i \in 1 .. 2 - 1 : q[i] # 0 /\ q[i] # HeadEnd
        BY ONLY <1>1, <1>3, <1>5, TextIs
    <2>2. Found(q, HeadEnd) # {} /\ Min(Found(q, HeadEnd)) = 2
        BY ONLY <2>1, TextIs, q \in Seq(Int), Finds
    <2>3. \A i \in 1 .. Len(q) : q[i] # Chunked
        BY ONLY <1>1, <1>3, <1>5, TextIs
    <2>4. Found(q, Chunked) = {}
        BY ONLY <2>3, TextIs, q \in Seq(Int), FindsNone
    <2>5. HttpSized(q) = {}
        <3>1. DOMAIN q = 1 .. 2
            BY ONLY <1>1, <1>5, q \in Seq(Int), LenProperties
        <3> QED BY ONLY <1>3, <1>5, <3>1, TextIs DEF HttpSized
    <2>6. PICK m : m = 2
        OBVIOUS
    <2>7. PICK lens : lens = 0
        OBVIOUS
    <2>8. Http(q) = IF Len(q) < m + lens THEN Wait
                    ELSE Cut(m + lens, None, SubSeq(q, 1, m + lens))
        BY ONLY <2>2, <2>4, <2>5, <2>6, <2>7, HttpIs
    <2>9. m + lens = Len(b) /\ ~(Len(q) < Len(b)) /\ Len(q) = Len(b)
        BY ONLY <1>1, <1>2, <1>5, <2>6, <2>7
    <2>10. SubSeq(q, 1, Len(b)) = b
        BY ONLY <1>2, <2>9, q \in Seq(Int), Agrees(q, b), WholeIs
    <2>11. Http(q) = Cut(Len(b), None, b)
        BY ONLY <2>8, <2>9, <2>10, Zenon
    <2> QED BY ONLY <1>2, <2>9, <2>11 DEF Cuts
<1> QED BY ONLY <1>3, <1>4, <1>5

\* A head of three lines, and what a part q of it and of its content shows.
LEMMA ThreeLines ==
    ASSUME NEW y \in Int, y # 0, y # HeadEnd, NEW q \in Seq(Int),
           NEW lq \in Nat, lq = Len(q), lq > 0,
           lq >= 1 => q[1] = Text, lq >= 2 => q[2] = y, lq >= 3 => q[3] = HeadEnd
    PROVE  /\ lq < 3 => Http(q) = Wait
           /\ lq >= 3 => Found(q, HeadEnd) # {} /\ Min(Found(q, HeadEnd)) = 3
<1>1. ASSUME lq < 3 PROVE Http(q) = Wait
    <2>1. \A i \in 1 .. Len(q) : q[i] # HeadEnd
        <3> TAKE i \in 1 .. Len(q)
        <3>1. (i = 1 /\ lq >= 1) \/ (i = 2 /\ lq >= 2)
            BY ONLY <1>1, lq = Len(q), lq \in Nat, i \in 1 .. Len(q)
        <3> QED BY ONLY <3>1, lq >= 1 => q[1] = Text, lq >= 2 => q[2] = y, y # HeadEnd,
                        TextIs
    <2>2. Found(q, HeadEnd) = {}
        BY ONLY <2>1, TextIs, q \in Seq(Int), FindsNone
    <2> QED BY ONLY <2>2, HttpIs
<1>2. ASSUME lq >= 3 PROVE Found(q, HeadEnd) # {} /\ Min(Found(q, HeadEnd)) = 3
    <2>1. q[1] = Text /\ q[2] = y /\ q[3] = HeadEnd
        BY ONLY <1>2, lq >= 1 => q[1] = Text, lq >= 2 => q[2] = y,
                lq >= 3 => q[3] = HeadEnd, lq \in Nat
    <2>2. \A i \in 1 .. 3 - 1 : q[i] # 0 /\ q[i] # HeadEnd
        BY ONLY <2>1, y # 0, y # HeadEnd, TextIs
    <2>3. 3 \in 1 .. Len(q)
        BY ONLY <1>2, lq = Len(q), lq \in Nat
    <2> QED BY ONLY <2>1, <2>2, <2>3, TextIs, q \in Seq(Int), Finds
<1> QED BY <1>1, <1>2

LEMMA Three ==
    ASSUME NEW x \in Int, NEW y \in Int, NEW z \in Int
    PROVE  /\ <<x, y, z>> \in Seq(Int) /\ Len(<<x, y, z>>) = 3
           /\ <<x, y, z>>[1] = x /\ <<x, y, z>>[2] = y /\ <<x, y, z>>[3] = z
    OBVIOUS

\* The head of three lines before n bytes of data and the rest t.
ShowsLines(q, b, y, k, n, t) ==
    /\ b \in Seq(Int) /\ Len(b) = 3 + n + Len(t)
    /\ Len(q) >= 1 => q[1] = Text
    /\ Len(q) >= 2 => q[2] = y
    /\ Len(q) >= 3 => q[3] = HeadEnd
    /\ \A i \in 1 .. n : 3 + i <= Len(q) => q[3 + i] = k
    /\ \A i \in 1 .. Len(t) : 3 + n + i <= Len(q) => q[3 + n + i] = t[i]

LEMMA ThreeLinesBefore ==
    ASSUME NEW y \in Int, NEW k \in Int, NEW n \in Nat, NEW t \in Seq(Int),
           NEW q \in Seq(Int),
           NEW b, b = (<<Text, y, HeadEnd>> \o Repeat(k, n)) \o t, Agrees(q, b)
    PROVE  ShowsLines(q, b, y, k, n, t)
<1>l. PICK lq \in Nat : lq = Len(q)
    BY LenProperties
<1>t. PICK lt \in Nat : lt = Len(t)
    BY LenProperties
<1>1. PICK x \in Seq(Int) : /\ x = <<Text, y, HeadEnd>> /\ Len(x) = 3
                            /\ x[1] = Text /\ x[2] = y /\ x[3] = HeadEnd
    <2>1. /\ <<Text, y, HeadEnd>> \in Seq(Int) /\ Len(<<Text, y, HeadEnd>>) = 3
          /\ <<Text, y, HeadEnd>>[1] = Text /\ <<Text, y, HeadEnd>>[2] = y
          /\ <<Text, y, HeadEnd>>[3] = HeadEnd
        BY ONLY y \in Int, TextIs, Three, Zenon
    <2> QED BY ONLY <2>1, Zenon
<1>2. PICK r \in Seq(Int) : r = Repeat(k, n) /\ Len(r) = n
    BY ONLY k \in Int, n \in Nat, RepeatIs
<1>3. PICK three \in Nat : three = 3
    OBVIOUS
<1>4. PICK u : u = x \o r
    OBVIOUS
<1>5. /\ u \in Seq(Int) /\ Len(u) = three + n
      /\ \A i \in 1 .. three : u[i] = x[i]
      /\ \A i \in 1 .. n : u[three + i] = r[i]
    <2>1. three = Len(x) /\ n = Len(r)
        BY ONLY <1>1, <1>2, <1>3
    <2> QED BY ONLY <1>4, <2>1, x \in Seq(Int), r \in Seq(Int), three \in Nat, n \in Nat,
                    Joined
<1>6. PICK m \in Nat : m = three + n
    OBVIOUS
<1>7. /\ b \in Seq(Int) /\ Len(b) = m + lt
      /\ \A i \in 1 .. m : b[i] = u[i]
      /\ \A i \in 1 .. lt : b[m + i] = t[i]
    <2>1. m = Len(u) /\ b = u \o t
        BY ONLY <1>1, <1>2, <1>4, <1>5, <1>6,
                b = (<<Text, y, HeadEnd>> \o Repeat(k, n)) \o t
    <2>2. /\ u \o t \in Seq(Int) /\ Len(u \o t) = m + lt
          /\ \A i \in 1 .. m : (u \o t)[i] = u[i]
          /\ \A i \in 1 .. lt : (u \o t)[m + i] = t[i]
        <3>1. u \in Seq(Int) /\ m = Len(u) /\ lt = Len(t)
            BY ONLY <1>5, <1>t, <2>1
        <3> QED BY ONLY <3>1, t \in Seq(Int), m \in Nat, lt \in Nat, Joined
    <2> QED BY ONLY <2>1, <2>2
<1>8. \A i \in 1 .. m + lt : i <= lq => q[i] = b[i]
    BY ONLY <1>7, <1>l, Agrees(q, b) DEF Agrees
<1>9. ASSUME NEW i \in 1 .. 3, i <= lq PROVE q[i] = x[i]
    <2>1. i \in 1 .. three /\ i \in 1 .. m /\ i \in 1 .. m + lt
        BY ONLY <1>3, <1>6, i \in 1 .. 3, n \in Nat, lt \in Nat
    <2> QED BY ONLY <1>5, <1>7, <1>8, <1>9, <2>1
<1>10. ASSUME NEW i \in 1 .. n, 3 + i <= lq PROVE q[3 + i] = k
    <2>1. PICK j : j = 3 + i
        OBVIOUS
    <2>2. j = three + i /\ j \in 1 .. m /\ j \in 1 .. m + lt /\ j <= lq
        BY ONLY <1>3, <1>6, <1>10, <2>1, i \in 1 .. n, n \in Nat, lt \in Nat, lq \in Nat
    <2>3. u[three + i] = r[i]
        BY ONLY <1>5, i \in 1 .. n
    <2>4. q[j] = b[j] /\ b[j] = u[j] /\ u[j] = r[i]
        BY ONLY <1>7, <1>8, <2>2, <2>3
    <2>5. r[i] = k
        BY ONLY <1>2, i \in 1 .. n DEF Repeat
    <2> QED BY ONLY <2>1, <2>4, <2>5
<1>11. ASSUME NEW i \in 1 .. lt, 3 + n + i <= lq PROVE q[3 + n + i] = t[i]
    <2>1. PICK j : j = 3 + n + i
        OBVIOUS
    <2>2. j = m + i /\ j \in 1 .. m + lt /\ j <= lq
        BY ONLY <1>3, <1>6, <1>11, <2>1, i \in 1 .. lt, n \in Nat, lt \in Nat, lq \in Nat
    <2>3. b[m + i] = t[i]
        BY ONLY <1>7, i \in 1 .. lt
    <2>4. q[j] = b[j]
        BY ONLY <1>8, <2>2
    <2> QED BY ONLY <2>1, <2>2, <2>3, <2>4
<1>12. lq >= 1 => q[1] = Text
    BY ONLY <1>1, <1>9, lq \in Nat
<1>13. lq >= 2 => q[2] = y
    BY ONLY <1>1, <1>9, lq \in Nat
<1>14. lq >= 3 => q[3] = HeadEnd
    BY ONLY <1>1, <1>9, lq \in Nat
<1>15. m + lt = 3 + n + lt
    BY ONLY <1>3, <1>6, n \in Nat, lt \in Nat
<1> QED BY ONLY <1>l, <1>t, <1>7, <1>10, <1>11, <1>12, <1>13, <1>14, <1>15
           DEF ShowsLines

LEMMA SizedCuts ==
    ASSUME NEW k \in Nat \ {0}, NEW n \in Nat, NEW q \in Seq(Int), Len(q) > 0,
           NEW b, b = <<Text, ContentLength(n), HeadEnd>> \o Repeat(k, n),
           Agrees(q, b), Len(q) <= Len(b)
    PROVE  /\ b \in Seq(Int) /\ Len(b) > 0
           /\ Cuts(Http(q), q, b, None, b)
<1>1. PICK lq \in Nat : lq = Len(q) /\ lq > 0
    BY LenProperties
<1>2. PICK y \in Int : y = ContentLength(n) /\ y <= -10 /\ -10 - y = n
    BY ONLY n \in Nat DEF ContentLength
<1>3. y # 0 /\ y # HeadEnd
    BY ONLY <1>2, TextIs, y \in Int
<1>4. PICK zero \in Nat : zero = 0
    OBVIOUS
<1>5. k \in Int /\ k > 0
    OBVIOUS
<1>6. /\ b \in Seq(Int) /\ Len(b) = 3 + n + zero
      /\ lq >= 1 => q[1] = Text
      /\ lq >= 2 => q[2] = y
      /\ lq >= 3 => q[3] = HeadEnd
      /\ \A i \in 1 .. n : 3 + i <= lq => q[3 + i] = k
    <2>1. PICK t \in Seq(Int) : t = <<>> /\ zero = Len(t)
        BY ONLY <1>4, EmptySeq
    <2>2. b = (<<Text, y, HeadEnd>> \o Repeat(k, n)) \o t
        <3>1. <<Text, y, HeadEnd>> \in Seq(Int)
            BY ONLY y \in Int, TextIs, Three, Zenon
        <3>2. Repeat(k, n) \in Seq(Int)
            BY ONLY <1>5, n \in Nat, RepeatIs
        <3>3. <<Text, y, HeadEnd>> \o Repeat(k, n) \in Seq(Int)
            BY ONLY <3>1, <3>2, ConcatProperties
        <3>4. (<<Text, y, HeadEnd>> \o Repeat(k, n)) \o <<>> = <<Text, y, HeadEnd>> \o Repeat(k, n)
            BY ONLY <3>3, ConcatEmptySeq
        <3> QED BY ONLY <1>2, <2>1, <3>4,
                        b = <<Text, ContentLength(n), HeadEnd>> \o Repeat(k, n)
    <2>3. ShowsLines(q, b, y, k, n, t)
        BY ONLY <1>5, <2>2, y \in Int, n \in Nat, t \in Seq(Int), q \in Seq(Int),
                Agrees(q, b), ThreeLinesBefore
    <2> QED BY ONLY <1>1, <2>1, <2>3 DEF ShowsLines
<1>7. PICK m \in Nat : m = 3
    OBVIOUS
<1>8. Len(b) = m + n /\ lq <= m + n
    BY ONLY <1>1, <1>4, <1>6, <1>7, n \in Nat, Len(q) <= Len(b)
<1>9. /\ lq < 3 => Http(q) = Wait
      /\ lq >= 3 => Found(q, HeadEnd) # {} /\ Min(Found(q, HeadEnd)) = m
    BY ONLY <1>1, <1>3, <1>6, <1>7, y \in Int, q \in Seq(Int), lq \in Nat, ThreeLines
<1>10. ASSUME lq >= 3
       PROVE  Http(q) = IF Len(q) < m + n THEN Wait
                        ELSE Cut(m + n, None, SubSeq(q, 1, m + n))
    <2>1. DOMAIN q = 1 .. lq
        BY ONLY <1>1, q \in Seq(Int), LenProperties
    <2>2. q[1] = Text /\ q[2] = y /\ q[3] = HeadEnd
        BY ONLY <1>6, <1>10, lq \in Nat
    <2>3. 2 \in HttpSized(q)
        BY ONLY <1>2, <1>10, <2>1, <2>2, TextIs, lq \in Nat DEF HttpSized, Found
    <2>4. ASSUME NEW i \in HttpSized(q) PROVE i = 2
        <3>1. i \in 1 .. lq /\ q[i] <= -10
            BY ONLY <2>1, TextIs, i \in HttpSized(q) DEF HttpSized
        <3>2. CASE i = 1
            BY ONLY <2>2, <3>1, <3>2, TextIs
        <3>3. CASE i = 3
            BY ONLY <2>2, <3>1, <3>3, TextIs
        <3>4. CASE i > 3
            <4>1. PICK j : j = i - 3
                OBVIOUS
            <4>2. j \in 1 .. n /\ 3 + j = i /\ i <= lq
                BY ONLY <1>7, <1>8, <3>1, <3>4, <4>1, n \in Nat, lq \in Nat
            <4>3. q[i] = k
                BY ONLY <1>6, <4>2
            <4> QED BY ONLY <1>5, <3>1, <4>3
        <3> QED BY ONLY <3>1, <3>2, <3>3, <3>4, lq \in Nat
    <2>5. HttpSized(q) = {2}
        BY ONLY <2>3, <2>4
    <2>6. Min(HttpSized(q)) = 2
        <3>1. 2 \in {2} /\ {2} \subseteq Int /\ \A i \in {2} : 2 <= i
            OBVIOUS
        <3> QED BY ONLY <2>5, <3>1, MinIs
    <2>7. HttpSized(q) # {} /\ n = ContentLength(0) - q[Min(HttpSized(q))]
        BY ONLY <1>2, <2>2, <2>3, <2>6, TextIs
    <2> QED BY ONLY <1>9, <1>10, <2>7, HttpIs
<1>11. CASE lq < m + n
    <2>1. Http(q) = Wait
        BY ONLY <1>1, <1>9, <1>10, <1>11, lq \in Nat
    <2>2. Len(q) < Len(b) /\ Len(b) > 0
        BY ONLY <1>1, <1>7, <1>8, <1>11, n \in Nat
    <2> QED BY ONLY <1>6, <2>1, <2>2 DEF Cuts, Wait
<1>12. CASE ~(lq < m + n)
    <2>1. Len(q) = Len(b) /\ m + n = Len(b) /\ ~(Len(q) < Len(b)) /\ lq >= 3 /\ Len(b) > 0
        BY ONLY <1>1, <1>7, <1>8, <1>12, n \in Nat, lq \in Nat
    <2>2. SubSeq(q, 1, Len(b)) = b
        BY ONLY <1>6, <2>1, q \in Seq(Int), Agrees(q, b), WholeIs
    <2>3. Http(q) = Cut(Len(b), None, b)
        BY ONLY <1>10, <2>1, <2>2
    <2> QED BY ONLY <1>6, <2>1, <2>3 DEF Cuts
<1> QED BY ONLY <1>11, <1>12

LEMMA ChunkedCuts ==
    ASSUME NEW k \in Nat \ {0}, NEW n \in Nat, n > 0, NEW q \in Seq(Int), Len(q) > 0,
           NEW b, b = (<<Text, Chunked, HeadEnd>> \o Repeat(k, n)) \o <<ChunkEnd>>,
           Agrees(q, b), Len(q) <= Len(b)
    PROVE  /\ b \in Seq(Int) /\ Len(b) > 0
           /\ Cuts(Http(q), q, b, None, b)
<1>1. PICK lq \in Nat : lq = Len(q) /\ lq > 0
    BY LenProperties
<1>2. PICK y \in Int : y = Chunked /\ y # 0 /\ y # HeadEnd /\ y < 0 /\ y > -10
    BY ONLY TextIs
<1>3. k \in Int /\ k > 0
    OBVIOUS
<1>4. PICK t \in Seq(Int) : t = <<ChunkEnd>> /\ Len(t) = 1 /\ t[1] = ChunkEnd
    BY ONLY TextIs, One
<1>5. /\ b \in Seq(Int) /\ Len(b) = 3 + n + 1
      /\ lq >= 1 => q[1] = Text
      /\ lq >= 2 => q[2] = y
      /\ lq >= 3 => q[3] = HeadEnd
      /\ \A i \in 1 .. n : 3 + i <= lq => q[3 + i] = k
      /\ \A i \in 1 .. 1 : 3 + n + i <= lq => q[3 + n + i] = ChunkEnd
    <2>1. b = (<<Text, y, HeadEnd>> \o Repeat(k, n)) \o t
        BY ONLY <1>2, <1>4,
                b = (<<Text, Chunked, HeadEnd>> \o Repeat(k, n)) \o <<ChunkEnd>>
    <2>2. ShowsLines(q, b, y, k, n, t)
        BY ONLY <1>3, <2>1, y \in Int, n \in Nat, t \in Seq(Int), q \in Seq(Int),
                Agrees(q, b), ThreeLinesBefore
    <2>3. \A i \in 1 .. 1 : t[i] = ChunkEnd
        BY ONLY <1>4
    <2> QED BY ONLY <1>1, <1>4, <2>2, <2>3 DEF ShowsLines
<1>6. PICK m \in Nat : m = 3
    OBVIOUS
<1>7. PICK lens \in Nat : lens = n + 1
    OBVIOUS
<1>8. Len(b) = m + lens /\ lq <= m + lens
    BY ONLY <1>1, <1>5, <1>6, <1>7, n \in Nat, Len(q) <= Len(b)
<1>9. /\ lq < 3 => Http(q) = Wait
      /\ lq >= 3 => Found(q, HeadEnd) # {} /\ Min(Found(q, HeadEnd)) = m
    BY ONLY <1>1, <1>2, <1>5, <1>6, y \in Int, q \in Seq(Int), lq \in Nat, ThreeLines
<1>10. ASSUME NEW i \in 4 .. lq PROVE q[i] = k \/ (q[i] = ChunkEnd /\ i = n + 4)
    <2>1. PICK j : j = i - 3
        OBVIOUS
    <2>2. (j \in 1 .. n /\ 3 + j = i /\ i <= lq) \/ (i = n + 4 /\ 3 + n + 1 = i /\ i <= lq)
        BY ONLY <1>6, <1>7, <1>8, <2>1, i \in 4 .. lq, n \in Nat, lq \in Nat
    <2>3. CASE j \in 1 .. n /\ 3 + j = i /\ i <= lq
        BY ONLY <1>5, <2>3
    <2>4. CASE i = n + 4 /\ 3 + n + 1 = i /\ i <= lq
        <3>1. 1 \in 1 .. 1
            OBVIOUS
        <3> QED BY ONLY <1>5, <2>4, <3>1
    <2> QED BY ONLY <2>2, <2>3, <2>4
<1>11. ASSUME lq >= 3
       PROVE  /\ HttpSized(q) = {} /\ Found(q, Chunked) # {}
    <2>1. DOMAIN q = 1 .. lq
        BY ONLY <1>1, q \in Seq(Int), LenProperties
    <2>2. q[1] = Text /\ q[2] = y /\ q[3] = HeadEnd
        BY ONLY <1>5, <1>11, lq \in Nat
    <2>3. ASSUME NEW i \in 1 .. lq PROVE ~(q[i] <= -10)
        <3>1. i \in {1, 2, 3} \/ i \in 4 .. lq
            BY ONLY i \in 1 .. lq, lq \in Nat
        <3>2. CASE i \in {1, 2, 3}
            BY ONLY <1>2, <2>2, <3>2, TextIs
        <3>3. CASE i \in 4 .. lq
            BY ONLY <1>3, <1>10, <3>3, TextIs
        <3> QED BY ONLY <3>1, <3>2, <3>3
    <2>4. HttpSized(q) = {}
        BY ONLY <2>1, <2>3, TextIs DEF HttpSized
    <2>5. 2 \in 1 .. Len(q) /\ \A i \in 1 .. 2 - 1 : q[i] # 0 /\ q[i] # y
        BY ONLY <1>1, <1>2, <1>11, <2>2, TextIs, lq \in Nat
    <2>6. Found(q, y) # {}
        BY ONLY <2>2, <2>5, y \in Int, q \in Seq(Int), Finds
    <2> QED BY ONLY <1>2, <2>4, <2>6
<1>12. ASSUME lq >= 3
       PROVE  /\ lq < m + lens => Found(SubSeq(q, m + 1, Len(q)), ChunkEnd) = {}
              /\ lq = m + lens => /\ Found(SubSeq(q, m + 1, Len(q)), ChunkEnd) # {}
                                  /\ lens = Min(Found(SubSeq(q, m + 1, Len(q)), ChunkEnd))
    <2>1. PICK body : body = SubSeq(q, m + 1, Len(q))
        OBVIOUS
    <2>2. PICK lb \in Nat : lb = lq - 3
        BY ONLY <1>12, lq \in Nat
    <2>3. body \in Seq(Int) /\ Len(body) = lb /\ \A i \in 1 .. lb : body[i] = q[3 + i]
        <3>1. \A i \in 4 .. lq : q[i] \in Int
            BY ONLY <1>3, <1>10, TextIs
        <3>2. m + 1 = 4
            BY ONLY <1>6
        <3>3. PICK four \in Int : four = 4
            OBVIOUS
        <3>4. /\ SubSeq(q, four, lq) \in Seq(Int)
              /\ Len(SubSeq(q, four, lq)) = IF four <= lq THEN lq - four + 1 ELSE 0
              /\ \A i \in 1 .. lq - four + 1 : SubSeq(q, four, lq)[i] = q[four + i - 1]
            <4>1. \A i \in four .. lq : q[i] \in Int
                BY ONLY <3>1, <3>3
            <4>2. lq \in Int
                BY ONLY lq \in Nat
            <4> QED BY ONLY <4>1, <4>2, four \in Int, SubSeqProperties
        <3>5. body = SubSeq(q, four, lq)
            BY ONLY <1>1, <2>1, <3>2, <3>3
        <3>6. body \in Seq(Int) /\ Len(body) = lb
            BY ONLY <1>12, <2>2, <3>3, <3>4, <3>5, lq \in Nat
        <3>7. ASSUME NEW i \in 1 .. lb PROVE body[i] = q[3 + i]
            <4>1. i \in 1 .. lq - four + 1 /\ four + i - 1 = 3 + i
                BY ONLY <2>2, <3>3, i \in 1 .. lb, lq \in Nat, lb \in Nat
            <4> QED BY ONLY <3>4, <3>5, <4>1
        <3> QED BY ONLY <3>6, <3>7
    <2>4. k # ChunkEnd /\ k # 0
        BY ONLY <1>3, TextIs
    <2>5. ASSUME lq < m + lens PROVE Found(body, ChunkEnd) = {}
        <3>1. \A i \in 1 .. Len(body) : body[i] # ChunkEnd
            <4> TAKE i \in 1 .. Len(body)
            <4>1. i \in 1 .. lb /\ i \in 1 .. n /\ 3 + i <= lq
                BY ONLY <1>6, <1>7, <2>2, <2>3, <2>5, i \in 1 .. Len(body), lq \in Nat, n \in Nat
            <4>2. body[i] = q[3 + i] /\ q[3 + i] = k
                BY ONLY <1>5, <2>3, <4>1
            <4> QED BY ONLY <2>4, <4>2
        <3> QED BY ONLY <2>3, <3>1, TextIs, FindsNone
    <2>6. ASSUME lq = m + lens
          PROVE  Found(body, ChunkEnd) # {} /\ lens = Min(Found(body, ChunkEnd))
        <3>1. lens \in 1 .. Len(body) /\ lens \in 1 .. lb /\ 3 + lens = 3 + n + 1
              /\ 3 + n + 1 <= lq
            BY ONLY <1>6, <1>7, <2>2, <2>3, <2>6, lq \in Nat, n \in Nat
        <3>2. body[lens] = ChunkEnd
            <4>1. 1 \in 1 .. 1
                OBVIOUS
            <4>2. q[3 + n + 1] = ChunkEnd
                BY ONLY <1>5, <3>1, <4>1
            <4> QED BY ONLY <2>3, <3>1, <4>2
        <3>3. \A i \in 1 .. lens - 1 : body[i] # 0 /\ body[i] # ChunkEnd
            <4> TAKE i \in 1 .. lens - 1
            <4>1. i \in 1 .. lb /\ i \in 1 .. n /\ 3 + i <= lq
                BY ONLY <1>6, <1>7, <2>2, <2>6, i \in 1 .. lens - 1, lq \in Nat, n \in Nat
            <4>2. body[i] = q[3 + i] /\ q[3 + i] = k
                BY ONLY <1>5, <2>3, <4>1
            <4> QED BY ONLY <2>4, <4>2
        <3> QED BY ONLY <2>3, <3>1, <3>2, <3>3, TextIs, Finds
    <2> QED BY ONLY <2>1, <2>5, <2>6
<1>13. ASSUME lq >= 3, lq = m + lens
       PROVE  Http(q) = IF Len(q) < m + lens THEN Wait
                        ELSE Cut(m + lens, None, SubSeq(q, 1, m + lens))
    BY ONLY <1>9, <1>11, <1>12, <1>13, HttpIs
<1>14. CASE lq < m + lens
    <2>1. Http(q) = Wait
        <3>1. CASE lq < 3
            BY ONLY <1>9, <3>1
        <3>2. CASE lq >= 3
            <4>1. Found(SubSeq(q, Min(Found(q, HeadEnd)) + 1, Len(q)), ChunkEnd) = {}
                BY ONLY <1>9, <1>12, <1>14, <3>2
            <4> QED BY ONLY <1>11, <3>2, <4>1, HttpIs
        <3> QED BY ONLY <3>1, <3>2, lq \in Nat
    <2>2. Len(q) < Len(b) /\ Len(b) > 0
        BY ONLY <1>1, <1>6, <1>8, <1>14, lens \in Nat
    <2> QED BY ONLY <1>5, <2>1, <2>2 DEF Cuts, Wait
<1>15. CASE ~(lq < m + lens)
    <2>1. /\ lq = m + lens /\ Len(q) = Len(b) /\ m + lens = Len(b)
          /\ ~(Len(q) < Len(b)) /\ lq >= 3 /\ Len(b) > 0
        BY ONLY <1>1, <1>6, <1>8, <1>15, lens \in Nat, lq \in Nat
    <2>2. SubSeq(q, 1, Len(b)) = b
        BY ONLY <1>5, <2>1, q \in Seq(Int), Agrees(q, b), WholeIs
    <2>3. Http(q) = Cut(Len(b), None, b)
        BY ONLY <1>13, <2>1, <2>2
    <2> QED BY ONLY <1>5, <2>1, <2>3 DEF Cuts
<1> QED BY ONLY <1>14, <1>15

----------------------------------------------------------------------------
(* The messages of an ordinary peer                                           *)

LEMMA OrdinaryIs ==
    ASSUME NEW s, Ordinary(s)
    PROVE  /\ Len(s.msgs) \in Nat /\ Len(s.msgs) < Base /\ DOMAIN s.msgs = 1 .. Len(s.msgs)
           /\ s.bLinker \in BOOLEAN /\ s.hello \in {"none", "key", "nokey"}
           /\ s.hello = "none" <=> s.kind # "websock"
           /\ s.kind = "http" => s.patient
           /\ \A k \in 1 .. Len(s.msgs) :
                 /\ s.msgs[k].size \in Nat
                 /\ Fits(s.kind, s.msgs[k])
                 /\ k \in Nat \ {0} /\ k \in 0 .. Base - 1 /\ k \in Int
<1> DEFINE M == [form : STRING, size : Nat]
<1>1. s.msgs \in Seq(M) /\ s.bLinker \in BOOLEAN /\ s.hello \in {"none", "key", "nokey"}
    BY DEF Ordinary
<1>2. PICK n \in Nat : n = Len(s.msgs) /\ DOMAIN s.msgs = 1 .. n
    BY <1>1, LenProperties
<1>3. n < Base
    BY ONLY <1>2, Ordinary(s) DEF Ordinary
<1>4. ASSUME NEW k \in 1 .. n
      PROVE  /\ s.msgs[k].size \in Nat /\ Fits(s.kind, s.msgs[k])
             /\ k \in Nat \ {0} /\ k \in 0 .. Base - 1 /\ k \in Int
    <2>1. s.msgs[k] \in M
        BY ONLY <1>1, <1>2, k \in 1 .. n, ElementOfSeq
    <2>2. s.msgs[k].size \in Nat
        BY ONLY <2>1
    <2>3. Fits(s.kind, s.msgs[k])
        BY ONLY <1>2, k \in 1 .. n, Ordinary(s) DEF Ordinary
    <2>4. k \in Nat \ {0} /\ k \in 0 .. Base - 1 /\ k \in Int
        BY ONLY <1>3, BaseType, k \in 1 .. n, n \in Nat
    <2> QED BY ONLY <2>2, <2>3, <2>4
<1>5. /\ s.hello = "none" <=> s.kind # "websock"
      /\ s.kind = "http" => s.patient
    BY DEF Ordinary
<1> QED BY ONLY <1>1, <1>2, <1>3, <1>4, <1>5

LEMMA Starts ==
    ASSUME NEW x \in Seq(Int), Len(x) > 0, NEW t \in Seq(Int)
    PROVE  x \o t \in Seq(Int) /\ Len(x \o t) > 0
<1>1. PICK m \in Nat : m = Len(x)
    BY LenProperties
<1>2. PICK n \in Nat : n = Len(t)
    BY LenProperties
<1>3. x \o t \in Seq(Int) /\ Len(x \o t) = m + n
    BY ONLY <1>1, <1>2, x \in Seq(Int), t \in Seq(Int), Joined
<1> QED BY <1>1, <1>2, <1>3

\* The bytes of message k of the peer s, and what the scripts are told of it.
BytesOf(s, k) == Bytes(s.kind, k, s.msgs[k])
ContentOf(s, k) == Content(s.kind, k, s.msgs[k])

LEMMA PayloadIs == \A k, m : Payload(k, m) = Repeat(k, m.size)
    BY DEF Payload, Repeat

LEMMA BytesAre ==
    ASSUME NEW s, Ordinary(s), NEW k \in 1 .. Len(s.msgs)
    PROVE  BytesOf(s, k) \in Seq(Int) /\ Len(BytesOf(s, k)) > 0
<1>1. PICK m : m = s.msgs[k]
    OBVIOUS
<1>2. PICK n \in Nat : n = m.size
    BY ONLY <1>1, OrdinaryIs, Ordinary(s), k \in 1 .. Len(s.msgs)
<1>3. Fits(s.kind, m) /\ k \in Int /\ k \in 0 .. Base - 1
    BY ONLY <1>1, OrdinaryIs, Ordinary(s), k \in 1 .. Len(s.msgs)
<1>4. PICK p \in Seq(Int) : p = Repeat(k, n) /\ p = Payload(k, m) /\ Len(p) = n
    BY ONLY <1>2, <1>3, RepeatIs, PayloadIs
<1>5. PICK b : b = BytesOf(s, k)
    OBVIOUS
<1>6. b = Bytes(s.kind, k, m)
    BY ONLY <1>1, <1>5 DEF BytesOf
<1>7. CASE s.kind = "tcp1"
    <2>1. b = Tcp1Head(n) \o p
        BY ONLY <1>2, <1>4, <1>6, <1>7 DEF Bytes
    <2>2. FitsIn(n, 4)
        BY ONLY <1>2, <1>3, <1>7 DEF Fits
    <2>3. PICK x \in 0 .. Half - 1, d \in Seq(Int) : Tcp1Head(n) = <<x>> \o d
        BY ONLY <2>2, n \in Nat, Tcp1HeadIs
    <2>4. x \in Int
        BY ONLY BaseType, x \in 0 .. Half - 1
    <2>5. <<x>> \in Seq(Int) /\ Len(<<x>>) > 0
        BY ONLY <2>4, One
    <2>6. <<x>> \o d \in Seq(Int) /\ Len(<<x>> \o d) > 0
        BY ONLY <2>5, d \in Seq(Int), Starts
    <2> QED BY ONLY <1>5, <2>1, <2>3, <2>6, p \in Seq(Int), Starts
<1>8. CASE s.kind = "tcp2"
    <2>1. b = Digits(n, 2) \o p
        BY ONLY <1>2, <1>4, <1>6, <1>8 DEF Bytes
    <2>2. FitsIn(n, 2)
        BY ONLY <1>2, <1>3, <1>8 DEF Fits
    <2>3. Digits(n, 2) \in Seq(0 .. Base - 1) /\ Len(Digits(n, 2)) = 2
        BY ONLY <2>2, n \in Nat, 2 \in Nat, RoundTrip
    <2>4. Digits(n, 2) \in Seq(Int) /\ Len(Digits(n, 2)) > 0
        <3>1. Digits(n, 2) \in Seq(Int)
            BY ONLY <2>3, BaseType, SeqMonotonic, 0 .. Base - 1 \subseteq Int
        <3>2. 2 > 0
            OBVIOUS
        <3> QED BY ONLY <2>3, <3>1, <3>2
    <2> QED BY ONLY <1>5, <2>1, <2>4, p \in Seq(Int), Starts
<1>9. CASE s.kind = "mqtt"
    <2>1. b = (<<k>> \o MqttLength(n)) \o p
        BY ONLY <1>2, <1>4, <1>6, <1>9 DEF Bytes
    <2>2. n \in Nat
        OBVIOUS
    <2>3. MqttLength(n) \in Seq(Int)
        <3>1. PICK c, r : MqttField(n, c, MqttLength(n), r)
            BY ONLY <2>2, MqttLengthIs
        <3> QED BY ONLY <3>1 DEF MqttField
    <2>4. <<k>> \in Seq(Int) /\ Len(<<k>>) > 0
        BY ONLY <1>3, One
    <2>5. <<k>> \o MqttLength(n) \in Seq(Int) /\ Len(<<k>> \o MqttLength(n)) > 0
        BY ONLY <2>3, <2>4, Starts
    <2> QED BY ONLY <1>5, <2>1, <2>5, p \in Seq(Int), Starts
<1>10. CASE s.kind = "websock"
    <2>1. m.form = "masked" /\ FitsIn(n, 8)
        BY ONLY <1>2, <1>3, <1>10 DEF Fits
    <2>2. b = MaskedHead(k, n) \o Repeat(Mask(k), n)
        BY ONLY <1>2, <1>6, <1>10, <2>1 DEF Bytes, Masked, MaskedHead, Repeat
    <2>3. PICK d \in Seq(Int) : /\ MaskedHead(k, n) \in Seq(Int)
                                /\ Len(MaskedHead(k, n)) = Len(d) + 6
        BY ONLY <1>3, <2>1, n \in Nat, MaskedHeadIs
    <2>4. Len(MaskedHead(k, n)) > 0
        BY ONLY <2>3, d \in Seq(Int), LenProperties
    <2>5. Repeat(Mask(k), n) \in Seq(Int)
        BY ONLY <1>3, n \in Nat, MaskTwice, RepeatIs
    <2> QED BY ONLY <1>5, <2>2, <2>3, <2>4, <2>5, Starts
<1>11. CASE s.kind = "http"
    <2>1. /\ <<Text, HeadEnd>> \in Seq(Int) /\ Len(<<Text, HeadEnd>>) > 0
          /\ <<Text, Chunked, HeadEnd>> \in Seq(Int) /\ Len(<<Text, Chunked, HeadEnd>>) > 0
          /\ <<Text, ContentLength(n), HeadEnd>> \in Seq(Int)
          /\ Len(<<Text, ContentLength(n), HeadEnd>>) > 0
          /\ <<ChunkEnd>> \in Seq(Int)
        <3>1. ContentLength(n) \in Int
            BY DEF ContentLength
        <3> QED BY ONLY <3>1, TextIs
    <2>2. CASE m.form = "plain"
        <3>1. b = <<Text, HeadEnd>>
            BY ONLY <1>6, <1>11, <2>2 DEF Bytes
        <3> QED BY ONLY <1>5, <2>1, <3>1
    <2>3. CASE m.form = "sized"
        <3>1. b = <<Text, ContentLength(n), HeadEnd>> \o p
            BY ONLY <1>2, <1>4, <1>6, <1>11, <2>3 DEF Bytes
        <3> QED BY ONLY <1>5, <2>1, <3>1, p \in Seq(Int), Starts
    <2>4. CASE m.form = "chunked" /\ n > 0
        <3>1. b = (<<Text, Chunked, HeadEnd>> \o p) \o <<ChunkEnd>>
            BY ONLY <1>2, <1>4, <1>6, <1>11, <2>4 DEF Bytes
        <3>2. /\ <<Text, Chunked, HeadEnd>> \o p \in Seq(Int)
              /\ Len(<<Text, Chunked, HeadEnd>> \o p) > 0
            BY ONLY <2>1, p \in Seq(Int), Starts
        <3> QED BY ONLY <1>5, <2>1, <3>1, <3>2, Starts
    <2> QED BY ONLY <1>2, <1>3, <1>11, <2>2, <2>3, <2>4 DEF Fits
<1>12. CASE s.kind = "default"
    <2>1. b = p /\ n = 1
        BY ONLY <1>2, <1>3, <1>4, <1>6, <1>12 DEF Bytes, Fits
    <2> QED BY ONLY <1>4, <1>5, <2>1
<1> QED BY ONLY <1>3, <1>7, <1>8, <1>9, <1>10, <1>11, <1>12 DEF Fits

\* parsePack after the handshake.
ParserOf(kind, q) ==
    CASE kind = "tcp1" -> Tcp1(q)
      [] kind = "tcp2" -> Tcp2(q)
      [] kind = "mqtt" -> Mqtt(q)
      [] kind = "http" -> Http(q)
      [] kind = "default" -> Default(q)
      [] OTHER -> WebSock(q)

LEMMA MessageCuts ==
    ASSUME NEW s, Ordinary(s), NEW k \in 1 .. Len(s.msgs), s.kind # "default",
           NEW q \in Seq(Int), Len(q) > 0, Agrees(q, BytesOf(s, k)),
           s.kind = "http" => Len(q) <= Len(BytesOf(s, k))
    PROVE  Cuts(ParserOf(s.kind, q), q, BytesOf(s, k),
                ContentOf(s, k).op, ContentOf(s, k).data)
<1>1. PICK m : m = s.msgs[k]
    OBVIOUS
<1>2. PICK n \in Nat : n = m.size
    BY ONLY <1>1, OrdinaryIs, Ordinary(s), k \in 1 .. Len(s.msgs)
<1>3. Fits(s.kind, m) /\ k \in Int /\ k \in 0 .. Base - 1 /\ k \in Nat \ {0}
    BY ONLY <1>1, OrdinaryIs, Ordinary(s), k \in 1 .. Len(s.msgs)
<1>4. PICK p : p = Repeat(k, n) /\ p = Payload(k, m)
    BY ONLY <1>2, PayloadIs
<1>5. PICK b : b = BytesOf(s, k)
    OBVIOUS
<1>6. b = Bytes(s.kind, k, m) /\ Agrees(q, b)
    BY ONLY <1>1, <1>5, Agrees(q, BytesOf(s, k)) DEF BytesOf
<1>7. PICK c : c = ContentOf(s, k)
    OBVIOUS
<1>8. c = Content(s.kind, k, m)
    BY ONLY <1>1, <1>7 DEF ContentOf
<1>9. CASE s.kind = "tcp1"
    <2>1. b = Tcp1Head(n) \o Repeat(k, n) /\ c.op = None /\ c.data = Repeat(k, n)
        BY ONLY <1>2, <1>4, <1>6, <1>8, <1>9 DEF Bytes, Content
    <2>2. FitsIn(n, 4)
        BY ONLY <1>2, <1>3, <1>9 DEF Fits
    <2>3. Cuts(Tcp1(q), q, b, None, Repeat(k, n))
        BY ONLY <1>3, <1>6, <2>1, <2>2, n \in Nat, q \in Seq(Int), Len(q) > 0, Tcp1Cuts
    <2>4. ParserOf(s.kind, q) = Tcp1(q)
        BY ONLY <1>9 DEF ParserOf
    <2> QED BY ONLY <1>5, <1>7, <2>1, <2>3, <2>4
<1>10. CASE s.kind = "tcp2"
    <2>1. b = Digits(n, 2) \o Repeat(k, n) /\ c.op = None /\ c.data = Repeat(k, n)
        BY ONLY <1>2, <1>4, <1>6, <1>8, <1>10 DEF Bytes, Content
    <2>2. FitsIn(n, 2)
        BY ONLY <1>2, <1>3, <1>10 DEF Fits
    <2>3. Cuts(Tcp2(q), q, b, None, Repeat(k, n))
        BY ONLY <1>3, <1>6, <2>1, <2>2, n \in Nat, q \in Seq(Int), Tcp2Cuts
    <2>4. ParserOf(s.kind, q) = Tcp2(q)
        BY ONLY <1>10 DEF ParserOf
    <2> QED BY ONLY <1>5, <1>7, <2>1, <2>3, <2>4
<1>11. CASE s.kind = "mqtt"
    <2>1. b = (<<k>> \o MqttLength(n)) \o Repeat(k, n) /\ c.op = k /\ c.data = Repeat(k, n)
        BY ONLY <1>2, <1>4, <1>6, <1>8, <1>11 DEF Bytes, Content
    <2>2. n \in Nat \ {0}
        BY ONLY <1>2, <1>3, <1>11, n \in Nat DEF Fits
    <2>3. Cuts(Mqtt(q), q, b, k, Repeat(k, n))
        BY ONLY <1>3, <1>6, <2>1, <2>2, q \in Seq(Int), Len(q) > 0, MqttCuts
    <2>4. ParserOf(s.kind, q) = Mqtt(q)
        BY ONLY <1>11 DEF ParserOf
    <2> QED BY ONLY <1>5, <1>7, <2>1, <2>3, <2>4
<1>12. CASE s.kind = "websock"
    <2>1. m.form = "masked" /\ FitsIn(n, 8)
        BY ONLY <1>2, <1>3, <1>12 DEF Fits
    <2>2. b = MaskedHead(k, n) \o Repeat(Mask(k), n)
        BY ONLY <1>2, <1>6, <1>12, <2>1 DEF Bytes, Masked, MaskedHead, Repeat
    <2>3. c.op = k /\ c.data = Repeat(k, n)
        BY ONLY <1>4, <1>8, <1>12 DEF Content
    <2>4. Cuts(WebSock(q), q, b, k, Repeat(k, n))
        BY ONLY <1>3, <1>6, <2>1, <2>2, n \in Nat, q \in Seq(Int), Len(q) > 0, WebSockCuts
    <2>5. ParserOf(s.kind, q) = WebSock(q)
        BY ONLY <1>12 DEF ParserOf
    <2> QED BY ONLY <1>5, <1>7, <2>3, <2>4, <2>5
<1>13. CASE s.kind = "http"
    <2>1. c.op = None /\ c.data = b
        BY ONLY <1>6, <1>8, <1>13 DEF Content
    <2>2. Len(q) <= Len(b)
        BY ONLY <1>5, <1>13, s.kind = "http" => Len(q) <= Len(BytesOf(s, k))
    <2>3. ParserOf(s.kind, q) = Http(q)
        BY ONLY <1>13 DEF ParserOf
    <2>4. CASE m.form = "plain"
        <3>1. b = <<Text, HeadEnd>>
            BY ONLY <1>6, <1>13, <2>4 DEF Bytes
        <3>2. Cuts(Http(q), q, b, None, b)
            BY ONLY <1>6, <2>2, <3>1, q \in Seq(Int), Len(q) > 0, PlainCuts
        <3> QED BY ONLY <1>5, <1>7, <2>1, <2>3, <3>2
    <2>5. CASE m.form = "sized"
        <3>1. b = <<Text, ContentLength(n), HeadEnd>> \o Repeat(k, n)
            BY ONLY <1>2, <1>4, <1>6, <1>13, <2>5 DEF Bytes
        <3>2. Cuts(Http(q), q, b, None, b)
            BY ONLY <1>3, <1>6, <2>2, <3>1, n \in Nat, q \in Seq(Int), Len(q) > 0, SizedCuts
        <3> QED BY ONLY <1>5, <1>7, <2>1, <2>3, <3>2
    <2>6. CASE m.form = "chunked" /\ n > 0
        <3>1. b = (<<Text, Chunked, HeadEnd>> \o Repeat(k, n)) \o <<ChunkEnd>>
            BY ONLY <1>2, <1>4, <1>6, <1>13, <2>6 DEF Bytes
        <3>2. Cuts(Http(q), q, b, None, b)
            BY ONLY <1>3, <1>6, <2>2, <2>6, <3>1, n \in Nat, q \in Seq(Int), Len(q) > 0,
                    ChunkedCuts
        <3> QED BY ONLY <1>5, <1>7, <2>1, <2>3, <3>2
    <2> QED BY ONLY <1>2, <1>3, <1>13, <2>4, <2>5, <2>6 DEF Fits
<1> QED BY ONLY <1>3, <1>9, <1>10, <1>11, <1>12, <1>13, s.kind # "default" DEF Fits

----------------------------------------------------------------------------
(* What a peer sends                                                          *)

LEMMA HelloIs ==
    ASSUME NEW s, Ordinary(s)
    PROVE  /\ Hello(s) \in Seq(Int)
           /\ s.kind # "websock" => Hello(s) = <<>> /\ s.hello = "none"
           /\ s.kind = "websock" => /\ Hello(s) \in {KeyHello, BareHello}
                                    /\ Hello(s) = KeyHello <=> s.hello # "nokey"
                                    /\ Len(Hello(s)) > 0
<1>1. s.hello \in {"none", "key", "nokey"} /\ (s.hello = "none" <=> s.kind # "websock")
    BY ONLY OrdinaryIs, Ordinary(s)
<1>2. /\ KeyHello \in Seq(Int) /\ Len(KeyHello) = 3
      /\ BareHello \in Seq(Int) /\ Len(BareHello) = 2
    BY ONLY TRUE DEF KeyHello, BareHello, Text, Key, HeadEnd
<1>3. KeyHello # BareHello
    <2>1. ASSUME KeyHello = BareHello PROVE FALSE
        <3>1. Len(KeyHello) = Len(BareHello)
            BY ONLY <2>1, Zenon
        <3>2. 3 = 2
            BY ONLY <1>2, <3>1, Zenon
        <3> QED BY ONLY <3>2
    <2> QED BY ONLY <2>1, Zenon
<1>4. CASE s.hello = "none"
    <2>1. Hello(s) = <<>>
        BY ONLY <1>4 DEF Hello
    <2> QED BY ONLY <1>1, <1>4, <2>1, EmptySeq
<1>5. CASE s.hello = "key"
    <2>1. Hello(s) = KeyHello
        BY ONLY <1>5 DEF Hello, KeyHello
    <2> QED BY ONLY <1>1, <1>2, <1>5, <2>1
<1>6. CASE s.hello = "nokey"
    <2>1. Hello(s) = BareHello
        BY ONLY <1>6 DEF Hello, BareHello
    <2>2. s.hello # "none" /\ s.kind = "websock" /\ Len(BareHello) > 0
        BY ONLY <1>1, <1>2, <1>6
    <2> QED BY ONLY <1>2, <1>3, <1>6, <2>1, <2>2, Zenon
<1> QED BY ONLY <1>1, <1>4, <1>5, <1>6

LEMMA WireIs ==
    ASSUME NEW s, Ordinary(s), NEW n \in Nat, n = Len(s.msgs)
    PROVE  /\ Wire(s, 0) = Hello(s)
           /\ \A k \in 1 .. n : Wire(s, k) = Wire(s, k - 1) \o BytesOf(s, k)
           /\ \A k \in 0 .. n : Wire(s, k) \in Seq(Int)
<1>1. \A k \in 1 .. n : BytesOf(s, k) \in Seq(Int)
    BY ONLY BytesAre, Ordinary(s), n = Len(s.msgs)
<1>2. Hello(s) \in Seq(Int)
    BY ONLY HelloIs, Ordinary(s)
<1> DEFINE h == [k \in 1 .. n |-> [x \in Seq(Int) |-> x \o BytesOf(s, k)]]
<1>3. h \in Steps(n, Seq(Int))
    <2>1. \A k \in 1 .. n : \A x \in Seq(Int) : x \o BytesOf(s, k) \in Seq(Int)
        BY ONLY <1>1, ConcatProperties
    <2> QED BY ONLY <2>1, n \in Nat DEF Steps
<1>4. \E g : Follows(g, n, Seq(Int), Hello(s), h)
    BY ONLY <1>2, <1>3, n \in Nat, Recursion
<1>5. PICK g : Follows(g, n, Seq(Int), Hello(s), h)
    BY <1>4
<1>6. g \in [0 .. n -> Seq(Int)] /\ g[0] = Hello(s) /\ \A k \in 1 .. n : g[k] = h[k][g[k - 1]]
    BY ONLY <1>5 DEF Follows
<1>7. \A k \in 1 .. n : g[k] = g[k - 1] \o BytesOf(s, k)
    <2>1. \A k \in 1 .. n : k - 1 \in 0 .. n
        BY ONLY n \in Nat
    <2>2. \A k \in 1 .. n : g[k - 1] \in Seq(Int)
        BY ONLY <1>6, <2>1
    <2> QED BY ONLY <1>6, <2>2
<1> HIDE DEF h
<1>0. 0 \in 0 .. n /\ \A k \in 0 .. n : k # 0 => k \in 1 .. n
    BY ONLY n \in Nat
<1>01. \A k \in 1 .. n : k \in 0 .. n /\ k # 0
    BY ONLY n \in Nat
<1>8. g = [k \in 0 .. n |-> IF k = 0 THEN Hello(s) ELSE g[k - 1] \o BytesOf(s, k)]
    BY ONLY <1>0, <1>6, <1>7, Zenon
<1> DEFINE sent == CHOOSE f : f = [k \in 0 .. n |->
                                IF k = 0 THEN Hello(s) ELSE f[k - 1] \o BytesOf(s, k)]
<1>9. sent = [k \in 0 .. n |-> IF k = 0 THEN Hello(s) ELSE sent[k - 1] \o BytesOf(s, k)]
    BY ONLY <1>8
<1>10. \A k : Wire(s, k) = sent[k]
    BY ONLY n = Len(s.msgs) DEF Wire, BytesOf
<1> HIDE DEF sent
<1>11. sent[0] = Hello(s) /\ \A k \in 1 .. n : sent[k] = sent[k - 1] \o BytesOf(s, k)
    BY ONLY <1>0, <1>01, <1>9, Zenon
<1> DEFINE S == {k \in 0 .. n : sent[k] \in Seq(Int)}
<1>12. \A k \in 0 .. n : k \in S
    <2>1. 0 \in S
        BY ONLY <1>2, <1>11, n \in Nat
    <2>2. ASSUME NEW k \in 1 .. n, k - 1 \in S
          PROVE  k \in S
        <3>1. sent[k - 1] \in Seq(Int) /\ BytesOf(s, k) \in Seq(Int)
            BY ONLY <1>1, <2>2, k \in 1 .. n
        <3>2. sent[k - 1] \o BytesOf(s, k) \in Seq(Int)
            BY ONLY <3>1, ConcatProperties
        <3> QED BY ONLY <1>01, <1>11, <3>2, k \in 1 .. n, Zenon
    <2> HIDE DEF S
    <2> QED BY ONLY <2>1, <2>2, n \in Nat, UpTo
<1> QED BY ONLY <1>10, <1>11, <1>12

\* Where message k is, and what is before it.
LEMMA WireGrows ==
    ASSUME NEW s, Ordinary(s), NEW n \in Nat, n = Len(s.msgs), NEW k \in 1 .. n
    PROVE  /\ Len(Wire(s, k - 1)) \in Nat /\ Len(Wire(s, k)) \in Nat
           /\ Len(Wire(s, k)) = Len(Wire(s, k - 1)) + Len(BytesOf(s, k))
           /\ Len(Wire(s, k - 1)) < Len(Wire(s, k))
           /\ \A i \in 1 .. Len(Wire(s, k - 1)) : Wire(s, k)[i] = Wire(s, k - 1)[i]
           /\ \A i \in 1 .. Len(BytesOf(s, k)) :
                 Wire(s, k)[Len(Wire(s, k - 1)) + i] = BytesOf(s, k)[i]
<1>1. k - 1 \in 0 .. n /\ k \in 0 .. n
    BY ONLY n \in Nat, k \in 1 .. n
<1>2. PICK x : x = Wire(s, k - 1)
    OBVIOUS
<1>3. PICK b : b = BytesOf(s, k)
    OBVIOUS
<1>4. x \in Seq(Int) /\ Wire(s, k) = x \o b
    BY ONLY <1>1, <1>2, <1>3, WireIs, Ordinary(s), n \in Nat, n = Len(s.msgs), k \in 1 .. n
<1>5. b \in Seq(Int) /\ Len(b) > 0
    BY ONLY <1>3, BytesAre, Ordinary(s), n = Len(s.msgs), k \in 1 .. n
<1>6. PICK lx \in Nat : lx = Len(x)
    BY ONLY <1>4, LenProperties
<1>7. PICK lb \in Nat : lb = Len(b)
    BY ONLY <1>5, LenProperties
<1>8. /\ Len(x \o b) = lx + lb
      /\ \A i \in 1 .. lx : (x \o b)[i] = x[i]
      /\ \A i \in 1 .. lb : (x \o b)[lx + i] = b[i]
    BY ONLY <1>4, <1>5, <1>6, <1>7, lx \in Nat, lb \in Nat, Joined
<1>9. lb > 0
    BY ONLY <1>5, <1>7
<1>10. PICK y : y = x \o b
    OBVIOUS
<1>11. Len(y) = lx + lb /\ (\A i \in 1 .. lx : y[i] = x[i])
          /\ (\A i \in 1 .. lb : y[lx + i] = b[i])
    BY ONLY <1>8, <1>10
<1>12. Wire(s, k) = y
    BY ONLY <1>4, <1>10
<1> QED BY ONLY <1>2, <1>3, <1>6, <1>7, <1>9, <1>11, <1>12, lx \in Nat, lb \in Nat

\* What is sent up to message k begins what is sent in all.
LEMMA WireStarts ==
    ASSUME NEW s, Ordinary(s), NEW n \in Nat, n = Len(s.msgs), NEW k \in 0 .. n
    PROVE  \A m \in k .. n :
              /\ Len(Wire(s, m)) \in Nat
              /\ Len(Wire(s, k)) + (m - k) <= Len(Wire(s, m))
              /\ \A i \in 1 .. Len(Wire(s, k)) : Wire(s, m)[i] = Wire(s, k)[i]
<1> DEFINE Good(m) == /\ Len(Wire(s, m)) \in Nat
                      /\ Len(Wire(s, k)) + (m - k) <= Len(Wire(s, m))
                      /\ \A i \in 1 .. Len(Wire(s, k)) : Wire(s, m)[i] = Wire(s, k)[i]
           S == {j \in 0 .. n - k : Good(k + j)}
<1>1. 0 \in S
    <2>1. Wire(s, k) \in Seq(Int)
        BY ONLY WireIs, Ordinary(s), n \in Nat, n = Len(s.msgs), k \in 0 .. n
    <2>2. Len(Wire(s, k)) \in Nat
        BY ONLY <2>1, LenProperties
    <2>3. k + 0 = k /\ k - k = 0 /\ 0 \in 0 .. n - k
        BY ONLY k \in 0 .. n, n \in Nat
    <2>4. Good(k)
        BY ONLY <2>2, <2>3
    <2> QED BY ONLY <2>3, <2>4, Zenon
<1>2. ASSUME NEW j \in 1 .. n - k, j - 1 \in S PROVE j \in S
    <2>1. PICK m \in 1 .. n : m = k + j
        BY ONLY j \in 1 .. n - k, k \in 0 .. n, n \in Nat
    <2>2. m - 1 = k + (j - 1) /\ m - k = j /\ (m - 1) - k = j - 1 /\ j \in 0 .. n - k /\ j \in Int
        BY ONLY <2>1, j \in 1 .. n - k, k \in 0 .. n, n \in Nat
    <2>3. Good(m - 1)
        BY ONLY <1>2, <2>2, Zenon
    <2>4. PICK w : w = Wire(s, k)
        OBVIOUS
    <2>5. PICK x : x = Wire(s, m - 1)
        OBVIOUS
    <2>6. PICK y : y = Wire(s, m)
        OBVIOUS
    <2>7. /\ Len(x) \in Nat /\ Len(y) \in Nat /\ Len(x) < Len(y)
          /\ \A i \in 1 .. Len(x) : y[i] = x[i]
        BY ONLY <2>5, <2>6, WireGrows, Ordinary(s), n \in Nat, n = Len(s.msgs), m \in 1 .. n
    <2>8. /\ Len(w) + (j - 1) <= Len(x)
          /\ \A i \in 1 .. Len(w) : x[i] = w[i]
        BY ONLY <2>2, <2>3, <2>4, <2>5
    <2>9. Len(w) \in Nat
        <3>1. w \in Seq(Int)
            BY ONLY <2>4, WireIs, Ordinary(s), n \in Nat, n = Len(s.msgs), k \in 0 .. n
        <3> QED BY ONLY <3>1, LenProperties
    <2>10. Len(w) + j <= Len(y) /\ \A i \in 1 .. Len(w) : y[i] = w[i]
        BY ONLY <2>7, <2>8, <2>9, j \in 1 .. n - k, k \in 0 .. n, n \in Nat
    <2>11. Good(m)
        BY ONLY <2>2, <2>4, <2>6, <2>7, <2>10
    <2> QED BY ONLY <2>1, <2>2, <2>11, Zenon
<1> HIDE DEF S
<1>3. \A j \in 0 .. n - k : j \in S
    <2>1. n - k \in Nat
        BY ONLY n \in Nat, k \in 0 .. n
    <2> QED BY ONLY <1>1, <1>2, <2>1, UpTo
<1>4. ASSUME NEW m \in k .. n PROVE Good(m)
    <2>1. m - k \in 0 .. n - k /\ k + (m - k) = m
        BY ONLY m \in k .. n, k \in 0 .. n, n \in Nat
    <2> QED BY ONLY <1>3, <2>1, Zenon DEF S
<1> QED BY ONLY <1>4

----------------------------------------------------------------------------
(* What the scripts are to be told                                            *)

Record == [op : Int, data : Seq(Int)]

LEMMA ContentIs ==
    ASSUME NEW s, Ordinary(s), NEW k \in 1 .. Len(s.msgs)
    PROVE  /\ ContentOf(s, k) \in Record
           /\ s.kind = "default" => /\ ContentOf(s, k).data = BytesOf(s, k)
                                    /\ Len(BytesOf(s, k)) = 1
<1>1. PICK m : m = s.msgs[k]
    OBVIOUS
<1>2. PICK n \in Nat : n = m.size
    BY ONLY <1>1, OrdinaryIs, Ordinary(s), k \in 1 .. Len(s.msgs)
<1>3. k \in Int /\ Fits(s.kind, m)
    BY ONLY <1>1, OrdinaryIs, Ordinary(s), k \in 1 .. Len(s.msgs)
<1>4. PICK p : p = Payload(k, m) /\ p = Repeat(k, n)
    BY ONLY <1>2, PayloadIs
<1>5. p \in Seq(Int) /\ Len(p) = n
    BY ONLY <1>3, <1>4, n \in Nat, RepeatIs
<1>6. PICK b : b = BytesOf(s, k)
    OBVIOUS
<1>7. b = Bytes(s.kind, k, m) /\ b \in Seq(Int)
    BY ONLY <1>1, <1>6, BytesAre, Ordinary(s), k \in 1 .. Len(s.msgs) DEF BytesOf
<1>8. ContentOf(s, k) = Content(s.kind, k, m)
    BY ONLY <1>1 DEF ContentOf
<1>9. \A op \in Int, data \in Seq(Int) : [op |-> op, data |-> data] \in Record
    BY ONLY TRUE DEF Record
<1>10. None \in Int
    BY DEF None
<1>11. CASE s.kind \in {"mqtt", "websock"}
    <2>1. Content(s.kind, k, m) = [op |-> k, data |-> p] /\ s.kind # "default"
        BY ONLY <1>4, <1>11 DEF Content
    <2> QED BY ONLY <1>3, <1>5, <1>8, <1>9, <2>1, Zenon
<1>12. CASE s.kind = "http"
    <2>1. Content(s.kind, k, m) = [op |-> None, data |-> b] /\ s.kind # "default"
        BY ONLY <1>7, <1>12 DEF Content
    <2> QED BY ONLY <1>7, <1>8, <1>9, <1>10, <2>1, Zenon
<1>13. CASE s.kind \notin {"mqtt", "websock", "http"}
    <2>1. Content(s.kind, k, m) = [op |-> None, data |-> p]
        BY ONLY <1>4, <1>13 DEF Content
    <2>2. s.kind = "default" => b = p /\ n = 1
        BY ONLY <1>2, <1>3, <1>4, <1>7 DEF Bytes, Fits
    <2>3. ContentOf(s, k).data = p
        BY ONLY <1>8, <2>1
    <2>4. ContentOf(s, k) \in Record
        BY ONLY <1>5, <1>8, <1>9, <1>10, <2>1, Zenon
    <2>5. s.kind = "default" => Len(b) = 1
        BY ONLY <1>5, <2>2
    <2> QED BY ONLY <1>6, <2>2, <2>3, <2>4, <2>5, Zenon
<1> QED BY ONLY <1>11, <1>12, <1>13

LEMMA TellIs ==
    ASSUME NEW x \in Seq(Record), NEW m \in Record
    PROVE  Tell(x, m) \in Seq(Record)
<1>1. Append(x, m) \in Seq(Record)
    BY ONLY x \in Seq(Record), m \in Record, AppendProperties
<1>2. Tell(x, m) = x \/ Tell(x, m) = Append(x, m)
    BY ONLY TRUE, Zenon DEF Tell
<1> QED BY ONLY <1>1, <1>2, x \in Seq(Record), Zenon

LEMMA ExpectedIs ==
    ASSUME Ordinary(stream), NEW n \in Nat, n = Len(stream.msgs)
    PROVE  /\ Expected(0) = <<>>
           /\ \A k \in 1 .. n : Expected(k) = Tell(Expected(k - 1), ContentOf(stream, k))
           /\ \A k \in 0 .. n : Expected(k) \in Seq(Record)
<1>1. \A k \in 1 .. n : ContentOf(stream, k) \in Record
    BY ONLY ContentIs, Ordinary(stream), n = Len(stream.msgs)
<1>2. <<>> \in Seq(Record)
    BY ONLY EmptySeq
<1> DEFINE h == [k \in 1 .. n |-> [x \in Seq(Record) |-> Tell(x, ContentOf(stream, k))]]
<1>3. h \in Steps(n, Seq(Record))
    <2>1. \A k \in 1 .. n : \A x \in Seq(Record) :
             Tell(x, ContentOf(stream, k)) \in Seq(Record)
        BY ONLY <1>1, TellIs
    <2> QED BY ONLY <2>1, n \in Nat DEF Steps
<1>4. \E g : Follows(g, n, Seq(Record), <<>>, h)
    BY ONLY <1>2, <1>3, n \in Nat, Recursion
<1>5. PICK g : Follows(g, n, Seq(Record), <<>>, h)
    BY <1>4
<1>6. /\ g \in [0 .. n -> Seq(Record)] /\ g[0] = <<>>
      /\ \A k \in 1 .. n : g[k] = h[k][g[k - 1]]
    BY ONLY <1>5 DEF Follows
<1>7. \A k \in 1 .. n : g[k] = Tell(g[k - 1], ContentOf(stream, k))
    <2>1. \A k \in 1 .. n : k - 1 \in 0 .. n
        BY ONLY n \in Nat
    <2>2. \A k \in 1 .. n : g[k - 1] \in Seq(Record)
        BY ONLY <1>6, <2>1
    <2> QED BY ONLY <1>6, <2>2
<1> HIDE DEF h
<1>8. 0 \in 0 .. n /\ (\A k \in 0 .. n : k # 0 => k \in 1 .. n)
    BY ONLY n \in Nat
<1>9. \A k \in 1 .. n : k \in 0 .. n /\ k # 0
    BY ONLY n \in Nat
<1>10. g = [k \in 0 .. n |-> IF k = 0 THEN <<>> ELSE Tell(g[k - 1], ContentOf(stream, k))]
    BY ONLY <1>6, <1>7, <1>8, Zenon
<1> DEFINE told == CHOOSE f : f = [k \in 0 .. n |->
                        IF k = 0 THEN <<>> ELSE Tell(f[k - 1], ContentOf(stream, k))]
<1>11. told = [k \in 0 .. n |->
                  IF k = 0 THEN <<>> ELSE Tell(told[k - 1], ContentOf(stream, k))]
    BY ONLY <1>10
<1>12. \A k : Expected(k) = told[k]
    BY ONLY n = Len(stream.msgs) DEF Expected, ContentOf
<1> HIDE DEF told
<1>13. told[0] = <<>> /\ \A k \in 1 .. n : told[k] = Tell(told[k - 1], ContentOf(stream, k))
    BY ONLY <1>8, <1>9, <1>11, Zenon
<1> DEFINE S == {k \in 0 .. n : told[k] \in Seq(Record)}
<1>14. \A k \in 0 .. n : k \in S
    <2>1. 0 \in S
        BY ONLY <1>2, <1>8, <1>13, Zenon
    <2>2. ASSUME NEW k \in 1 .. n, k - 1 \in S
          PROVE  k \in S
        <3>1. told[k - 1] \in Seq(Record) /\ ContentOf(stream, k) \in Record
            BY ONLY <1>1, <2>2, k \in 1 .. n, Zenon
        <3>2. Tell(told[k - 1], ContentOf(stream, k)) \in Seq(Record)
            BY ONLY <3>1, TellIs
        <3> QED BY ONLY <1>9, <1>13, <3>2, k \in 1 .. n, Zenon
    <2> HIDE DEF S
    <2> QED BY ONLY <2>1, <2>2, n \in Nat, UpTo
<1> QED BY ONLY <1>12, <1>13, <1>14, Zenon

----------------------------------------------------------------------------
(* The pieces that "default" hands on, put together                           *)

Pieces(ms) == FlattenSeq([k \in DOMAIN ms |-> ms[k].data])

\* The pieces up to each place.
Sums(ms, n, f) ==
    /\ f \in [0 .. n -> Seq(Int)] /\ f[0] = <<>>
    /\ \A k \in 1 .. n : f[k] = f[k - 1] \o ms[k].data

LEMMA PiecesAre ==
    ASSUME NEW ms \in Seq(Record), NEW n \in Nat, n = Len(ms)
    PROVE  \E f : Sums(ms, n, f) /\ Pieces(ms) = f[n]
<1>1. \A k \in 1 .. n : ms[k].data \in Seq(Int)
    <2>1. \A k \in 1 .. n : ms[k] \in Record
        BY ONLY ms \in Seq(Record), n = Len(ms), ElementOfSeq
    <2> QED BY ONLY <2>1 DEF Record
<1>2. DOMAIN ms = 1 .. n
    BY ONLY ms \in Seq(Record), n = Len(ms), LenProperties
<1> DEFINE x == [k \in 1 .. n |-> ms[k].data]
<1>3. x \in Seq(Seq(Int)) /\ Len(x) = n /\ Pieces(ms) = FlattenSeq(x)
    <2>1. x \in [1 .. n -> Seq(Int)]
        BY ONLY <1>1
    <2>2. Pieces(ms) = FlattenSeq(x)
        BY ONLY <1>2 DEF Pieces
    <2> HIDE DEF x
    <2> QED BY ONLY <2>1, <2>2, n \in Nat, FunctionIsSeq
<1>4. \A k \in 1 .. n : x[k] = ms[k].data /\ x[k] \in Seq(Int)
    BY ONLY <1>1
<1> HIDE DEF x
<1>5. <<>> \in Seq(Int)
    BY ONLY EmptySeq
<1>6. 0 \in 0 .. n /\ (\A k \in 0 .. n : k # 0 => k \in 1 .. n) /\ n \in 0 .. n
    BY ONLY n \in Nat
<1>7. \A k \in 1 .. n : k \in 0 .. n /\ k # 0 /\ (k # 1 => k - 1 \in 1 .. n) /\ k - 1 \in 0 .. n
    BY ONLY n \in Nat
<1>8. CASE n = 0
    <2>1. FlattenSeq(x) = x
        BY ONLY <1>3, <1>8 DEF FlattenSeq
    <2>2. x = <<>>
        BY ONLY <1>3, <1>8, EmptySeq
    <2> DEFINE f == [k \in 0 .. n |-> <<>>]
    <2>3. f \in [0 .. n -> Seq(Int)] /\ f[0] = <<>> /\ f[n] = <<>>
        BY ONLY <1>5, <1>6, Zenon
    <2>4. 1 .. n = {}
        BY ONLY <1>8
    <2> HIDE DEF f
    <2>5. Sums(ms, n, f)
        BY ONLY <2>3, <2>4 DEF Sums
    <2> QED BY ONLY <1>3, <2>1, <2>2, <2>3, <2>5, Zenon
<1>9. CASE n # 0
    <2> DEFINE h == [k \in 1 .. n |-> [y \in Seq(Int) |-> y \o x[k]]]
    <2>1. h \in Steps(n, Seq(Int))
        <3>1. \A k \in 1 .. n : \A y \in Seq(Int) : y \o x[k] \in Seq(Int)
            BY ONLY <1>4, ConcatProperties
        <3> QED BY ONLY <3>1, n \in Nat DEF Steps
    <2>2. \E g : Follows(g, n, Seq(Int), <<>>, h)
        BY ONLY <1>5, <2>1, n \in Nat, Recursion
    <2>3. PICK g : Follows(g, n, Seq(Int), <<>>, h)
        BY <2>2
    <2>4. /\ g \in [0 .. n -> Seq(Int)] /\ g[0] = <<>>
          /\ \A k \in 1 .. n : g[k] = h[k][g[k - 1]]
        BY ONLY <2>3 DEF Follows
    <2>5. \A k \in 1 .. n : g[k] = g[k - 1] \o x[k]
        <3>1. \A k \in 1 .. n : g[k - 1] \in Seq(Int)
            BY ONLY <1>7, <2>4
        <3> QED BY ONLY <2>4, <3>1
    <2> HIDE DEF h
    <2>6. 1 \in 1 .. n /\ 1 - 1 = 0
        BY ONLY <1>9, n \in Nat
    <2>7. g[1] = x[1]
        <3>1. g[1] = <<>> \o x[1]
            BY ONLY <2>4, <2>5, <2>6
        <3>2. <<>> \o x[1] = x[1]
            BY ONLY <1>4, <2>6, ConcatEmptySeq
        <3> QED BY ONLY <3>1, <3>2, Zenon
    <2> DEFINE fl == [i \in 1 .. n |-> g[i]]
    <2>8. \A i \in 1 .. n : fl[i] = g[i]
        BY ONLY TRUE, Zenon
    <2>9. fl = [i \in 1 .. n |-> IF i = 1 THEN x[i] ELSE fl[i - 1] \o x[i]]
        <3>1. \A i \in 1 .. n : g[i] = IF i = 1 THEN x[i] ELSE fl[i - 1] \o x[i]
            <4>1. \A i \in 1 .. n : i # 1 => fl[i - 1] = g[i - 1]
                BY ONLY <1>7, <2>8, Zenon
            <4> HIDE DEF fl
            <4> QED BY ONLY <2>5, <2>7, <4>1, Zenon
        <3> QED BY ONLY <3>1, Zenon
    <2> HIDE DEF fl
    <2> DEFINE flatten == CHOOSE c : c = [i \in 1 .. n |->
                                        IF i = 1 THEN x[i] ELSE c[i - 1] \o x[i]]
    <2>10. flatten = [i \in 1 .. n |-> IF i = 1 THEN x[i] ELSE flatten[i - 1] \o x[i]]
        BY ONLY <2>9
    <2>11. FlattenSeq(x) = flatten[n]
        BY ONLY <1>3, <1>9 DEF FlattenSeq
    <2> HIDE DEF flatten
    <2>12. \A i \in 1 .. n : flatten[i] = IF i = 1 THEN x[i] ELSE flatten[i - 1] \o x[i]
        BY ONLY <2>10, Zenon
    <2> DEFINE S == {k \in 0 .. n : k # 0 => flatten[k] = g[k]}
    <2>13. \A k \in 0 .. n : k \in S
        <3>1. 0 \in S
            BY ONLY <1>6, Zenon
        <3>2. ASSUME NEW k \in 1 .. n, k - 1 \in S
              PROVE  k \in S
            <4>1. CASE k = 1
                BY ONLY <1>7, <2>7, <2>12, <4>1, k \in 1 .. n, Zenon
            <4>2. CASE k # 1
                <5>1. k - 1 # 0
                    BY ONLY <4>2, k \in 1 .. n
                <5>2. flatten[k - 1] = g[k - 1]
                    BY ONLY <3>2, <5>1, Zenon
                <5> QED BY ONLY <1>7, <2>5, <2>12, <4>2, <5>2, k \in 1 .. n, Zenon
            <4> QED BY ONLY <4>1, <4>2
        <3> HIDE DEF S
        <3> QED BY ONLY <3>1, <3>2, n \in Nat, UpTo
    <2>14. FlattenSeq(x) = g[n]
        BY ONLY <1>6, <1>9, <2>11, <2>13, Zenon
    <2>15. Sums(ms, n, g)
        <3>1. \A k \in 1 .. n : g[k] = g[k - 1] \o ms[k].data
            BY ONLY <1>4, <2>5, Zenon
        <3> QED BY ONLY <2>4, <3>1 DEF Sums
    <2> QED BY ONLY <1>3, <2>14, <2>15, Zenon
<1> QED BY ONLY <1>8, <1>9

LEMMA PiecesGrow ==
    ASSUME NEW ms \in Seq(Record), NEW r \in Record
    PROVE  Pieces(ms) \in Seq(Int) /\ Pieces(Append(ms, r)) = Pieces(ms) \o r.data
<1>1. PICK n \in Nat : n = Len(ms)
    BY ONLY ms \in Seq(Record), LenProperties
<1>2. PICK more : more = Append(ms, r)
    OBVIOUS
<1>3. /\ more \in Seq(Record) /\ Len(more) = n + 1 /\ more[n + 1] = r
      /\ \A i \in 1 .. n : more[i] = ms[i]
    BY ONLY <1>1, <1>2, ms \in Seq(Record), r \in Record, AppendProperties
<1>4. PICK m \in Nat : m = n + 1
    BY ONLY n \in Nat
<1>5. PICK f : Sums(ms, n, f) /\ Pieces(ms) = f[n]
    BY ONLY <1>1, ms \in Seq(Record), n \in Nat, PiecesAre
<1>6. PICK g : Sums(more, m, g) /\ Pieces(more) = g[m]
    BY ONLY <1>3, <1>4, m \in Nat, PiecesAre
<1>7. f \in [0 .. n -> Seq(Int)] /\ f[0] = <<>> /\ \A k \in 1 .. n : f[k] = f[k - 1] \o ms[k].data
    BY ONLY <1>5 DEF Sums
<1>8. g[0] = <<>> /\ \A k \in 1 .. m : g[k] = g[k - 1] \o more[k].data
    BY ONLY <1>6 DEF Sums
<1>9. /\ n \in 0 .. n /\ 0 \in 0 .. n /\ m \in 1 .. m /\ m - 1 = n /\ m = n + 1
      /\ \A k \in 1 .. n : k \in 1 .. m /\ k \in 0 .. n
    BY ONLY <1>4, n \in Nat
<1> DEFINE S == {k \in 0 .. n : f[k] = g[k]}
<1>10. \A k \in 0 .. n : k \in S
    <2>1. 0 \in S
        BY ONLY <1>7, <1>8, <1>9, Zenon
    <2>2. ASSUME NEW k \in 1 .. n, k - 1 \in S
          PROVE  k \in S
        <3>1. f[k - 1] = g[k - 1] /\ more[k] = ms[k]
            BY ONLY <1>3, <2>2, k \in 1 .. n, Zenon
        <3>2. f[k] = f[k - 1] \o ms[k].data /\ g[k] = g[k - 1] \o more[k].data /\ k \in 0 .. n
            BY ONLY <1>7, <1>8, <1>9, k \in 1 .. n, Zenon
        <3> QED BY ONLY <3>1, <3>2, Zenon
    <2> HIDE DEF S
    <2> QED BY ONLY <2>1, <2>2, n \in Nat, UpTo
<1>11. f[n] = g[n]
    BY ONLY <1>9, <1>10, Zenon
<1>12. g[m] = g[n] \o r.data
    <2>1. more[m] = r
        BY ONLY <1>3, <1>9, Zenon
    <2> QED BY ONLY <1>8, <1>9, <2>1, Zenon
<1>13. f[n] \in Seq(Int)
    BY ONLY <1>7, <1>9, Zenon
<1> QED BY ONLY <1>2, <1>5, <1>6, <1>11, <1>12, <1>13, Zenon

LEMMA PiecesOfNone == Pieces(<<>>) = <<>>
<1>1. <<>> \in Seq(Record) /\ Len(<<>>) = 0
    BY ONLY EmptySeq
<1>2. PICK n \in Nat : n = 0
    OBVIOUS
<1>3. \E f : Sums(<<>>, n, f) /\ Pieces(<<>>) = f[n]
    BY ONLY <1>1, <1>2, n \in Nat, PiecesAre
<1> QED BY ONLY <1>2, <1>3, Zenon DEF Sums

\* Telling adds what is told.
LEMMA PiecesTold ==
    ASSUME NEW ms \in Seq(Record), NEW r \in Record
    PROVE  Pieces(Tell(ms, r)) = Pieces(ms) \o r.data
<1>1. Pieces(ms) \in Seq(Int) /\ Pieces(Append(ms, r)) = Pieces(ms) \o r.data
    BY ONLY ms \in Seq(Record), r \in Record, PiecesGrow
<1>2. CASE Empty(r)
    <2>1. r.data = <<>> /\ Tell(ms, r) = ms
        BY ONLY <1>2, Zenon DEF Empty, Tell
    <2>2. Pieces(ms) \o <<>> = Pieces(ms)
        BY ONLY <1>1, ConcatEmptySeq
    <2> QED BY ONLY <2>1, <2>2, Zenon
<1>3. CASE ~Empty(r)
    <2>1. Tell(ms, r) = Append(ms, r)
        BY ONLY <1>3, Zenon DEF Tell
    <2> QED BY ONLY <1>1, <2>1, Zenon
<1> QED BY ONLY <1>2, <1>3

\* What is expected of "default" is what was sent.
LEMMA PiecesExpected ==
    ASSUME Ordinary(stream), stream.kind = "default", NEW n \in Nat, n = Len(stream.msgs)
    PROVE  \A k \in 0 .. n : Pieces(Expected(k)) = Wire(stream, k) /\ Len(Wire(stream, k)) = k
<1> DEFINE S == {k \in 0 .. n : /\ Pieces(Expected(k)) = Wire(stream, k)
                                /\ Len(Wire(stream, k)) = k}
<1>1. 0 \in S
    <2>1. Expected(0) = <<>>
        BY ONLY ExpectedIs, Ordinary(stream), n \in Nat, n = Len(stream.msgs)
    <2>2. Wire(stream, 0) = <<>>
        <3>1. Wire(stream, 0) = Hello(stream)
            BY ONLY WireIs, Ordinary(stream), n \in Nat, n = Len(stream.msgs)
        <3>2. Hello(stream) = <<>>
            BY ONLY HelloIs, Ordinary(stream), stream.kind = "default"
        <3> QED BY ONLY <3>1, <3>2, Zenon
    <2>3. Len(<<>>) = 0 /\ 0 \in 0 .. n
        BY ONLY EmptySeq, n \in Nat
    <2> QED BY ONLY <2>1, <2>2, <2>3, PiecesOfNone, Zenon
<1>2. ASSUME NEW k \in 1 .. n, k - 1 \in S PROVE k \in S
    <2>1. k - 1 \in 0 .. n /\ k \in 0 .. n /\ k \in Int
        BY ONLY k \in 1 .. n, n \in Nat
    <2>2. PICK x : x = Expected(k - 1)
        OBVIOUS
    <2>3. PICK c : c = ContentOf(stream, k)
        OBVIOUS
    <2>4. c \in Record /\ c.data = BytesOf(stream, k) /\ Len(BytesOf(stream, k)) = 1
        BY ONLY <2>3, ContentIs, Ordinary(stream), stream.kind = "default",
                n = Len(stream.msgs), k \in 1 .. n
    <2>5. x \in Seq(Record) /\ Expected(k) = Tell(x, c)
        BY ONLY <2>1, <2>2, <2>3, ExpectedIs, Ordinary(stream), n \in Nat,
                n = Len(stream.msgs), k \in 1 .. n
    <2>6. Pieces(Tell(x, c)) = Pieces(x) \o c.data
        BY ONLY <2>4, <2>5, PiecesTold
    <2>7. Pieces(x) = Wire(stream, k - 1) /\ Len(Wire(stream, k - 1)) = k - 1
        BY ONLY <1>2, <2>2, Zenon
    <2>8. /\ Wire(stream, k) = Wire(stream, k - 1) \o BytesOf(stream, k)
          /\ Len(Wire(stream, k)) = Len(Wire(stream, k - 1)) + Len(BytesOf(stream, k))
        BY ONLY WireIs, WireGrows, Ordinary(stream), n \in Nat, n = Len(stream.msgs),
                k \in 1 .. n
    <2>9. Len(Wire(stream, k)) = k
        BY ONLY <2>1, <2>4, <2>7, <2>8
    <2>10. Pieces(Expected(k)) = Wire(stream, k)
        BY ONLY <2>4, <2>5, <2>6, <2>7, <2>8, Zenon
    <2> QED BY ONLY <2>1, <2>9, <2>10, Zenon
<1> HIDE DEF S
<1>3. \A k \in 0 .. n : k \in S
    BY ONLY <1>1, <1>2, n \in Nat, UpTo
<1> QED BY ONLY <1>3, Zenon DEF S

----------------------------------------------------------------------------
(* The invariant of the reading: where in the stream the connection is.       *)

Many == Len(stream.msgs)
End(n) == Len(Wire(stream, n))
Whole == Wire(stream, Many)

\* How much has left the buffer.
Origin == Arrived - Len(buf)

\* The handshake that is not accepted.
Refused == stream.hello = "nokey" /\ ~stream.bLinker

\* The scripts have been told the first d messages.
Told(d) ==
    /\ delivered \in Seq(Record)
    /\ stream.kind = "default" => Pieces(delivered) = Wire(stream, d)
    /\ stream.kind # "default" => delivered = Expected(d)

\* What is in the buffer, and not parsed yet, and what is on its way are the
\* bytes of the stream.
InPlace ==
    /\ \A i \in iParsed + 1 .. Len(buf) : buf[i] = Whole[Origin + i]
    /\ \A i \in 1 .. Len(coming) : coming[i] = Whole[Arrived + i]

\* The parser waits for bytes that have not come.
Waiting(d) ==
    IF ShakesHands THEN Arrived < Len(Hello(stream))
    ELSE d = Many \/ Arrived < End(d + 1)

\* What is parsed ends with message d, or nothing is before the handshake.
Reading(d) ==
    /\ InPlace
    /\ Origin + iParsed = (IF ShakesHands THEN 0 ELSE End(d))
    /\ ShakesHands => d = 0
    /\ Refused => ShakesHands
    /\ conn = "closing" => Refused
    /\ stream.kind = "http" /\ d < Many => Arrived <= End(d + 1)
    /\ pc = "idle" /\ conn = "open" /\ ~Refused => Waiting(d)

Typed ==
    /\ TypeOK
    /\ buf \in Seq(Int) /\ coming \in Seq(Int)
    /\ pc = "idle" => iParsed = 0
    /\ conn = "closed" => pc = "idle"

Inductive ==
    /\ Typed
    /\ \E d \in 0 .. Many : Told(d) /\ (conn # "closed" => Reading(d))

LEMMA Places ==
    ASSUME Ordinary(stream), Typed
    PROVE  /\ Many \in Nat
           /\ Len(Whole) \in Nat /\ Whole \in Seq(Int)
           /\ Len(buf) \in Nat /\ Len(coming) \in Nat
           /\ Arrived \in Nat /\ Arrived + Len(coming) = Len(Whole)
           /\ Origin \in Nat /\ Origin + Len(buf) = Arrived
           /\ iParsed \in 0 .. Len(buf)
<1>1. Many \in Nat
    BY ONLY OrdinaryIs, Ordinary(stream) DEF Many
<1>2. PICK n \in Nat : n = Many
    BY ONLY <1>1
<1>3. Whole \in Seq(Int)
    <2>1. n = Len(stream.msgs) /\ n \in 0 .. n /\ Whole = Wire(stream, n)
        BY ONLY <1>2, n \in Nat DEF Many, Whole
    <2> QED BY ONLY <2>1, WireIs, Ordinary(stream), n \in Nat
<1>4. /\ Len(buf) + Len(coming) <= Len(Whole) /\ iParsed \in 0 .. Len(buf)
      /\ buf \in Seq(Int) /\ coming \in Seq(Int)
    BY ONLY Typed DEF Typed, TypeOK, Whole, Many
<1>5. Len(Whole) \in Nat /\ Len(buf) \in Nat /\ Len(coming) \in Nat
    BY ONLY <1>3, <1>4, LenProperties
<1>6. Arrived = Len(Whole) - Len(coming) /\ Origin = Arrived - Len(buf)
    BY ONLY TRUE DEF Arrived, Whole, Many, Origin
<1> QED BY ONLY <1>1, <1>3, <1>4, <1>5, <1>6

\* The end of message d, in a stream of n.
LEMMA EndIs ==
    ASSUME Ordinary(stream), NEW n \in Nat, n = Many, NEW d \in 0 .. n
    PROVE  /\ End(d) \in Nat /\ End(d) <= Len(Whole) /\ Len(Whole) = End(n)
           /\ \A i \in 1 .. End(d) : Whole[i] = Wire(stream, d)[i]
           /\ d < n => /\ End(d) < End(d + 1) /\ End(d + 1) \in Nat
                       /\ Len(BytesOf(stream, d + 1)) \in Nat \ {0}
                       /\ End(d + 1) = End(d) + Len(BytesOf(stream, d + 1))
                       /\ \A i \in 1 .. Len(BytesOf(stream, d + 1)) :
                             Whole[End(d) + i] = BytesOf(stream, d + 1)[i]
<1>1. n = Len(stream.msgs) /\ Whole = Wire(stream, n)
    BY ONLY n = Many DEF Many, Whole
<1>2. n \in d .. n /\ n - d \in Nat
    BY ONLY n \in Nat, d \in 0 .. n
<1>3. /\ Len(Wire(stream, n)) \in Nat
      /\ Len(Wire(stream, d)) + (n - d) <= Len(Wire(stream, n))
      /\ \A i \in 1 .. Len(Wire(stream, d)) : Wire(stream, n)[i] = Wire(stream, d)[i]
    BY ONLY <1>1, <1>2, WireStarts, Ordinary(stream), n \in Nat, d \in 0 .. n
<1>4. Len(Wire(stream, d)) \in Nat
    <2>1. Wire(stream, d) \in Seq(Int)
        BY ONLY <1>1, WireIs, Ordinary(stream), n \in Nat, d \in 0 .. n
    <2> QED BY ONLY <2>1, LenProperties
<1>5. /\ End(d) \in Nat /\ End(d) <= Len(Whole) /\ Len(Whole) = End(n)
      /\ \A i \in 1 .. End(d) : Whole[i] = Wire(stream, d)[i]
    BY ONLY <1>1, <1>2, <1>3, <1>4 DEF End
<1>6. ASSUME d < n
      PROVE  /\ End(d) < End(d + 1) /\ End(d + 1) \in Nat
             /\ Len(BytesOf(stream, d + 1)) \in Nat \ {0}
             /\ End(d + 1) = End(d) + Len(BytesOf(stream, d + 1))
             /\ \A i \in 1 .. Len(BytesOf(stream, d + 1)) :
                   Whole[End(d) + i] = BytesOf(stream, d + 1)[i]
    <2>1. PICK k \in 1 .. n : k = d + 1
        BY ONLY <1>6, n \in Nat, d \in 0 .. n
    <2>2. k - 1 = d /\ k \in 0 .. n /\ n \in k .. n
        BY ONLY <2>1, n \in Nat, d \in 0 .. n
    <2>3. PICK b : b = BytesOf(stream, k)
        OBVIOUS
    <2>4. b \in Seq(Int) /\ Len(b) > 0
        BY ONLY <1>1, <2>3, BytesAre, Ordinary(stream), k \in 1 .. n
    <2>5. PICK lb \in Nat : lb = Len(b)
        BY ONLY <2>4, LenProperties
    <2>6. PICK x \in Nat : x = Len(Wire(stream, d))
        BY ONLY <1>4
    <2>7. PICK y : y = Wire(stream, k)
        OBVIOUS
    <2>8. Len(y) = x + lb /\ \A i \in 1 .. lb : y[x + i] = b[i]
        <3>1. /\ Len(Wire(stream, k)) = Len(Wire(stream, k - 1)) + Len(BytesOf(stream, k))
              /\ \A i \in 1 .. Len(BytesOf(stream, k)) :
                    Wire(stream, k)[Len(Wire(stream, k - 1)) + i] = BytesOf(stream, k)[i]
            BY ONLY <1>1, WireGrows, Ordinary(stream), n \in Nat, k \in 1 .. n
        <3> QED BY ONLY <2>2, <2>3, <2>5, <2>6, <2>7, <3>1
    <2>9. \A i \in 1 .. Len(y) : Wire(stream, n)[i] = y[i]
        BY ONLY <1>1, <2>2, <2>7, WireStarts, Ordinary(stream), n \in Nat
    <2>10. \A i \in 1 .. lb : Whole[x + i] = b[i]
        <3>1. \A i \in 1 .. lb : x + i \in 1 .. Len(y)
            BY ONLY <2>8, x \in Nat, lb \in Nat
        <3>2. \A i \in 1 .. lb : Wire(stream, n)[x + i] = y[x + i]
            BY ONLY <2>9, <3>1, Zenon
        <3> QED BY ONLY <1>1, <2>8, <3>2
    <2>11. End(d) = x /\ End(d + 1) = x + lb
        BY ONLY <2>1, <2>6, <2>7, <2>8 DEF End
    <2>12. lb > 0 /\ BytesOf(stream, d + 1) = b
        BY ONLY <2>1, <2>3, <2>4, <2>5
    <2> QED BY ONLY <2>5, <2>10, <2>11, <2>12, x \in Nat, lb \in Nat
<1> QED BY ONLY <1>5, <1>6

----------------------------------------------------------------------------
(* What the parser makes of what is there                                     *)

\* What is not parsed yet begins as the handshake, or as the next message.
Rest(q, d) ==
    /\ q \in Seq(Int) /\ Len(q) \in Nat \ {0} /\ Len(q) = Len(buf) - iParsed
    /\ ShakesHands => d = 0 /\ Len(q) = Arrived /\ Agrees(q, Hello(stream))
    /\ ~ShakesHands => /\ d < Many /\ Arrived = End(d) + Len(q)
                       /\ Agrees(q, BytesOf(stream, d + 1))
                       /\ stream.kind = "http" => Len(q) <= Len(BytesOf(stream, d + 1))
                       /\ \A i \in 1 .. Len(q) : q[i] = Whole[End(d) + i]

LEMMA RestIs ==
    ASSUME Ordinary(stream), Typed, NEW d \in 0 .. Many, Reading(d),
           iParsed < Len(buf), NEW q, q = SubSeq(buf, iParsed + 1, Len(buf))
    PROVE  Rest(q, d)
<1>0. PICK n \in Nat : n = Many
    BY ONLY Places, Ordinary(stream), Typed
<1>1. PICK lb \in Nat : lb = Len(buf)
    BY ONLY Places, Ordinary(stream), Typed
<1>2. PICK p \in Nat : p = iParsed /\ p < lb
    BY ONLY <1>1, Places, Ordinary(stream), Typed, iParsed < Len(buf)
<1>3. PICK o \in Nat : o = Origin
    BY ONLY Places, Ordinary(stream), Typed
<1>4. Arrived = o + lb /\ o + lb <= Len(Whole) /\ Len(Whole) \in Nat
    BY ONLY <1>1, <1>3, Places, Ordinary(stream), Typed
<1>5. PICK m \in Nat : m = lb - p
    BY ONLY <1>2, lb \in Nat
<1>6. q \in Seq(Int) /\ Len(q) = m /\ \A i \in 1 .. m : q[i] = buf[p + i]
    <2>1. buf \in Seq(Int)
        BY ONLY Typed DEF Typed
    <2>2. \A i \in p + 1 .. lb : buf[i] \in Int
        <3>1. \A i \in p + 1 .. lb : i \in 1 .. lb
            BY ONLY p \in Nat, lb \in Nat
        <3> QED BY ONLY <1>1, <2>1, <3>1, ElementOfSeq
    <2>3. q = SubSeq(buf, p + 1, lb)
        BY ONLY <1>1, <1>2, q = SubSeq(buf, iParsed + 1, Len(buf))
    <2>4. p + 1 \in Int /\ lb \in Int
        BY ONLY p \in Nat, lb \in Nat
    <2>5. /\ q \in Seq(Int) /\ Len(q) = IF p + 1 <= lb THEN lb - (p + 1) + 1 ELSE 0
          /\ \A i \in 1 .. lb - (p + 1) + 1 : q[i] = buf[p + 1 + i - 1]
        BY ONLY <2>2, <2>3, <2>4, SubSeqProperties
    <2>6. p + 1 <= lb /\ lb - (p + 1) + 1 = m
        BY ONLY <1>2, <1>5, p \in Nat, lb \in Nat
    <2>7. \A i \in 1 .. m : p + 1 + i - 1 = p + i
        BY ONLY p \in Nat, m \in Nat
    <2> QED BY ONLY <2>5, <2>6, <2>7
<1>7. \A i \in 1 .. m : q[i] = Whole[o + p + i]
    <2>1. \A i \in p + 1 .. lb : buf[i] = Whole[o + i]
        BY ONLY <1>1, <1>2, <1>3, Reading(d) DEF Reading, InPlace
    <2>2. \A i \in 1 .. m : p + i \in p + 1 .. lb /\ o + (p + i) = o + p + i
        BY ONLY <1>5, p \in Nat, lb \in Nat, o \in Nat, m \in Nat
    <2> QED BY ONLY <1>6, <2>1, <2>2
<1>8. m > 0 /\ o + p + m = o + lb
    BY ONLY <1>2, <1>5, p \in Nat, lb \in Nat, o \in Nat
<1>9. o + p = (IF ShakesHands THEN 0 ELSE End(d))
    BY ONLY <1>2, <1>3, Reading(d) DEF Reading
<1>10. ASSUME ShakesHands
       PROVE  d = 0 /\ Len(q) = Arrived /\ Agrees(q, Hello(stream))
    <2>1. d = 0 /\ o + p = 0
        BY ONLY <1>9, <1>10, Reading(d) DEF Reading
    <2>2. m = Arrived /\ \A i \in 1 .. m : q[i] = Whole[i]
        <3>1. o + lb = m /\ \A i \in 1 .. m : o + p + i = i
            BY ONLY <1>5, <2>1, o \in Nat, p \in Nat, lb \in Nat, m \in Nat
        <3> QED BY ONLY <1>4, <1>7, <3>1
    <2>3. 0 \in 0 .. n
        BY ONLY n \in Nat
    <2>4. Hello(stream) = Wire(stream, 0)
        BY ONLY <1>0, WireIs, Ordinary(stream), n \in Nat DEF Many
    <2>5. \A i \in 1 .. Len(Hello(stream)) : Whole[i] = Hello(stream)[i]
        BY ONLY <1>0, <2>3, <2>4, EndIs, Ordinary(stream), n \in Nat DEF End
    <2>6. Len(Hello(stream)) \in Nat
        BY ONLY HelloIs, Ordinary(stream), LenProperties
    <2>7. Agrees(q, Hello(stream))
        <3>1. PICK w : w = Hello(stream)
            OBVIOUS
        <3>2. \A i \in 1 .. Len(w) : i <= m => i \in 1 .. m
            BY ONLY <2>6, <3>1, m \in Nat
        <3>3. \A i \in 1 .. Len(w) : i <= m => q[i] = w[i]
            BY ONLY <2>2, <2>5, <3>1, <3>2, Zenon
        <3> QED BY ONLY <1>6, <3>1, <3>3 DEF Agrees
    <2> QED BY ONLY <1>6, <2>1, <2>2, <2>7
<1>11. ASSUME ~ShakesHands
       PROVE  /\ d < Many /\ Arrived = End(d) + Len(q)
              /\ Agrees(q, BytesOf(stream, d + 1))
              /\ stream.kind = "http" => Len(q) <= Len(BytesOf(stream, d + 1))
              /\ \A i \in 1 .. Len(q) : q[i] = Whole[End(d) + i]
    <2>1. o + p = End(d)
        BY ONLY <1>9, <1>11
    <2>2. PICK e \in Nat : e = End(d) /\ e = o + p
        BY ONLY <2>1, o \in Nat, p \in Nat
    <2>3. d \in 0 .. n
        BY ONLY <1>0, d \in 0 .. Many
    <2>4. d < n
        <3>1. Len(Whole) = End(n)
            BY ONLY <1>0, <2>3, EndIs, Ordinary(stream), n \in Nat
        <3>2. e < Len(Whole)
            BY ONLY <1>2, <1>4, <2>2, o \in Nat, p \in Nat, lb \in Nat
        <3>3. d # n
            <4>1. ASSUME d = n PROVE FALSE
                <5>1. e = Len(Whole)
                    BY ONLY <2>2, <3>1, <4>1, Zenon
                <5> QED BY ONLY <3>2, <5>1, e \in Nat
            <4> QED BY ONLY <4>1, Zenon
        <3> QED BY ONLY <2>3, <3>3, n \in Nat
    <2>5. PICK b : b = BytesOf(stream, d + 1)
        OBVIOUS
    <2>6. /\ Len(b) \in Nat \ {0} /\ End(d + 1) = End(d) + Len(b)
          /\ \A i \in 1 .. Len(b) : Whole[End(d) + i] = b[i]
        BY ONLY <1>0, <2>3, <2>4, <2>5, EndIs, Ordinary(stream), n \in Nat
    <2>7. \A i \in 1 .. m : q[i] = Whole[e + i]
        BY ONLY <1>7, <2>2
    <2>8. Agrees(q, b)
        <3>1. \A i \in 1 .. Len(b) : i <= m => i \in 1 .. m
            BY ONLY <2>6, m \in Nat
        <3>2. \A i \in 1 .. Len(b) : i <= m => q[i] = b[i]
            BY ONLY <2>2, <2>6, <2>7, <3>1, Zenon
        <3> QED BY ONLY <1>6, <3>2 DEF Agrees
    <2>9. Arrived = e + m
        BY ONLY <1>4, <1>8, <2>2
    <2>10. stream.kind = "http" => m <= Len(b)
        <3>1. stream.kind = "http" => Arrived <= End(d + 1)
            BY ONLY <1>0, <2>4, Reading(d) DEF Reading
        <3> QED BY ONLY <2>2, <2>6, <2>9, <3>1, e \in Nat, m \in Nat
    <2> QED BY ONLY <1>0, <1>6, <2>2, <2>4, <2>5, <2>7, <2>8, <2>9, <2>10
<1> QED BY ONLY <1>1, <1>2, <1>5, <1>6, <1>8, <1>10, <1>11, m \in Nat DEF Rest

\* What parsePack returns.
Parsed(q, d) ==
    /\ ShakesHands =>
          parsePack = IF Len(q) < Len(Hello(stream)) THEN Wait
                      ELSE IF Refused THEN Failed ELSE Skip(Len(Hello(stream)))
    /\ ~ShakesHands /\ stream.kind # "default" =>
          Cuts(parsePack, q, BytesOf(stream, d + 1),
               ContentOf(stream, d + 1).op, ContentOf(stream, d + 1).data)
    /\ stream.kind = "default" => parsePack = Cut(Len(q), None, q)

LEMMA ParsedIs ==
    ASSUME Ordinary(stream), NEW d \in 0 .. Many, NEW q, Rest(q, d),
           q = SubSeq(buf, iParsed + 1, Len(buf))
    PROVE  Parsed(q, d)
<1>1. q \in Seq(Int) /\ Len(q) \in Nat \ {0}
    BY ONLY Rest(q, d) DEF Rest
<1>2. ASSUME ShakesHands
      PROVE  parsePack = IF Len(q) < Len(Hello(stream)) THEN Wait
                         ELSE IF Refused THEN Failed ELSE Skip(Len(Hello(stream)))
    <2>1. stream.kind = "websock"
        BY ONLY <1>2 DEF ShakesHands
    <2>2. parsePack = WebSockShake(q, stream.bLinker)
        BY ONLY <1>2, <2>1, q = SubSeq(buf, iParsed + 1, Len(buf)) DEF parsePack
    <2>3. PICK w : w = Hello(stream)
        OBVIOUS
    <2>4. w \in {KeyHello, BareHello} /\ (w = KeyHello <=> stream.hello # "nokey")
        BY ONLY <2>1, <2>3, HelloIs, Ordinary(stream)
    <2>5. Agrees(q, w)
        BY ONLY <1>2, <2>3, Rest(q, d) DEF Rest
    <2>6. stream.bLinker \in BOOLEAN
        BY ONLY OrdinaryIs, Ordinary(stream)
    <2>7. /\ Len(w) \in {2, 3}
          /\ Len(q) < Len(w) => WebSockShake(q, stream.bLinker) = Wait
          /\ Len(q) >= Len(w) =>
                WebSockShake(q, stream.bLinker) =
                    IF w = KeyHello \/ stream.bLinker THEN Skip(Len(w)) ELSE Failed
        BY ONLY <1>1, <2>4, <2>5, <2>6, ShakeIs
    <2>8. Refused <=> ~(w = KeyHello \/ stream.bLinker)
        BY ONLY <2>4, <2>6 DEF Refused
    <2>9. Len(q) < Len(w) \/ Len(q) >= Len(w)
        BY ONLY <1>1, <2>7
    <2> QED BY ONLY <2>2, <2>3, <2>7, <2>8, <2>9, Zenon
<1>3. ASSUME ~ShakesHands, stream.kind # "default"
      PROVE  Cuts(parsePack, q, BytesOf(stream, d + 1),
                  ContentOf(stream, d + 1).op, ContentOf(stream, d + 1).data)
    <2>1. parsePack = ParserOf(stream.kind, q)
        BY ONLY <1>3, q = SubSeq(buf, iParsed + 1, Len(buf)) DEF parsePack, ParserOf
    <2>2. /\ d < Many /\ Agrees(q, BytesOf(stream, d + 1))
          /\ stream.kind = "http" => Len(q) <= Len(BytesOf(stream, d + 1))
        BY ONLY <1>3, Rest(q, d) DEF Rest
    <2>3. Many \in Nat /\ Many = Len(stream.msgs)
        BY ONLY OrdinaryIs, Ordinary(stream) DEF Many
    <2>4. d + 1 \in 1 .. Len(stream.msgs) /\ Len(q) > 0
        BY ONLY <1>1, <2>2, <2>3, d \in 0 .. Many
    <2>5. Cuts(ParserOf(stream.kind, q), q, BytesOf(stream, d + 1),
               ContentOf(stream, d + 1).op, ContentOf(stream, d + 1).data)
        BY ONLY <1>1, <1>3, <2>2, <2>4, MessageCuts, Ordinary(stream)
    <2> QED BY ONLY <2>1, <2>5
<1>4. ASSUME stream.kind = "default"
      PROVE  parsePack = Cut(Len(q), None, q)
    <2>1. parsePack = Default(q)
        BY ONLY <1>4, q = SubSeq(buf, iParsed + 1, Len(buf)) DEF parsePack, ShakesHands
    <2> QED BY ONLY <2>1 DEF Default
<1> QED BY ONLY <1>2, <1>3, <1>4 DEF Parsed

----------------------------------------------------------------------------
(* The invariant holds at first, and every action keeps it.                   *)

ExpectedOf(s, n) ==
    LET told[k \in 0 .. Len(s.msgs)] ==
            IF k = 0 THEN <<>>
            ELSE Tell(told[k - 1], Content(s.kind, k, s.msgs[k]))
    IN  told[n]

\* What is said of the stream alone stays as it is.
LEMMA Stays ==
    ASSUME stream' = stream
    PROVE  /\ Many' = Many /\ Whole' = Whole /\ Refused' = Refused
           /\ \A k : End(k)' = End(k) /\ Expected(k)' = Expected(k)
<1>1. \A k : Expected(k) = ExpectedOf(stream, k)
    BY ONLY TRUE DEF Expected, ExpectedOf
<1>2. \A k : Expected(k)' = ExpectedOf(stream', k)
    BY ONLY TRUE DEF Expected, ExpectedOf
<1>3. \A k : Expected(k)' = Expected(k)
    BY ONLY <1>1, <1>2, stream' = stream, Zenon
<1>4. Many' = Many
    BY ONLY stream' = stream, Zenon DEF Many
<1>5. Whole' = Whole
    BY ONLY stream' = stream, Zenon DEF Whole, Many
<1>6. Refused' = Refused
    BY ONLY stream' = stream DEF Refused
<1>7. \A k : End(k)' = End(k)
    BY ONLY stream' = stream, Zenon DEF End
<1> QED BY ONLY <1>3, <1>4, <1>5, <1>6, <1>7

LEMMA ToldStays ==
    ASSUME stream' = stream, delivered' = delivered, NEW d, Told(d)
    PROVE  Told(d)'
<1>1. Expected(d)' = Expected(d)
    BY ONLY Stays, stream' = stream
<1> QED BY ONLY <1>1, stream' = stream, delivered' = delivered, Told(d), Zenon DEF Told

\* The first bytes of what is coming join the buffer.
Moves(x, y, lx, ly, n, u, v) ==
    /\ u \in Seq(Int) /\ Len(u) = lx + n
    /\ \A i \in 1 .. lx : u[i] = x[i]
    /\ \A i \in 1 .. n : u[lx + i] = y[i]
    /\ v \in Seq(Int) /\ Len(v) = ly - n
    /\ \A i \in 1 .. ly - n : v[i] = y[n + i]

LEMMA Moved ==
    ASSUME NEW x \in Seq(Int), NEW y \in Seq(Int), NEW lx \in Nat, NEW ly \in Nat,
           lx = Len(x), ly = Len(y), NEW n \in 0 .. ly,
           NEW u, u = x \o SubSeq(y, 1, n), NEW v, v = SubSeq(y, n + 1, Len(y))
    PROVE  Moves(x, y, lx, ly, n, u, v)
<1>1. \A i \in 1 .. ly : y[i] \in Int
    BY ONLY y \in Seq(Int), ly = Len(y), ElementOfSeq
<1>2. PICK h : h = SubSeq(y, 1, n)
    OBVIOUS
<1>3. h \in Seq(Int) /\ Len(h) = n /\ \A i \in 1 .. n : h[i] = y[i]
    <2>1. \A i \in 1 .. n : y[i] \in Int
        BY ONLY <1>1, n \in 0 .. ly, ly \in Nat
    <2>2. 1 \in Int /\ n \in Int
        BY ONLY n \in 0 .. ly
    <2>3. /\ h \in Seq(Int) /\ Len(h) = IF 1 <= n THEN n - 1 + 1 ELSE 0
          /\ \A i \in 1 .. n - 1 + 1 : h[i] = y[1 + i - 1]
        BY ONLY <1>2, <2>1, <2>2, SubSeqProperties
    <2>4. n - 1 + 1 = n /\ (~(1 <= n) => n = 0) /\ \A i \in 1 .. n : 1 + i - 1 = i
        BY ONLY n \in 0 .. ly, ly \in Nat
    <2> QED BY ONLY <2>3, <2>4
<1>4. v \in Seq(Int) /\ Len(v) = ly - n /\ \A i \in 1 .. ly - n : v[i] = y[n + i]
    <2>1. \A i \in n + 1 .. ly : y[i] \in Int
        BY ONLY <1>1, n \in 0 .. ly, ly \in Nat
    <2>2. n + 1 \in Int /\ ly \in Int
        BY ONLY n \in 0 .. ly, ly \in Nat
    <2>3. v = SubSeq(y, n + 1, ly)
        BY ONLY ly = Len(y), v = SubSeq(y, n + 1, Len(y))
    <2>4. /\ v \in Seq(Int) /\ Len(v) = IF n + 1 <= ly THEN ly - (n + 1) + 1 ELSE 0
          /\ \A i \in 1 .. ly - (n + 1) + 1 : v[i] = y[n + 1 + i - 1]
        BY ONLY <2>1, <2>2, <2>3, SubSeqProperties
    <2>5. /\ ly - (n + 1) + 1 = ly - n /\ (~(n + 1 <= ly) => ly - n = 0)
          /\ \A i \in 1 .. ly - n : n + 1 + i - 1 = n + i
        BY ONLY n \in 0 .. ly, ly \in Nat
    <2> QED BY ONLY <2>4, <2>5
<1>5. n \in Nat /\ n = Len(h)
    BY ONLY <1>3, n \in 0 .. ly, ly \in Nat
<1>6. u = x \o h
    BY ONLY <1>2, u = x \o SubSeq(y, 1, n)
<1>7. /\ x \o h \in Seq(Int) /\ Len(x \o h) = lx + n
      /\ \A i \in 1 .. lx : (x \o h)[i] = x[i]
      /\ \A i \in 1 .. n : (x \o h)[lx + i] = h[i]
    <2>1. h \in Seq(Int) /\ n \in Nat /\ n = Len(h)
        BY ONLY <1>3, <1>5
    <2> QED BY ONLY <2>1, x \in Seq(Int), lx \in Nat, lx = Len(x), Joined
<1> QED BY ONLY <1>3, <1>4, <1>6, <1>7 DEF Moves

LEMMA InitKeeps ==
    ASSUME \A s \in Streams : Ordinary(s), Init
    PROVE  Inductive
<1>1. /\ stream \in Streams /\ coming = Wire(stream, Len(stream.msgs)) /\ buf = <<>>
      /\ uiStatus = FALSE /\ pc = "idle" /\ iParsed = 0 /\ conn = "open" /\ delivered = <<>>
    BY ONLY Init DEF Init
<1>2. Ordinary(stream)
    BY ONLY <1>1, \A s \in Streams : Ordinary(s)
<1>3. PICK n \in Nat : n = Many /\ n = Len(stream.msgs)
    BY ONLY <1>2, OrdinaryIs DEF Many
<1>4. 0 \in 0 .. n /\ n \in 0 .. n
    BY ONLY n \in Nat
<1>5. coming = Whole /\ Whole \in Seq(Int)
    <2>1. Whole = Wire(stream, n)
        BY ONLY <1>3 DEF Whole
    <2> QED BY ONLY <1>1, <1>2, <1>3, <1>4, <2>1, WireIs, n \in Nat
<1>6. PICK lw \in Nat : lw = Len(Whole)
    BY ONLY <1>5, LenProperties
<1>7. Arrived = lw - lw /\ Arrived = 0
    <2>1. Arrived = lw - lw
        BY ONLY <1>5, <1>6 DEF Arrived, Whole, Many
    <2> QED BY ONLY <2>1, lw \in Nat
<1>8. Len(buf) = 0 /\ buf \in Seq(Int)
    BY ONLY <1>1, EmptySeq
<1>9. Origin = 0
    BY ONLY <1>7, <1>8 DEF Origin
<1>10. Typed
    <2>1. Len(buf) + Len(coming) <= Len(Wire(stream, Len(stream.msgs)))
        BY ONLY <1>5, <1>6, <1>8, lw \in Nat DEF Whole, Many
    <2>2. iParsed \in 0 .. Len(buf)
        BY ONLY <1>1, <1>8
    <2> QED BY ONLY <1>1, <1>5, <1>8, <2>1, <2>2 DEF Typed, TypeOK
<1>11. Expected(0) = <<>> /\ Wire(stream, 0) = Hello(stream)
    BY ONLY <1>2, <1>3, n \in Nat, ExpectedIs, WireIs
<1>12. Told(0)
    <2>1. delivered \in Seq(Record)
        BY ONLY <1>1, EmptySeq
    <2>2. stream.kind = "default" => Pieces(delivered) = Wire(stream, 0)
        <3>1. stream.kind = "default" => Hello(stream) = <<>>
            BY ONLY <1>2, HelloIs
        <3> QED BY ONLY <1>1, <1>11, <3>1, PiecesOfNone, Zenon
    <2> QED BY ONLY <1>1, <1>11, <2>1, <2>2, Zenon DEF Told
<1>13. /\ End(0) \in Nat /\ Len(Whole) = End(n)
       /\ 0 < n => End(0) < End(0 + 1) /\ End(0 + 1) \in Nat
    BY ONLY <1>2, <1>3, <1>4, EndIs, n \in Nat
<1>14. Reading(0)
    <2>1. InPlace
        BY ONLY <1>1, <1>5, <1>7, <1>8, <1>6, lw \in Nat DEF InPlace
    <2>2. ShakesHands <=> stream.kind = "websock"
        BY ONLY <1>1 DEF ShakesHands
    <2>3. stream.kind # "websock" => End(0) = 0 /\ ~Refused
        <3>1. stream.kind # "websock" => Hello(stream) = <<>> /\ stream.hello = "none"
            BY ONLY <1>2, HelloIs
        <3>2. End(0) = Len(Hello(stream))
            BY ONLY <1>11 DEF End
        <3>3. Len(<<>>) = 0
            OBVIOUS
        <3>4. "none" # "nokey"
            OBVIOUS
        <3> QED BY ONLY <3>1, <3>2, <3>3, <3>4, Zenon DEF Refused
    <2>4. stream.kind = "websock" => Len(Hello(stream)) > 0
        BY ONLY <1>2, HelloIs
    <2>5. Waiting(0)
        <3>1. CASE stream.kind = "websock"
            BY ONLY <1>7, <2>2, <2>4, <3>1 DEF Waiting
        <3>2. CASE stream.kind # "websock"
            <4>1. n = 0 \/ 0 < n
                BY ONLY n \in Nat
            <4> QED BY ONLY <1>3, <1>7, <1>13, <2>2, <2>3, <3>2, <4>1 DEF Waiting
        <3> QED BY ONLY <3>1, <3>2
    <2>6. 0 < n => 0 <= End(0 + 1)
        BY ONLY <1>13
    <2>7. Origin + iParsed = 0
        BY ONLY <1>1, <1>9
    <2>8. conn # "closing"
        BY ONLY <1>1
    <2> QED BY ONLY <1>3, <1>7, <2>1, <2>2, <2>3, <2>5, <2>6, <2>7, <2>8 DEF Reading
<1> QED BY ONLY <1>3, <1>4, <1>10, <1>12, <1>14 DEF Inductive

LEMMA ArriveKeeps ==
    ASSUME Ordinary(stream), Inductive, NEW n \in 1 .. Len(coming), Arrive(n)
    PROVE  Inductive'
<1>1. /\ pc = "idle" /\ conn # "closed" /\ pc' = "loop" /\ iParsed' = 0
      /\ stream' = stream /\ uiStatus' = uiStatus /\ conn' = conn /\ delivered' = delivered
      /\ buf' = buf \o SubSeq(coming, 1, n)
      /\ coming' = SubSeq(coming, n + 1, Len(coming))
    BY ONLY Arrive(n) DEF Arrive
<1>2. Typed /\ iParsed = 0
    BY ONLY <1>1, Inductive DEF Inductive, Typed
<1>3. PICK d \in 0 .. Many : Told(d) /\ Reading(d)
    BY ONLY <1>1, Inductive DEF Inductive
<1>4. PICK lb \in Nat : lb = Len(buf)
    BY ONLY <1>2, Places, Ordinary(stream)
<1>5. PICK lc \in Nat : lc = Len(coming)
    BY ONLY <1>2, Places, Ordinary(stream)
<1>6. PICK lw \in Nat : lw = Len(Whole)
    BY ONLY <1>2, Places, Ordinary(stream)
<1>7. PICK a \in Nat : a = Arrived /\ a + lc = lw
    BY ONLY <1>2, <1>5, <1>6, Places, Ordinary(stream)
<1>8. PICK o \in Nat : o = Origin /\ o + lb = a
    BY ONLY <1>2, <1>4, <1>7, Places, Ordinary(stream)
<1>9. n \in Nat /\ n > 0 /\ n <= lc
    BY ONLY <1>5, lc \in Nat, n \in 1 .. Len(coming)
<1>10. /\ buf' \in Seq(Int) /\ Len(buf') = lb + n
       /\ \A i \in 1 .. lb : buf'[i] = buf[i]
       /\ \A i \in 1 .. n : buf'[lb + i] = coming[i]
       /\ coming' \in Seq(Int) /\ Len(coming') = lc - n
       /\ \A i \in 1 .. lc - n : coming'[i] = coming[n + i]
    <2>1. buf \in Seq(Int) /\ coming \in Seq(Int)
        BY ONLY <1>2 DEF Typed
    <2>2. n \in 0 .. lc
        BY ONLY <1>9, lc \in Nat
    <2>3. lb = Len(buf) /\ lc = Len(coming)
        BY ONLY <1>4, <1>5
    <2>4. PICK u : u = buf'
        OBVIOUS
    <2>5. PICK v : v = coming'
        OBVIOUS
    <2>6. u = buf \o SubSeq(coming, 1, n) /\ v = SubSeq(coming, n + 1, Len(coming))
        BY ONLY <1>1, <2>4, <2>5
    <2>7. Moves(buf, coming, lb, lc, n, u, v)
        BY ONLY <2>1, <2>2, <2>3, <2>6, lb \in Nat, lc \in Nat, Moved
    <2> QED BY ONLY <2>4, <2>5, <2>7 DEF Moves
<1>11. /\ Many' = Many /\ Whole' = Whole /\ Refused' = Refused
       /\ \A k : End(k)' = End(k)
    BY ONLY <1>1, Stays
<1>12. Arrived' = a + n
    <2>1. Arrived' = Len(Whole') - Len(coming')
        BY ONLY TRUE DEF Arrived, Whole, Many
    <2>2. Arrived' = lw - (lc - n)
        BY ONLY <1>6, <1>10, <1>11, <2>1
    <2> QED BY ONLY <1>7, <1>9, <2>2, a \in Nat, lw \in Nat, lc \in Nat
<1>13. Origin' = o
    <2>1. Origin' = Arrived' - Len(buf')
        BY ONLY TRUE DEF Origin
    <2> QED BY ONLY <1>8, <1>9, <1>10, <1>12, <2>1, a \in Nat, o \in Nat, lb \in Nat
<1>14. InPlace'
    <2>1. /\ \A i \in 1 .. lb : buf[i] = Whole[o + i]
          /\ \A i \in 1 .. lc : coming[i] = Whole[a + i]
        <3>1. InPlace
            BY ONLY <1>3 DEF Reading
        <3>2. 0 + 1 = 1
            OBVIOUS
        <3> QED BY ONLY <1>2, <1>4, <1>5, <1>7, <1>8, <3>1, <3>2 DEF InPlace
    <2>2. ASSUME NEW i \in 1 .. lb + n PROVE buf'[i] = Whole[o + i]
        <3>1. CASE i \in 1 .. lb
            BY ONLY <1>10, <2>1, <3>1
        <3>2. CASE i \notin 1 .. lb
            <4>1. PICK j \in 1 .. n : i = lb + j
                BY ONLY <1>9, <3>2, i \in 1 .. lb + n, lb \in Nat
            <4>2. j \in 1 .. lc /\ a + j = o + i
                BY ONLY <1>8, <1>9, <4>1, lb \in Nat, lc \in Nat, o \in Nat
            <4>3. buf'[i] = coming[j]
                BY ONLY <1>10, <4>1
            <4>4. coming[j] = Whole[a + j]
                BY ONLY <2>1, <4>2
            <4> QED BY ONLY <4>2, <4>3, <4>4
        <3> QED BY ONLY <3>1, <3>2
    <2>3. ASSUME NEW i \in 1 .. lc - n PROVE coming'[i] = Whole[a + n + i]
        <3>1. n + i \in 1 .. lc /\ a + (n + i) = a + n + i
            BY ONLY <1>9, i \in 1 .. lc - n, lc \in Nat, a \in Nat
        <3>2. coming'[i] = coming[n + i]
            BY ONLY <1>10, i \in 1 .. lc - n
        <3>3. coming[n + i] = Whole[a + (n + i)]
            BY ONLY <2>1, <3>1
        <3> QED BY ONLY <3>1, <3>2, <3>3
    <2>4. iParsed' + 1 = 1
        BY ONLY <1>1
    <2> QED BY ONLY <1>10, <1>11, <1>12, <1>13, <2>2, <2>3, <2>4 DEF InPlace
<1>15. ShakesHands' = ShakesHands
    BY ONLY <1>1 DEF ShakesHands
<1>16. /\ o = (IF ShakesHands THEN 0 ELSE End(d)) /\ (ShakesHands => d = 0)
       /\ (Refused => ShakesHands) /\ (conn = "closing" => Refused)
    <2>1. o + 0 = o
        BY ONLY o \in Nat
    <2> QED BY ONLY <1>2, <1>3, <1>8, <2>1 DEF Reading
<1>17. ASSUME stream.kind = "http", d < Many PROVE a + n <= End(d + 1)
    <2>1. ~ShakesHands /\ stream.patient
        BY ONLY <1>17, OrdinaryIs, Ordinary(stream) DEF ShakesHands
    <2>2. ~Refused /\ conn = "open"
        BY ONLY <1>1, <1>2, <1>16, <2>1 DEF Typed, TypeOK
    <2>3. d = Many \/ Arrived < End(d + 1)
        BY ONLY <1>1, <1>3, <2>1, <2>2 DEF Reading, Waiting
    <2>4. PICK m \in Nat : m = Many
        BY ONLY <1>2, Places, Ordinary(stream)
    <2>5. d + 1 \in 0 .. m /\ d \in 0 .. m /\ d < m /\ d # m
        BY ONLY <1>17, <2>4, d \in 0 .. Many, m \in Nat
    <2>6. ~(Arrived < End(d + 1) /\ End(d + 1) < Arrived + n)
        BY ONLY <2>1, <2>4, <2>5, Arrive(n) DEF Arrive, End, Many
    <2>7. End(d + 1) \in Nat
        BY ONLY <2>4, <2>5, EndIs, Ordinary(stream), m \in Nat
    <2> QED BY ONLY <1>7, <1>9, <2>3, <2>4, <2>5, <2>6, <2>7, a \in Nat
<1>18. Reading(d)'
    <2>1. Origin' + iParsed' = o
        BY ONLY <1>1, <1>13, o \in Nat
    <2>2. pc' # "idle"
        BY ONLY <1>1
    <2>3. stream.kind = "http" /\ d < Many => Arrived' <= End(d + 1)
        BY ONLY <1>12, <1>17
    <2> QED BY ONLY <1>1, <1>11, <1>14, <1>15, <1>16, <2>1, <2>2, <2>3 DEF Reading
<1>19. Told(d)'
    BY ONLY <1>1, <1>3, ToldStays
<1>20. Typed'
    <2>1. Len(buf') + Len(coming') <= Len(Wire(stream', Len(stream'.msgs)))
        <3>1. Len(Wire(stream', Len(stream'.msgs))) = lw
            BY ONLY <1>1, <1>6 DEF Whole, Many
        <3>2. (lb + n) + (lc - n) <= lw
            BY ONLY <1>7, <1>8, <1>9, a \in Nat, o \in Nat, lb \in Nat, lc \in Nat
        <3> QED BY ONLY <1>10, <3>1, <3>2
    <2>2. iParsed' \in 0 .. Len(buf')
        BY ONLY <1>1, <1>9, <1>10, lb \in Nat
    <2>3. /\ stream \in Streams /\ uiStatus \in BOOLEAN
          /\ conn \in {"open", "closing", "closed"}
        BY ONLY <1>2 DEF Typed, TypeOK
    <2> QED BY ONLY <1>1, <1>10, <2>1, <2>2, <2>3 DEF Typed, TypeOK
<1> QED BY ONLY <1>11, <1>18, <1>19, <1>20, d \in 0 .. Many DEF Inductive

LEMMA WaitsIs ==
    ASSUME Ordinary(stream), Typed, NEW d \in 0 .. Many, Reading(d), ~Refused,
           iParsed < Len(buf) => parsePack.used = 0
    PROVE  Waiting(d)
<1>1. PICK n \in Nat : n = Many
    BY ONLY Places, Ordinary(stream), Typed
<1>2. PICK a \in Nat : a = Arrived
    BY ONLY Places, Ordinary(stream), Typed
<1>3. d \in 0 .. n /\ (d = n \/ d < n)
    BY ONLY <1>1, d \in 0 .. Many, n \in Nat
<1>4. End(d) \in Nat /\ (d < n => /\ End(d) < End(d + 1) /\ End(d + 1) \in Nat
                                  /\ Len(BytesOf(stream, d + 1)) \in Nat \ {0}
                                  /\ End(d + 1) = End(d) + Len(BytesOf(stream, d + 1)))
    BY ONLY <1>1, <1>3, EndIs, Ordinary(stream), n \in Nat
<1>5. ShakesHands => Len(Hello(stream)) \in Nat \ {0}
    <2>1. Hello(stream) \in Seq(Int) /\ (ShakesHands => Len(Hello(stream)) > 0)
        BY ONLY HelloIs, Ordinary(stream) DEF ShakesHands
    <2>2. Len(Hello(stream)) \in Nat
        BY ONLY <2>1, LenProperties
    <2> QED BY ONLY <2>1, <2>2
<1>6. CASE ~(iParsed < Len(buf))
    <2>1. Origin + iParsed = a
        BY ONLY <1>2, <1>6, Places, Ordinary(stream), Typed
    <2>2. a = IF ShakesHands THEN 0 ELSE End(d)
        BY ONLY <2>1, Reading(d) DEF Reading
    <2> QED BY ONLY <1>1, <1>2, <1>3, <1>4, <1>5, <2>2 DEF Waiting
<1>7. CASE iParsed < Len(buf)
    <2>1. PICK q : q = SubSeq(buf, iParsed + 1, Len(buf))
        OBVIOUS
    <2>2. Rest(q, d)
        BY ONLY <1>7, <2>1, RestIs, Ordinary(stream), Typed, d \in 0 .. Many, Reading(d)
    <2>3. Parsed(q, d)
        BY ONLY <2>1, <2>2, ParsedIs, Ordinary(stream), d \in 0 .. Many
    <2>4. parsePack.used = 0
        BY ONLY <1>7, iParsed < Len(buf) => parsePack.used = 0
    <2>5. PICK lq \in Nat \ {0} : lq = Len(q)
        BY ONLY <2>2 DEF Rest
    <2>6. \A m, op, data : Cut(m, op, data).used = m /\ Skip(m).used = m
        BY ONLY TRUE DEF Cut, Skip, Wait
    <2>7. CASE ShakesHands
        <3>1. parsePack = IF lq < Len(Hello(stream)) THEN Wait ELSE Skip(Len(Hello(stream)))
            BY ONLY <2>3, <2>5, <2>7, ~Refused DEF Parsed
        <3>2. lq = a
            BY ONLY <1>2, <2>2, <2>5, <2>7 DEF Rest
        <3>3. lq < Len(Hello(stream))
            <4>1. ASSUME ~(lq < Len(Hello(stream))) PROVE FALSE
                <5>1. parsePack.used = Len(Hello(stream))
                    BY ONLY <2>6, <3>1, <4>1, Zenon
                <5> QED BY ONLY <1>5, <2>4, <2>7, <5>1
            <4> QED BY ONLY <4>1, Zenon
        <3> QED BY ONLY <1>2, <2>7, <3>2, <3>3 DEF Waiting
    <2>8. CASE ~ShakesHands
        <3>1. d < n /\ a = End(d) + lq
            BY ONLY <1>1, <1>2, <2>2, <2>5, <2>8 DEF Rest
        <3>2. stream.kind # "default"
            <4>1. ASSUME stream.kind = "default" PROVE FALSE
                <5>1. parsePack = Cut(lq, None, q)
                    BY ONLY <2>3, <2>5, <4>1 DEF Parsed
                <5>2. parsePack.used = lq
                    BY ONLY <2>6, <5>1, Zenon
                <5> QED BY ONLY <2>4, <5>2, lq \in Nat \ {0}
            <4> QED BY ONLY <4>1, Zenon
        <3>3. PICK l \in Nat \ {0} : l = Len(BytesOf(stream, d + 1))
            BY ONLY <1>4, <3>1
        <3>4. lq < l
            <4>1. ASSUME ~(lq < l) PROVE FALSE
                <5>1. Cuts(parsePack, q, BytesOf(stream, d + 1),
                           ContentOf(stream, d + 1).op, ContentOf(stream, d + 1).data)
                    BY ONLY <2>3, <2>8, <3>2 DEF Parsed
                <5>2. parsePack = Cut(l, ContentOf(stream, d + 1).op,
                                      ContentOf(stream, d + 1).data)
                    BY ONLY <2>5, <3>3, <4>1, <5>1, Zenon DEF Cuts
                <5>3. parsePack.used = l
                    BY ONLY <5>2 DEF Cut
                <5> QED BY ONLY <2>4, <5>3, l \in Nat \ {0}
            <4> QED BY ONLY <4>1, Zenon
        <3>5. a < End(d + 1)
            BY ONLY <1>4, <3>1, <3>3, <3>4, lq \in Nat \ {0}, l \in Nat \ {0}
        <3> QED BY ONLY <1>2, <2>8, <3>5 DEF Waiting
    <2> QED BY ONLY <2>7, <2>8
<1> QED BY ONLY <1>6, <1>7

LEMMA ReadEndsKeeps ==
    ASSUME Ordinary(stream), Inductive, ReadEnds
    PROVE  Inductive'
<1>1. /\ pc = "loop" /\ pc' = "idle" /\ iParsed' = 0
      /\ iParsed < Len(buf) => parsePack.used = 0
      /\ buf' = SubSeq(buf, iParsed + 1, Len(buf)) /\ coming' = coming
      /\ stream' = stream /\ uiStatus' = uiStatus /\ conn' = conn /\ delivered' = delivered
    BY ONLY ReadEnds DEF ReadEnds
<1>2. Typed
    BY ONLY Inductive DEF Inductive
<1>3. conn # "closed" /\ conn \in {"open", "closing", "closed"}
    BY ONLY <1>1, <1>2 DEF Typed, TypeOK
<1>4. PICK d \in 0 .. Many : Told(d) /\ Reading(d)
    BY ONLY <1>3, Inductive DEF Inductive
<1>5. PICK lb \in Nat : lb = Len(buf)
    BY ONLY <1>2, Places, Ordinary(stream)
<1>6. PICK lc \in Nat : lc = Len(coming)
    BY ONLY <1>2, Places, Ordinary(stream)
<1>7. PICK lw \in Nat : lw = Len(Whole)
    BY ONLY <1>2, Places, Ordinary(stream)
<1>8. PICK a \in Nat : a = Arrived /\ a + lc = lw
    BY ONLY <1>2, <1>6, <1>7, Places, Ordinary(stream)
<1>9. PICK o \in Nat : o = Origin /\ o + lb = a
    BY ONLY <1>2, <1>5, <1>8, Places, Ordinary(stream)
<1>10. PICK p \in Nat : p = iParsed /\ p <= lb
    BY ONLY <1>2, <1>5, Places, Ordinary(stream)
<1>11. /\ buf' \in Seq(Int) /\ Len(buf') = lb - p
       /\ \A i \in 1 .. lb - p : buf'[i] = buf[p + i]
    <2>1. buf \in Seq(Int) /\ <<>> \in Seq(Int) /\ Len(<<>>) = 0
        BY ONLY <1>2, EmptySeq DEF Typed
    <2>2. p \in 0 .. lb /\ 0 \in Nat
        BY ONLY <1>10, p \in Nat, lb \in Nat
    <2>3. PICK u : u = <<>> \o SubSeq(buf, 1, p)
        OBVIOUS
    <2>4. PICK v : v = buf'
        OBVIOUS
    <2>5. v = SubSeq(buf, p + 1, Len(buf)) /\ lb = Len(buf) /\ 0 = Len(<<>>)
        BY ONLY <1>1, <1>5, <1>10, <2>1, <2>4
    <2>6. Moves(<<>>, buf, 0, lb, p, u, v)
        BY ONLY <2>1, <2>2, <2>3, <2>5, lb \in Nat, Moved
    <2> QED BY ONLY <2>4, <2>6 DEF Moves
<1>12. /\ Many' = Many /\ Whole' = Whole /\ Refused' = Refused
       /\ \A k : End(k)' = End(k)
    BY ONLY <1>1, Stays
<1>13. Arrived' = a
    BY ONLY <1>1, <1>8 DEF Arrived
<1>14. Origin' = o + p
    <2>1. Origin' = Arrived' - Len(buf')
        BY ONLY TRUE DEF Origin
    <2> QED BY ONLY <1>9, <1>10, <1>11, <1>13, <2>1, a \in Nat, o \in Nat, lb \in Nat, p \in Nat
<1>15. InPlace'
    <2>1. /\ \A i \in p + 1 .. lb : buf[i] = Whole[o + i]
          /\ \A i \in 1 .. lc : coming[i] = Whole[a + i]
        BY ONLY <1>4, <1>5, <1>6, <1>8, <1>9, <1>10 DEF Reading, InPlace
    <2>2. ASSUME NEW i \in 1 .. lb - p PROVE buf'[i] = Whole[o + p + i]
        <3>1. p + i \in p + 1 .. lb /\ o + (p + i) = o + p + i
            BY ONLY <1>10, i \in 1 .. lb - p, p \in Nat, lb \in Nat, o \in Nat
        <3>2. buf'[i] = buf[p + i]
            BY ONLY <1>11, i \in 1 .. lb - p
        <3>3. buf[p + i] = Whole[o + (p + i)]
            BY ONLY <2>1, <3>1
        <3> QED BY ONLY <3>1, <3>2, <3>3
    <2>3. iParsed' + 1 = 1
        BY ONLY <1>1
    <2> QED BY ONLY <1>1, <1>6, <1>11, <1>12, <1>13, <1>14, <2>1, <2>2, <2>3 DEF InPlace
<1>16. ShakesHands' = ShakesHands
    BY ONLY <1>1 DEF ShakesHands
<1>17. /\ o + p = (IF ShakesHands THEN 0 ELSE End(d)) /\ (ShakesHands => d = 0)
       /\ (Refused => ShakesHands) /\ (conn = "closing" => Refused)
       /\ (stream.kind = "http" /\ d < Many => Arrived <= End(d + 1))
    BY ONLY <1>4, <1>9, <1>10 DEF Reading
<1>18. ~Refused => Waiting(d)
    BY ONLY <1>1, <1>2, <1>4, Ordinary(stream), d \in 0 .. Many, WaitsIs
<1>19. Reading(d)'
    <2>1. Origin' + iParsed' = o + p
        BY ONLY <1>1, <1>14, o \in Nat, p \in Nat
    <2>2. Arrived' = Arrived
        BY ONLY <1>8, <1>13
    <2>3. Waiting(d)' = Waiting(d)
        BY ONLY <1>1, <1>12, <1>16, <2>2 DEF Waiting
    <2> QED BY ONLY <1>1, <1>12, <1>15, <1>16, <1>17, <1>18, <2>1, <2>2, <2>3 DEF Reading
<1>20. Told(d)'
    BY ONLY <1>1, <1>4, ToldStays
<1>21. Typed'
    <2>1. Len(buf') + Len(coming') <= Len(Wire(stream', Len(stream'.msgs)))
        <3>1. Len(Wire(stream', Len(stream'.msgs))) = lw
            BY ONLY <1>1, <1>7 DEF Whole, Many
        <3>2. (lb - p) + lc <= lw
            BY ONLY <1>8, <1>9, <1>10, a \in Nat, o \in Nat, p \in Nat, lb \in Nat, lc \in Nat
        <3>3. Len(coming') = lc
            BY ONLY <1>1, <1>6
        <3> QED BY ONLY <1>11, <3>1, <3>2, <3>3
    <2>2. iParsed' \in 0 .. Len(buf')
        BY ONLY <1>1, <1>10, <1>11, lb \in Nat, p \in Nat
    <2>3. /\ stream \in Streams /\ uiStatus \in BOOLEAN /\ coming \in Seq(Int)
        BY ONLY <1>2 DEF Typed, TypeOK
    <2> QED BY ONLY <1>1, <1>3, <1>11, <2>1, <2>2, <2>3 DEF Typed, TypeOK
<1> QED BY ONLY <1>12, <1>19, <1>20, <1>21, d \in 0 .. Many DEF Inductive

LEMMA ReadFailsKeeps ==
    ASSUME Ordinary(stream), Inductive, ReadFails
    PROVE  Inductive'
<1>1. /\ pc = "loop" /\ pc' = "idle" /\ iParsed' = 0 /\ iParsed < Len(buf)
      /\ parsePack.used = Fail /\ conn' = "closing" /\ buf' = buf /\ coming' = coming
      /\ stream' = stream /\ uiStatus' = uiStatus /\ delivered' = delivered
    BY ONLY ReadFails DEF ReadFails
<1>2. Typed
    BY ONLY Inductive DEF Inductive
<1>3. conn # "closed"
    BY ONLY <1>1, <1>2 DEF Typed
<1>4. PICK d \in 0 .. Many : Told(d) /\ Reading(d)
    BY ONLY <1>3, Inductive DEF Inductive
<1>5. PICK q : q = SubSeq(buf, iParsed + 1, Len(buf))
    OBVIOUS
<1>6. Rest(q, d)
    BY ONLY <1>1, <1>2, <1>4, <1>5, RestIs, Ordinary(stream), d \in 0 .. Many
<1>7. Parsed(q, d)
    BY ONLY <1>5, <1>6, ParsedIs, Ordinary(stream), d \in 0 .. Many
<1>8. PICK n \in Nat : n = Many
    BY ONLY <1>2, Places, Ordinary(stream)
<1>9. \A m, op, data : Cut(m, op, data).used = m /\ Skip(m).used = m
    BY ONLY TRUE DEF Cut, Skip, Wait
<1>10. Fail \notin Nat
    BY DEF Fail
<1>11. ShakesHands
    <2>1. ASSUME ~ShakesHands PROVE FALSE
        <3>1. CASE stream.kind = "default"
            <4>1. parsePack.used = Len(q)
                <5>1. parsePack = Cut(Len(q), None, q)
                    BY ONLY <1>7, <3>1 DEF Parsed
                <5> QED BY ONLY <5>1 DEF Cut
            <4> QED BY ONLY <1>1, <1>6, <1>10, <4>1 DEF Rest
        <3>2. CASE stream.kind # "default"
            <4>1. d < n
                BY ONLY <1>6, <1>8, <2>1 DEF Rest
            <4>2. d \in 0 .. n
                BY ONLY <1>8, d \in 0 .. Many
            <4>3. Len(BytesOf(stream, d + 1)) \in Nat
                BY ONLY <1>8, <4>1, <4>2, EndIs, Ordinary(stream), n \in Nat
            <4>4. Cuts(parsePack, q, BytesOf(stream, d + 1),
                       ContentOf(stream, d + 1).op, ContentOf(stream, d + 1).data)
                BY ONLY <1>7, <2>1, <3>2 DEF Parsed
            <4>5. parsePack.used = 0 \/ parsePack.used = Len(BytesOf(stream, d + 1))
                BY ONLY <4>4 DEF Cuts, Cut
            <4> QED BY ONLY <1>1, <1>10, <4>3, <4>5
        <3> QED BY ONLY <3>1, <3>2
    <2> QED BY ONLY <2>1, Zenon
<1>12. Refused
    <2>1. ASSUME ~Refused PROVE FALSE
        <3>1. parsePack = Wait \/ parsePack = Skip(Len(Hello(stream)))
            BY ONLY <1>7, <1>11, <2>1, Zenon DEF Parsed
        <3>2. parsePack.used = 0 \/ parsePack.used = Len(Hello(stream))
            BY ONLY <1>9, <3>1 DEF Wait
        <3>3. Len(Hello(stream)) \in Nat
            BY ONLY HelloIs, Ordinary(stream), LenProperties
        <3> QED BY ONLY <1>1, <1>10, <3>2, <3>3
    <2> QED BY ONLY <2>1, Zenon
<1>13. Origin \in Nat /\ iParsed \in Nat /\ Len(buf) \in Nat
    BY ONLY <1>2, Places, Ordinary(stream)
<1>14. d = 0 /\ Origin + iParsed = 0 /\ InPlace
    BY ONLY <1>4, <1>11 DEF Reading
<1>15. iParsed = 0 /\ Origin + 0 = 0
    BY ONLY <1>13, <1>14
<1>16. iParsed' = iParsed
    BY ONLY <1>1, <1>15
<1>17. /\ Many' = Many /\ Whole' = Whole /\ Refused' = Refused
       /\ \A k : End(k)' = End(k)
    BY ONLY <1>1, Stays
<1>18. Arrived' = Arrived
    BY ONLY <1>1 DEF Arrived
<1>19. Origin' = Origin
    BY ONLY <1>1, <1>18 DEF Origin
<1>20. InPlace'
    BY ONLY <1>1, <1>14, <1>16, <1>17, <1>18, <1>19, Zenon DEF InPlace
<1>21. ShakesHands' = ShakesHands
    BY ONLY <1>1 DEF ShakesHands
<1>22. Reading(d)'
    <2>1. stream.kind # "http"
        BY ONLY <1>11 DEF ShakesHands
    <2>2. Origin' + iParsed' = 0
        BY ONLY <1>14, <1>16, <1>19
    <2> QED BY ONLY <1>1, <1>11, <1>12, <1>14, <1>17, <1>20, <1>21, <2>1, <2>2 DEF Reading
<1>23. Told(d)'
    BY ONLY <1>1, <1>4, ToldStays
<1>24. Typed'
    <2>1. iParsed' \in 0 .. Len(buf')
        BY ONLY <1>1, <1>13
    <2> QED BY ONLY <1>1, <1>2, <2>1 DEF Typed, TypeOK
<1> QED BY ONLY <1>17, <1>22, <1>23, <1>24, d \in 0 .. Many DEF Inductive

LEMMA ExecCloseKeeps ==
    ASSUME Ordinary(stream), Inductive, ExecClose
    PROVE  Inductive'
<1>1. /\ pc = "idle" /\ pc' = "idle" /\ conn' = "closed" /\ buf' = <<>> /\ iParsed' = iParsed
      /\ stream' = stream /\ uiStatus' = uiStatus /\ delivered' = delivered
      /\ coming' = coming
    BY ONLY ExecClose DEF ExecClose
<1>2. Typed /\ iParsed = 0
    BY ONLY <1>1, Inductive DEF Inductive, Typed
<1>3. PICK d \in 0 .. Many : Told(d)
    BY ONLY Inductive DEF Inductive
<1>4. Told(d)'
    BY ONLY <1>1, <1>3, ToldStays
<1>5. Many' = Many /\ Whole' = Whole
    BY ONLY <1>1, Stays
<1>6. Len(buf') = 0 /\ buf' \in Seq(Int)
    BY ONLY <1>1, EmptySeq
<1>7. Len(buf') + Len(coming') <= Len(Wire(stream', Len(stream'.msgs)))
    <2>1. Len(coming) \in Nat /\ Len(buf) \in Nat /\ Len(buf) + Len(coming) <= Len(Whole)
          /\ Len(Whole) \in Nat
        <3>1. Len(buf) + Len(coming) <= Len(Whole)
            BY ONLY <1>2 DEF Typed, TypeOK, Whole, Many
        <3> QED BY ONLY <1>2, <3>1, Places, Ordinary(stream)
    <2>2. Len(Wire(stream', Len(stream'.msgs))) = Len(Whole)
        BY ONLY <1>1 DEF Whole, Many
    <2>3. Len(coming') = Len(coming)
        BY ONLY <1>1
    <2>4. 0 + Len(coming) <= Len(Whole)
        BY ONLY <2>1
    <2> QED BY ONLY <1>6, <2>2, <2>3, <2>4
<1>8. Typed'
    <2>1. iParsed' \in 0 .. Len(buf')
        BY ONLY <1>1, <1>2, <1>6
    <2> QED BY ONLY <1>1, <1>2, <1>6, <1>7, <2>1 DEF Typed, TypeOK
<1> QED BY ONLY <1>1, <1>4, <1>5, <1>8, d \in 0 .. Many DEF Inductive

\* One message, or the handshake, is read: e messages are told after it.
Reads(r, e) ==
    /\ ~Refused
    /\ r.used \in 1 .. Len(buf) - iParsed
    /\ Origin + iParsed + r.used = End(e)
    /\ stream.kind = "http" /\ e < Many => Arrived <= End(e + 1)
    /\ LET told == Tell(delivered, [op |-> r.op, data |-> r.data])
       IN  /\ told \in Seq(Record)
           /\ stream.kind = "default" => Pieces(told) = Wire(stream, e)
           /\ stream.kind # "default" => told = Expected(e)

LEMMA HandshakeRead ==
    ASSUME Ordinary(stream), Typed, NEW d \in 0 .. Many, Told(d), Reading(d), NEW q,
           Rest(q, d), Parsed(q, d), parsePack.used > 0, ShakesHands
    PROVE  Reads(parsePack, d)
<1>1. PICK l \in Nat \ {0} : l = Len(Hello(stream))
    <2>1. Hello(stream) \in Seq(Int) /\ Len(Hello(stream)) > 0
        BY ONLY HelloIs, Ordinary(stream), ShakesHands DEF ShakesHands
    <2>2. Len(Hello(stream)) \in Nat
        BY ONLY <2>1, LenProperties
    <2> QED BY ONLY <2>1, <2>2
<1>2. PICK lq \in Nat \ {0} : lq = Len(q) /\ lq = Len(buf) - iParsed
    BY ONLY Rest(q, d) DEF Rest
<1>3. parsePack = IF lq < l THEN Wait ELSE IF Refused THEN Failed ELSE Skip(l)
    BY ONLY <1>1, <1>2, Parsed(q, d), ShakesHands DEF Parsed
<1>4. Wait.used = 0 /\ Failed.used = -1 /\ Skip(l).used = l
      /\ Skip(l).op = None /\ Skip(l).data = <<>>
    BY ONLY l \in Nat \ {0} DEF Wait, Failed, Skip, Fail
<1>5. ~(0 > 0) /\ ~(-1 > 0)
    OBVIOUS
<1>6. ~Refused /\ ~(lq < l) /\ parsePack = Skip(l)
    BY ONLY <1>3, <1>4, <1>5, parsePack.used > 0, Zenon
<1>7. parsePack.used \in 1 .. Len(buf) - iParsed /\ parsePack.used = l
    BY ONLY <1>2, <1>4, <1>6, lq \in Nat \ {0}, l \in Nat \ {0}
<1>8. d = 0 /\ Origin + iParsed = 0
    BY ONLY Reading(d), ShakesHands DEF Reading
<1>9. PICK n \in Nat : n = Many /\ n = Len(stream.msgs)
    BY ONLY Places, Ordinary(stream), Typed DEF Many
<1>10. End(0) = l
    BY ONLY <1>1, <1>9, WireIs, Ordinary(stream), n \in Nat DEF End
<1>11. Origin + iParsed + parsePack.used = End(d)
    BY ONLY <1>7, <1>8, <1>10, l \in Nat \ {0}
<1>12. stream.kind # "http" /\ stream.kind # "default"
    BY ONLY ShakesHands DEF ShakesHands
<1>13. Tell(delivered, [op |-> parsePack.op, data |-> parsePack.data]) = delivered
    BY ONLY <1>4, <1>6 DEF Tell, Empty
<1>14. delivered \in Seq(Record) /\ delivered = Expected(d)
    BY ONLY <1>12, Told(d) DEF Told
<1> QED BY ONLY <1>6, <1>7, <1>11, <1>12, <1>13, <1>14, Zenon DEF Reads

LEMMA MessageRead ==
    ASSUME Ordinary(stream), Typed, NEW d \in 0 .. Many, Told(d), Reading(d), NEW q,
           Rest(q, d), Parsed(q, d), parsePack.used > 0, ~ShakesHands,
           stream.kind # "default"
    PROVE  d + 1 \in 0 .. Many /\ Reads(parsePack, d + 1)
<1>1. PICK n \in Nat : n = Many /\ n = Len(stream.msgs)
    BY ONLY Places, Ordinary(stream), Typed DEF Many
<1>2. d < n /\ Arrived = End(d) + Len(q)
    BY ONLY <1>1, Rest(q, d), ~ShakesHands DEF Rest
<1>3. d \in 0 .. n /\ d + 1 \in 0 .. n /\ d + 1 \in 1 .. n /\ d + 1 - 1 = d
    BY ONLY <1>1, <1>2, d \in 0 .. Many, n \in Nat
<1>4. PICK l \in Nat \ {0} : l = Len(BytesOf(stream, d + 1))
    BY ONLY <1>1, <1>2, <1>3, EndIs, Ordinary(stream), n \in Nat
<1>5. End(d) \in Nat /\ End(d + 1) = End(d) + l /\ End(d + 1) \in Nat
    BY ONLY <1>1, <1>2, <1>3, <1>4, EndIs, Ordinary(stream), n \in Nat
<1>6. PICK lq \in Nat \ {0} : lq = Len(q) /\ lq = Len(buf) - iParsed
    BY ONLY Rest(q, d) DEF Rest
<1>7. PICK c : c = ContentOf(stream, d + 1)
    OBVIOUS
<1>8. c \in Record
    BY ONLY <1>1, <1>3, <1>7, ContentIs, Ordinary(stream)
<1>9. Cuts(parsePack, q, BytesOf(stream, d + 1), c.op, c.data)
    BY ONLY <1>7, Parsed(q, d), ~ShakesHands, stream.kind # "default" DEF Parsed
<1>10. ~(0 > 0)
    OBVIOUS
<1>11. ~(lq < l) /\ parsePack = Cut(l, c.op, c.data)
    BY ONLY <1>4, <1>6, <1>9, <1>10, parsePack.used > 0, Zenon DEF Cuts
<1>12. parsePack.used = l /\ parsePack.op = c.op /\ parsePack.data = c.data
    BY ONLY <1>11 DEF Cut
<1>13. [op |-> parsePack.op, data |-> parsePack.data] = c
    BY ONLY <1>8, <1>12 DEF Record
<1>14. ~Refused
    BY ONLY Reading(d), ~ShakesHands DEF Reading
<1>15. parsePack.used \in 1 .. Len(buf) - iParsed
    BY ONLY <1>6, <1>11, <1>12, lq \in Nat \ {0}, l \in Nat \ {0}
<1>16. Origin + iParsed + parsePack.used = End(d + 1)
    <2>1. Origin + iParsed = End(d)
        BY ONLY Reading(d), ~ShakesHands DEF Reading
    <2> QED BY ONLY <1>5, <1>12, <2>1
<1>17. stream.kind = "http" /\ d + 1 < n => Arrived <= End(d + 1 + 1)
    <2>1. stream.kind = "http" => Arrived <= End(d + 1)
        BY ONLY <1>1, <1>2, Reading(d) DEF Reading
    <2>2. d + 1 < n => End(d + 1) < End(d + 1 + 1) /\ End(d + 1 + 1) \in Nat
        BY ONLY <1>1, <1>3, EndIs, Ordinary(stream), n \in Nat
    <2> QED BY ONLY <1>2, <1>5, <1>6, <2>1, <2>2, lq \in Nat \ {0}
<1>18. delivered \in Seq(Record) /\ delivered = Expected(d)
    BY ONLY stream.kind # "default", Told(d) DEF Told
<1>19. Expected(d + 1) = Tell(Expected(d), c)
    <2>1. PICK k \in 1 .. n : k = d + 1 /\ k - 1 = d
        BY ONLY <1>3
    <2>2. Expected(k) = Tell(Expected(k - 1), ContentOf(stream, k))
        BY ONLY <1>1, ExpectedIs, Ordinary(stream), n \in Nat, k \in 1 .. n
    <2> QED BY ONLY <1>7, <2>1, <2>2, Zenon
<1>20. Tell(delivered, c) \in Seq(Record)
    BY ONLY <1>8, <1>18, TellIs
<1> QED BY ONLY <1>1, <1>3, <1>13, <1>14, <1>15, <1>16, <1>17, <1>18, <1>19, <1>20,
            stream.kind # "default", Zenon DEF Reads

LEMMA PieceRead ==
    ASSUME Ordinary(stream), Typed, NEW d \in 0 .. Many, Told(d), Reading(d), NEW q,
           Rest(q, d), Parsed(q, d), stream.kind = "default"
    PROVE  \E e \in 0 .. Many : Reads(parsePack, e)
<1>1. PICK n \in Nat : n = Many /\ n = Len(stream.msgs)
    BY ONLY Places, Ordinary(stream), Typed DEF Many
<1>2. ~ShakesHands
    BY ONLY stream.kind = "default" DEF ShakesHands
<1>3. PICK lq \in Nat \ {0} : lq = Len(q) /\ lq = Len(buf) - iParsed
    BY ONLY Rest(q, d) DEF Rest
<1>4. q \in Seq(Int) /\ Arrived = End(d) + lq /\ \A i \in 1 .. lq : q[i] = Whole[End(d) + i]
    BY ONLY <1>2, <1>3, Rest(q, d) DEF Rest
<1>5. d \in 0 .. n
    BY ONLY <1>1, d \in 0 .. Many
<1>6. \A k \in 0 .. n : /\ Pieces(Expected(k)) = Wire(stream, k)
                        /\ End(k) = k /\ Wire(stream, k) \in Seq(Int)
    BY ONLY <1>1, PiecesExpected, WireIs, Ordinary(stream), n \in Nat,
            stream.kind = "default" DEF End
<1>7. End(d) = d /\ d \in Nat
    BY ONLY <1>5, <1>6
<1>8. PICK e \in 0 .. n : e = d + lq
    <2>1. Arrived <= Len(Whole) /\ Len(Whole) = End(n) /\ n \in 0 .. n
        BY ONLY <1>1, Places, EndIs, Ordinary(stream), Typed, n \in Nat
    <2>2. d + lq <= n
        BY ONLY <1>4, <1>6, <1>7, <2>1
    <2> QED BY ONLY <1>7, <2>2, lq \in Nat \ {0}, n \in Nat
<1>9. End(e) = e /\ Wire(stream, e) \in Seq(Int) /\ e \in Nat
    BY ONLY <1>6, e \in 0 .. n
<1>10. PICK w : w = Wire(stream, d)
    OBVIOUS
<1>11. PICK u : u = Wire(stream, e)
    OBVIOUS
<1>12. w \in Seq(Int) /\ Len(w) = d /\ u \in Seq(Int) /\ Len(u) = e
    BY ONLY <1>5, <1>6, <1>7, <1>9, <1>10, <1>11 DEF End
<1>13. /\ \A i \in 1 .. d : Whole[i] = w[i]
       /\ \A i \in 1 .. e : Whole[i] = u[i]
    <2>1. \A i \in 1 .. End(d) : Whole[i] = w[i]
        BY ONLY <1>1, <1>5, <1>10, EndIs, Ordinary(stream), n \in Nat
    <2>2. \A i \in 1 .. End(e) : Whole[i] = u[i]
        BY ONLY <1>1, <1>11, EndIs, Ordinary(stream), n \in Nat, e \in 0 .. n
    <2> QED BY ONLY <1>7, <1>9, <2>1, <2>2
<1>14. w \o q = u
    <2>1. /\ w \o q \in Seq(Int) /\ Len(w \o q) = d + lq
          /\ \A i \in 1 .. d : (w \o q)[i] = w[i]
          /\ \A i \in 1 .. lq : (w \o q)[d + i] = q[i]
        <3>1. q \in Seq(Int) /\ w \in Seq(Int) /\ d \in Nat /\ lq \in Nat /\ d = Len(w)
              /\ lq = Len(q)
            BY ONLY <1>3, <1>4, <1>7, <1>12, lq \in Nat \ {0}
        <3> QED BY ONLY <3>1, Joined
    <2>2. PICK v : v = w \o q
        OBVIOUS
    <2>3. v \in Seq(Int) /\ Len(v) = e
        BY ONLY <1>8, <2>1, <2>2
    <2>4. ASSUME NEW i \in 1 .. e PROVE v[i] = u[i]
        <3>1. CASE i <= d
            <4>1. i \in 1 .. d
                BY ONLY <1>7, <3>1, i \in 1 .. e
            <4>2. v[i] = w[i]
                BY ONLY <2>1, <2>2, <4>1
            <4> QED BY ONLY <1>13, <4>1, <4>2, i \in 1 .. e
        <3>2. CASE ~(i <= d)
            <4>1. PICK j \in 1 .. lq : i = d + j
                BY ONLY <1>7, <1>8, <3>2, i \in 1 .. e, lq \in Nat \ {0}
            <4>2. v[i] = q[j]
                BY ONLY <2>1, <2>2, <4>1
            <4>3. q[j] = Whole[d + j]
                BY ONLY <1>4, <1>7, j \in 1 .. lq
            <4> QED BY ONLY <1>13, <4>1, <4>2, <4>3, i \in 1 .. e
        <3> QED BY ONLY <3>1, <3>2
    <2>5. v = u
        <3>1. Len(v) = Len(u) /\ \A i \in 1 .. Len(v) : v[i] = u[i]
            BY ONLY <1>12, <2>3, <2>4
        <3> QED BY ONLY <1>12, <2>3, <3>1, SeqEqual
    <2> QED BY ONLY <2>2, <2>5
<1>15. parsePack = Cut(lq, None, q)
    BY ONLY <1>3, Parsed(q, d), stream.kind = "default" DEF Parsed
<1>16. PICK m : m = [op |-> parsePack.op, data |-> parsePack.data]
    OBVIOUS
<1>17. m \in Record /\ m.data = q /\ parsePack.used = lq
    BY ONLY <1>4, <1>15, <1>16 DEF Record, Cut, None
<1>18. delivered \in Seq(Record) /\ Pieces(delivered) = w
    BY ONLY <1>10, stream.kind = "default", Told(d) DEF Told
<1>19. Pieces(Tell(delivered, m)) = u /\ Tell(delivered, m) \in Seq(Record)
    <2>1. Pieces(Tell(delivered, m)) = Pieces(delivered) \o m.data
        BY ONLY <1>17, <1>18, PiecesTold
    <2>2. Tell(delivered, m) \in Seq(Record)
        BY ONLY <1>17, <1>18, TellIs
    <2> QED BY ONLY <1>14, <1>17, <1>18, <2>1, <2>2
<1>20. ~Refused
    BY ONLY <1>2, Reading(d) DEF Reading
<1>21. parsePack.used \in 1 .. Len(buf) - iParsed
    BY ONLY <1>3, <1>17, lq \in Nat \ {0}
<1>22. Origin + iParsed + parsePack.used = End(e)
    <2>1. Origin + iParsed = End(d)
        BY ONLY <1>2, Reading(d) DEF Reading
    <2> QED BY ONLY <1>7, <1>8, <1>9, <1>17, <2>1
<1>23. Reads(parsePack, e)
    BY ONLY <1>11, <1>16, <1>19, <1>20, <1>21, <1>22, stream.kind = "default" DEF Reads
<1> QED BY ONLY <1>1, <1>23, e \in 0 .. n

Untouched(x, y, n, from) ==
    y \in Seq(Int) /\ Len(y) = n /\ \A i \in from + 1 .. n : y[i] = x[i]

\* Unmasking touches what is used, and nothing behind it.
LEMMA UnmaskedIs ==
    ASSUME NEW x \in Seq(Int), NEW n \in Nat, n = Len(x), NEW p \in Nat, NEW r,
           NEW u \in Nat, r.used = u, NEW y, y = Unmasked(x, p, r)
    PROVE  Untouched(x, y, n, p + u)
<1>1. DOMAIN x = 1 .. n /\ \A i \in 1 .. n : x[i] \in Int
    BY ONLY x \in Seq(Int), n = Len(x), LenProperties, ElementOfSeq
<1>2. PICK first : first = p + r.used - Len(r.data)
    OBVIOUS
<1>3. y = [i \in 1 .. n |-> IF i > first /\ i <= p + u THEN Mask(x[i]) ELSE x[i]]
    BY ONLY <1>1, <1>2, y = Unmasked(x, p, r), r.used = u DEF Unmasked
<1>4. \A z \in Int : Mask(z) \in Int
    BY BaseType DEF Mask
<1>5. \A i \in 1 .. n : (IF i > first /\ i <= p + u THEN Mask(x[i]) ELSE x[i]) \in Int
    BY ONLY <1>1, <1>4, Zenon
<1>6. y \in [1 .. n -> Int]
    BY ONLY <1>3, <1>5, Zenon
<1>7. y \in Seq(Int) /\ Len(y) = n
    BY ONLY <1>6, n \in Nat, FunctionIsSeq
<1>8. ASSUME NEW i \in p + u + 1 .. n PROVE y[i] = x[i]
    <2>1. i \in 1 .. n /\ ~(i <= p + u)
        BY ONLY i \in p + u + 1 .. n, p \in Nat, u \in Nat, n \in Nat
    <2> QED BY ONLY <1>3, <2>1, Zenon
<1> QED BY ONLY <1>7, <1>8 DEF Untouched

LEMMA ReadOneKeeps ==
    ASSUME Ordinary(stream), Inductive, ReadOne
    PROVE  Inductive'
<1>1. /\ pc = "loop" /\ pc' = pc /\ iParsed < Len(buf) /\ parsePack.used > 0
      /\ iParsed' = iParsed + parsePack.used
      /\ delivered' = Tell(delivered, [op |-> parsePack.op, data |-> parsePack.data])
      /\ buf' = IF stream.kind = "websock" THEN Unmasked(buf, iParsed, parsePack) ELSE buf
      /\ uiStatus' = (uiStatus \/ ShakesHands)
      /\ stream' = stream /\ coming' = coming /\ conn' = conn
    BY ONLY ReadOne DEF ReadOne
<1>2. Typed
    BY ONLY Inductive DEF Inductive
<1>3. conn # "closed" /\ conn \in {"open", "closing", "closed"}
    BY ONLY <1>1, <1>2 DEF Typed, TypeOK
<1>4. PICK d \in 0 .. Many : Told(d) /\ Reading(d)
    BY ONLY <1>3, Inductive DEF Inductive
<1>5. PICK q : q = SubSeq(buf, iParsed + 1, Len(buf))
    OBVIOUS
<1>6. Rest(q, d)
    BY ONLY <1>1, <1>2, <1>4, <1>5, RestIs, Ordinary(stream), d \in 0 .. Many
<1>7. Parsed(q, d)
    BY ONLY <1>5, <1>6, ParsedIs, Ordinary(stream), d \in 0 .. Many
<1>8. PICK e \in 0 .. Many : Reads(parsePack, e) /\ (ShakesHands => e = 0)
    <2>1. CASE ShakesHands
        <3>1. Reads(parsePack, d)
            BY ONLY <1>1, <1>2, <1>4, <1>6, <1>7, <2>1, HandshakeRead, Ordinary(stream),
                    d \in 0 .. Many
        <3>2. d = 0
            BY ONLY <1>4, <2>1 DEF Reading
        <3> QED BY ONLY <3>1, <3>2, d \in 0 .. Many, Zenon
    <2>2. CASE ~ShakesHands
        <3>1. CASE stream.kind = "default"
            <4>1. \E e \in 0 .. Many : Reads(parsePack, e)
                BY ONLY <1>2, <1>4, <1>6, <1>7, <3>1, PieceRead, Ordinary(stream),
                        d \in 0 .. Many
            <4> QED BY ONLY <2>2, <4>1, Zenon
        <3>2. CASE stream.kind # "default"
            <4>1. d + 1 \in 0 .. Many /\ Reads(parsePack, d + 1)
                BY ONLY <1>1, <1>2, <1>4, <1>6, <1>7, <2>2, <3>2, MessageRead,
                        Ordinary(stream), d \in 0 .. Many
            <4> QED BY ONLY <2>2, <4>1, Zenon
        <3> QED BY ONLY <3>1, <3>2
    <2> QED BY ONLY <2>1, <2>2
<1>9. PICK lb \in Nat : lb = Len(buf)
    BY ONLY <1>2, Places, Ordinary(stream)
<1>10. PICK lw \in Nat : lw = Len(Whole)
    BY ONLY <1>2, Places, Ordinary(stream)
<1>11. PICK o \in Nat : o = Origin
    BY ONLY <1>2, Places, Ordinary(stream)
<1>12. PICK p \in Nat : p = iParsed
    BY ONLY <1>2, Places, Ordinary(stream)
<1>13. PICK u \in Nat : u = parsePack.used /\ u > 0 /\ p + u <= lb
    <2>1. parsePack.used \in 1 .. lb - p
        BY ONLY <1>8, <1>9, <1>12 DEF Reads
    <2> QED BY ONLY <2>1, lb \in Nat, p \in Nat
<1>14. buf' \in Seq(Int) /\ Len(buf') = lb /\ \A i \in p + u + 1 .. lb : buf'[i] = buf[i]
    <2>1. buf \in Seq(Int)
        BY ONLY <1>2 DEF Typed
    <2>2. PICK y : y = Unmasked(buf, p, parsePack)
        OBVIOUS
    <2>3. y \in Seq(Int) /\ Len(y) = lb /\ \A i \in p + u + 1 .. lb : y[i] = buf[i]
        <3>1. parsePack.used = u
            BY ONLY <1>13
        <3>2. PICK r : r = parsePack
            OBVIOUS
        <3>3. r.used = u /\ y = Unmasked(buf, p, r)
            BY ONLY <2>2, <3>1, <3>2
        <3>4. Untouched(buf, y, lb, p + u)
            BY ONLY <1>9, <2>1, <3>3, lb \in Nat, p \in Nat, u \in Nat, UnmaskedIs
        <3> QED BY ONLY <3>4 DEF Untouched
    <2>4. buf' = y \/ buf' = buf
        BY ONLY <1>1, <1>12, <2>2, Zenon
    <2> QED BY ONLY <1>9, <2>1, <2>3, <2>4
<1>15. /\ Many' = Many /\ Whole' = Whole /\ Refused' = Refused
       /\ \A k : End(k)' = End(k) /\ Expected(k)' = Expected(k)
    BY ONLY <1>1, Stays
<1>16. Arrived' = Arrived
    BY ONLY <1>1 DEF Arrived
<1>17. Origin' = Origin
    BY ONLY <1>9, <1>14, <1>16 DEF Origin
<1>18. iParsed' = p + u
    BY ONLY <1>1, <1>12, <1>13
<1>19. InPlace'
    <2>1. /\ \A i \in p + 1 .. lb : buf[i] = Whole[o + i]
          /\ \A i \in 1 .. Len(coming) : coming[i] = Whole[Arrived + i]
        BY ONLY <1>4, <1>9, <1>11, <1>12 DEF Reading, InPlace
    <2>2. \A i \in p + u + 1 .. lb : i \in p + 1 .. lb
        BY ONLY p \in Nat, u \in Nat, lb \in Nat
    <2>3. \A i \in p + u + 1 .. lb : buf'[i] = Whole[o + i]
        BY ONLY <1>14, <2>1, <2>2, Zenon
    <2> QED BY ONLY <1>1, <1>11, <1>14, <1>15, <1>16, <1>17, <1>18, <2>1, <2>3 DEF InPlace
<1>20. ~ShakesHands' /\ ~Refused
    BY ONLY <1>1, <1>8 DEF ShakesHands, Reads
<1>21. Reading(e)'
    <2>1. Origin' + iParsed' = End(e)
        <3>1. Origin + iParsed + parsePack.used = End(e)
            BY ONLY <1>8 DEF Reads
        <3>2. o + p + u = o + (p + u)
            BY ONLY o \in Nat, p \in Nat, u \in Nat
        <3> QED BY ONLY <1>11, <1>12, <1>13, <1>17, <1>18, <3>1, <3>2
    <2>2. stream.kind = "http" /\ e < Many => Arrived <= End(e + 1)
        BY ONLY <1>8 DEF Reads
    <2>3. conn = "closing" => Refused
        BY ONLY <1>4 DEF Reading
    <2>4. pc' # "idle"
        BY ONLY <1>1
    <2> QED BY ONLY <1>1, <1>15, <1>16, <1>19, <1>20, <2>1, <2>2, <2>3, <2>4 DEF Reading
<1>22. Told(e)'
    BY ONLY <1>1, <1>8, <1>15, Zenon DEF Reads, Told
<1>23. Typed'
    <2>1. Len(buf') + Len(coming') <= Len(Wire(stream', Len(stream'.msgs)))
        <3>1. Len(buf) + Len(coming) <= Len(Wire(stream, Len(stream.msgs)))
            BY ONLY <1>2 DEF Typed, TypeOK
        <3> QED BY ONLY <1>1, <1>9, <1>14, <3>1
    <2>2. iParsed' \in 0 .. Len(buf')
        BY ONLY <1>13, <1>14, <1>18, lb \in Nat, p \in Nat, u \in Nat
    <2>3. uiStatus' \in BOOLEAN
        BY ONLY <1>1, <1>2 DEF Typed, TypeOK, ShakesHands
    <2>4. stream \in Streams /\ coming \in Seq(Int)
        BY ONLY <1>2 DEF Typed, TypeOK
    <2> QED BY ONLY <1>1, <1>3, <1>14, <2>1, <2>2, <2>3, <2>4 DEF Typed, TypeOK
<1> QED BY ONLY <1>15, <1>21, <1>22, <1>23, e \in 0 .. Many DEF Inductive

----------------------------------------------------------------------------
(* The theorems, for any peers whose messages are ordinary                    *)

\* Wherever the segments end, the connection is at the end of a message, or of
\* the handshake, and has told the scripts what is before it: what onTcpRead
\* (src/Humble/LNetDisp.cpp) keeps from one call to the next is enough.
THEOREM Placed ==
    ASSUME \A s \in Streams : Ordinary(s)
    PROVE  Spec => []Inductive
<1>1. Init => Inductive
    BY InitKeeps
<1>2. Inductive /\ [Next]_vars => Inductive'
    <2> SUFFICES ASSUME Inductive, [Next]_vars PROVE Inductive'
        OBVIOUS
    <2>1. Ordinary(stream)
        <3>1. stream \in Streams
            BY ONLY Inductive DEF Inductive, Typed, TypeOK
        <3> QED BY <3>1
    <2>2. ASSUME NEW n \in 1 .. Len(coming), Arrive(n) PROVE Inductive'
        BY ONLY <2>1, <2>2, Inductive, n \in 1 .. Len(coming), ArriveKeeps
    <2>3. CASE ReadEnds
        BY ONLY <2>1, <2>3, Inductive, ReadEndsKeeps
    <2>4. CASE ReadFails
        BY ONLY <2>1, <2>4, Inductive, ReadFailsKeeps
    <2>5. CASE ReadOne
        BY ONLY <2>1, <2>5, Inductive, ReadOneKeeps
    <2>6. CASE ExecClose
        BY ONLY <2>1, <2>6, Inductive, ExecCloseKeeps
    <2>7. CASE UNCHANGED vars
        <3>1. /\ stream' = stream /\ coming' = coming /\ buf' = buf /\ uiStatus' = uiStatus
              /\ pc' = pc /\ iParsed' = iParsed /\ conn' = conn /\ delivered' = delivered
            BY ONLY <2>7 DEF vars
        <3>2. Typed'
            BY ONLY <3>1, Inductive DEF Inductive, Typed, TypeOK
        <3>3. PICK d \in 0 .. Many : Told(d) /\ (conn # "closed" => Reading(d))
            BY ONLY Inductive DEF Inductive
        <3>4. Told(d)'
            BY ONLY <3>1, <3>3, ToldStays
        <3>5. /\ Many' = Many /\ Whole' = Whole /\ Refused' = Refused
              /\ \A k : End(k)' = End(k)
            BY ONLY <3>1, Stays
        <3>6. Arrived' = Arrived
            BY ONLY <3>1 DEF Arrived
        <3>7. Origin' = Origin
            BY ONLY <3>1, <3>6 DEF Origin
        <3>8. ShakesHands' = ShakesHands
            BY ONLY <3>1 DEF ShakesHands
        <3>9. InPlace' = InPlace
            BY ONLY <3>1, <3>5, <3>6, <3>7 DEF InPlace
        <3>10. Waiting(d)' = Waiting(d)
            BY ONLY <3>1, <3>5, <3>6, <3>8 DEF Waiting
        <3>11. conn' # "closed" => Reading(d)'
            BY ONLY <3>1, <3>3, <3>5, <3>6, <3>7, <3>8, <3>9, <3>10 DEF Reading
        <3> QED BY ONLY <3>2, <3>4, <3>5, <3>11, d \in 0 .. Many DEF Inductive
    <2> QED BY <2>2, <2>3, <2>4, <2>5, <2>6, <2>7 DEF Next
<1> QED BY <1>1, <1>2, PTL DEF Spec

LEMMA ToldIsSame ==
    ASSUME Ordinary(stream), Typed, NEW d \in 0 .. Many, Told(d)
    PROVE  Same(delivered, Expected(d))
<1>1. PICK n \in Nat : n = Many /\ n = Len(stream.msgs)
    BY ONLY Places, Ordinary(stream), Typed DEF Many
<1>2. CASE stream.kind = "default"
    <2>1. Pieces(Expected(d)) = Wire(stream, d)
        BY ONLY <1>1, <1>2, PiecesExpected, Ordinary(stream), n \in Nat, d \in 0 .. Many
    <2>2. Pieces(delivered) = Pieces(Expected(d))
        BY ONLY <1>2, <2>1, Told(d) DEF Told
    <2>3. Same(delivered, Expected(d)) <=> Pieces(delivered) = Pieces(Expected(d))
        BY ONLY <1>2 DEF Same, Pieces
    <2> QED BY ONLY <2>2, <2>3
<1>3. CASE stream.kind # "default"
    BY ONLY <1>3, Told(d), Zenon DEF Told, Same
<1> QED BY ONLY <1>2, <1>3

\* The scripts are given the peer's messages as it sent them, in their order,
\* none twice and none made up, for segments of any length: CLNetDisp::onTcpRead
\* with each of the parsers.
THEOREM MessagesAsSent ==
    ASSUME \A s \in Streams : Ordinary(s)
    PROVE  Spec => []DeliveredIsPrefix
<1>1. Spec => []Inductive
    BY Placed
<1>2. Inductive => DeliveredIsPrefix
    <2> SUFFICES ASSUME Inductive PROVE DeliveredIsPrefix
        OBVIOUS
    <2>1. stream \in Streams /\ Typed
        BY ONLY Inductive DEF Inductive, Typed, TypeOK
    <2>2. Ordinary(stream)
        BY <2>1
    <2>3. PICK d \in 0 .. Many : Told(d)
        BY ONLY Inductive DEF Inductive
    <2>4. Same(delivered, Expected(d))
        BY ONLY <2>1, <2>2, <2>3, ToldIsSame
    <2> QED BY ONLY <2>4, d \in 0 .. Many, Zenon DEF DeliveredIsPrefix, Many
<1> QED BY <1>1, <1>2, PTL

\* When onTcpRead returns, every message that has come to its last byte has been
\* given to the scripts: the parsers wait for no byte more than a message has.
THEOREM NoneHeldBack ==
    ASSUME \A s \in Streams : Ordinary(s)
    PROVE  Spec => []NothingHeldBack
<1>1. Spec => []Inductive
    BY Placed
<1>2. Inductive => NothingHeldBack
    <2> SUFFICES ASSUME Inductive, pc = "idle", conn = "open"
                 PROVE  \/ stream.hello = "nokey" /\ ~stream.bLinker /\ delivered = <<>>
                        \/ Same(delivered, Expected(Max(Complete \union {0})))
        BY DEF NothingHeldBack
    <2>1. stream \in Streams /\ Typed /\ iParsed = 0
        BY ONLY Inductive, pc = "idle" DEF Inductive, Typed, TypeOK
    <2>2. Ordinary(stream)
        BY <2>1
    <2>3. PICK d \in 0 .. Many : Told(d) /\ Reading(d)
        BY ONLY Inductive, conn = "open" DEF Inductive
    <2>4. PICK n \in Nat : n = Many /\ n = Len(stream.msgs)
        BY ONLY <2>1, <2>2, Places DEF Many
    <2>5. CASE Refused
        <3>1. ShakesHands /\ d = 0
            BY ONLY <2>3, <2>5 DEF Reading
        <3>2. stream.kind # "default"
            BY ONLY <3>1 DEF ShakesHands
        <3>3. delivered = Expected(0)
            BY ONLY <2>3, <3>1, <3>2 DEF Told
        <3>4. Expected(0) = <<>>
            BY ONLY <2>2, <2>4, ExpectedIs, n \in Nat
        <3> QED BY ONLY <2>5, <3>3, <3>4 DEF Refused
    <2>6. CASE ~Refused
        <3>1. Waiting(d)
            BY ONLY <2>3, <2>6, pc = "idle", conn = "open" DEF Reading
        <3>2. PICK a \in Nat : a = Arrived
            BY ONLY <2>1, <2>2, Places
        <3>3. d \in 0 .. n
            BY ONLY <2>4, d \in 0 .. Many
        <3>4. Complete = {k \in 0 .. n : End(k) <= a}
            BY ONLY <2>4, <3>2 DEF Complete, End
        <3>5. \A k \in 0 .. n : \A m \in k .. n :
                 End(k) \in Nat /\ End(m) \in Nat /\ End(k) + (m - k) <= End(m)
            <4>1. ASSUME NEW k \in 0 .. n
                  PROVE  \A m \in k .. n : End(m) \in Nat /\ End(k) + (m - k) <= End(m)
                BY ONLY <2>2, <2>4, n \in Nat, k \in 0 .. n, WireStarts DEF End
            <4>2. \A k \in 0 .. n : k \in k .. n
                BY ONLY n \in Nat
            <4> QED BY ONLY <4>1, <4>2
        <3> DEFINE Whichever == Complete \union {0}
        <3>6. Whichever \subseteq Int /\ d \in Whichever /\ \A k \in Whichever : k <= d
            <4>1. CASE ShakesHands
                <5>1. d = 0
                    BY ONLY <2>3, <4>1 DEF Reading
                <5>2. End(0) = Len(Hello(stream))
                    BY ONLY <2>2, <2>4, n \in Nat, WireIs DEF End
                <5>3. a < End(0) /\ End(0) \in Nat
                    <6>1. 0 \in 0 .. n /\ 0 \in 0 .. n
                        BY ONLY n \in Nat
                    <6>2. End(0) \in Nat
                        BY ONLY <3>5, <6>1
                    <6> QED BY ONLY <3>1, <3>2, <4>1, <5>2, <6>2 DEF Waiting
                <5>4. \A k \in 0 .. n : ~(End(k) <= a)
                    <6>1. ASSUME NEW k \in 0 .. n PROVE ~(End(k) <= a)
                        <7>1. 0 \in 0 .. n /\ k \in 0 .. n /\ k - 0 = k
                            BY ONLY n \in Nat, k \in 0 .. n
                        <7>2. End(k) \in Nat /\ End(0) + (k - 0) <= End(k)
                            BY ONLY <3>5, <7>1
                        <7> QED BY ONLY <5>3, <7>1, <7>2, a \in Nat, k \in 0 .. n
                    <6> QED BY ONLY <6>1
                <5> QED BY ONLY <3>4, <5>1, <5>4
            <4>2. CASE ~ShakesHands
                <5>1. End(d) <= a
                    <6>1. Origin + iParsed = End(d)
                        BY ONLY <2>3, <4>2 DEF Reading
                    <6>2. /\ Origin \in Nat /\ Origin + Len(buf) = a /\ Len(buf) \in Nat
                          /\ iParsed \in 0 .. Len(buf)
                        BY ONLY <2>1, <2>2, <3>2, Places
                    <6> QED BY ONLY <6>1, <6>2
                <5>2. d = n \/ a < End(d + 1)
                    BY ONLY <2>4, <3>1, <3>2, <4>2 DEF Waiting
                <5>3. \A k \in 0 .. n : End(k) <= a => k <= d
                    <6>1. ASSUME NEW k \in 0 .. n, ~(k <= d) PROVE ~(End(k) <= a)
                        <7>1. /\ d + 1 \in 0 .. n /\ k \in d + 1 .. n /\ k - (d + 1) \in Nat
                              /\ d # n
                            BY ONLY <3>3, <6>1, n \in Nat, k \in 0 .. n
                        <7>2. End(d + 1) \in Nat /\ End(k) \in Nat
                              /\ End(d + 1) + (k - (d + 1)) <= End(k)
                            BY ONLY <3>5, <7>1
                        <7> QED BY ONLY <5>2, <7>1, <7>2, a \in Nat
                    <6> QED BY ONLY <6>1
                <5> QED BY ONLY <3>3, <3>4, <5>1, <5>3, n \in Nat
            <4> QED BY ONLY <4>1, <4>2
        <3>7. Max(Whichever) = d
            <4>1. \A x \in Whichever : (\A y \in Whichever : x >= y) => x = d
                BY ONLY <3>6
            <4>2. \A y \in Whichever : d >= y
                BY ONLY <3>6
            <4> HIDE DEF Whichever
            <4> QED BY ONLY <3>6, <4>1, <4>2 DEF Max
        <3>8. Same(delivered, Expected(d))
            BY ONLY <2>1, <2>2, <2>3, ToldIsSame
        <3> QED BY ONLY <3>7, <3>8, Zenon
    <2> QED BY ONLY <2>5, <2>6
<1> QED BY <1>1, <1>2, PTL

=============================================================================
