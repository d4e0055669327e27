------------------------------ MODULE Parsers ------------------------------
(* What cuts a connection's stream into messages: CTcp1, CTcp2, CMQTT,        *)
(* CWebSock, CHttp and CDefParser of src/HBase, as functions of the bytes     *)
(* that are there; and, to test them against, the bytes a peer sends for a    *)
(* message.                                                                   *)
(*                                                                            *)
(* A byte is a number below Base, so that 126 and 127, the marks of a longer  *)
(* length field, are Half - 2 and Half - 1.  What the code looks for as text  *)
(* is one element of the stream, below zero.                                  *)
EXTENDS Integers, Sequences, FiniteSetsExt, SequencesExt

CONSTANT Base       \* values of a byte; even, the code has 256

ASSUME BaseAssumption == Base \in Nat /\ Base > 6 /\ Base % 2 = 0

Half == Base \div 2

\* Elements of text.  ContentLength(n) is a head line; ChunkEnd is the line
\* feed, 0 and empty line that end a chunked body, LastChunk the same without
\* the line feed, which an empty body does not have.
Text == -1
HeadEnd == -2
Key == -3
Chunked == -4
ChunkEnd == -5
LastChunk == -6
ContentLength(n) == -10 - n

----------------------------------------------------------------------------
(* What parsePack returns: how much of the buffer is used, 0 to wait for      *)
(* more, Fail (H_RTN_FAILE); and what it leaves in pBinary for the scripts.   *)

Fail == -1
None == -100        \* nothing written into pBinary

Wait == [used |-> 0, op |-> None, data |-> <<>>]
Failed == [Wait EXCEPT !.used = Fail]
Skip(n) == [Wait EXCEPT !.used = n]
Cut(n, op, data) == [used |-> n, op |-> op, data |-> data]

BigEndian(buf) ==
    LET value[k \in 0 .. Len(buf)] ==
            IF k = 0 THEN 0 ELSE value[k - 1] * Base + buf[k]
    IN  value[Len(buf)]

\* v without its last digits: none, one, up to n of them.
Shifted(v, n, radix) ==
    LET rest[k \in 0 .. n] == IF k = 0 THEN v ELSE rest[k - 1] \div radix
    IN  rest

Digits(v, n) == [k \in 1 .. n |-> Shifted(v, n, Base)[n - k] % Base]

FitsIn(v, n) == Shifted(v, n, Base)[n] = 0

\* strstr and H_StrStr: they stop at a zero byte.
Found(buf, x) ==
    {i \in DOMAIN buf : buf[i] = x /\ \A j \in 1 .. i - 1 : buf[j] # 0}

----------------------------------------------------------------------------
(* CTcp1                                                                      *)

\* Mutant: the length of a longer message is taken from its first byte.
Tcp1FlagAsLength(buf) ==
    LET head == CASE buf[1] = Half - 2 -> 3 [] buf[1] = Half - 1 -> 5 [] OTHER -> 1
    IN  IF Len(buf) < head + buf[1] THEN Wait
        ELSE Cut(head + buf[1], None, SubSeq(buf, head + 1, head + buf[1]))

\* A byte of Half and more is a negative char and, as a length, more than any
\* buffer holds.
Tcp1(buf) ==
    LET head == CASE buf[1] = Half - 2 -> 3 [] buf[1] = Half - 1 -> 5 [] OTHER -> 1
        lens == IF head = 1 THEN buf[1] ELSE BigEndian(SubSeq(buf, 2, head))
    IN  IF Len(buf) < head \/ buf[1] >= Half \/ lens > Len(buf) - head THEN Wait
        ELSE IF lens = 0 THEN Skip(head)
        ELSE Cut(head + lens, None, SubSeq(buf, head + 1, head + lens))

\* creatHead.
Tcp1Head(lens) ==
    CASE lens <= Half - 3 -> <<lens>>
      [] lens > Half - 3 /\ lens < Base * Base -> <<Half - 2>> \o Digits(lens, 2)
      [] OTHER -> <<Half - 1>> \o Digits(lens, 4)

(* CTcp2                                                                      *)

Tcp2(buf) ==
    LET lens == BigEndian(SubSeq(buf, 1, 2))
    IN  IF Len(buf) < 2 \/ lens + 2 > Len(buf) THEN Wait
        ELSE IF lens = 0 THEN Skip(2)
        ELSE Cut(lens + 2, None, SubSeq(buf, 3, lens + 2))

(* CMQTT: the bytes of the length carry half a byte each, lowest first, and a *)
(* mark on all but the last; parseHead wants one more byte to be there.       *)

Mqtt(buf) ==
    LET last == {i \in 2 .. Len(buf) : buf[i] < Half}
        head == Min(last)
        digits[k \in 0 .. head - 1] ==
            IF k = 0 THEN 0 ELSE digits[k - 1] * Half + (buf[head + 1 - k] % Half)
        lens == digits[head - 1]
    IN  IF last = {} \/ head + 1 > Len(buf) \/ head + lens > Len(buf) THEN Wait
        ELSE Cut(head + lens, buf[1], SubSeq(buf, head + 1, head + lens))

\* createHead of mqtt.lua: as many bytes as it takes until nothing is left.
MqttLength(lens) ==
    LET rest == Shifted(lens, lens + 1, Half)
        count == Min({k \in 1 .. lens + 1 : rest[k] = 0})
    IN  [k \in 1 .. count |->
            (rest[k - 1] % Half) + (IF rest[k] > 0 THEN Half ELSE 0)]

(* CWebSock: frames after a handshake.  A masked byte is the byte plus Base;  *)
(* masking is its own inverse.                                                *)

Mask(x) == IF x >= Base THEN x - Base ELSE x + Base

\* shakeHands; a link (bLinker) takes the answer as it comes.
WebSockShake(buf, bLinker) ==
    LET end == Min(Found(buf, HeadEnd))
    IN  IF Found(buf, HeadEnd) = {} THEN Wait
        ELSE IF ~bLinker /\ Found(SubSeq(buf, 1, end), Key) = {} THEN Failed
        ELSE Skip(end)

\* The second byte is the mark of a mask, of Half, and the length.
WebSock(buf) ==
    LET short == buf[2] % Half
        head == CASE short = Half - 2 -> 8 [] short = Half - 1 -> 14 [] OTHER -> 6
        lens == IF head = 6 THEN short ELSE BigEndian(SubSeq(buf, 3, head - 4))
    IN  IF Len(buf) < 6 THEN Wait
        ELSE IF buf[2] < Half THEN Failed
        ELSE IF Len(buf) < head \/ Len(buf) < head + lens THEN Wait
        ELSE Cut(head + lens, buf[1], [i \in 1 .. lens |-> Mask(buf[head + i])])

\* parseData works in the buffer itself.
Unmasked(buf, from, r) ==
    LET first == from + r.used - Len(r.data)
    IN  [i \in DOMAIN buf |->
            IF i > first /\ i <= from + r.used THEN Mask(buf[i]) ELSE buf[i]]

\* createHead, which does not mask; a client adds the mark and four bytes.
WebSockHead(op, lens) ==
    CASE lens <= Half - 3 -> <<op, lens>>
      [] lens > Half - 3 /\ lens < Base * Base -> <<op, Half - 2>> \o Digits(lens, 2)
      [] OTHER -> <<op, Half - 1>> \o Digits(lens, 8)

(* CHttp: the two head lines are looked for in all that is there, not only in *)
(* the head.                                                                  *)

Http(buf) ==
    LET ends == Found(buf, HeadEnd)
        head == Min(ends)
        sized == {i \in DOMAIN buf : buf[i] <= ContentLength(0)
                      /\ i \in Found(buf, buf[i])}
        body == SubSeq(buf, head + 1, Len(buf))
        chunk == Found(body, ChunkEnd)
        lens == CASE sized # {} -> ContentLength(0) - buf[Min(sized)]
                  [] sized = {} /\ Found(buf, Chunked) # {} -> Min(chunk)
                  [] OTHER -> 0
    IN  IF \/ ends = {}
           \/ sized = {} /\ Found(buf, Chunked) # {} /\ chunk = {}
           \/ Len(buf) < head + lens
        THEN Wait
        ELSE Cut(head + lens, None, SubSeq(buf, 1, head + lens))

(* CDefParser                                                                 *)

Default(buf) == Cut(Len(buf), None, buf)

=============================================================================
