-------------------------- MODULE NetWorker_proofs --------------------------
(* Proofs about NetWorker for any number of descriptors, types, connections,  *)
(* calls and links.                                                           *)
EXTENDS NetWorker, FiniteSetTheorems, SequenceTheorems, TLAPS

----------------------------------------------------------------------------
(* The inductive invariant                                                    *)

\* What orders carry when they are carried out.
GoodOrder ==
    {o \in OrderType :
        /\ o.cmd \in {"ADDLINK", "ADDLINKEV"} => o.id \in Ids
        /\ o.cmd \in {"ADDLINKEV", "CLOSESOCK"} => o.sock \in Socks
        /\ o.cmd = "CLOSESOCK" => o.id # 0}

\* An order that hands over descriptor s.
HandsOver(o, s) == o.cmd = "ADDLINKEV" /\ o.sock = s

CarriesIn(q, s) == \E k \in DOMAIN q : HandsOver(q[k], s)

\* No two orders hand over the same descriptor.
Distinct(q) ==
    \A j, k \in DOMAIN q, s \in Socks :
        HandsOver(q[j], s) /\ HandsOver(q[k], s) => j = k

\* Orders in the order they will be carried out: those read, then those still
\* in the pair of sockets.
Pending == batch \o order

OrdersInv == Pending \in Seq(GoodOrder) /\ Distinct(Pending)

\* Connections have different numbers, none above conns.  A session has one
\* that no session before it had, and a descriptor that is open without a
\* session has one that no session ever had.
ConnInv ==
    /\ \A s \in Socks : open[s] <= conns
    /\ \A s, t \in Socks : open[s] # 0 /\ open[s] = open[t] => s = t
    /\ \A n \in 1..uiSession : born[n].sock \in Socks /\ born[n].conn \in 1..conns
    /\ \A m, n \in 1..uiSession : born[m].conn = born[n].conn => m = n
    /\ \A s \in Socks : session[s].id = 0 => session[s] = NoSession
    /\ \A s \in Socks : session[s].id # 0 =>
         /\ session[s].id <= uiSession
         /\ born[session[s].id].conn = open[s]
    /\ \A s \in Socks, n \in 1..uiSession :
         open[s] # 0 /\ session[s].id = 0 => born[n].conn # open[s]

\* Who has to close descriptor s.
HasSession(s) == session[s].id # 0
Linking(s)    == linking.sock = s
Carries(s)    == CarriesIn(Pending, s)

OwnInv ==
    \A s \in Socks :
        /\ open[s] # 0 <=> HasSession(s) \/ Linking(s) \/ Carries(s) \/ s \in lost
        /\ HasSession(s) => ~Linking(s) /\ ~Carries(s) /\ s \notin lost
        /\ Linking(s) => ~Carries(s) /\ s \notin lost
        /\ Carries(s) => s \notin lost

LinkerInv == linking # NoTarget => linking.id \in Ids /\ linking.sock \in Socks

\* Only sessions are closed, one after the other.
DoomInv ==
    /\ \A s \in doomed : HasSession(s)
    /\ closing # NoSock => HasSession(closing) /\ closing \notin doomed

\* Only messages to send have targets, and they are about no descriptor.
QueueInv ==
    \A k \in DOMAIN senderQ :
        LET c == senderQ[k]
        IN  IF c.cmd = "SendTo" THEN c.sock = NoSock ELSE c.sock # NoSock /\ c.to = <<>>

\* A message for a session that was down when it was sent stands behind the one
\* that tells the sender so.
LateInv ==
    senderOpen =>
        /\ \A k \in DOMAIN senderQ : \A i \in DOMAIN senderQ[k].to :
             LET d == senderQ[k].to[i]
             IN  ~d.live => ~Believes(k, d.sock, d.id)
        /\ \A i \in DOMAIN sending :
             ~sending[i].live => mapSender[sending[i].sock] # sending[i].id
        /\ found => mapSender[Head(sending).sock] = Head(sending).id

\* A client that is left after onStop is about to be closed.
ClosesClients(o) == o.cmd = "CLOSEBYTYPE" /\ o.type = StopType
Client(s) == session[s].type = StopType /\ ~session[s].bLinker

StopInv ==
    readyStop = "RAN" =>
        \/ \E k \in DOMAIN Pending : ClosesClients(Pending[k])
        \/ \A s \in Socks : Client(s) => s \in doomed \/ closing = s

IInv ==
    /\ TypeOK /\ OrdersInv /\ ConnInv /\ OwnInv /\ LinkerInv /\ DoomInv
    /\ LinksKnowTheirSession /\ QueueInv /\ SenderFollowsSessions /\ LateInv
    /\ StopInv

----------------------------------------------------------------------------
(* Sequences of orders                                                        *)

\* The first order is carried out.
LEMMA DropFirst ==
    ASSUME NEW q \in Seq(GoodOrder), q # <<>>, Distinct(q)
    PROVE  /\ q[1] \in GoodOrder
           /\ Tail(q) \in Seq(GoodOrder)
           /\ Distinct(Tail(q))
           /\ \A s \in Socks :
                CarriesIn(Tail(q), s) <=> CarriesIn(q, s) /\ ~HandsOver(q[1], s)
<1>1. /\ Tail(q) \in Seq(GoodOrder)
      /\ Len(q) \in Nat \ {0} /\ Len(Tail(q)) = Len(q) - 1
      /\ DOMAIN q = 1..Len(q) /\ DOMAIN Tail(q) = 1..(Len(q) - 1)
      /\ \A k \in 1..(Len(q) - 1) : Tail(q)[k] = q[k + 1]
  BY HeadTailProperties, EmptySeq
<1>2. q[1] \in GoodOrder
  BY <1>1, ElementOfSeq
<1>3. Distinct(Tail(q))
  BY <1>1 DEF Distinct
<1>4. ASSUME NEW s \in Socks
      PROVE  CarriesIn(Tail(q), s) <=> CarriesIn(q, s) /\ ~HandsOver(q[1], s)
  <2>1. ASSUME NEW k \in DOMAIN Tail(q), HandsOver(Tail(q)[k], s)
        PROVE  CarriesIn(q, s) /\ ~HandsOver(q[1], s)
    <3>1. k + 1 \in DOMAIN q /\ 1 \in DOMAIN q /\ k + 1 # 1 /\ HandsOver(q[k + 1], s)
      BY <1>1, <2>1
    <3> QED
      BY <3>1 DEF Distinct, CarriesIn
  <2>2. ASSUME NEW k \in DOMAIN q, HandsOver(q[k], s), ~HandsOver(q[1], s)
        PROVE  CarriesIn(Tail(q), s)
    <3>1. k - 1 \in DOMAIN Tail(q) /\ Tail(q)[k - 1] = q[k]
      BY <1>1, <2>2
    <3> QED
      BY <2>2, <3>1 DEF CarriesIn
  <2> QED
    BY <2>1, <2>2 DEF CarriesIn
<1> QED
  BY <1>1, <1>2, <1>3, <1>4

\* An order is sent.
LEMMA AddLast ==
    ASSUME NEW q \in Seq(GoodOrder), Distinct(q), NEW o \in GoodOrder,
           \A s \in Socks : HandsOver(o, s) => ~CarriesIn(q, s)
    PROVE  /\ Append(q, o) \in Seq(GoodOrder)
           /\ Distinct(Append(q, o))
           /\ \A s \in Socks :
                CarriesIn(Append(q, o), s) <=> CarriesIn(q, s) \/ HandsOver(o, s)
           /\ \A k \in DOMAIN q : k \in DOMAIN Append(q, o) /\ Append(q, o)[k] = q[k]
           /\ Len(q) + 1 \in DOMAIN Append(q, o) /\ Append(q, o)[Len(q) + 1] = o
<1> DEFINE p == Append(q, o)
<1>1. /\ p \in Seq(GoodOrder) /\ Len(q) \in Nat
      /\ DOMAIN q = 1..Len(q) /\ DOMAIN p = 1..(Len(q) + 1)
      /\ \A k \in 1..Len(q) : p[k] = q[k]
      /\ p[Len(q) + 1] = o
  BY AppendProperties
<1> HIDE DEF p
<1>2. \A k \in DOMAIN p : k \in DOMAIN q \/ k = Len(q) + 1
  BY <1>1
<1>3. Distinct(p)
  <2> SUFFICES ASSUME NEW j \in DOMAIN p, NEW k \in DOMAIN p, NEW s \in Socks,
                      HandsOver(p[j], s), HandsOver(p[k], s)
               PROVE  j = k
    BY DEF Distinct
  <2>1. CASE j \in DOMAIN q /\ k \in DOMAIN q
    BY <1>1, <2>1 DEF Distinct
  <2>2. CASE j = Len(q) + 1 /\ k \in DOMAIN q
    BY <1>1, <2>2 DEF CarriesIn
  <2>3. CASE j \in DOMAIN q /\ k = Len(q) + 1
    BY <1>1, <2>3 DEF CarriesIn
  <2> QED
    BY <1>2, <2>1, <2>2, <2>3
<1>4. ASSUME NEW s \in Socks
      PROVE  CarriesIn(p, s) <=> CarriesIn(q, s) \/ HandsOver(o, s)
  BY <1>1, <1>2 DEF CarriesIn
<1> QED
  BY <1>1, <1>3, <1>4 DEF p

\* Reading orders leaves them where they are in the order to come.
LEMMA PendingRead ==
    ASSUME TypeOK, OrderRead
    PROVE  /\ Pending' = Pending
           /\ order' \in Seq(OrderType) /\ batch' \in Seq(OrderType)
<1>1. order \in Seq(OrderType) /\ batch = <<>> /\ Len(order) \in Nat
  BY LenProperties DEF TypeOK, OrderRead, Idle
<1>2. PICK n \in 1..Len(order) :
          /\ batch' = SubSeq(order, 1, n)
          /\ order' = SubSeq(order, n + 1, Len(order))
  BY DEF OrderRead
<1>3. batch' \o order' = SubSeq(order, 1, Len(order))
  BY <1>1, <1>2, ConcatAdjacentSubSeq
<1>4. SubSeq(order, 1, Len(order)) = order /\ <<>> \o order = order
  BY <1>1, SubSeqFull, ConcatEmptySeq
<1>5. \A i \in 1..Len(order) : order[i] \in OrderType
  BY <1>1, ElementOfSeq
<1>6. batch' \in Seq(OrderType) /\ order' \in Seq(OrderType)
  BY <1>1, <1>2, <1>5, SubSeqProperties
<1> QED
  BY <1>1, <1>3, <1>4, <1>6 DEF Pending

\* Something added to the second of two sequences is added to both.
LEMMA ConcatAppend ==
    ASSUME NEW S, NEW b \in Seq(S), NEW q \in Seq(S), NEW o \in S
    PROVE  b \o Append(q, o) = Append(b \o q, o)
<1>1. Append(q, o) = q \o <<o>> /\ <<o>> \in Seq(S)
  BY AppendIsConcat
<1>2. b \o (q \o <<o>>) = (b \o q) \o <<o>>
  BY <1>1, ConcatAssociative
<1>3. (b \o q) \o <<o>> = Append(b \o q, o)
  BY ConcatProperties, AppendIsConcat
<1> QED
  BY <1>1, <1>2, <1>3

\* What is first in the first of two sequences is first in both.
LEMMA ConcatTail ==
    ASSUME NEW S, NEW b \in Seq(S), NEW q \in Seq(S), b # <<>>
    PROVE  /\ b \o q # <<>> /\ Head(b) = (b \o q)[1]
           /\ Tail(b) \o q = Tail(b \o q)
<1> DEFINE p == b \o q
           r == Tail(b) \o q
<1>1. /\ Tail(b) \in Seq(S) /\ Len(b) \in Nat \ {0}
      /\ Len(Tail(b)) = Len(b) - 1
      /\ \A i \in 1..(Len(b) - 1) : Tail(b)[i] = b[i + 1]
      /\ Head(b) = b[1] /\ Len(q) \in Nat
  BY HeadTailProperties, EmptySeq, LenProperties
<1>2. /\ p \in Seq(S) /\ Len(p) = Len(b) + Len(q)
      /\ \A i \in 1..(Len(b) + Len(q)) : p[i] = IF i <= Len(b) THEN b[i] ELSE q[i - Len(b)]
  BY ConcatProperties
<1>3. /\ r \in Seq(S) /\ Len(r) = Len(p) - 1
      /\ \A i \in 1..(Len(p) - 1) :
           r[i] = IF i <= Len(b) - 1 THEN Tail(b)[i] ELSE q[i - (Len(b) - 1)]
  BY <1>1, <1>2, ConcatProperties
<1> HIDE DEF p, r
<1>4. p # <<>> /\ Head(b) = p[1]
  BY <1>1, <1>2
<1>5. /\ Tail(p) \in Seq(S) /\ Len(Tail(p)) = Len(p) - 1
      /\ \A i \in 1..(Len(p) - 1) : Tail(p)[i] = p[i + 1]
  BY <1>2, <1>4, HeadTailProperties
<1>6. ASSUME NEW i \in 1..(Len(p) - 1)
      PROVE  r[i] = Tail(p)[i]
  <2>1. CASE i <= Len(b) - 1
    BY <1>1, <1>2, <1>3, <1>5, <2>1
  <2>2. CASE ~(i <= Len(b) - 1)
    <3>1. i + 1 \in 1..(Len(b) + Len(q)) /\ ~(i + 1 <= Len(b))
      BY <1>1, <1>2, <2>2
    <3>2. p[i + 1] = q[(i + 1) - Len(b)]
      BY <1>2, <3>1
    <3>3. r[i] = q[i - (Len(b) - 1)]
      BY <1>3, <2>2
    <3>4. (i + 1) - Len(b) = i - (Len(b) - 1)
      BY <1>1
    <3> QED
      BY <1>5, <3>2, <3>3, <3>4
  <2> QED
    BY <2>1, <2>2
<1>7. r = Tail(p)
  BY <1>3, <1>5, <1>6, SeqEqual
<1> QED
  BY <1>4, <1>7 DEF p, r

LEMMA PendingSent ==
    ASSUME TypeOK, NEW o \in OrderType, sendOrder(o), batch' = batch
    PROVE  Pending' = Append(Pending, o) /\ order' \in Seq(OrderType)
<1>1. order \in Seq(OrderType) /\ batch \in Seq(OrderType) /\ order' = Append(order, o)
  BY DEF TypeOK, sendOrder
<1> QED
  BY <1>1, ConcatAppend, AppendProperties DEF Pending

----------------------------------------------------------------------------
(* What the sender believes                                                   *)

\* Messages before the k-th of q that say what descriptor s is.
Told(q, k, s) == {i \in DOMAIN q : i < k /\ q[i].sock = s}

BelievesIn(q, m, k, s, n) ==
    \/ Told(q, k, s) = {} /\ m[s] = n
    \/ \E i \in Told(q, k, s) : (\A j \in Told(q, k, s) : j <= i) /\ q[i].id = n

LEMMA BelievesIs ==
    \A k, s, n : Believes(k, s, n) <=> BelievesIn(senderQ, mapSender, k, s, n)
  BY DEF Believes, BelievesIn, Told

LEMMA BelievesIsNext ==
    \A k, s, n : Believes(k, s, n)' <=> BelievesIn(senderQ', mapSender', k, s, n)
  BY DEF Believes, BelievesIn, Told

\* It believes a descriptor to be one session.
LEMMA BelievesOne ==
    ASSUME NEW S, NEW q \in Seq(S), NEW m, NEW k, NEW s, NEW n1, NEW n2,
           BelievesIn(q, m, k, s, n1), BelievesIn(q, m, k, s, n2)
    PROVE  n1 = n2
<1>1. \A i \in Told(q, k, s) : i \in Nat
  BY LenProperties DEF Told
<1>2. CASE Told(q, k, s) = {}
  BY <1>2 DEF BelievesIn
<1>3. CASE Told(q, k, s) # {}
  <2>1. PICK i \in Told(q, k, s) : (\A j \in Told(q, k, s) : j <= i) /\ q[i].id = n1
    BY <1>3 DEF BelievesIn
  <2>2. PICK i2 \in Told(q, k, s) : (\A j \in Told(q, k, s) : j <= i2) /\ q[i2].id = n2
    BY <1>3 DEF BelievesIn
  <2>3. i = i2
    BY <1>1, <2>1, <2>2
  <2> QED
    BY <2>1, <2>2, <2>3
<1> QED
  BY <1>2, <1>3

\* A message is added: what came before is not changed by it.
LEMMA BelievesAdded ==
    ASSUME NEW S, NEW q \in Seq(S), NEW c \in S, NEW m, NEW s, NEW n
    PROVE  /\ \A k \in 1..(Len(q) + 1) :
                BelievesIn(Append(q, c), m, k, s, n) <=> BelievesIn(q, m, k, s, n)
           /\ c.sock = s =>
                (BelievesIn(Append(q, c), m, Len(q) + 2, s, n) <=> n = c.id)
           /\ c.sock # s =>
                (BelievesIn(Append(q, c), m, Len(q) + 2, s, n)
                   <=> BelievesIn(q, m, Len(q) + 1, s, n))
<1> DEFINE p == Append(q, c)
<1>1. /\ Len(q) \in Nat /\ DOMAIN q = 1..Len(q) /\ DOMAIN p = 1..(Len(q) + 1)
      /\ \A k \in 1..Len(q) : p[k] = q[k]
      /\ p[Len(q) + 1] = c
  BY AppendProperties, LenProperties
<1> HIDE DEF p
<1>2. ASSUME NEW k \in 1..(Len(q) + 1)
      PROVE  BelievesIn(p, m, k, s, n) <=> BelievesIn(q, m, k, s, n)
  <2>1. /\ Told(p, k, s) = Told(q, k, s)
        /\ \A i \in Told(q, k, s) : p[i] = q[i]
    BY <1>1 DEF Told
  <2> QED
    BY <2>1 DEF BelievesIn
<1>3. ASSUME c.sock = s
      PROVE  BelievesIn(p, m, Len(q) + 2, s, n) <=> n = c.id
  <2>1. /\ Len(q) + 1 \in Told(p, Len(q) + 2, s)
        /\ \A j \in Told(p, Len(q) + 2, s) : j \in Nat /\ j <= Len(q) + 1
    BY <1>1, <1>3 DEF Told
  <2>2. \A i \in Told(p, Len(q) + 2, s) :
          (\A j \in Told(p, Len(q) + 2, s) : j <= i) => i = Len(q) + 1
    BY <1>1, <2>1
  <2> QED
    BY <1>1, <2>1, <2>2 DEF BelievesIn
<1>4. ASSUME c.sock # s
      PROVE  BelievesIn(p, m, Len(q) + 2, s, n) <=> BelievesIn(q, m, Len(q) + 1, s, n)
  <2>1. /\ Told(p, Len(q) + 2, s) = Told(q, Len(q) + 1, s)
        /\ \A i \in Told(q, Len(q) + 1, s) : p[i] = q[i]
    BY <1>1, <1>4 DEF Told
  <2> QED
    BY <2>1 DEF BelievesIn
<1> QED
  BY <1>2, <1>3, <1>4 DEF p

\* The first message is carried out: what is believed after it stays so.
LEMMA BelievesTaken ==
    ASSUME NEW S, NEW q \in Seq(S), q # <<>>, NEW m, NEW m2, NEW s, NEW n,
           m2[s] = IF q[1].sock = s THEN q[1].id ELSE m[s],
           NEW k \in 1..Len(q)
    PROVE  BelievesIn(Tail(q), m2, k, s, n) <=> BelievesIn(q, m, k + 1, s, n)
<1> DEFINE p == Tail(q)
           U == Told(p, k, s)
           T == Told(q, k + 1, s)
<1>1. /\ Len(q) \in Nat \ {0} /\ DOMAIN q = 1..Len(q) /\ DOMAIN p = 1..(Len(q) - 1)
      /\ \A i \in 1..(Len(q) - 1) : p[i] = q[i + 1]
  BY HeadTailProperties, EmptySeq, LenProperties
<1> HIDE DEF p
<1>2. U \subseteq Nat \ {0} /\ T \subseteq Nat \ {0}
  BY <1>1 DEF Told
<1>3. \A i \in U : i + 1 \in T /\ p[i] = q[i + 1]
  BY <1>1 DEF Told
<1>4. \A i \in T : i # 1 => i - 1 \in U /\ p[i - 1] = q[i]
  BY <1>1 DEF Told
<1>5. 1 \in T <=> q[1].sock = s
  BY <1>1 DEF Told
<1> HIDE DEF U, T
<1>6. ASSUME BelievesIn(p, m2, k, s, n)
      PROVE  BelievesIn(q, m, k + 1, s, n)
  <2>1. CASE U = {} /\ m2[s] = n
    <3>1. CASE q[1].sock = s
      <4>1. 1 \in T /\ \A j \in T : j <= 1
        BY <1>2, <1>4, <1>5, <2>1, <3>1
      <4> QED
        BY <2>1, <3>1, <4>1 DEF BelievesIn, T
    <3>2. CASE q[1].sock # s
      <4>1. T = {}
        BY <1>4, <1>5, <2>1, <3>2
      <4> QED
        BY <2>1, <3>2, <4>1 DEF BelievesIn, T
    <3> QED
      BY <3>1, <3>2
  <2>2. ASSUME NEW i \in U, \A j \in U : j <= i, p[i].id = n
        PROVE  BelievesIn(q, m, k + 1, s, n)
    <3>1. i + 1 \in T /\ q[i + 1].id = n
      BY <1>3, <2>2
    <3>2. ASSUME NEW j \in T PROVE j <= i + 1
      <4>1. CASE j = 1
        BY <1>2, <4>1
      <4>2. CASE j # 1
        BY <1>2, <1>4, <2>2, <4>2
      <4> QED
        BY <4>1, <4>2
    <3> QED
      BY <3>1, <3>2 DEF BelievesIn, T
  <2> QED
    BY <1>6, <2>1, <2>2 DEF BelievesIn, U
<1>7. ASSUME BelievesIn(q, m, k + 1, s, n)
      PROVE  BelievesIn(p, m2, k, s, n)
  <2>1. CASE T = {} /\ m[s] = n
    <3>1. U = {} /\ q[1].sock # s
      BY <1>3, <1>5, <2>1
    <3> QED
      BY <2>1, <3>1 DEF BelievesIn, U
  <2>2. ASSUME NEW i \in T, \A j \in T : j <= i, q[i].id = n
        PROVE  BelievesIn(p, m2, k, s, n)
    <3>1. CASE i = 1
      <4>1. U = {}
        BY <1>2, <1>3, <2>2, <3>1
      <4>2. m2[s] = n
        BY <1>5, <2>2, <3>1
      <4> QED
        BY <4>1, <4>2 DEF BelievesIn, U
    <3>2. CASE i # 1
      <4>1. i - 1 \in U /\ p[i - 1].id = n
        BY <1>4, <2>2, <3>2
      <4>2. \A j \in U : j <= i - 1
        BY <1>2, <1>3, <2>2
      <4> QED
        BY <4>1, <4>2 DEF BelievesIn, U
    <3> QED
      BY <3>1, <3>2
  <2> QED
    BY <1>7, <2>1, <2>2 DEF BelievesIn, T
<1> QED
  BY <1>6, <1>7 DEF p

----------------------------------------------------------------------------
(* Each part of the invariant, and the variables it is about                  *)

LEMMA Frames ==
    ASSUME IInv
    PROVE  /\ Pending' = Pending => OrdersInv'
           /\ UNCHANGED <<open, conns, born, uiSession, session>> => ConnInv'
           /\ Pending' = Pending /\ UNCHANGED <<open, session, linking, lost>> => OwnInv'
           /\ UNCHANGED linking => LinkerInv'
           /\ UNCHANGED <<doomed, closing, session>> => DoomInv'
           /\ UNCHANGED <<link, closing, session>> => LinksKnowTheirSession'
           /\ UNCHANGED senderQ => QueueInv'
           /\ UNCHANGED <<senderOpen, senderQ, mapSender, closing, session>>
                => SenderFollowsSessions'
           /\ UNCHANGED <<senderOpen, senderQ, mapSender, sending, found>> => LateInv'
           /\ Pending' = Pending /\ UNCHANGED <<readyStop, session, doomed, closing>>
                => StopInv'
<1>1. Pending' = Pending => OrdersInv'
  BY DEF IInv, OrdersInv
<1>2. UNCHANGED <<open, conns, born, uiSession, session>> => ConnInv'
  BY DEF IInv, ConnInv
<1>3. Pending' = Pending /\ UNCHANGED <<open, session, linking, lost>> => OwnInv'
  BY DEF IInv, OwnInv, HasSession, Linking, Carries
<1>4. UNCHANGED linking => LinkerInv'
  BY DEF IInv, LinkerInv
<1>5. UNCHANGED <<doomed, closing, session>> => DoomInv'
  BY DEF IInv, DoomInv, HasSession
<1>6. UNCHANGED <<link, closing, session>> => LinksKnowTheirSession'
  BY DEF IInv, LinksKnowTheirSession
<1>7. UNCHANGED senderQ => QueueInv'
  BY DEF IInv, QueueInv
<1>8. UNCHANGED <<senderOpen, senderQ, mapSender, closing, session>>
        => SenderFollowsSessions'
  BY DEF IInv, SenderFollowsSessions, Believes
<1>9. UNCHANGED <<senderOpen, senderQ, mapSender, sending, found>> => LateInv'
  BY DEF IInv, LateInv, Believes
<1>10. Pending' = Pending /\ UNCHANGED <<readyStop, session, doomed, closing>>
         => StopInv'
  BY DEF IInv, StopInv, Client
<1> QED
  BY <1>1, <1>2, <1>3, <1>4, <1>5, <1>6, <1>7, <1>8, <1>9, <1>10

\* No connection was closed and given to a session twice: there are more
\* connections than sessions while one waits for its session.
LEMMA MoreConnections ==
    ASSUME TypeOK, ConnInv, NEW c \in 1..conns,
           \A n \in 1..uiSession : born[n].conn # c
    PROVE  uiSession < conns
<1>1. uiSession \in Nat /\ conns \in Nat /\ conns <= MaxConn /\ uiSession <= conns
  BY ConstantsAssumption DEF TypeOK
<1> SUFFICES ASSUME uiSession = conns PROVE FALSE
  BY <1>1
<1> DEFINE S == 1..uiSession
           T == (1..conns) \ {c}
           f == [n \in S |-> born[n].conn]
<1>2. IsFiniteSet(1..conns) /\ Cardinality(1..conns) = conns
  BY <1>1, FS_Interval
<1>3. IsFiniteSet(T) /\ Cardinality(T) = conns - 1
  BY <1>2, FS_RemoveElement
<1>4. f \in [S -> T] /\ \A n \in S : f[n] = born[n].conn
  BY DEF ConnInv
<1>5. IsFiniteSet(S) /\ Cardinality(T) < Cardinality(S)
  BY <1>1, <1>2, <1>3
<1>6. \A x, y \in S : born[x].conn = born[y].conn => x = y
  BY DEF ConnInv
<1> HIDE DEF S, T, f
<1>7. \E x, y \in S : x # y /\ f[x] = f[y]
  BY <1>3, <1>4, <1>5, FS_PigeonHole
<1> QED
  BY <1>4, <1>6, <1>7

LEMMA Initially == Init => IInv
<1> SUFFICES ASSUME Init PROVE IInv
  OBVIOUS
<1> DEFINE o == Order("ADDLISTENER", 1, NoSock, StopType)
<1>1. o \in OrderType /\ o.cmd = "ADDLISTENER"
  BY ConstantsAssumption DEF Order, OrderType, Commands
<1>2. o \in GoodOrder
  BY <1>1 DEF GoodOrder
<1>3. order = <<o>> /\ batch = <<>>
  BY DEF Init
<1> HIDE DEF o
<1>4. <<o>> \in Seq(OrderType) /\ <<o>> \in Seq(GoodOrder)
  BY <1>1, <1>2
<1>5. Pending = <<o>>
  BY <1>3, <1>4, ConcatEmptySeq DEF Pending
<1>6. TypeOK
  <2>1. order \in Seq(OrderType) /\ batch \in Seq(OrderType)
    BY <1>3, <1>4
  <2>2. /\ session \in [Socks -> [id : Nat, type : Types \cup {NoType}, bLinker : BOOLEAN]]
        /\ link \in [Ids -> [type : Types \cup {NoType}, sock : Socks \cup {NoSock}]]
        /\ linking \in [id : Nat, sock : Socks \cup {NoSock}]
        /\ born \in [1..MaxConn -> [sock : Socks \cup {NoSock}, conn : Nat]]
    BY DEF Init, NoSession, NoLink, NoTarget
  <2>3. senderQ \in Seq(SenderType) /\ sending \in Seq(TargetType) /\ linkQ \in Seq(Ids)
    BY DEF Init
  <2>4. /\ listener \in [Ids -> Types \cup {NoType}]
        /\ open \in [Socks -> Nat] /\ mapSender \in [Socks -> Nat]
        /\ uiSession \in 0..conns /\ conns \in 0..MaxConn /\ calls \in 0..MaxCalls
        /\ uiID \in Nat
    BY ConstantsAssumption DEF Init
  <2>5. /\ loop = "run" /\ readyStop = "NONE" /\ pcStop = "up"
        /\ doomed = {} /\ closing = NoSock /\ lost = {} /\ written = {}
        /\ senderOpen = TRUE /\ found = FALSE
    BY DEF Init
  <2> QED
    BY <2>1, <2>2, <2>3, <2>4, <2>5 DEF TypeOK
<1>7. DOMAIN Pending = {1} /\ Pending[1].cmd = "ADDLISTENER"
  BY <1>1, <1>5
<1>8. OrdersInv
  BY <1>4, <1>5, <1>7 DEF OrdersInv, Distinct, HandsOver
<1>9. ConnInv
  BY ConstantsAssumption DEF Init, ConnInv, NoSession
<1>10. OwnInv
  BY <1>7, ConstantsAssumption
     DEF Init, OwnInv, NoSession, NoTarget, HasSession, Linking, Carries, CarriesIn, HandsOver
<1>11. LinkerInv /\ DoomInv
  BY DEF Init, LinkerInv, DoomInv
<1>12. LinksKnowTheirSession
  BY DEF Init, LinksKnowTheirSession, NoLink
<1>13. QueueInv
  BY DEF Init, QueueInv
<1>14. SenderFollowsSessions
  BY ConstantsAssumption DEF Init, SenderFollowsSessions, Believes, NoSession
<1>15. LateInv /\ StopInv
  BY DEF Init, LateInv, StopInv
<1> QED
  BY <1>6, <1>8, <1>9, <1>10, <1>11, <1>12, <1>13, <1>14, <1>15 DEF IInv

----------------------------------------------------------------------------
(* What actions have in common: an order sent, a message for the sender       *)

LEMMA OrderKeeps ==
    ASSUME IInv, NEW o \in GoodOrder, o.cmd # "ADDLINKEV",
           sendOrder(o), batch' = batch,
           UNCHANGED <<readyStop, session, uiSession, doomed, closing, link,
                       open, conns, lost, senderQ, senderOpen, sending, found,
                       mapSender, linking, born>>,
           TypeOK'
    PROVE  IInv'
<1>1. o \in OrderType
  BY DEF GoodOrder
<1>2. Pending' = Append(Pending, o) /\ Pending \in Seq(GoodOrder) /\ Distinct(Pending)
  BY <1>1, PendingSent DEF IInv, OrdersInv
<1>3. \A s \in Socks : ~HandsOver(o, s)
  BY DEF HandsOver
<1>4. /\ Pending' \in Seq(GoodOrder) /\ Distinct(Pending')
      /\ \A s \in Socks : CarriesIn(Pending', s) <=> CarriesIn(Pending, s)
      /\ \A k \in DOMAIN Pending : k \in DOMAIN Pending' /\ Pending'[k] = Pending[k]
  BY <1>2, <1>3, AddLast
<1>5. OrdersInv'
  BY <1>4 DEF OrdersInv
<1>6. OwnInv'
  BY <1>4 DEF IInv, OwnInv, HasSession, Linking, Carries
<1>7. StopInv'
  BY <1>4 DEF IInv, StopInv, Client
<1> QED
  BY <1>5, <1>6, <1>7, Frames DEF IInv

\* A message is added, or refused since the sender is joined.
LEMMA AddTask ==
    ASSUME IInv, NEW c \in SenderType, addTask(c),
           UNCHANGED <<senderOpen, mapSender, sending, found>>,
           IF c.cmd = "SendTo" THEN c.sock = NoSock ELSE c.sock # NoSock /\ c.to = <<>>,
           \A i \in DOMAIN c.to :
             senderOpen /\ ~c.to[i].live
               => ~Believes(Len(senderQ) + 1, c.to[i].sock, c.to[i].id)
    PROVE  /\ senderQ' \in Seq(SenderType)
           /\ QueueInv' /\ LateInv'
           /\ senderOpen => \A s, n :
                Believes(Len(senderQ) + 1, s, n)'
                  <=> IF c.sock = s THEN n = c.id
                      ELSE Believes(Len(senderQ) + 1, s, n)
<1>1. CASE ~senderOpen
  BY <1>1, Frames DEF IInv, TypeOK, addTask, LateInv
<1>2. CASE senderOpen
  <2>1. senderQ \in Seq(SenderType) /\ senderQ' = Append(senderQ, c)
    BY <1>2 DEF IInv, TypeOK, addTask
  <2>2. /\ senderQ' \in Seq(SenderType) /\ Len(senderQ) \in Nat
        /\ Len(senderQ') = Len(senderQ) + 1
        /\ DOMAIN senderQ = 1..Len(senderQ) /\ DOMAIN senderQ' = 1..(Len(senderQ) + 1)
        /\ \A k \in 1..Len(senderQ) : senderQ'[k] = senderQ[k]
        /\ senderQ'[Len(senderQ) + 1] = c
    BY <2>1, AppendProperties
  <2>3. \A k \in DOMAIN senderQ' : k \in DOMAIN senderQ \/ k = Len(senderQ) + 1
    BY <2>2
  <2>4. QueueInv'
    BY <2>2, <2>3 DEF IInv, QueueInv
  <2>5. \A s, n : \A k \in 1..(Len(senderQ) + 1) :
          BelievesIn(senderQ', mapSender', k, s, n) <=> Believes(k, s, n)
    BY <2>1, BelievesAdded, BelievesIs
  <2>6. \A s, n :
          BelievesIn(senderQ', mapSender', Len(senderQ) + 2, s, n)
            <=> IF c.sock = s THEN n = c.id ELSE Believes(Len(senderQ) + 1, s, n)
    BY <2>1, BelievesAdded, BelievesIs
  <2>7. \A s, n : Believes(Len(senderQ) + 1, s, n)'
                    <=> BelievesIn(senderQ', mapSender', Len(senderQ) + 2, s, n)
    <3>1. Len(senderQ') + 1 = Len(senderQ) + 2
      BY <2>2
    <3> QED
      BY <3>1 DEF Believes, BelievesIn, Told
  <2>8. LateInv'
    <3>1. \A k \in DOMAIN senderQ' : \A i \in DOMAIN senderQ'[k].to :
            LET d == senderQ'[k].to[i]
            IN  ~d.live => ~BelievesIn(senderQ', mapSender', k, d.sock, d.id)
      <4> SUFFICES ASSUME NEW k \in DOMAIN senderQ', NEW i \in DOMAIN senderQ'[k].to,
                          ~senderQ'[k].to[i].live
                   PROVE  ~BelievesIn(senderQ', mapSender', k, senderQ'[k].to[i].sock,
                                      senderQ'[k].to[i].id)
        OBVIOUS
      <4>1. k \in 1..(Len(senderQ) + 1)
        BY <2>2
      <4>2. CASE k \in DOMAIN senderQ
        BY <1>2, <2>2, <2>5, <4>1, <4>2 DEF IInv, LateInv
      <4>3. CASE k = Len(senderQ) + 1
        BY <1>2, <2>2, <2>5, <4>1, <4>3
      <4> QED
        BY <2>3, <4>2, <4>3
    <3>2. /\ \A i \in DOMAIN sending' :
               ~sending'[i].live => mapSender'[sending'[i].sock] # sending'[i].id
          /\ found' => mapSender'[Head(sending').sock] = Head(sending').id
      BY <1>2 DEF IInv, LateInv
    <3> QED
      BY <3>1, <3>2, BelievesIsNext DEF LateInv
  <2> QED
    BY <2>2, <2>4, <2>6, <2>7, <2>8
<1> QED
  BY <1>1, <1>2

----------------------------------------------------------------------------
(* The actions                                                                *)

\* A script's call that sends an order.
LEMMA CallKeeps ==
    ASSUME IInv, NEW c, NEW o \in GoodOrder, o.cmd # "ADDLINKEV",
           CallOrder(c, o), uiID' \in Nat
    PROVE  IInv'
<1>1. o \in OrderType
  BY DEF GoodOrder
<1>2. sendOrder(o) /\ batch' = batch /\ calls' = calls + 1 /\ calls < MaxCalls
  BY DEF CallOrder, Call
<1>3. UNCHANGED <<batch, loop, baseVars, workVars, sysVars, sendVars,
                  linkVars, pcStop, born>>
  BY DEF CallOrder
<1>4. order' \in Seq(OrderType)
  BY <1>1, <1>2, PendingSent DEF IInv
<1>5. calls' \in 0..MaxCalls
  BY <1>2, ConstantsAssumption DEF IInv, TypeOK
<1>6. TypeOK'
  BY <1>3, <1>4, <1>5
     DEF IInv, TypeOK, baseVars, workVars, sysVars, sendVars, linkVars
<1> QED
  BY <1>2, <1>3, <1>6, OrderKeeps
     DEF baseVars, workVars, sysVars, sendVars, linkVars

\* A message that a script sends.
LEMMA SendKeeps ==
    ASSUME IInv, NEW ns \in Seq(1..MaxConn), Send(ns)
    PROVE  IInv'
<1> DEFINE to == [i \in DOMAIN ns |-> [sock |-> born[ns[i]].sock, id |-> ns[i],
                                       live |-> Up(ns[i])]]
           c == SendTo(to)
<1>1. /\ \A i \in DOMAIN ns : ns[i] <= uiSession
      /\ calls < MaxCalls /\ calls' = calls + 1
      /\ addTask(c)
      /\ UNCHANGED <<order, batch, loop, baseVars, workVars, uiID, sysVars,
                     senderOpen, sending, found, mapSender, written, linkVars,
                     pcStop, born>>
  BY DEF Send, Call
<1>2. /\ Len(ns) \in Nat /\ DOMAIN ns = 1..Len(ns)
      /\ \A i \in DOMAIN ns : ns[i] \in 1..MaxConn
  BY LenProperties
<1>3. \A i \in DOMAIN ns : ns[i] \in 1..uiSession /\ born[ns[i]].sock \in Socks
  BY <1>1, <1>2 DEF IInv, TypeOK, ConnInv
<1>4. \A n : Up(n) \in BOOLEAN
  BY DEF Up
<1>5. to \in Seq(TargetType)
  <2>1. to \in [1..Len(ns) -> TargetType]
    <3> SUFFICES ASSUME NEW i \in DOMAIN ns PROVE to[i] \in TargetType
      BY <1>2
    <3> QED
      BY <1>2, <1>3, <1>4 DEF TargetType
  <2> HIDE DEF to
  <2> QED
    BY <1>2, <2>1, SeqDef
<1>6. c \in SenderType /\ c.cmd = "SendTo" /\ c.sock = NoSock /\ c.to = to
  <2> HIDE DEF to
  <2> QED
    BY <1>5 DEF SendTo, SenderType
<1>7. ASSUME NEW i \in DOMAIN c.to, senderOpen, ~c.to[i].live
      PROVE  ~Believes(Len(senderQ) + 1, c.to[i].sock, c.to[i].id)
  <2> DEFINE n == ns[i]
             s == born[n].sock
             m == IF closing = s THEN 0 ELSE session[s].id
  <2>1. i \in DOMAIN ns /\ c.to[i].sock = s /\ c.to[i].id = n /\ ~Up(n)
    BY <1>6, <1>7
  <2> HIDE DEF c, to
  <2>2. n \in Nat \ {0} /\ s \in Socks
    BY <1>2, <1>3, <2>1, ConstantsAssumption
  <2>3. m # n
    <3>1. closing = s \/ session[s].id # n
      BY <2>1, <2>2 DEF Up
    <3> HIDE DEF n, s
    <3> QED
      BY <2>2, <3>1
  <2>4. Believes(Len(senderQ) + 1, s, m)
    BY <1>7, <2>2 DEF IInv, SenderFollowsSessions
  <2>5. senderQ \in Seq(SenderType)
    BY DEF IInv, TypeOK
  <2> HIDE DEF n, s, m
  <2>6. ~Believes(Len(senderQ) + 1, s, n)
    BY <2>3, <2>4, <2>5, BelievesIs, BelievesOne
  <2> QED
    BY <2>1, <2>6
<1> HIDE DEF c, to
<1>8. UNCHANGED <<senderOpen, mapSender, sending, found>>
  BY <1>1
<1>9. /\ senderQ' \in Seq(SenderType)
      /\ QueueInv' /\ LateInv'
      /\ senderOpen => \A s, n :
           Believes(Len(senderQ) + 1, s, n)'
             <=> IF c.sock = s THEN n = c.id ELSE Believes(Len(senderQ) + 1, s, n)
  BY <1>1, <1>6, <1>7, <1>8, AddTask
<1>10. SenderFollowsSessions'
  <2>1. \A s \in Socks : c.sock # s
    BY <1>6, ConstantsAssumption
  <2>2. UNCHANGED <<closing, session, senderOpen>>
    BY <1>1 DEF baseVars
  <2> QED
    BY <1>9, <2>1, <2>2 DEF IInv, SenderFollowsSessions
<1>11. calls' \in 0..MaxCalls
  BY <1>1, ConstantsAssumption DEF IInv, TypeOK
<1>12. TypeOK'
  BY <1>1, <1>9, <1>11 DEF IInv, TypeOK, baseVars, workVars, sysVars, linkVars
<1>13. Pending' = Pending
  BY <1>1 DEF Pending
<1> QED
  BY <1>1, <1>9, <1>10, <1>12, <1>13, Frames
     DEF IInv, baseVars, workVars, sysVars, linkVars

LEMMA ScriptKeeps ==
    ASSUME IInv, Script
    PROVE  IInv'
<1>1. ASSUME NEW t \in Types, addListener(t) PROVE IInv'
  <2> DEFINE o == Order("ADDLISTENER", uiID', NoSock, t)
  <2>1. uiID' \in Nat /\ CallOrder("addListener", o)
    BY <1>1 DEF addListener, IInv, TypeOK
  <2>2. o \in GoodOrder /\ o.cmd # "ADDLINKEV"
    BY <2>1 DEF Order, GoodOrder, OrderType, Commands
  <2> QED
    BY <2>1, <2>2, CallKeeps
<1>2. ASSUME NEW t \in Types, addTcpLink(t) PROVE IInv'
  <2> DEFINE o == Order("ADDLINK", uiID', NoSock, t)
  <2>1. uiID' \in Nat /\ CallOrder("addTcpLink", o)
    BY <1>2 DEF addTcpLink, IInv, TypeOK
  <2>2. uiID' \in Ids
    BY <1>2, ConstantsAssumption DEF addTcpLink, IInv, TypeOK, Ids
  <2>3. o \in GoodOrder /\ o.cmd # "ADDLINKEV"
    BY <2>1, <2>2 DEF Order, GoodOrder, OrderType, Commands
  <2> QED
    BY <2>1, <2>3, CallKeeps
<1>3. ASSUME NEW i \in Ids, delListener(i) PROVE IInv'
  <2> DEFINE o == Order("DELLISTENER", i, NoSock, NoType)
  <2>1. uiID' \in Nat /\ CallOrder("delListener", o)
    BY <1>3 DEF delListener, IInv, TypeOK
  <2>2. o \in GoodOrder /\ o.cmd # "ADDLINKEV"
    BY DEF Order, GoodOrder, OrderType, Commands, Ids
  <2> QED
    BY <2>1, <2>2, CallKeeps
<1>4. ASSUME NEW i \in Ids, delTcpLink(i) PROVE IInv'
  <2> DEFINE o == Order("DELLINK", i, NoSock, NoType)
  <2>1. uiID' \in Nat /\ CallOrder("delTcpLink", o)
    BY <1>4 DEF delTcpLink, IInv, TypeOK
  <2>2. o \in GoodOrder /\ o.cmd # "ADDLINKEV"
    BY DEF Order, GoodOrder, OrderType, Commands, Ids
  <2> QED
    BY <2>1, <2>2, CallKeeps
<1>5. ASSUME NEW t \in Types, closeByType(t) PROVE IInv'
  <2> DEFINE o == Order("CLOSEBYTYPE", 0, NoSock, t)
  <2>1. uiID' \in Nat /\ CallOrder("closeByType", o)
    BY <1>5 DEF closeByType, IInv, TypeOK
  <2>2. o \in GoodOrder /\ o.cmd # "ADDLINKEV"
    BY DEF Order, GoodOrder, OrderType, Commands
  <2> QED
    BY <2>1, <2>2, CallKeeps
<1>6. ASSUME NEW n \in 1..MaxConn, closeSock(n) PROVE IInv'
  <2> DEFINE o == Order("CLOSESOCK", n, born[n].sock, NoType)
  <2>1. uiID' \in Nat /\ CallOrder("closeSock", o)
    BY <1>6 DEF closeSock, IInv, TypeOK
  <2>2. born[n].sock \in Socks
    BY <1>6 DEF closeSock, IInv, TypeOK, ConnInv
  <2>3. o \in GoodOrder /\ o.cmd # "ADDLINKEV"
    BY <2>2 DEF Order, GoodOrder, OrderType, Commands
  <2> QED
    BY <2>1, <2>3, CallKeeps
<1>7. ASSUME NEW n \in 1..MaxConn, Send(<<n>>) PROVE IInv'
  <2>1. <<n>> \in Seq(1..MaxConn)
    OBVIOUS
  <2> QED
    BY <1>7, <2>1, SendKeeps
<1>8. ASSUME NEW m \in 1..MaxConn, NEW n \in 1..MaxConn, Send(<<m, n>>) PROVE IInv'
  <2>1. <<m, n>> \in Seq(1..MaxConn)
    OBVIOUS
  <2> QED
    BY <1>8, <2>1, SendKeeps
<1> QED
  BY <1>1, <1>2, <1>3, <1>4, <1>5, <1>6, <1>7, <1>8 DEF Script

\* A connection gets a session, by an accept or from the linker.
LEMMA ConnNew ==
    ASSUME TypeOK, ConnInv, NEW s \in Socks, NEW t \in Types, NEW linked \in BOOLEAN,
           NEW c \in 1..conns', conns' \in {conns, conns + 1},
           open' = [open EXCEPT ![s] = c],
           \A x \in Socks : x # s => open[x] # c,
           \A n \in 1..uiSession : born[n].conn # c,
           uiSession' = uiSession + 1, uiSession' <= MaxConn,
           born' = [born EXCEPT ![uiSession'] = [sock |-> s, conn |-> c]],
           session' = [session EXCEPT ![s] =
                         [id |-> uiSession', type |-> t, bLinker |-> linked]]
    PROVE  ConnInv'
<1>1. /\ uiSession \in Nat /\ conns \in Nat /\ MaxConn \in Nat
      /\ uiSession' \in 1..MaxConn /\ conns <= conns' /\ conns' \in Nat
      /\ c \in Nat /\ c # 0 /\ c <= conns'
  BY ConstantsAssumption DEF TypeOK
<1>2. /\ born'[uiSession'] = [sock |-> s, conn |-> c]
      /\ \A n \in 1..uiSession : born'[n] = born[n]
      /\ \A n \in 1..uiSession' : n \in 1..uiSession \/ n = uiSession'
  BY <1>1 DEF TypeOK
<1>3. /\ open'[s] = c /\ \A x \in Socks : open[x] \in Nat /\ (x # s => open'[x] = open[x])
      /\ session'[s].id = uiSession' /\ \A x \in Socks : x # s => session'[x] = session[x]
  BY DEF TypeOK
<1>4. \A x \in Socks : open'[x] <= conns'
  BY <1>1, <1>3 DEF ConnInv
<1>5. \A x, y \in Socks : open'[x] # 0 /\ open'[x] = open'[y] => x = y
  BY <1>3 DEF ConnInv
<1>6. \A n \in 1..uiSession' : born'[n].sock \in Socks /\ born'[n].conn \in 1..conns'
  BY <1>1, <1>2 DEF ConnInv
<1>7. \A m, n \in 1..uiSession' : born'[m].conn = born'[n].conn => m = n
  BY <1>2 DEF ConnInv
<1>8. \A x \in Socks : session'[x].id = 0 => session'[x] = NoSession
  BY <1>1, <1>3 DEF ConnInv
<1>9. \A x \in Socks : session'[x].id # 0 =>
        /\ session'[x].id <= uiSession'
        /\ born'[session'[x].id].conn = open'[x]
  <2> SUFFICES ASSUME NEW x \in Socks, session'[x].id # 0
               PROVE  /\ session'[x].id <= uiSession'
                      /\ born'[session'[x].id].conn = open'[x]
    OBVIOUS
  <2>1. CASE x = s
    BY <1>1, <1>2, <1>3, <2>1
  <2>2. CASE x # s
    <3>1. session'[x] = session[x] /\ session[x].id # 0 /\ open'[x] = open[x]
      BY <1>3, <2>2
    <3>2. session[x].id <= uiSession /\ born[session[x].id].conn = open[x]
      BY <3>1 DEF ConnInv
    <3>3. session[x].id \in Nat
      BY DEF TypeOK
    <3>4. session[x].id \in 1..uiSession
      BY <1>1, <3>1, <3>2, <3>3
    <3>5. session[x].id <= uiSession'
      BY <1>1, <3>2, <3>3, <3>4
    <3> QED
      BY <1>2, <3>1, <3>2, <3>4, <3>5
  <2> QED
    BY <2>1, <2>2
<1>10. \A x \in Socks, n \in 1..uiSession' :
         open'[x] # 0 /\ session'[x].id = 0 => born'[n].conn # open'[x]
  <2> SUFFICES ASSUME NEW x \in Socks, NEW n \in 1..uiSession',
                      open'[x] # 0, session'[x].id = 0
               PROVE  born'[n].conn # open'[x]
    OBVIOUS
  <2>1. x # s /\ open'[x] = open[x] /\ session[x].id = 0
    BY <1>1, <1>3
  <2>2. CASE n = uiSession'
    BY <1>2, <2>1, <2>2
  <2>3. CASE n \in 1..uiSession
    BY <1>2, <2>1, <2>3 DEF ConnInv
  <2> QED
    BY <1>2, <2>2, <2>3
<1> QED
  BY <1>4, <1>5, <1>6, <1>7, <1>8, <1>9, <1>10 DEF ConnInv

\* ... and the sender and the links hear of it.
LEMMA SessionAdded ==
    ASSUME IInv, NEW s \in Socks, NEW t \in Types, NEW linked \in BOOLEAN,
           addTcpEv(s, t, linked), closing = NoSock, closing' = NoSock, ~HasSession(s),
           UNCHANGED <<senderOpen, sending, found, mapSender>>
    PROVE  /\ uiSession' = uiSession + 1
           /\ session' = [session EXCEPT ![s] =
                            [id |-> uiSession', type |-> t, bLinker |-> linked]]
           /\ session' \in [Socks -> [id : Nat, type : Types \cup {NoType},
                                      bLinker : BOOLEAN]]
           /\ session'[s] = [id |-> uiSession', type |-> t, bLinker |-> linked]
           /\ \A x \in Socks : x # s => session'[x] = session[x]
           /\ HasSession(s)' /\ \A x \in Socks : x # s => (HasSession(x)' <=> HasSession(x))
           /\ senderQ' \in Seq(SenderType)
           /\ QueueInv' /\ LateInv' /\ SenderFollowsSessions'
<1> DEFINE c == Add(s, uiSession')
<1>1. /\ uiSession' = uiSession + 1 /\ addTask(c)
      /\ session' = [session EXCEPT ![s] =
                       [id |-> uiSession', type |-> t, bLinker |-> linked]]
  BY DEF addTcpEv
<1>2. uiSession \in Nat /\ uiSession' \in Nat \ {0}
  BY <1>1, ConstantsAssumption DEF IInv, TypeOK
<1>3. /\ session' \in [Socks -> [id : Nat, type : Types \cup {NoType}, bLinker : BOOLEAN]]
      /\ session'[s] = [id |-> uiSession', type |-> t, bLinker |-> linked]
      /\ \A x \in Socks : x # s => session'[x] = session[x]
  BY <1>1, <1>2 DEF IInv, TypeOK
<1>4. /\ c \in SenderType /\ c.cmd = "AddSock" /\ c.to = <<>>
      /\ c.sock = s /\ c.id = uiSession'
  <2>1. <<>> \in Seq(TargetType)
    OBVIOUS
  <2> QED
    BY <1>2, <2>1 DEF Add, SenderType
<1> HIDE DEF c
<1>5. /\ senderQ' \in Seq(SenderType)
      /\ QueueInv' /\ LateInv'
      /\ senderOpen => \A x, n :
           Believes(Len(senderQ) + 1, x, n)'
             <=> IF c.sock = x THEN n = c.id ELSE Believes(Len(senderQ) + 1, x, n)
  <2>1. c.sock # NoSock
    BY <1>4, ConstantsAssumption
  <2>2. DOMAIN c.to = {}
    BY <1>4
  <2> QED
    BY <1>1, <1>4, <2>1, <2>2, AddTask
<1>6. SenderFollowsSessions'
  <2> SUFFICES ASSUME senderOpen, NEW x \in Socks
               PROVE  Believes(Len(senderQ) + 1, x, session[x].id)'
    BY ConstantsAssumption DEF SenderFollowsSessions
  <2>1. CASE x = s
    BY <1>3, <1>4, <1>5, <2>1
  <2>2. CASE x # s
    <3>1. Believes(Len(senderQ) + 1, x, session[x].id)
      BY ConstantsAssumption DEF IInv, SenderFollowsSessions
    <3> QED
      BY <1>3, <1>4, <1>5, <2>2, <3>1
  <2> QED
    BY <2>1, <2>2
<1> QED
  BY <1>1, <1>2, <1>3, <1>5, <1>6 DEF HasSession

LEMMA AcceptKeeps ==
    ASSUME IInv, NEW s \in Socks, NEW i \in Ids, Accept(s, i)
    PROVE  IInv'
<1>1. /\ closing = NoSock /\ doomed = {} /\ readyStop = "NONE"
      /\ open[s] = 0 /\ conns < MaxConn /\ conns' = conns + 1
      /\ open' = [open EXCEPT ![s] = conns']
      /\ addTcpEv(s, listener[i], FALSE)
      /\ born' = [born EXCEPT ![uiSession'] = [sock |-> s, conn |-> conns']]
      /\ listener[i] \in Types
  BY DEF Accept, Idle, IInv, TypeOK
<1>2. UNCHANGED <<order, batch, loop, readyStop, doomed, closing, workVars,
                  uiID, lost, senderOpen, sending, found, mapSender, written,
                  linkVars, pcStop, calls>>
  BY DEF Accept
<1>3. ~HasSession(s) /\ ~Linking(s) /\ ~Carries(s) /\ s \notin lost
  BY <1>1 DEF IInv, OwnInv
<1>4. /\ uiSession' = uiSession + 1
      /\ session' = [session EXCEPT ![s] =
                       [id |-> uiSession', type |-> listener[i], bLinker |-> FALSE]]
      /\ session' \in [Socks -> [id : Nat, type : Types \cup {NoType}, bLinker : BOOLEAN]]
      /\ \A x \in Socks : x # s => session'[x] = session[x]
      /\ HasSession(s)' /\ \A x \in Socks : x # s => (HasSession(x)' <=> HasSession(x))
      /\ senderQ' \in Seq(SenderType)
      /\ QueueInv' /\ LateInv' /\ SenderFollowsSessions'
  BY <1>1, <1>2, <1>3, SessionAdded
<1>5. Pending' = Pending
  BY <1>2 DEF Pending
<1>6. /\ conns \in Nat /\ conns' \in Nat /\ uiSession \in 0..conns /\ uiSession' \in 0..conns'
      /\ conns' \in 0..MaxConn /\ uiSession' <= MaxConn /\ MaxConn \in Nat
  BY <1>1, <1>4, ConstantsAssumption DEF IInv, TypeOK
<1>7. TypeOK'
  <2>1. open' \in [Socks -> Nat]
    BY <1>1, <1>6 DEF IInv, TypeOK
  <2>2. born' \in [1..MaxConn -> [sock : Socks \cup {NoSock}, conn : Nat]]
    BY <1>1, <1>6 DEF IInv, TypeOK
  <2> QED
    BY <1>2, <1>4, <1>6, <2>1, <2>2 DEF IInv, TypeOK, workVars, linkVars
<1>8. ConnInv'
  <2>1. conns' \in 1..conns'
    BY <1>1, <1>6
  <2>2. \A x \in Socks : open[x] # conns'
    BY <1>1, <1>6 DEF IInv, TypeOK, ConnInv
  <2>3. \A n \in 1..uiSession : born[n].conn # conns'
    <3>1. \A n \in 1..uiSession : born[n].conn \in 1..conns
      BY DEF IInv, ConnInv
    <3> QED
      BY <1>1, <1>6, <3>1
  <2> QED
    BY <1>1, <1>4, <1>6, <2>1, <2>2, <2>3, ConnNew DEF IInv
<1>9. OwnInv'
  <2>1. open'[s] # 0 /\ \A x \in Socks : x # s => open'[x] = open[x]
    BY <1>1, <1>6 DEF IInv, TypeOK
  <2>2. \A x \in Socks : (Carries(x)' <=> Carries(x)) /\ (Linking(x)' <=> Linking(x))
    BY <1>2, <1>5 DEF Carries, Linking, linkVars
  <2> QED
    BY <1>2, <1>3, <1>4, <2>1, <2>2 DEF IInv, OwnInv
<1>10. DoomInv'
  BY <1>1, <1>2 DEF DoomInv
<1>11. LinksKnowTheirSession'
  <2>1. link' = link /\ closing' = closing /\ link \in [Ids -> [type : Types \cup {NoType},
                         sock : Socks \cup {NoSock}]]
    BY <1>2 DEF workVars, IInv, TypeOK
  <2>2. \A j \in Ids : link[j].sock # s
    BY <1>3, ConstantsAssumption DEF IInv, LinksKnowTheirSession, HasSession
  <2>3. \A j \in Ids : link[j].sock # NoSock => session'[link[j].sock] = session[link[j].sock]
    BY <1>4, <2>1, <2>2
  <2> QED
    BY <2>1, <2>3 DEF IInv, LinksKnowTheirSession
<1>12. StopInv'
  BY <1>1, <1>2 DEF StopInv
<1>13. OrdersInv' /\ LinkerInv'
  BY <1>2, <1>5, Frames DEF linkVars
<1> QED
  BY <1>4, <1>7, <1>8, <1>9, <1>10, <1>11, <1>12, <1>13 DEF IInv

LEMMA PeerClosedKeeps ==
    ASSUME IInv, NEW s \in Socks, PeerClosed(s)
    PROVE  IInv'
<1>1. /\ doomed = {} /\ closing = NoSock /\ HasSession(s) /\ doomed' = {s}
      /\ UNCHANGED <<order, batch, loop, readyStop, session, uiSession, closing,
                     workVars, uiID, sysVars, sendVars, linkVars, pcStop, calls,
                     born>>
  BY DEF PeerClosed, Idle, HasSession
<1>2. UNCHANGED <<listener, link, open, conns, lost, senderQ, senderOpen, sending,
                  found, mapSender, written, linkQ, linking>>
  BY <1>1 DEF workVars, sysVars, sendVars, linkVars
<1>3. TypeOK'
  BY <1>1, <1>2 DEF IInv, TypeOK
<1>4. Pending' = Pending
  BY <1>1 DEF Pending
<1>5. DoomInv'
  BY <1>1 DEF DoomInv, HasSession
<1>6. StopInv'
  BY <1>1, <1>4, ConstantsAssumption DEF IInv, StopInv, Client
<1> QED
  BY <1>1, <1>2, <1>3, <1>4, <1>5, <1>6, Frames DEF IInv

LEMMA OnCloseKeeps ==
    ASSUME IInv, NEW s \in Socks, OnClose(s)
    PROVE  IInv'
<1> DEFINE c == Del(s)
<1>1. /\ closing = NoSock /\ closing' = s
      /\ s \in doomed /\ doomed' = doomed \ {s}
      /\ addTask(c)
      /\ link' = IF session[s].bLinker
                 THEN [i \in Ids |-> IF link[i].sock = s
                                     THEN [link[i] EXCEPT !.sock = NoSock]
                                     ELSE link[i]]
                 ELSE link
      /\ UNCHANGED <<order, batch, loop, readyStop, session, uiSession, listener,
                     uiID, sysVars, senderOpen, sending, found, mapSender,
                     written, linkVars, pcStop, calls, born>>
  BY DEF OnClose
<1>2. UNCHANGED <<open, conns, lost, linkQ, linking>>
  BY <1>1 DEF sysVars, linkVars
<1>3. /\ c \in SenderType /\ c.cmd = "DelSock" /\ c.to = <<>>
      /\ c.sock = s /\ c.id = 0
  <2>1. <<>> \in Seq(TargetType)
    OBVIOUS
  <2> QED
    BY <2>1 DEF Del, SenderType
<1> HIDE DEF c
<1>4. /\ senderQ' \in Seq(SenderType)
      /\ QueueInv' /\ LateInv'
      /\ senderOpen => \A x, n :
           Believes(Len(senderQ) + 1, x, n)'
             <=> IF c.sock = x THEN n = c.id ELSE Believes(Len(senderQ) + 1, x, n)
  <2>1. c.sock # NoSock
    BY <1>3, ConstantsAssumption
  <2>2. DOMAIN c.to = {}
    BY <1>3
  <2> QED
    BY <1>1, <1>3, <2>1, <2>2, AddTask
<1>5. link \in [Ids -> [type : Types \cup {NoType}, sock : Socks \cup {NoSock}]]
  BY DEF IInv, TypeOK
<1>6. /\ link' \in [Ids -> [type : Types \cup {NoType}, sock : Socks \cup {NoSock}]]
      /\ \A i \in Ids : link'[i] = link[i] \/ link'[i].sock = NoSock
      /\ session[s].bLinker => \A i \in Ids : link[i].sock = s => link'[i].sock = NoSock
  BY <1>1, <1>5
<1>7. TypeOK'
  BY <1>1, <1>2, <1>4, <1>6 DEF IInv, TypeOK
<1>8. DoomInv'
  BY <1>1 DEF IInv, DoomInv, HasSession
<1>9. LinksKnowTheirSession'
  <2> SUFFICES ASSUME NEW i \in Ids, link'[i].sock # NoSock
               PROVE  /\ session[link'[i].sock].id # 0 /\ s # link'[i].sock
                      /\ session[link'[i].sock].bLinker
                      /\ session[link'[i].sock].type = link'[i].type
                      /\ \A j \in Ids \ {i} : link'[j].sock # link'[i].sock
    BY <1>1 DEF LinksKnowTheirSession
  <2>1. link'[i] = link[i]
    BY <1>6
  <2>2. /\ session[link[i].sock].id # 0
        /\ session[link[i].sock].bLinker
        /\ session[link[i].sock].type = link[i].type
        /\ \A j \in Ids \ {i} : link[j].sock # link[i].sock
    BY <2>1 DEF IInv, LinksKnowTheirSession
  <2>3. s # link[i].sock
    BY <1>6, <2>1, <2>2
  <2>4. \A j \in Ids \ {i} : link'[j].sock # link'[i].sock
    BY <1>6, <2>1, <2>2
  <2> QED
    BY <2>1, <2>2, <2>3, <2>4
<1>10. SenderFollowsSessions'
  <2> SUFFICES ASSUME senderOpen, NEW x \in Socks
               PROVE  Believes(Len(senderQ) + 1, x, IF s = x THEN 0 ELSE session[x].id)'
    BY <1>1 DEF SenderFollowsSessions
  <2>1. CASE x = s
    BY <1>3, <1>4, <2>1
  <2>2. CASE x # s
    <3>1. Believes(Len(senderQ) + 1, x, session[x].id)
      BY <1>1, ConstantsAssumption DEF IInv, SenderFollowsSessions
    <3> QED
      BY <1>1, <1>3, <1>4, <2>2, <3>1
  <2> QED
    BY <2>1, <2>2
<1>11. Pending' = Pending
  BY <1>1 DEF Pending
<1>12. StopInv'
  BY <1>1, <1>11, ConstantsAssumption DEF IInv, StopInv, Client
<1> QED
  BY <1>1, <1>2, <1>4, <1>7, <1>8, <1>9, <1>10, <1>11, <1>12, Frames DEF IInv

LEMMA FreeSessionKeeps ==
    ASSUME IInv, FreeSession
    PROVE  IInv'
<1>0. closing \in Socks
  BY DEF FreeSession, IInv, TypeOK
<1> PICK s \in Socks : s = closing
  BY <1>0
<1>1. /\ closing = s /\ closing # NoSock /\ closing' = NoSock
      /\ open' = [open EXCEPT ![s] = 0]
      /\ session' = [session EXCEPT ![s] = NoSession]
      /\ UNCHANGED <<order, batch, loop, readyStop, uiSession, doomed, workVars,
                     uiID, conns, lost, sendVars, linkVars, pcStop, calls, born>>
  BY DEF FreeSession
<1>2. UNCHANGED <<listener, link, senderQ, senderOpen, sending, found, mapSender,
                  written, linkQ, linking>>
  BY <1>1 DEF workVars, sendVars, linkVars
<1>3. HasSession(s) /\ s \notin doomed
  BY <1>1 DEF IInv, TypeOK, DoomInv
<1>4. /\ open' \in [Socks -> Nat] /\ open'[s] = 0
      /\ \A x \in Socks : x # s => open'[x] = open[x]
  BY <1>1, <1>3 DEF IInv, TypeOK
<1>5. /\ session' \in [Socks -> [id : Nat, type : Types \cup {NoType}, bLinker : BOOLEAN]]
      /\ session'[s] = NoSession
      /\ \A x \in Socks : x # s => session'[x] = session[x]
  BY <1>1, <1>3 DEF IInv, TypeOK, NoSession
<1>6. NoSession.id = 0 /\ NoSession.type = NoType
  BY DEF NoSession
<1>7. TypeOK'
  BY <1>1, <1>2, <1>4, <1>5 DEF IInv, TypeOK
<1>8. ConnInv'
  <2>1. conns \in Nat /\ uiSession' = uiSession /\ conns' = conns /\ born' = born
    BY <1>1, ConstantsAssumption DEF IInv, TypeOK
  <2>2. \A x \in Socks : open'[x] <= conns'
    BY <1>4, <2>1 DEF IInv, ConnInv
  <2>3. \A x, y \in Socks : open'[x] # 0 /\ open'[x] = open'[y] => x = y
    BY <1>4 DEF IInv, ConnInv
  <2>4. \A n \in 1..uiSession : born[n].sock \in Socks /\ born[n].conn \in 1..conns
    BY DEF IInv, ConnInv
  <2>5. \A m, n \in 1..uiSession : born[m].conn = born[n].conn => m = n
    BY DEF IInv, ConnInv
  <2>6. \A x \in Socks : session'[x].id = 0 => session'[x] = NoSession
    BY <1>5 DEF IInv, ConnInv
  <2>7. \A x \in Socks : session'[x].id # 0 =>
          /\ session'[x].id <= uiSession
          /\ born[session'[x].id].conn = open'[x]
    BY <1>4, <1>5, <1>6 DEF IInv, ConnInv
  <2>8. \A x \in Socks, n \in 1..uiSession :
          open'[x] # 0 /\ session'[x].id = 0 => born[n].conn # open'[x]
    BY <1>4, <1>5 DEF IInv, ConnInv
  <2> QED
    BY <2>1, <2>2, <2>3, <2>4, <2>5, <2>6, <2>7, <2>8 DEF ConnInv
<1>9. Pending' = Pending
  BY <1>1 DEF Pending
<1>10. OwnInv'
  <2>1. ~HasSession(s)' /\ \A x \in Socks : x # s => (HasSession(x)' <=> HasSession(x))
    BY <1>5, <1>6 DEF HasSession
  <2>2. \A x : (Carries(x)' <=> Carries(x)) /\ (Linking(x)' <=> Linking(x))
    BY <1>2, <1>9 DEF Carries, Linking
  <2>3. ~Linking(s) /\ ~Carries(s) /\ s \notin lost
    BY <1>3 DEF IInv, OwnInv
  <2> QED
    BY <1>1, <1>4, <2>1, <2>2, <2>3 DEF IInv, OwnInv
<1>11. DoomInv'
  BY <1>1, <1>3, <1>5 DEF IInv, TypeOK, DoomInv, HasSession
<1>12. LinksKnowTheirSession'
  <2>1. link \in [Ids -> [type : Types \cup {NoType}, sock : Socks \cup {NoSock}]]
    BY DEF IInv, TypeOK
  <2>2. \A i \in Ids : link[i].sock # NoSock =>
          link[i].sock # s /\ session'[link[i].sock] = session[link[i].sock]
    BY <1>5, <2>1 DEF IInv, LinksKnowTheirSession
  <2>3. \A i \in Ids : link[i].sock # NoSock => link[i].sock # closing'
    BY <1>1
  <2> QED
    BY <1>2, <2>2, <2>3 DEF IInv, LinksKnowTheirSession
<1>13. SenderFollowsSessions'
  <2> SUFFICES ASSUME senderOpen, NEW x \in Socks
               PROVE  Believes(Len(senderQ) + 1, x, session'[x].id)
    BY <1>1, <1>2, ConstantsAssumption DEF SenderFollowsSessions, Believes
  <2>1. Believes(Len(senderQ) + 1, x, IF s = x THEN 0 ELSE session[x].id)
    BY DEF IInv, SenderFollowsSessions
  <2> QED
    BY <1>5, <1>6, <2>1
<1>14. StopInv'
  <2>1. ~Client(s)'
    BY <1>5, <1>6, ConstantsAssumption DEF Client
  <2>2. \A x \in Socks : x # s => (Client(x)' <=> Client(x))
    BY <1>5 DEF Client
  <2> QED
    BY <1>1, <1>9, <2>1, <2>2 DEF IInv, StopInv
<1> QED
  BY <1>2, <1>7, <1>8, <1>9, <1>10, <1>11, <1>12, <1>13, <1>14, Frames DEF IInv

\* Nothing is changed that the invariant is about, but types.
LEMMA QuietKeeps ==
    ASSUME IInv, TypeOK', Pending' = Pending,
           UNCHANGED <<readyStop, session, uiSession, doomed, closing, link, open,
                       conns, lost, senderQ, senderOpen, sending, found,
                       mapSender, linking, born>>
    PROVE  IInv'
  BY Frames DEF IInv

LEMMA MonitorKeeps ==
    ASSUME IInv, NEW i \in Ids, Monitor(i)
    PROVE  IInv'
<1>1. /\ linkQ' = Append(linkQ, i)
      /\ UNCHANGED <<order, batch, loop, baseVars, workVars, uiID, sysVars,
                     sendVars, linking, pcStop, calls, born>>
  BY DEF Monitor
<1>2. linkQ' \in Seq(Ids)
  BY <1>1 DEF IInv, TypeOK
<1>3. TypeOK'
  BY <1>1, <1>2 DEF IInv, TypeOK, baseVars, workVars, sysVars, sendVars
<1> QED
  BY <1>1, <1>3, QuietKeeps DEF Pending, baseVars, workVars, sysVars, sendVars

LEMMA OrderReadKeeps ==
    ASSUME IInv, OrderRead
    PROVE  IInv'
<1>1. UNCHANGED <<loop, baseVars, workVars, uiID, sysVars, sendVars, linkVars,
                  pcStop, calls, born>>
  BY DEF OrderRead
<1>2. Pending' = Pending /\ order' \in Seq(OrderType) /\ batch' \in Seq(OrderType)
  BY PendingRead DEF IInv
<1>3. TypeOK'
  BY <1>1, <1>2 DEF IInv, TypeOK, baseVars, workVars, sysVars, sendVars, linkVars
<1> QED
  BY <1>1, <1>2, <1>3, QuietKeeps DEF baseVars, workVars, sysVars, sendVars, linkVars

LEMMA LoopEndKeeps ==
    ASSUME IInv, LoopEnd
    PROVE  IInv'
<1>1. /\ loop' = "done"
      /\ UNCHANGED <<order, batch, baseVars, workVars, uiID, sysVars, sendVars,
                     linkVars, pcStop, calls, born>>
  BY DEF LoopEnd
<1>2. TypeOK'
  BY <1>1 DEF IInv, TypeOK, baseVars, workVars, sysVars, sendVars, linkVars
<1> QED
  BY <1>1, <1>2, QuietKeeps DEF Pending, baseVars, workVars, sysVars, sendVars, linkVars

----------------------------------------------------------------------------
(* The orders                                                                 *)

\* The first of the orders to come is carried out and leaves them.
LEMMA ExecFacts ==
    ASSUME IInv, NEW cmd, Exec(cmd)
    PROVE  /\ doomed = {} /\ closing = NoSock
           /\ Head(batch) \in GoodOrder /\ Head(batch).cmd = cmd
           /\ batch' \in Seq(OrderType)
           /\ batch' \o order = Tail(Pending)
           /\ Pending \in Seq(GoodOrder) /\ Pending # <<>> /\ Head(batch) = Pending[1]
           /\ Tail(Pending) \in Seq(GoodOrder) /\ Distinct(Tail(Pending))
           /\ \A s \in Socks : CarriesIn(Tail(Pending), s)
                                 <=> Carries(s) /\ ~HandsOver(Head(batch), s)
           /\ \A s \in Socks : HandsOver(Head(batch), s) => Carries(s)
<1>1. /\ batch # <<>> /\ doomed = {} /\ closing = NoSock
      /\ Head(batch).cmd = cmd /\ batch' = Tail(batch)
  BY DEF Exec
<1>2. batch \in Seq(OrderType) /\ order \in Seq(OrderType)
  BY DEF IInv, TypeOK
<1>3. batch' \in Seq(OrderType)
  BY <1>1, <1>2, HeadTailProperties
<1>4. /\ Pending # <<>> /\ Head(batch) = Pending[1]
      /\ batch' \o order = Tail(Pending)
  BY <1>1, <1>2, ConcatTail DEF Pending
<1>5. Pending \in Seq(GoodOrder) /\ Distinct(Pending)
  BY DEF IInv, OrdersInv
<1>6. /\ Pending[1] \in GoodOrder
      /\ Tail(Pending) \in Seq(GoodOrder) /\ Distinct(Tail(Pending))
      /\ \A s \in Socks :
           CarriesIn(Tail(Pending), s) <=> CarriesIn(Pending, s) /\ ~HandsOver(Pending[1], s)
  BY <1>4, <1>5, DropFirst
<1>7. 1 \in DOMAIN Pending
  BY <1>4, <1>5, EmptySeq
<1> QED
  BY <1>1, <1>3, <1>4, <1>5, <1>6, <1>7 DEF Carries, CarriesIn

\* An order to close the clients is still to come, unless it is the first.
LEMMA StillCloses ==
    ASSUME NEW q \in Seq(GoodOrder), q # <<>>, ~ClosesClients(q[1]),
           NEW k \in DOMAIN q, ClosesClients(q[k])
    PROVE  \E j \in DOMAIN Tail(q) : ClosesClients(Tail(q)[j])
<1>1. /\ Len(q) \in Nat \ {0} /\ Len(Tail(q)) = Len(q) - 1
      /\ DOMAIN q = 1..Len(q) /\ DOMAIN Tail(q) = 1..(Len(q) - 1)
      /\ \A j \in 1..(Len(q) - 1) : Tail(q)[j] = q[j + 1]
  BY HeadTailProperties, EmptySeq
<1>2. k # 1
  OBVIOUS
<1>3. k - 1 \in DOMAIN Tail(q) /\ Tail(q)[k - 1] = q[k]
  BY <1>1, <1>2
<1> QED
  BY <1>3

\* An order that hands over no descriptor and leaves the sessions to others.
LEMMA ExecKeeps ==
    ASSUME IInv, NEW cmd, Exec(cmd), cmd # "ADDLINKEV", cmd # "CLOSEBYTYPE",
           UNCHANGED <<order, readyStop, session, uiSession, closing, lost,
                       senderQ, born>>,
           TypeOK', DoomInv', LinksKnowTheirSession'
    PROVE  IInv'
<1>1. /\ doomed = {} /\ closing = NoSock
      /\ Head(batch).cmd = cmd
      /\ batch' \o order = Tail(Pending)
      /\ Pending \in Seq(GoodOrder) /\ Pending # <<>> /\ Head(batch) = Pending[1]
      /\ Tail(Pending) \in Seq(GoodOrder) /\ Distinct(Tail(Pending))
      /\ \A s \in Socks : CarriesIn(Tail(Pending), s)
                            <=> Carries(s) /\ ~HandsOver(Head(batch), s)
  BY ExecFacts
<1>2. UNCHANGED <<uiID, conns, open, senderOpen, sending, found, mapSender,
                  written, linking, pcStop, calls>>
  BY DEF Exec
<1>3. Pending' = Tail(Pending)
  BY <1>1 DEF Pending
<1>4. OrdersInv'
  BY <1>1, <1>3 DEF OrdersInv
<1>5. \A s \in Socks : Carries(s)' <=> Carries(s)
  BY <1>1, <1>3 DEF Carries, HandsOver
<1>6. OwnInv'
  BY <1>2, <1>5 DEF IInv, OwnInv, HasSession, Linking
<1>7. StopInv'
  <2> SUFFICES ASSUME readyStop = "RAN"
               PROVE  \/ \E k \in DOMAIN Pending' : ClosesClients(Pending'[k])
                      \/ \A s \in Socks : ~Client(s)
    BY DEF StopInv, Client
  <2>1. CASE \E k \in DOMAIN Pending : ClosesClients(Pending[k])
    <3>1. ~ClosesClients(Pending[1])
      BY <1>1 DEF ClosesClients
    <3> QED
      BY <1>1, <1>3, <2>1, <3>1, StillCloses
  <2>2. CASE \A s \in Socks : Client(s) => s \in doomed \/ closing = s
    BY <1>1, <2>2, ConstantsAssumption
  <2> QED
    BY <2>1, <2>2 DEF IInv, StopInv
<1> QED
  BY <1>2, <1>4, <1>6, <1>7, Frames DEF IInv

LEMMA ExecStopKeeps ==
    ASSUME IInv, ExecStop
    PROVE  IInv'
<1>1. /\ Exec("STOP") /\ loop' = "break"
      /\ UNCHANGED <<order, readyStop, session, uiSession, doomed, closing,
                     listener, link, lost, senderQ, linkQ, born>>
  BY DEF ExecStop, baseVars, workVars
<1>2. batch' \in Seq(OrderType)
  BY <1>1, ExecFacts
<1>3. TypeOK'
  BY <1>1, <1>2 DEF IInv, TypeOK, Exec
<1> QED
  BY <1>1, <1>3, ExecKeeps, Frames

LEMMA ExecCloseSockKeeps ==
    ASSUME IInv, ExecCloseSock
    PROVE  IInv'
<1>1. /\ Exec("CLOSESOCK")
      /\ doomed' = IF session[Head(batch).sock].id = Head(batch).id
                   THEN {Head(batch).sock} ELSE {}
      /\ UNCHANGED <<order, loop, readyStop, session, uiSession, closing,
                     listener, link, lost, senderQ, linkQ, born>>
  BY DEF ExecCloseSock, workVars
<1>2. /\ batch' \in Seq(OrderType) /\ closing = NoSock
      /\ Head(batch).sock \in Socks /\ Head(batch).id # 0
  BY <1>1, ExecFacts DEF GoodOrder
<1>3. doomed' \subseteq Socks
  BY <1>1, <1>2
<1>4. TypeOK'
  BY <1>1, <1>2, <1>3 DEF IInv, TypeOK, Exec
<1>5. DoomInv'
  BY <1>1, <1>2 DEF DoomInv, HasSession
<1> QED
  BY <1>1, <1>4, <1>5, ExecKeeps, Frames

LEMMA ExecAddListenerKeeps ==
    ASSUME IInv, ExecAddListener
    PROVE  IInv'
<1>1. /\ Exec("ADDLISTENER")
      /\ \/ listener' = [listener EXCEPT ![Head(batch).id] = Head(batch).type]
         \/ UNCHANGED listener
      /\ UNCHANGED <<order, loop, readyStop, session, uiSession, doomed, closing,
                     link, lost, senderQ, linkQ, born>>
  BY DEF ExecAddListener, baseVars
<1>2. batch' \in Seq(OrderType) /\ Head(batch).type \in Types \cup {NoType}
  BY <1>1, ExecFacts DEF GoodOrder, OrderType
<1>3. listener' \in [Ids -> Types \cup {NoType}]
  BY <1>1, <1>2 DEF IInv, TypeOK
<1>4. TypeOK'
  BY <1>1, <1>2, <1>3 DEF IInv, TypeOK, Exec
<1> QED
  BY <1>1, <1>4, ExecKeeps, Frames

LEMMA ExecDelListenerKeeps ==
    ASSUME IInv, ExecDelListener
    PROVE  IInv'
<1>1. /\ Exec("DELLISTENER")
      /\ listener' = [listener EXCEPT ![Head(batch).id] = NoType]
      /\ UNCHANGED <<order, loop, readyStop, session, uiSession, doomed, closing,
                     link, lost, senderQ, linkQ, born>>
  BY DEF ExecDelListener, baseVars
<1>2. batch' \in Seq(OrderType)
  BY <1>1, ExecFacts
<1>3. listener' \in [Ids -> Types \cup {NoType}]
  BY <1>1 DEF IInv, TypeOK
<1>4. TypeOK'
  BY <1>1, <1>2, <1>3 DEF IInv, TypeOK, Exec
<1> QED
  BY <1>1, <1>4, ExecKeeps, Frames

\* A link that gets no descriptor disturbs no other.
LEMMA LinkWithoutSock ==
    ASSUME LinksKnowTheirSession,
           \A j \in Ids : link'[j] = link[j] \/ link'[j].sock = NoSock,
           UNCHANGED <<session, closing>>
    PROVE  LinksKnowTheirSession'
<1> SUFFICES ASSUME NEW j \in Ids, link'[j].sock # NoSock
             PROVE  /\ session[link'[j].sock].id # 0 /\ closing # link'[j].sock
                    /\ session[link'[j].sock].bLinker
                    /\ session[link'[j].sock].type = link'[j].type
                    /\ \A k \in Ids \ {j} : link'[k].sock # link'[j].sock
  BY DEF LinksKnowTheirSession
<1>1. link'[j] = link[j]
  OBVIOUS
<1>2. /\ session[link[j].sock].id # 0 /\ closing # link[j].sock
      /\ session[link[j].sock].bLinker
      /\ session[link[j].sock].type = link[j].type
      /\ \A k \in Ids \ {j} : link[k].sock # link[j].sock
  BY <1>1 DEF LinksKnowTheirSession
<1>3. \A k \in Ids \ {j} : link'[k].sock # link'[j].sock
  BY <1>1, <1>2
<1> QED
  BY <1>1, <1>2, <1>3

LEMMA ExecAddLinkKeeps ==
    ASSUME IInv, ExecAddLink
    PROVE  IInv'
<1>1. /\ Exec("ADDLINK")
      /\ link' = [link EXCEPT ![Head(batch).id] =
                    [type |-> Head(batch).type, sock |-> NoSock]]
      /\ linkQ' = Append(linkQ, Head(batch).id)
      /\ UNCHANGED <<order, loop, readyStop, session, uiSession, doomed, closing,
                     listener, lost, senderQ, born>>
  BY DEF ExecAddLink, baseVars
<1>2. /\ batch' \in Seq(OrderType) /\ Head(batch).type \in Types \cup {NoType}
      /\ Head(batch).id \in Ids
  BY <1>1, ExecFacts DEF GoodOrder, OrderType
<1>3. link \in [Ids -> [type : Types \cup {NoType}, sock : Socks \cup {NoSock}]]
  BY DEF IInv, TypeOK
<1>4. /\ link' \in [Ids -> [type : Types \cup {NoType}, sock : Socks \cup {NoSock}]]
      /\ \A j \in Ids : link'[j] = link[j] \/ link'[j].sock = NoSock
  BY <1>1, <1>2, <1>3
<1>5. linkQ' \in Seq(Ids)
  BY <1>1, <1>2 DEF IInv, TypeOK
<1>6. TypeOK'
  BY <1>1, <1>2, <1>4, <1>5 DEF IInv, TypeOK, Exec
<1>7. LinksKnowTheirSession'
  BY <1>1, <1>4, LinkWithoutSock DEF IInv
<1> QED
  BY <1>1, <1>6, <1>7, ExecKeeps, Frames

LEMMA ExecDelLinkKeeps ==
    ASSUME IInv, ExecDelLink
    PROVE  IInv'
<1>1. /\ Exec("DELLINK")
      /\ doomed' = {s \in Socks : s = link[Head(batch).id].sock /\ session[s].id # 0}
      /\ link' = [link EXCEPT ![Head(batch).id] = NoLink]
      /\ UNCHANGED <<order, loop, readyStop, session, uiSession, closing,
                     listener, lost, senderQ, linkQ, born>>
  BY DEF ExecDelLink
<1>2. batch' \in Seq(OrderType) /\ closing = NoSock
  BY <1>1, ExecFacts
<1>3. link \in [Ids -> [type : Types \cup {NoType}, sock : Socks \cup {NoSock}]]
  BY DEF IInv, TypeOK
<1>4. /\ link' \in [Ids -> [type : Types \cup {NoType}, sock : Socks \cup {NoSock}]]
      /\ \A j \in Ids : link'[j] = link[j] \/ link'[j].sock = NoSock
  BY <1>1, <1>3 DEF NoLink
<1>5. doomed' \subseteq Socks
  BY <1>1
<1>6. TypeOK'
  BY <1>1, <1>2, <1>4, <1>5 DEF IInv, TypeOK, Exec
<1>7. LinksKnowTheirSession'
  BY <1>1, <1>4, LinkWithoutSock DEF IInv
<1>8. DoomInv'
  BY <1>1, <1>2 DEF DoomInv, HasSession
<1> QED
  BY <1>1, <1>6, <1>7, <1>8, ExecKeeps

\* The sessions of a type are closed: when it is the clients', all of them are.
LEMMA ExecCloseByTypeKeeps ==
    ASSUME IInv, ExecCloseByType
    PROVE  IInv'
<1> DEFINE o == Head(batch)
<1>1. /\ Exec("CLOSEBYTYPE")
      /\ doomed' = {s \in Socks : session[s].id # 0 /\ session[s].type = o.type}
      /\ UNCHANGED <<order, loop, readyStop, session, uiSession, closing,
                     listener, link, lost, senderQ, linkQ, born>>
  BY DEF ExecCloseByType, workVars
<1>2. /\ doomed = {} /\ closing = NoSock
      /\ o.cmd = "CLOSEBYTYPE" /\ batch' \in Seq(OrderType)
      /\ batch' \o order = Tail(Pending)
      /\ Pending \in Seq(GoodOrder) /\ Pending # <<>> /\ o = Pending[1]
      /\ Tail(Pending) \in Seq(GoodOrder) /\ Distinct(Tail(Pending))
      /\ \A s \in Socks : CarriesIn(Tail(Pending), s) <=> Carries(s) /\ ~HandsOver(o, s)
  BY <1>1, ExecFacts
<1>3. UNCHANGED <<uiID, conns, open, senderOpen, sending, found, mapSender,
                  written, linking, pcStop, calls>>
  BY <1>1 DEF Exec
<1> HIDE DEF o
<1>4. Pending' = Tail(Pending)
  BY <1>1, <1>2 DEF Pending
<1>5. OrdersInv'
  BY <1>2, <1>4 DEF OrdersInv
<1>6. \A s \in Socks : Carries(s)' <=> Carries(s)
  BY <1>2, <1>4 DEF Carries, HandsOver
<1>7. OwnInv'
  BY <1>1, <1>3, <1>6 DEF IInv, OwnInv, HasSession, Linking
<1>8. TypeOK'
  <2>1. doomed' \subseteq Socks
    BY <1>1
  <2> QED
    BY <1>1, <1>2, <1>3, <2>1 DEF IInv, TypeOK
<1>9. DoomInv'
  BY <1>1, <1>2 DEF DoomInv, HasSession
<1>10. StopInv'
  <2> SUFFICES ASSUME readyStop = "RAN"
               PROVE  \/ \E k \in DOMAIN Pending' : ClosesClients(Pending'[k])
                      \/ \A s \in Socks : Client(s) => s \in doomed'
    BY <1>1 DEF StopInv, Client
  <2>1. CASE ClosesClients(o)
    <3>1. \A s \in Socks : session[s].type = StopType => session[s].id # 0
      BY ConstantsAssumption DEF IInv, ConnInv, NoSession
    <3> QED
      BY <1>1, <2>1, <3>1 DEF ClosesClients, Client
  <2>2. CASE ~ClosesClients(o) /\ \E k \in DOMAIN Pending : ClosesClients(Pending[k])
    BY <1>2, <1>4, <2>2, StillCloses
  <2>3. CASE \A s \in Socks : Client(s) => s \in doomed \/ closing = s
    BY <1>2, <2>3, ConstantsAssumption
  <2> QED
    BY <2>1, <2>2, <2>3 DEF IInv, StopInv
<1> QED
  BY <1>1, <1>3, <1>5, <1>7, <1>8, <1>9, <1>10, Frames DEF IInv

\* The scripts' onStop runs: the order to close the clients is on its way.
LEMMA ExecRStopKeeps ==
    ASSUME IInv, ExecRStop
    PROVE  IInv'
<1> DEFINE a == Order("CLOSEBYTYPE", 0, NoSock, StopType)
           b == Order("DELLISTENER", 1, NoSock, NoType)
<1>1. /\ Exec("RSTOP")
      /\ UNCHANGED <<loop, session, uiSession, doomed, closing, listener, link,
                     lost, senderQ, linkQ, born>>
  BY DEF ExecRStop, workVars
<1>2. UNCHANGED <<uiID, conns, open, senderOpen, sending, found, mapSender,
                  written, linking, pcStop, calls>>
  BY <1>1 DEF Exec
<1>3. /\ batch' \in Seq(OrderType) /\ Head(batch).cmd = "RSTOP"
      /\ batch' \o order = Tail(Pending)
      /\ Tail(Pending) \in Seq(GoodOrder) /\ Distinct(Tail(Pending))
      /\ \A s \in Socks : CarriesIn(Tail(Pending), s)
                            <=> Carries(s) /\ ~HandsOver(Head(batch), s)
  BY <1>1, ExecFacts
<1>4. CASE readyStop = "NONE"
  <2>1. order' = order \o <<a, b>> /\ readyStop' = "RAN"
    BY <1>4 DEF ExecRStop
  <2>2. /\ a \in GoodOrder /\ b \in GoodOrder /\ a \in OrderType /\ b \in OrderType
        /\ ClosesClients(a) /\ a.cmd # "ADDLINKEV" /\ b.cmd # "ADDLINKEV"
    BY ConstantsAssumption DEF Order, GoodOrder, OrderType, Commands, ClosesClients
  <2> HIDE DEF a, b
  <2> DEFINE p == Append(Tail(Pending), a)
             q == Append(p, b)
  <2>3. order \in Seq(OrderType)
    BY DEF IInv, TypeOK
  <2>4. order' = Append(Append(order, a), b) /\ order' \in Seq(OrderType)
    <3>1. <<a>> \in Seq(OrderType) /\ <<a, b>> = Append(<<a>>, b)
      BY <2>2
    <3>2. order \o <<a, b>> = Append(order \o <<a>>, b)
      BY <2>2, <2>3, <3>1, ConcatAppend
    <3>3. order \o <<a>> = Append(order, a)
      BY <2>2, <2>3, AppendIsConcat
    <3> QED
      BY <2>1, <2>2, <2>3, <3>2, <3>3, AppendProperties
  <2>5. Pending' = q
    <3>1. Append(order, a) \in Seq(OrderType)
      BY <2>2, <2>3, AppendProperties
    <3>2. batch' \o Append(order, a) = p
      BY <1>3, <2>2, <2>3, ConcatAppend
    <3>3. batch' \o order' = Append(batch' \o Append(order, a), b)
      BY <1>3, <2>2, <2>4, <3>1, ConcatAppend
    <3> QED
      BY <3>2, <3>3 DEF Pending
  <2>6. /\ p \in Seq(GoodOrder) /\ Distinct(p)
        /\ \A s \in Socks : CarriesIn(p, s) <=> CarriesIn(Tail(Pending), s)
        /\ \E k \in DOMAIN p : ClosesClients(p[k])
    <3>1. \A s \in Socks : ~HandsOver(a, s)
      BY <2>2 DEF HandsOver
    <3> DEFINE r == Tail(Pending)
    <3>2. r \in Seq(GoodOrder) /\ Distinct(r) /\ a \in GoodOrder
      BY <1>3, <2>2
    <3> HIDE DEF r
    <3>3. /\ Append(r, a) \in Seq(GoodOrder)
          /\ Distinct(Append(r, a))
          /\ \A s \in Socks :
               CarriesIn(Append(r, a), s) <=> CarriesIn(r, s) \/ HandsOver(a, s)
          /\ Len(r) + 1 \in DOMAIN Append(r, a) /\ Append(r, a)[Len(r) + 1] = a
      BY <3>1, <3>2, AddLast
    <3>4. \E k \in DOMAIN Append(r, a) : ClosesClients(Append(r, a)[k])
      BY <2>2, <3>3
    <3> QED
      BY <3>1, <3>3, <3>4 DEF r
  <2> HIDE DEF p
  <2>7. /\ q \in Seq(GoodOrder) /\ Distinct(q)
        /\ \A s \in Socks : CarriesIn(q, s) <=> CarriesIn(p, s)
        /\ \A k \in DOMAIN p : k \in DOMAIN q /\ q[k] = p[k]
    <3>1. \A s \in Socks : ~HandsOver(b, s)
      BY <2>2 DEF HandsOver
    <3> QED
      BY <2>2, <2>6, <3>1, AddLast
  <2> HIDE DEF q
  <2>8. OrdersInv'
    BY <2>5, <2>7 DEF OrdersInv
  <2>9. \A s \in Socks : Carries(s)' <=> Carries(s)
    BY <1>3, <2>5, <2>6, <2>7 DEF Carries, HandsOver
  <2>10. OwnInv'
    BY <1>1, <1>2, <2>9 DEF IInv, OwnInv, HasSession, Linking
  <2>11. StopInv'
    BY <2>5, <2>6, <2>7 DEF StopInv
  <2>12. TypeOK'
    BY <1>1, <1>2, <1>3, <2>1, <2>4 DEF IInv, TypeOK
  <2> QED
    BY <1>1, <1>2, <2>8, <2>10, <2>11, <2>12, Frames DEF IInv
<1>5. CASE readyStop # "NONE"
  <2>1. UNCHANGED <<order, readyStop>>
    BY <1>5 DEF ExecRStop
  <2>2. TypeOK'
    BY <1>1, <1>2, <1>3, <2>1 DEF IInv, TypeOK
  <2> QED
    BY <1>1, <2>1, <2>2, ExecKeeps, Frames
<1> QED
  BY <1>4, <1>5

\* The linker's descriptor arrives: it gets a session, or is forgotten.
LEMMA ExecAddLinkEvKeeps ==
    ASSUME IInv, ExecAddLinkEv
    PROVE  IInv'
<1>1. /\ Exec("ADDLINKEV")
      /\ UNCHANGED <<order, loop, readyStop, doomed, closing, listener, linkQ>>
  BY DEF ExecAddLinkEv
<1>2. UNCHANGED <<uiID, conns, open, senderOpen, sending, found, mapSender,
                  written, linking, pcStop, calls>>
  BY <1>1 DEF Exec
<1>3. /\ doomed = {} /\ closing = NoSock
      /\ Head(batch) \in GoodOrder /\ Head(batch).cmd = "ADDLINKEV"
      /\ batch' \in Seq(OrderType)
      /\ batch' \o order = Tail(Pending)
      /\ Pending \in Seq(GoodOrder) /\ Pending # <<>> /\ Head(batch) = Pending[1]
      /\ Tail(Pending) \in Seq(GoodOrder) /\ Distinct(Tail(Pending))
      /\ \A x \in Socks : CarriesIn(Tail(Pending), x)
                            <=> Carries(x) /\ ~HandsOver(Head(batch), x)
      /\ \A x \in Socks : HandsOver(Head(batch), x) => Carries(x)
  BY <1>1, ExecFacts
<1>4. Head(batch).sock \in Socks /\ Head(batch).id \in Ids
  BY <1>3 DEF GoodOrder
<1> PICK s \in Socks, i \in Ids : s = Head(batch).sock /\ i = Head(batch).id
  BY <1>4
<1>5. \A x \in Socks : HandsOver(Head(batch), x) <=> x = s
  BY <1>3 DEF HandsOver
<1>6. Pending' = Tail(Pending)
  BY <1>1, <1>3 DEF Pending
<1>7. ~Carries(s)' /\ \A x \in Socks : x # s => (Carries(x)' <=> Carries(x))
  BY <1>3, <1>5, <1>6 DEF Carries
<1>8. Carries(s) /\ ~HasSession(s) /\ ~Linking(s) /\ s \notin lost /\ open[s] # 0
  BY <1>3, <1>5 DEF IInv, OwnInv
<1>9. \A x : Linking(x)' <=> Linking(x)
  BY <1>2 DEF Linking
<1>10. OrdersInv'
  BY <1>3, <1>6 DEF OrdersInv
<1>11. DoomInv'
  BY <1>1, <1>3 DEF DoomInv
<1>12. (\E k \in DOMAIN Pending : ClosesClients(Pending[k]))
          => \E k \in DOMAIN Pending' : ClosesClients(Pending'[k])
  <2>1. ~ClosesClients(Pending[1])
    BY <1>3 DEF ClosesClients
  <2> QED
    BY <1>3, <1>6, <2>1, StillCloses
<1>13. readyStop = "RAN" /\ (\A k \in DOMAIN Pending' : ~ClosesClients(Pending'[k]))
          => \A x \in Socks : ~Client(x)
  BY <1>3, <1>12, ConstantsAssumption DEF IInv, StopInv
<1>14. link \in [Ids -> [type : Types \cup {NoType}, sock : Socks \cup {NoSock}]]
  BY DEF IInv, TypeOK
<1>15. CASE link[i].type # NoType
  <2>1. /\ link' = [link EXCEPT ![i].sock = s]
        /\ addTcpEv(s, link[i].type, TRUE)
        /\ born' = [born EXCEPT ![uiSession'] = [sock |-> s, conn |-> open[s]]]
        /\ lost' = lost
    BY <1>15 DEF ExecAddLinkEv
  <2>2. link[i].type \in Types
    BY <1>14, <1>15
  <2> PICK t \in Types : t = link[i].type
    BY <2>2
  <2>3. /\ uiSession' = uiSession + 1
        /\ session' = [session EXCEPT ![s] =
                         [id |-> uiSession', type |-> t, bLinker |-> TRUE]]
        /\ session' \in [Socks -> [id : Nat, type : Types \cup {NoType}, bLinker : BOOLEAN]]
        /\ session'[s] = [id |-> uiSession', type |-> t, bLinker |-> TRUE]
        /\ \A x \in Socks : x # s => session'[x] = session[x]
        /\ HasSession(s)' /\ \A x \in Socks : x # s => (HasSession(x)' <=> HasSession(x))
        /\ senderQ' \in Seq(SenderType)
        /\ QueueInv' /\ LateInv' /\ SenderFollowsSessions'
    BY <1>1, <1>2, <1>3, <1>8, <2>1, SessionAdded
  <2>4. /\ conns \in Nat /\ MaxConn \in Nat /\ conns <= MaxConn
        /\ uiSession \in Nat /\ uiSession <= conns
    BY ConstantsAssumption DEF IInv, TypeOK
  <2>5. open[s] \in 1..conns
    BY <1>8, <2>4 DEF IInv, TypeOK, ConnInv
  <2>6. \A n \in 1..uiSession : born[n].conn # open[s]
    BY <1>8 DEF IInv, ConnInv, HasSession
  <2>7. uiSession < conns
    BY <2>5, <2>6, MoreConnections DEF IInv
  <2>8. uiSession' \in 0..conns /\ uiSession' <= MaxConn /\ open[s] \in Nat
    BY <2>3, <2>4, <2>5, <2>7
  <2>9. TypeOK'
    <3>1. link' \in [Ids -> [type : Types \cup {NoType}, sock : Socks \cup {NoSock}]]
      BY <1>14, <2>1
    <3>2. born' \in [1..MaxConn -> [sock : Socks \cup {NoSock}, conn : Nat]]
      BY <2>1, <2>8 DEF IInv, TypeOK
    <3>3. uiSession' \in 0..conns'
      BY <1>2, <2>8
    <3> QED
      BY <1>1, <1>2, <1>3, <2>1, <2>3, <3>1, <3>2, <3>3 DEF IInv, TypeOK
  <2>10. ConnInv'
    <3>1. \A x \in Socks : x # s => open[x] # open[s]
      BY <1>8 DEF IInv, ConnInv
    <3>2. open' = [open EXCEPT ![s] = open[s]]
      BY <1>2 DEF IInv, TypeOK
    <3>3. conns' \in {conns, conns + 1} /\ open[s] \in 1..conns'
      BY <1>2, <2>5
    <3>4. born' = [born EXCEPT ![uiSession'] = [sock |-> s, conn |-> open[s]]]
      BY <2>1
    <3>5. /\ uiSession' = uiSession + 1 /\ uiSession' <= MaxConn
          /\ session' = [session EXCEPT ![s] =
                           [id |-> uiSession', type |-> t, bLinker |-> TRUE]]
      BY <2>3, <2>8
    <3>6. TypeOK /\ ConnInv /\ TRUE \in BOOLEAN
      BY DEF IInv
    <3> QED
      BY <2>6, <3>1, <3>2, <3>3, <3>4, <3>5, <3>6, ConnNew
  <2>11. OwnInv'
    BY <1>2, <1>7, <1>8, <1>9, <2>1, <2>3 DEF IInv, OwnInv
  <2>12. LinksKnowTheirSession'
    <3>1. /\ link'[i].sock = s /\ link'[i].type = link[i].type
          /\ \A j \in Ids : j # i => link'[j] = link[j]
      BY <1>14, <2>1
    <3>2. \A j \in Ids : link[j].sock # s
      BY <1>8, ConstantsAssumption DEF IInv, LinksKnowTheirSession, HasSession
    <3> SUFFICES ASSUME NEW j \in Ids, link'[j].sock # NoSock
                 PROVE  /\ session'[link'[j].sock].id # 0
                        /\ session'[link'[j].sock].bLinker
                        /\ session'[link'[j].sock].type = link'[j].type
                        /\ \A k \in Ids \ {j} : link'[k].sock # link'[j].sock
      BY <1>1, <1>3 DEF LinksKnowTheirSession
    <3>3. CASE j = i
      <4>1. uiSession' # 0
        BY <2>3, <2>4
      <4> QED
        BY <2>3, <3>1, <3>2, <3>3, <4>1
    <3>4. CASE j # i
      <4>1. link'[j] = link[j] /\ link[j].sock # s /\ link[j].sock \in Socks
        BY <1>14, <3>1, <3>2, <3>4
      <4>2. session'[link[j].sock] = session[link[j].sock]
        BY <2>3, <4>1
      <4>3. /\ session[link[j].sock].id # 0
            /\ session[link[j].sock].bLinker
            /\ session[link[j].sock].type = link[j].type
            /\ \A k \in Ids \ {j} : link[k].sock # link[j].sock
        BY <4>1, ConstantsAssumption DEF IInv, LinksKnowTheirSession
      <4>4. \A k \in Ids \ {j} : link'[k].sock # link'[j].sock
        BY <3>1, <4>1, <4>3
      <4> QED
        BY <4>1, <4>2, <4>3, <4>4
    <3> QED
      BY <3>3, <3>4
  <2>13. StopInv'
    <3>1. ~Client(s)' /\ \A x \in Socks : x # s => (Client(x)' <=> Client(x))
      BY <2>3 DEF Client
    <3> QED
      BY <1>1, <1>13, <3>1 DEF StopInv
  <2>14. LinkerInv'
    BY <1>2, Frames
  <2> QED
    BY <1>10, <1>11, <2>3, <2>9, <2>10, <2>11, <2>12, <2>13, <2>14 DEF IInv
<1>16. CASE link[i].type = NoType
  <2>1. lost' = lost \cup {s} /\ UNCHANGED <<link, uiSession, session, senderQ, born>>
    BY <1>16 DEF ExecAddLinkEv
  <2>2. TypeOK'
    <3>1. lost' \subseteq Socks
      BY <2>1 DEF IInv, TypeOK
    <3> QED
      BY <1>1, <1>2, <1>3, <2>1, <3>1 DEF IInv, TypeOK
  <2>3. OwnInv'
    <3>1. \A x : HasSession(x)' <=> HasSession(x)
      BY <2>1 DEF HasSession
    <3> QED
      BY <1>2, <1>7, <1>8, <1>9, <2>1, <3>1 DEF IInv, OwnInv
  <2>4. StopInv'
    <3>1. \A x : Client(x)' <=> Client(x)
      BY <2>1 DEF Client
    <3> QED
      BY <1>1, <1>13, <3>1 DEF StopInv
  <2> QED
    BY <1>1, <1>2, <1>10, <2>1, <2>2, <2>3, <2>4, Frames DEF IInv
<1> QED
  BY <1>15, <1>16

----------------------------------------------------------------------------
(* The sender                                                                 *)

\* The first message leaves the queue.
LEMMA FirstMessage ==
    ASSUME TypeOK, senderQ # <<>>
    PROVE  /\ Head(senderQ) \in SenderType /\ Head(senderQ) = senderQ[1]
           /\ Tail(senderQ) \in Seq(SenderType)
           /\ Len(senderQ) \in Nat \ {0} /\ 1 \in DOMAIN senderQ
           /\ Len(Tail(senderQ)) = Len(senderQ) - 1
           /\ DOMAIN Tail(senderQ) = 1..(Len(senderQ) - 1)
           /\ DOMAIN senderQ = 1..Len(senderQ)
           /\ \A k \in 1..(Len(senderQ) - 1) : Tail(senderQ)[k] = senderQ[k + 1]
<1>1. senderQ \in Seq(SenderType)
  BY DEF TypeOK
<1>2. Len(senderQ) \in Nat \ {0} /\ DOMAIN senderQ = 1..Len(senderQ)
  BY <1>1, EmptySeq, LenProperties
<1>3. senderQ[1] \in SenderType /\ 1 \in DOMAIN senderQ
  BY <1>1, <1>2, ElementOfSeq
<1>4. /\ Tail(senderQ) \in Seq(SenderType) /\ Head(senderQ) = senderQ[1]
      /\ Len(Tail(senderQ)) = Len(senderQ) - 1
      /\ \A k \in 1..(Len(senderQ) - 1) : Tail(senderQ)[k] = senderQ[k + 1]
  BY <1>1, HeadTailProperties
<1>5. DOMAIN Tail(senderQ) = 1..(Len(senderQ) - 1)
  BY <1>4, LenProperties
<1> QED
  BY <1>2, <1>3, <1>4, <1>5

LEMMA SenderTakeKeeps ==
    ASSUME IInv, SenderTake
    PROVE  IInv'
<1> DEFINE c == Head(senderQ)
<1>1. /\ sending = <<>> /\ senderQ # <<>> /\ senderQ' = Tail(senderQ)
      /\ sending' = c.to
      /\ mapSender' = IF c.cmd = "SendTo" THEN mapSender
                      ELSE [mapSender EXCEPT ![c.sock] = c.id]
      /\ UNCHANGED <<found, written, order, batch, loop, readyStop, session,
                     uiSession, doomed, closing, listener, link, uiID, open,
                     conns, lost, senderOpen, linkQ, linking, pcStop, calls, born>>
  BY DEF SenderTake, senderFrame, baseVars, workVars, sysVars, linkVars
<1>2. /\ c \in SenderType /\ c = senderQ[1]
      /\ senderQ' \in Seq(SenderType)
      /\ Len(senderQ) \in Nat \ {0} /\ 1 \in DOMAIN senderQ
      /\ Len(senderQ') = Len(senderQ) - 1
      /\ DOMAIN senderQ' = 1..(Len(senderQ) - 1)
      /\ DOMAIN senderQ = 1..Len(senderQ)
      /\ \A k \in 1..(Len(senderQ) - 1) : senderQ'[k] = senderQ[k + 1]
  BY <1>1, FirstMessage DEF IInv
<1>3. /\ c.cmd = "SendTo" => c.sock = NoSock
      /\ c.cmd # "SendTo" => c.sock # NoSock /\ c.to = <<>>
  BY <1>2 DEF IInv, QueueInv
<1>4. c.id \in Nat /\ c.to \in Seq(TargetType)
  BY <1>2 DEF SenderType
<1> HIDE DEF c
<1>5. mapSender \in [Socks -> Nat] /\ ~found
  BY <1>1 DEF IInv, TypeOK
<1>6. /\ mapSender' \in [Socks -> Nat]
      /\ \A s \in Socks : mapSender'[s] = IF senderQ[1].sock = s THEN senderQ[1].id
                                          ELSE mapSender[s]
  BY <1>1, <1>2, <1>3, <1>4, <1>5, ConstantsAssumption
<1>7. senderQ \in Seq(SenderType)
  BY DEF IInv, TypeOK
<1>8. ASSUME NEW k \in 1..Len(senderQ), NEW s \in Socks, NEW n
      PROVE  BelievesIn(senderQ', mapSender', k, s, n) <=> Believes(k + 1, s, n)
  <2>1. BelievesIn(Tail(senderQ), mapSender', k, s, n)
          <=> BelievesIn(senderQ, mapSender, k + 1, s, n)
    BY <1>1, <1>6, <1>7, BelievesTaken
  <2> QED
    BY <1>1, <2>1, BelievesIs
<1>9. TypeOK'
  BY <1>1, <1>2, <1>4, <1>5, <1>6 DEF IInv, TypeOK
<1>10. QueueInv'
  <2> SUFFICES ASSUME NEW k \in DOMAIN senderQ'
               PROVE  IF senderQ'[k].cmd = "SendTo" THEN senderQ'[k].sock = NoSock
                      ELSE senderQ'[k].sock # NoSock /\ senderQ'[k].to = <<>>
    BY DEF QueueInv
  <2>1. k + 1 \in DOMAIN senderQ /\ senderQ'[k] = senderQ[k + 1]
    BY <1>2
  <2> QED
    BY <2>1 DEF IInv, QueueInv
<1>11. SenderFollowsSessions'
  <2> SUFFICES ASSUME senderOpen, NEW x \in Socks
               PROVE  BelievesIn(senderQ', mapSender', Len(senderQ') + 1, x,
                                 IF closing = x THEN 0 ELSE session[x].id)
    BY <1>1 DEF SenderFollowsSessions, Believes, BelievesIn, Told
  <2> DEFINE n == IF closing = x THEN 0 ELSE session[x].id
  <2>1. Believes(Len(senderQ) + 1, x, n)
    BY DEF IInv, SenderFollowsSessions
  <2>2. Len(senderQ) \in 1..Len(senderQ) /\ Len(senderQ') + 1 = Len(senderQ)
    BY <1>2
  <2> HIDE DEF n
  <2>3. BelievesIn(senderQ', mapSender', Len(senderQ), x, n)
    BY <1>8, <2>1, <2>2
  <2> QED
    BY <2>2, <2>3 DEF n
<1>12. LateInv'
  <2> SUFFICES ASSUME senderOpen PROVE LateInv'
    BY <1>1 DEF LateInv
  <2>1. ASSUME NEW k \in DOMAIN senderQ', NEW i \in DOMAIN senderQ'[k].to,
               ~senderQ'[k].to[i].live
        PROVE  ~BelievesIn(senderQ', mapSender', k, senderQ'[k].to[i].sock,
                           senderQ'[k].to[i].id)
    <3> DEFINE d == senderQ'[k].to[i]
    <3>1. k \in 1..Len(senderQ) /\ k + 1 \in DOMAIN senderQ /\ senderQ'[k] = senderQ[k + 1]
      BY <1>2
    <3>2. ~Believes(k + 1, d.sock, d.id)
      BY <2>1, <3>1 DEF IInv, LateInv
    <3>3. senderQ'[k].to \in Seq(TargetType)
      <4>1. senderQ[k + 1] \in SenderType
        BY <1>7, <3>1, <1>2, ElementOfSeq
      <4> QED
        BY <3>1, <4>1 DEF SenderType
    <3>4. d \in TargetType
      BY <2>1, <3>3, ElementOfSeq, LenProperties
    <3>5. d.sock \in Socks
      BY <3>4 DEF TargetType
    <3> HIDE DEF d
    <3>6. ~BelievesIn(senderQ', mapSender', k, d.sock, d.id)
      BY <1>8, <3>1, <3>2, <3>5
    <3> QED
      BY <3>6 DEF d
  <2>2. ASSUME NEW i \in DOMAIN sending', ~sending'[i].live
        PROVE  mapSender'[sending'[i].sock] # sending'[i].id
    <3>1. c.to # <<>> /\ sending' = c.to
      BY <1>1, <2>2
    <3>2. mapSender' = mapSender
      BY <1>1, <1>3, <3>1
    <3>3. ~Believes(1, c.to[i].sock, c.to[i].id)
      BY <1>2, <2>2, <3>1 DEF IInv, LateInv
    <3>4. \A s : {j \in DOMAIN senderQ : j < 1 /\ senderQ[j].sock = s} = {}
      BY <1>2
    <3> QED
      BY <3>1, <3>2, <3>3, <3>4 DEF Believes
  <2>3. ~found'
    BY <1>1, <1>5
  <2> QED
    BY <2>1, <2>2, <2>3, BelievesIsNext DEF LateInv
<1>13. Pending' = Pending
  BY <1>1 DEF Pending
<1> QED
  BY <1>1, <1>9, <1>10, <1>11, <1>12, <1>13, Frames DEF IInv

\* The targets that are left when the first has been dealt with.
LEMMA FirstTarget ==
    ASSUME TypeOK, sending # <<>>
    PROVE  /\ Head(sending) = sending[1] /\ 1 \in DOMAIN sending
           /\ Head(sending).sock \in Socks /\ Head(sending).id \in Nat \ {0}
           /\ Tail(sending) \in Seq(TargetType)
           /\ \A i \in DOMAIN Tail(sending) :
                i + 1 \in DOMAIN sending /\ Tail(sending)[i] = sending[i + 1]
<1>1. sending \in Seq(TargetType)
  BY DEF TypeOK
<1>2. Len(sending) \in Nat \ {0} /\ DOMAIN sending = 1..Len(sending)
  BY <1>1, EmptySeq, LenProperties
<1>3. sending[1] \in TargetType /\ 1 \in DOMAIN sending
  BY <1>1, <1>2, ElementOfSeq
<1>4. /\ Tail(sending) \in Seq(TargetType) /\ Head(sending) = sending[1]
      /\ Len(Tail(sending)) = Len(sending) - 1
      /\ \A i \in 1..(Len(sending) - 1) : Tail(sending)[i] = sending[i + 1]
  BY <1>1, HeadTailProperties
<1>5. DOMAIN Tail(sending) = 1..(Len(sending) - 1)
  BY <1>4, LenProperties
<1>6. sending[1].sock \in Socks /\ sending[1].id \in Nat \ {0}
  BY <1>3 DEF TargetType
<1> QED
  BY <1>2, <1>3, <1>4, <1>5, <1>6

\* One more target found, or one less left.
LEMMA TargetsKeep ==
    ASSUME IInv, sending # <<>>,
           \/ /\ sending' = sending
              /\ senderOpen /\ found'
                   => mapSender[Head(sending).sock] = Head(sending).id
           \/ sending' = Tail(sending) /\ found' = FALSE,
           UNCHANGED <<readyStop, session, uiSession, doomed, closing, link, open,
                       conns, lost, senderQ, senderOpen, mapSender, linking, born,
                       order, batch>>,
           TypeOK'
    PROVE  IInv'
<1>1. LateInv'
  <2> SUFFICES ASSUME senderOpen PROVE LateInv'
    BY DEF LateInv
  <2>1. \A k \in DOMAIN senderQ : \A i \in DOMAIN senderQ[k].to :
          LET d == senderQ[k].to[i]
          IN  ~d.live => ~Believes(k, d.sock, d.id)'
    BY DEF IInv, LateInv, Believes
  <2>2. \A i \in DOMAIN sending' :
          ~sending'[i].live => mapSender'[sending'[i].sock] # sending'[i].id
    BY FirstTarget DEF IInv, LateInv
  <2>3. found' => mapSender'[Head(sending').sock] = Head(sending').id
    OBVIOUS
  <2> QED
    BY <2>1, <2>2, <2>3 DEF LateInv
<1>2. Pending' = Pending
  BY DEF Pending
<1> QED
  BY <1>1, <1>2, Frames DEF IInv

LEMMA SenderFindKeeps ==
    ASSUME IInv, SenderFind
    PROVE  IInv'
<1>1. /\ sending # <<>> /\ ~found
      /\ IF mapSender[Head(sending).sock] = Head(sending).id
         THEN found' = TRUE /\ UNCHANGED sending
         ELSE sending' = Tail(sending) /\ UNCHANGED found
      /\ UNCHANGED <<senderQ, mapSender, written, order, batch, loop, readyStop,
                     session, uiSession, doomed, closing, listener, link, uiID,
                     open, conns, lost, senderOpen, linkQ, linking, pcStop,
                     calls, born>>
  BY DEF SenderFind, senderFrame, baseVars, workVars, sysVars, linkVars
<1>2. Tail(sending) \in Seq(TargetType)
  BY <1>1, FirstTarget DEF IInv
<1>3. found = FALSE
  BY <1>1 DEF IInv, TypeOK
<1>4. \/ /\ sending' = sending /\ found' = TRUE
         /\ mapSender[Head(sending).sock] = Head(sending).id
      \/ sending' = Tail(sending) /\ found' = FALSE
  BY <1>1, <1>3
<1>5. TypeOK'
  BY <1>1, <1>2, <1>4 DEF IInv, TypeOK
<1> QED
  BY <1>1, <1>4, <1>5, TargetsKeep

LEMMA SenderWriteKeeps ==
    ASSUME IInv, SenderWrite
    PROVE  IInv'
<1>1. /\ found
      /\ \/ written' = written
         \/ written' = written \cup {<<Head(sending).id, open[Head(sending).sock]>>}
      /\ \/ sending' = Tail(sending) /\ found' = FALSE
         \/ UNCHANGED <<sending, found>>
      /\ UNCHANGED <<senderQ, mapSender, order, batch, loop, readyStop, session,
                     uiSession, doomed, closing, listener, link, uiID, open,
                     conns, lost, senderOpen, linkQ, linking, pcStop, calls, born>>
  BY DEF SenderWrite, senderFrame, baseVars, workVars, sysVars, linkVars
<1>2. sending # <<>>
  BY <1>1 DEF IInv, TypeOK
<1>3. /\ Tail(sending) \in Seq(TargetType)
      /\ Head(sending).sock \in Socks /\ Head(sending).id \in Nat
  BY <1>2, FirstTarget DEF IInv
<1>4. open[Head(sending).sock] \in Nat
  BY <1>3 DEF IInv, TypeOK
<1>5. written' \subseteq Nat \X Nat
  BY <1>1, <1>3, <1>4 DEF IInv, TypeOK
<1>6. TypeOK'
  BY <1>1, <1>3, <1>5 DEF IInv, TypeOK
<1>7. senderOpen /\ found' /\ sending' = sending
        => mapSender[Head(sending).sock] = Head(sending).id
  BY <1>1 DEF IInv, LateInv
<1> QED
  BY <1>1, <1>2, <1>6, <1>7, TargetsKeep

----------------------------------------------------------------------------
(* The linker                                                                 *)

LEMMA LinkerSocketKeeps ==
    ASSUME IInv, LinkerSocket
    PROVE  IInv'
<1>1. /\ linking = NoTarget /\ linkQ # <<>> /\ linkQ' = Tail(linkQ)
      /\ UNCHANGED <<order, lost, batch, loop, readyStop, session, uiSession,
                     doomed, closing, listener, link, uiID, senderQ, senderOpen,
                     sending, found, mapSender, written, pcStop, calls, born>>
  BY DEF LinkerSocket, linkerFrame, baseVars, workVars, sendVars
<1>2. linkQ \in Seq(Ids)
  BY DEF IInv, TypeOK
<1>3. linkQ' \in Seq(Ids) /\ Head(linkQ) \in Ids
  BY <1>1, <1>2, HeadTailProperties
<1>4. Pending' = Pending
  BY <1>1 DEF Pending
<1>5. CASE UNCHANGED <<conns, open, linking>>
  <2>1. TypeOK'
    BY <1>1, <1>3, <1>5 DEF IInv, TypeOK
  <2> QED
    BY <1>1, <1>4, <1>5, <2>1, QuietKeeps
<1>6. ASSUME NEW s \in Socks, open[s] = 0, conns < MaxConn, conns' = conns + 1,
             open' = [open EXCEPT ![s] = conns'],
             linking' = [id |-> Head(linkQ), sock |-> s]
      PROVE  IInv'
  <2>1. /\ conns \in Nat /\ conns' \in 0..MaxConn /\ conns' \in Nat /\ conns' # 0
        /\ uiSession \in 0..conns'
    BY <1>6, ConstantsAssumption DEF IInv, TypeOK
  <2>2. /\ open' \in [Socks -> Nat] /\ open'[s] = conns'
        /\ \A x \in Socks : x # s => open'[x] = open[x]
    BY <1>6, <2>1 DEF IInv, TypeOK
  <2>3. \A x \in Socks : open[x] \in Nat /\ open[x] <= conns
    BY DEF IInv, TypeOK, ConnInv
  <2>4. ~HasSession(s) /\ ~Linking(s) /\ ~Carries(s) /\ s \notin lost
    BY <1>6 DEF IInv, OwnInv
  <2>5. linking' \in [id : Nat, sock : Socks \cup {NoSock}] /\ LinkerInv'
    BY <1>3, <1>6 DEF LinkerInv, Ids
  <2>6. TypeOK'
    BY <1>1, <1>3, <2>1, <2>2, <2>5 DEF IInv, TypeOK
  <2>7. ConnInv'
    <3>1. \A n \in 1..uiSession :
            /\ born[n].sock \in Socks /\ born[n].conn \in 1..conns
            /\ born[n].conn \in 1..conns' /\ born[n].conn # conns'
      BY <1>6, <2>1 DEF IInv, ConnInv
    <3>2. \A x \in Socks : open'[x] <= conns'
      BY <1>6, <2>1, <2>2, <2>3
    <3>3. \A x, y \in Socks : open'[x] # 0 /\ open'[x] = open'[y] => x = y
      <4>1. \A x \in Socks : open[x] # conns'
        BY <1>6, <2>1, <2>3
      <4> QED
        BY <2>2, <4>1 DEF IInv, ConnInv
    <3>4. \A m, n \in 1..uiSession : born[m].conn = born[n].conn => m = n
      BY DEF IInv, ConnInv
    <3>5. \A x \in Socks : session[x].id = 0 => session[x] = NoSession
      BY DEF IInv, ConnInv
    <3>6. \A x \in Socks : session[x].id # 0 =>
            /\ session[x].id <= uiSession
            /\ born[session[x].id].conn = open'[x]
      BY <2>2, <2>4 DEF IInv, ConnInv, HasSession
    <3>7. \A x \in Socks, n \in 1..uiSession :
            open'[x] # 0 /\ session[x].id = 0 => born[n].conn # open'[x]
      BY <2>2, <3>1 DEF IInv, ConnInv
    <3> QED
      BY <1>1, <3>1, <3>2, <3>3, <3>4, <3>5, <3>6, <3>7 DEF ConnInv
  <2>8. OwnInv'
    <3>1. \A x : (HasSession(x)' <=> HasSession(x)) /\ (Carries(x)' <=> Carries(x))
      BY <1>1, <1>4 DEF HasSession, Carries
    <3>2. \A x \in Socks : ~Linking(x)
      BY <1>1, ConstantsAssumption DEF Linking, NoTarget
    <3>3. \A x : Linking(x)' <=> x = s
      BY <1>6 DEF Linking
    <3> QED
      BY <1>1, <2>1, <2>2, <2>4, <3>1, <3>2, <3>3 DEF IInv, OwnInv
  <2> QED
    BY <1>1, <1>4, <2>5, <2>6, <2>7, <2>8, Frames DEF IInv
<1> QED
  BY <1>5, <1>6 DEF LinkerSocket

\* The connected descriptor is handed over.
LEMMA LinkerConnectedKeeps ==
    ASSUME IInv, LinkerConnected
    PROVE  IInv'
<1> DEFINE o == Order("ADDLINKEV", linking.id, linking.sock, NoType)
<1>1. /\ linking # NoTarget /\ linking' = NoTarget
      /\ sendOrder(o)
      /\ UNCHANGED <<linkQ, open, conns, lost, batch, loop, readyStop, session,
                     uiSession, doomed, closing, listener, link, uiID, senderQ,
                     senderOpen, sending, found, mapSender, written, pcStop,
                     calls, born>>
  BY DEF LinkerConnected, linkerFrame, baseVars, workVars, sysVars, sendVars
<1>2. linking.id \in Ids /\ linking.sock \in Socks
  BY <1>1 DEF IInv, LinkerInv
<1>3. o \in OrderType /\ o \in GoodOrder
  BY <1>2 DEF Order, GoodOrder, OrderType, Commands, Ids
<1>4. \A x : HandsOver(o, x) <=> Linking(x)
  BY DEF Order, HandsOver, Linking
<1> HIDE DEF o
<1>5. Pending' = Append(Pending, o) /\ order' \in Seq(OrderType)
  BY <1>1, <1>3, PendingSent DEF IInv
<1>6. \A x \in Socks : HandsOver(o, x) => ~CarriesIn(Pending, x)
  BY <1>4 DEF IInv, OwnInv, Carries
<1>7. /\ Pending' \in Seq(GoodOrder) /\ Distinct(Pending')
      /\ \A x \in Socks : CarriesIn(Pending', x) <=> CarriesIn(Pending, x) \/ HandsOver(o, x)
      /\ \A k \in DOMAIN Pending : k \in DOMAIN Pending' /\ Pending'[k] = Pending[k]
  BY <1>3, <1>5, <1>6, AddLast DEF IInv, OrdersInv
<1>8. OrdersInv'
  BY <1>7 DEF OrdersInv
<1>9. OwnInv'
  <2>1. \A x \in Socks : Carries(x)' <=> Carries(x) \/ Linking(x)
    BY <1>4, <1>7 DEF Carries
  <2>2. \A x : HasSession(x)' <=> HasSession(x)
    BY <1>1 DEF HasSession
  <2>3. \A x \in Socks : ~Linking(x)'
    BY <1>1, ConstantsAssumption DEF Linking, NoTarget
  <2> QED
    BY <1>1, <2>1, <2>2, <2>3 DEF IInv, OwnInv
<1>10. LinkerInv'
  BY <1>1 DEF LinkerInv
<1>11. StopInv'
  BY <1>1, <1>7 DEF IInv, StopInv, Client
<1>12. TypeOK'
  <2>1. linking' \in [id : Nat, sock : Socks \cup {NoSock}]
    BY <1>1 DEF NoTarget
  <2> QED
    BY <1>1, <1>5, <2>1 DEF IInv, TypeOK
<1> QED
  BY <1>1, <1>8, <1>9, <1>10, <1>11, <1>12, Frames DEF IInv

LEMMA LinkerRefusedKeeps ==
    ASSUME IInv, LinkerRefused
    PROVE  IInv'
<1>1. /\ linking # NoTarget /\ linking' = NoTarget
      /\ open' = [open EXCEPT ![linking.sock] = 0]
      /\ UNCHANGED <<order, linkQ, conns, lost, batch, loop, readyStop, session,
                     uiSession, doomed, closing, listener, link, uiID, senderQ,
                     senderOpen, sending, found, mapSender, written, pcStop,
                     calls, born>>
  BY DEF LinkerRefused, linkerFrame, baseVars, workVars, sendVars
<1>2. linking.sock \in Socks
  BY <1>1 DEF IInv, LinkerInv
<1> PICK s \in Socks : s = linking.sock
  BY <1>2
<1>3. /\ open' \in [Socks -> Nat] /\ open'[s] = 0
      /\ \A x \in Socks : x # s => open'[x] = open[x]
  BY <1>1 DEF IInv, TypeOK
<1>4. ~HasSession(s) /\ ~Carries(s) /\ s \notin lost
  BY DEF IInv, OwnInv, Linking
<1>5. TypeOK'
  <2>1. linking' \in [id : Nat, sock : Socks \cup {NoSock}]
    BY <1>1 DEF NoTarget
  <2> QED
    BY <1>1, <1>3, <2>1 DEF IInv, TypeOK
<1>6. Pending' = Pending
  BY <1>1 DEF Pending
<1>7. ConnInv'
  <2>1. \A x \in Socks : open'[x] <= conns
    <3>1. conns \in Nat
      BY ConstantsAssumption DEF IInv, TypeOK
    <3>2. 0 <= conns
      BY <3>1
    <3> QED
      BY <1>3, <3>2 DEF IInv, ConnInv
  <2>2. \A x, y \in Socks : open'[x] # 0 /\ open'[x] = open'[y] => x = y
    BY <1>3 DEF IInv, ConnInv
  <2>3. /\ \A n \in 1..uiSession : born[n].sock \in Socks /\ born[n].conn \in 1..conns
        /\ \A m, n \in 1..uiSession : born[m].conn = born[n].conn => m = n
        /\ \A x \in Socks : session[x].id = 0 => session[x] = NoSession
    BY DEF IInv, ConnInv
  <2>4. \A x \in Socks : session[x].id # 0 =>
          /\ session[x].id <= uiSession
          /\ born[session[x].id].conn = open'[x]
    BY <1>3, <1>4 DEF IInv, ConnInv, HasSession
  <2>5. \A x \in Socks, n \in 1..uiSession :
          open'[x] # 0 /\ session[x].id = 0 => born[n].conn # open'[x]
    BY <1>3 DEF IInv, ConnInv
  <2> QED
    BY <1>1, <2>1, <2>2, <2>3, <2>4, <2>5 DEF ConnInv
<1>8. OwnInv'
  <2>1. \A x : (HasSession(x)' <=> HasSession(x)) /\ (Carries(x)' <=> Carries(x))
    BY <1>1, <1>6 DEF HasSession, Carries
  <2>2. \A x \in Socks : ~Linking(x)'
    BY <1>1, ConstantsAssumption DEF Linking, NoTarget
  <2>3. \A x \in Socks : x # s => ~Linking(x)
    BY DEF Linking
  <2> QED
    BY <1>1, <1>3, <1>4, <2>1, <2>2, <2>3 DEF IInv, OwnInv
<1>9. LinkerInv'
  BY <1>1 DEF LinkerInv
<1> QED
  BY <1>1, <1>5, <1>6, <1>7, <1>8, <1>9, Frames DEF IInv

----------------------------------------------------------------------------
(* The stop                                                                   *)

LEMMA StopOrderKeeps ==
    ASSUME IInv, StopReady \/ StopLoop
    PROVE  IInv'
<1>1. PICK cmd \in {"RSTOP", "STOP"} : sendOrder(Order(cmd, 0, NoSock, NoType))
  BY DEF StopReady, StopLoop
<1> DEFINE o == Order(cmd, 0, NoSock, NoType)
<1>2. /\ pcStop' \in {"ready", "stop"}
      /\ UNCHANGED <<senderQ, senderOpen, sending, batch, loop, readyStop,
                     session, uiSession, doomed, closing, listener, link, uiID,
                     open, conns, lost, found, mapSender, written, linkQ,
                     linking, calls, born>>
  BY DEF StopReady, StopLoop, stopFrame, baseVars, workVars, sysVars, linkVars
<1>3. o \in OrderType /\ o \in GoodOrder /\ o.cmd # "ADDLINKEV"
  BY <1>1 DEF Order, GoodOrder, OrderType, Commands
<1> HIDE DEF o
<1>4. order' \in Seq(OrderType)
  BY <1>1, <1>2, <1>3, PendingSent DEF IInv, o
<1>5. TypeOK'
  BY <1>2, <1>4 DEF IInv, TypeOK
<1> QED
  BY <1>1, <1>2, <1>3, <1>5, OrderKeeps DEF o

LEMMA StopSenderKeeps ==
    ASSUME IInv, StopSender
    PROVE  IInv'
<1>1. /\ senderOpen' = FALSE /\ pcStop' = "sender"
      /\ senderQ' = senderQ \/ (senderQ # <<>> /\ senderQ' = Tail(senderQ))
      /\ UNCHANGED <<order, sending, batch, loop, readyStop, session, uiSession,
                     doomed, closing, listener, link, uiID, open, conns, lost,
                     found, mapSender, written, linkQ, linking, calls, born>>
  BY DEF StopSender, stopFrame, baseVars, workVars, sysVars, linkVars
<1>2. QueueInv' /\ senderQ' \in Seq(SenderType)
  <2>1. CASE senderQ' = senderQ
    BY <2>1 DEF IInv, TypeOK, QueueInv
  <2>2. CASE senderQ # <<>> /\ senderQ' = Tail(senderQ)
    <3>1. /\ senderQ' \in Seq(SenderType)
          /\ \A k \in DOMAIN senderQ' :
               k + 1 \in DOMAIN senderQ /\ senderQ'[k] = senderQ[k + 1]
      BY <2>2, FirstMessage DEF IInv
    <3> QED
      BY <3>1 DEF IInv, QueueInv
  <2> QED
    BY <1>1, <2>1, <2>2
<1>3. TypeOK'
  BY <1>1, <1>2 DEF IInv, TypeOK
<1>4. SenderFollowsSessions' /\ LateInv'
  BY <1>1 DEF SenderFollowsSessions, LateInv
<1>5. Pending' = Pending
  BY <1>1 DEF Pending
<1> QED
  BY <1>1, <1>2, <1>3, <1>4, <1>5, Frames DEF IInv

LEMMA StopJoinedKeeps ==
    ASSUME IInv, StopJoined
    PROVE  IInv'
<1>1. /\ pcStop' = "joined"
      /\ UNCHANGED <<order, senderQ, senderOpen, sending, batch, loop, readyStop,
                     session, uiSession, doomed, closing, listener, link, uiID,
                     open, conns, lost, found, mapSender, written, linkQ,
                     linking, calls, born>>
  BY DEF StopJoined, stopFrame, baseVars, workVars, sysVars, linkVars
<1>2. TypeOK'
  BY <1>1 DEF IInv, TypeOK
<1> QED
  BY <1>1, <1>2, QuietKeeps DEF Pending

----------------------------------------------------------------------------
(* The invariant holds                                                        *)

LEMMA HandlerKeeps ==
    ASSUME IInv, Handler
    PROVE  IInv'
  BY OrderReadKeeps, ExecRStopKeeps, ExecStopKeeps, ExecCloseSockKeeps,
     ExecCloseByTypeKeeps, ExecAddListenerKeeps, ExecDelListenerKeeps,
     ExecAddLinkKeeps, ExecAddLinkEvKeeps, ExecDelLinkKeeps, OnCloseKeeps,
     FreeSessionKeeps, LoopEndKeeps
     DEF Handler

LEMMA NextKeeps == IInv /\ [Next]_vars => IInv'
<1> SUFFICES ASSUME IInv, [Next]_vars PROVE IInv'
  OBVIOUS
<1>1. CASE Script
  BY <1>1, ScriptKeeps
<1>2. CASE Handler
  BY <1>2, HandlerKeeps
<1>3. CASE Event
  BY <1>3, AcceptKeeps, PeerClosedKeeps, MonitorKeeps DEF Event
<1>4. CASE Sender
  BY <1>4, SenderTakeKeeps, SenderFindKeeps, SenderWriteKeeps DEF Sender
<1>5. CASE Linker
  BY <1>5, LinkerSocketKeeps, LinkerConnectedKeeps, LinkerRefusedKeeps DEF Linker
<1>6. CASE Stop
  BY <1>6, StopOrderKeeps, StopSenderKeeps, StopJoinedKeeps DEF Stop
<1>7. CASE UNCHANGED vars
  <2>1. UNCHANGED <<order, batch, loop, readyStop, session, uiSession, doomed,
                    closing, listener, link, uiID, open, conns, lost, senderQ,
                    senderOpen, sending, found, mapSender, written, linkQ,
                    linking, pcStop, calls, born>>
    BY <1>7 DEF vars, baseVars, workVars, sysVars, sendVars, linkVars
  <2>2. TypeOK'
    BY <2>1 DEF IInv, TypeOK
  <2> QED
    BY <2>1, <2>2, QuietKeeps DEF Pending
<1> QED
  BY <1>1, <1>2, <1>3, <1>4, <1>5, <1>6, <1>7 DEF Next

\* The strengthened invariant holds in every reachable state of the network.
THEOREM Inductive == Spec => []IInv
  BY Initially, NextKeeps, PTL DEF Spec

----------------------------------------------------------------------------
(* What follows from it                                                       *)

\* Every table of the event thread, the sender and the linker keeps the values
\* the code gives it; in particular addSession never numbers more sessions than
\* there were connections, although both acceptCB and the linker's orders call it.
THEOREM TypeCorrect == Spec => []TypeOK
<1>1. IInv => TypeOK
  BY DEF IInv
<1> QED
  BY <1>1, Inductive, PTL

\* Whatever descriptors the system gives again, and whatever is still queued,
\* m_mapSock of the sender is m_mapSession of the event thread, delayed.
THEOREM SenderFollows == Spec => []SenderFollowsSessions
<1>1. IInv => SenderFollowsSessions
  BY DEF IInv
<1> QED
  BY <1>1, Inductive, PTL

\* CSender::sendToSock finds a session only when it was up when the script sent.
THEOREM LateDataDropped == Spec => []LateDataIsDropped
<1>1. IInv => LateDataIsDropped
  <2> SUFFICES ASSUME IInv, senderOpen, found PROVE Head(sending).live
    BY DEF LateDataIsDropped
  <2>1. sending # <<>>
    BY DEF IInv, TypeOK
  <2>2. Head(sending) = sending[1] /\ 1 \in DOMAIN sending
    BY <2>1, FirstTarget DEF IInv
  <2> QED
    BY <2>2 DEF IInv, LateInv
<1> QED
  BY <1>1, Inductive, PTL

\* A link of m_mapTcpLink is never left with a descriptor that is closed, or
\* that is another session's by now.
THEOREM LinksKnow == Spec => []LinksKnowTheirSession
<1>1. IInv => LinksKnowTheirSession
  BY DEF IInv
<1> QED
  BY <1>1, Inductive, PTL

\* What is in one of two sequences is in both.
LEMMA ConcatElements ==
    ASSUME NEW S, NEW b \in Seq(S), NEW q \in Seq(S)
    PROVE  /\ \A i \in DOMAIN b : \E k \in DOMAIN (b \o q) : (b \o q)[k] = b[i]
           /\ \A i \in DOMAIN q : \E k \in DOMAIN (b \o q) : (b \o q)[k] = q[i]
           /\ \A k \in DOMAIN (b \o q) :
                \/ \E i \in DOMAIN b : b[i] = (b \o q)[k]
                \/ \E i \in DOMAIN q : q[i] = (b \o q)[k]
<1> DEFINE p == b \o q
<1>1. /\ DOMAIN b = 1..Len(b) /\ DOMAIN q = 1..Len(q)
      /\ Len(b) \in Nat /\ Len(q) \in Nat
  BY LenProperties
<1>2. /\ DOMAIN p = 1..(Len(b) + Len(q))
      /\ \A i \in 1..(Len(b) + Len(q)) : p[i] = IF i <= Len(b) THEN b[i] ELSE q[i - Len(b)]
  <2>1. /\ p \in Seq(S) /\ Len(p) = Len(b) + Len(q)
        /\ \A i \in 1..Len(p) : p[i] = IF i <= Len(b) THEN b[i] ELSE q[i - Len(b)]
    BY ConcatProperties
  <2> HIDE DEF p
  <2> QED
    BY <2>1, LenProperties
<1> HIDE DEF p
<1>3. \A i \in DOMAIN b : i \in DOMAIN p /\ p[i] = b[i]
  BY <1>1, <1>2
<1>4. ASSUME NEW i \in DOMAIN q
      PROVE  Len(b) + i \in DOMAIN p /\ p[Len(b) + i] = q[i]
  <2>1. /\ Len(b) + i \in 1..(Len(b) + Len(q)) /\ ~(Len(b) + i <= Len(b))
        /\ (Len(b) + i) - Len(b) = i
    BY <1>1
  <2> QED
    BY <1>2, <2>1
<1>5. \A k \in DOMAIN p :
        \/ k \in DOMAIN b /\ p[k] = b[k]
        \/ k - Len(b) \in DOMAIN q /\ p[k] = q[k - Len(b)]
  BY <1>1, <1>2
<1> QED
  BY <1>3, <1>4, <1>5 DEF p

\* The orders that carry a descriptor are the ones to come.
LEMMA CarriedIs ==
    ASSUME IInv, NEW s \in Socks
    PROVE  s \in Carried <=> Carries(s)
<1>1. batch \in Seq(OrderType) /\ order \in Seq(OrderType)
  BY DEF IInv, TypeOK
<1>2. /\ \A i \in DOMAIN batch : \E k \in DOMAIN Pending : Pending[k] = batch[i]
      /\ \A i \in DOMAIN order : \E k \in DOMAIN Pending : Pending[k] = order[i]
      /\ \A k \in DOMAIN Pending :
           \/ \E i \in DOMAIN batch : batch[i] = Pending[k]
           \/ \E i \in DOMAIN order : order[i] = Pending[k]
  <2>1. \A i \in DOMAIN batch : \E k \in DOMAIN Pending : Pending[k] = batch[i]
    BY <1>1, ConcatElements DEF Pending
  <2>2. \A i \in DOMAIN order : \E k \in DOMAIN Pending : Pending[k] = order[i]
    BY <1>1, ConcatElements DEF Pending
  <2>3. \A k \in DOMAIN Pending :
          \/ \E i \in DOMAIN batch : batch[i] = Pending[k]
          \/ \E i \in DOMAIN order : order[i] = Pending[k]
    BY <1>1, ConcatElements DEF Pending
  <2> QED
    BY <2>1, <2>2, <2>3
<1>3. s \in Carried <=> \/ \E i \in DOMAIN batch : HandsOver(batch[i], s)
                        \/ \E i \in DOMAIN order : HandsOver(order[i], s)
  <2> DEFINE O == {order[i] : i \in DOMAIN order}
             B == {batch[i] : i \in DOMAIN batch}
  <2>1. Carried = {o.sock : o \in {p \in O \cup B : p.cmd = "ADDLINKEV"}}
    BY DEF Carried
  <2>2. /\ \A p : p \in O <=> \E i \in DOMAIN order : p = order[i]
        /\ \A p : p \in B <=> \E i \in DOMAIN batch : p = batch[i]
    OBVIOUS
  <2> HIDE DEF O, B
  <2>3. s \in Carried <=> \E p \in O \cup B : HandsOver(p, s)
    BY <2>1 DEF HandsOver
  <2> QED
    BY <2>2, <2>3
<1> QED
  BY <1>2, <1>3 DEF Carries, CarriesIn

\* No descriptor is leaked but those of deleted links, none is closed by two,
\* and none of the program's tables holds one that it has closed.
THEOREM SocketsOwned == Spec => []SocketsAreOwned
<1>1. IInv => SocketsAreOwned
  <2> SUFFICES ASSUME IInv, NEW s \in Socks
               PROVE  Cardinality({x \in {"session", "linker", "order", "lost"} :
                                     \/ x = "session" /\ session[s].id # 0
                                     \/ x = "linker" /\ linking.sock = s
                                     \/ x = "order" /\ s \in Carried
                                     \/ x = "lost" /\ s \in lost})
                        = IF open[s] # 0 THEN 1 ELSE 0
    BY DEF SocketsAreOwned
  <2> DEFINE X == {x \in {"session", "linker", "order", "lost"} :
                     \/ x = "session" /\ session[s].id # 0
                     \/ x = "linker" /\ linking.sock = s
                     \/ x = "order" /\ s \in Carried
                     \/ x = "lost" /\ s \in lost}
  <2>1. X = {x \in {"session", "linker", "order", "lost"} :
                     \/ x = "session" /\ HasSession(s)
                     \/ x = "linker" /\ Linking(s)
                     \/ x = "order" /\ Carries(s)
                     \/ x = "lost" /\ s \in lost}
    BY CarriedIs DEF HasSession, Linking
  <2>2. /\ open[s] # 0 <=> HasSession(s) \/ Linking(s) \/ Carries(s) \/ s \in lost
        /\ HasSession(s) => ~Linking(s) /\ ~Carries(s) /\ s \notin lost
        /\ Linking(s) => ~Carries(s) /\ s \notin lost
        /\ Carries(s) => s \notin lost
    BY DEF IInv, OwnInv
  <2> HIDE DEF X
  <2>3. CASE open[s] = 0
    <3>1. X = {}
      BY <2>1, <2>2, <2>3
    <3> QED
      BY <2>3, <3>1, FS_EmptySet DEF X
  <2>4. CASE open[s] # 0
    <3>1. \E w : X = {w}
      <4>1. CASE HasSession(s)
        BY <2>1, <2>2, <4>1
      <4>2. CASE Linking(s)
        BY <2>1, <2>2, <4>2
      <4>3. CASE Carries(s)
        BY <2>1, <2>2, <4>3
      <4>4. CASE s \in lost
        BY <2>1, <2>2, <4>4
      <4> QED
        BY <2>2, <2>4, <4>1, <4>2, <4>3, <4>4
    <3>2. Cardinality(X) = 1
      BY <3>1, FS_Singleton
    <3> QED
      BY <2>4, <3>2 DEF X
  <2> QED
    BY <2>3, <2>4
<1> QED
  BY <1>1, Inductive, PTL

\* Once onReadyStop and the orders of the scripts' onStop are carried out, no
\* session of a client is left, although connections, closes and orders of
\* other threads were under way.
THEOREM StopCloses == Spec => []StopClosesClients
<1>1. IInv => StopClosesClients
  <2> SUFFICES ASSUME IInv, readyStop = "RAN", doomed = {}, closing = NoSock,
                      \A q \in {order, batch} : \A i \in DOMAIN q :
                        ~(q[i].cmd = "CLOSEBYTYPE" /\ q[i].type = StopType),
                      NEW s \in Socks, session[s].type = StopType
               PROVE  session[s].bLinker
    BY DEF StopClosesClients
  <2>1. /\ \A i \in DOMAIN batch : ~ClosesClients(batch[i])
        /\ \A i \in DOMAIN order : ~ClosesClients(order[i])
    BY DEF ClosesClients
  <2>2. batch \in Seq(OrderType) /\ order \in Seq(OrderType)
    BY DEF IInv, TypeOK
  <2>3. \A k \in DOMAIN Pending :
          \/ \E i \in DOMAIN batch : batch[i] = Pending[k]
          \/ \E i \in DOMAIN order : order[i] = Pending[k]
    BY <2>2, ConcatElements DEF Pending
  <2>4. ~ \E k \in DOMAIN Pending : ClosesClients(Pending[k])
    BY <2>1, <2>3
  <2>5. ~Client(s)
    BY <2>4, ConstantsAssumption DEF IInv, StopInv
  <2> QED
    BY <2>5 DEF Client
<1> QED
  BY <1>1, Inductive, PTL
=============================================================================
