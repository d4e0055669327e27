------------------------------ MODULE TcpRead ------------------------------
(* CLNetDisp::onTcpRead (src/Humble/LNetDisp.cpp), what the event thread does *)
(* when bytes of a connection have come: the connection's parser cuts them    *)
(* into messages, each is given to the scripts, and what is used is taken     *)
(* from libevent's buffer.  The peer's bytes come in segments of any length.  *)
(*                                                                            *)
(* A stream is what one peer sends: [kind, bLinker, hello, patient, msgs].    *)
(* kind is the parser's name, hello the handshake (websock), patient that the *)
(* peer waits for the answer to one message before it sends the next, and a   *)
(* message is [form, size].                                                   *)
EXTENDS Parsers

CONSTANT Streams

VARIABLES
    stream,         \* what this connection's peer sends
    coming,         \* the bytes of it that are still on their way
    buf,            \* the connection's evbuffer
    uiStatus,       \* H_Session::uiStatus is WSS_SHAKEHANDS
    pc,             \* the event thread: "idle", or "loop" in onTcpRead
    iParsed,        \* its local
    conn,           \* "open", "closing" (the order is posted), "closed"
    delivered       \* what onTcpRead of the scripts was called with

vars == <<stream, coming, buf, uiStatus, pc, iParsed, conn, delivered>>

----------------------------------------------------------------------------
(* The peer.                                                                  *)

Payload(k, m) == [i \in 1 .. m.size |-> k]

\* A client's websock frame: the mark of a mask in the second byte, the mask's
\* four bytes, and the data under the mask.
Masked(k, m) ==
    LET head == WebSockHead(k, m.size)
    IN  [head EXCEPT ![2] = @ + Half] \o <<0, 0, 0, 0>>
            \o [i \in 1 .. m.size |-> Mask(k)]

\* The bytes of message number k.
Bytes(kind, k, m) ==
    CASE kind = "tcp1" -> Tcp1Head(m.size) \o Payload(k, m)
      [] kind = "tcp2" -> Digits(m.size, 2) \o Payload(k, m)
      [] kind = "mqtt" -> <<k>> \o MqttLength(m.size) \o Payload(k, m)
      [] kind = "websock" /\ m.form = "masked" -> Masked(k, m)
      [] kind = "websock" /\ m.form = "bare" -> WebSockHead(k, m.size) \o Payload(k, m)
      [] kind = "http" /\ m.form = "plain" -> <<Text, HeadEnd>>
      [] kind = "http" /\ m.form = "sized" ->
            <<Text, ContentLength(m.size), HeadEnd>> \o Payload(k, m)
      [] kind = "http" /\ m.form = "chunked" ->
            <<Text, Chunked, HeadEnd>> \o Payload(k, m)
                \o (IF m.size = 0 THEN <<LastChunk>> ELSE <<ChunkEnd>>)
      [] kind = "default" -> Payload(k, m)

Hello(s) ==
    CASE s.hello = "none" -> <<>>
      [] s.hello = "key" -> <<Text, Key, HeadEnd>>
      [] s.hello = "nokey" -> <<Text, HeadEnd>>

\* The bytes of the handshake and the first n messages.
Wire(s, n) ==
    LET sent[k \in 0 .. Len(s.msgs)] ==
            IF k = 0 THEN Hello(s) ELSE sent[k - 1] \o Bytes(s.kind, k, s.msgs[k])
    IN  sent[n]

\* What the scripts are to be told for message k, and for the first n.
Content(kind, k, m) ==
    CASE kind \in {"mqtt", "websock"} -> [op |-> k, data |-> Payload(k, m)]
      [] kind = "http" -> [op |-> None, data |-> Bytes(kind, k, m)]
      [] OTHER -> [op |-> None, data |-> Payload(k, m)]

Empty(r) == r.op = None /\ r.data = <<>>

Tell(told, m) == IF Empty(m) THEN told ELSE Append(told, m)

Expected(n) ==
    LET told[k \in 0 .. Len(stream.msgs)] ==
            IF k = 0 THEN <<>>
            ELSE Tell(told[k - 1], Content(stream.kind, k, stream.msgs[k]))
    IN  told[n]

Arrived == Len(Wire(stream, Len(stream.msgs))) - Len(coming)

\* The messages that are there to their last byte.
Complete ==
    {n \in 0 .. Len(stream.msgs) : Len(Wire(stream, n)) <= Arrived}

----------------------------------------------------------------------------

TypeOK ==
    /\ stream \in Streams
    /\ uiStatus \in BOOLEAN
    /\ pc \in {"idle", "loop"}
    /\ iParsed \in 0 .. Len(buf)
    /\ conn \in {"open", "closing", "closed"}
    /\ Len(buf) + Len(coming) <= Len(Wire(stream, Len(stream.msgs)))

Init ==
    /\ stream \in Streams
    /\ coming = Wire(stream, Len(stream.msgs))
    /\ buf = <<>>
    /\ uiStatus = FALSE
    /\ pc = "idle"
    /\ iParsed = 0
    /\ conn = "open"
    /\ delivered = <<>>

\* libevent reads n bytes and calls tcpReadCB.
Arrive(n) ==
    /\ pc = "idle" /\ conn # "closed"
    /\ stream.patient =>
          \A k \in 0 .. Len(stream.msgs) :
             LET end == Len(Wire(stream, k))
             IN  ~(Arrived < end /\ end < Arrived + n)
    /\ buf' = buf \o SubSeq(coming, 1, n)
    /\ coming' = SubSeq(coming, n + 1, Len(coming))
    /\ pc' = "loop"
    /\ iParsed' = 0
    /\ UNCHANGED <<stream, uiStatus, conn, delivered>>

\* parsePack of the connection's parser, on what is not parsed yet.
ShakesHands == stream.kind = "websock" /\ ~uiStatus

parsePack ==
    LET rest == SubSeq(buf, iParsed + 1, Len(buf))
    IN  CASE stream.kind = "tcp1" -> Tcp1(rest)
          [] stream.kind = "tcp2" -> Tcp2(rest)
          [] stream.kind = "mqtt" -> Mqtt(rest)
          [] stream.kind = "http" -> Http(rest)
          [] stream.kind = "default" -> Default(rest)
          [] ShakesHands -> WebSockShake(rest, stream.bLinker)
          [] OTHER -> WebSock(rest)

\* Mutant: what was used stays.
ReadEndsUndrained ==
    /\ pc = "loop"
    /\ iParsed < Len(buf) => parsePack.used = 0
    /\ pc' = "idle"
    /\ iParsed' = 0
    /\ UNCHANGED <<stream, coming, buf, uiStatus, conn, delivered>>

\* Nothing is left, or the parser waits: what was used leaves the buffer.
ReadEnds ==
    /\ pc = "loop"
    /\ iParsed < Len(buf) => parsePack.used = 0
    /\ buf' = SubSeq(buf, iParsed + 1, Len(buf))
    /\ pc' = "idle"
    /\ iParsed' = 0
    /\ UNCHANGED <<stream, coming, uiStatus, conn, delivered>>

\* The parser has posted the order to close; onTcpRead returns at once.
ReadFails ==
    /\ pc = "loop" /\ iParsed < Len(buf)
    /\ parsePack.used = Fail
    /\ conn' = "closing"
    /\ pc' = "idle"
    /\ iParsed' = 0
    /\ UNCHANGED <<stream, coming, buf, uiStatus, delivered>>

\* One message is cut, and given to the scripts unless nothing is in it.
ReadOne ==
    /\ pc = "loop" /\ iParsed < Len(buf)
    /\ parsePack.used > 0
    /\ LET r == parsePack
           m == [op |-> r.op, data |-> r.data]
       IN  /\ iParsed' = iParsed + r.used
           /\ delivered' = Tell(delivered, m)
           /\ buf' = IF stream.kind = "websock" THEN Unmasked(buf, iParsed, r) ELSE buf
    /\ uiStatus' = (uiStatus \/ ShakesHands)
    /\ UNCHANGED <<stream, coming, pc, conn>>

\* The event thread comes to the order to close.
ExecClose ==
    /\ pc = "idle" /\ conn = "closing"
    /\ conn' = "closed"
    /\ buf' = <<>>
    /\ UNCHANGED <<stream, coming, uiStatus, pc, iParsed, delivered>>

Next ==
    \/ \E n \in 1 .. Len(coming) : Arrive(n)
    \/ ReadEnds
    \/ ReadFails
    \/ ReadOne
    \/ ExecClose

Spec == Init /\ [][Next]_vars

----------------------------------------------------------------------------
(* The peers whose messages the parsers cut as they were sent.  The others    *)
(* are in the runs that find a property violated.                             *)

\* A message its length field can hold; a packet of mqtt and a chunked body that
\* have content; a frame with its mask; for "default", one byte.
Fits(kind, m) ==
    \/ kind = "tcp1" /\ FitsIn(m.size, 4)
    \/ kind = "tcp2" /\ FitsIn(m.size, 2)
    \/ kind = "mqtt" /\ m.size > 0
    \/ kind = "websock" /\ m.form = "masked" /\ FitsIn(m.size, 8)
    \/ kind = "http" /\ m.form \in {"plain", "sized"}
    \/ kind = "http" /\ m.form = "chunked" /\ m.size > 0
    \/ kind = "default" /\ m.size = 1

\* Only websock begins with a handshake, and a client of http waits for its
\* answer.  A message's number is its content, so it has to be a byte.
Ordinary(s) ==
    /\ s \in [kind : STRING, bLinker : BOOLEAN, hello : {"none", "key", "nokey"},
              patient : BOOLEAN, msgs : Seq([form : STRING, size : Nat])]
    /\ Len(s.msgs) < Base
    /\ s.hello = "none" <=> s.kind # "websock"
    /\ s.kind = "http" => s.patient
    /\ \A k \in DOMAIN s.msgs : Fits(s.kind, s.msgs[k])

----------------------------------------------------------------------------
(* "default" hands on whatever there is, so its pieces are put together.      *)

Same(got, want) ==
    LET All(ms) == FlattenSeq([k \in DOMAIN ms |-> ms[k].data])
    IN  IF stream.kind = "default" THEN All(got) = All(want) ELSE got = want

\* The scripts are given the peer's messages as it sent them: in their order,
\* none twice, none changed and none made up, wherever the segments end.
DeliveredIsPrefix ==
    \E n \in 0 .. Len(stream.msgs) : Same(delivered, Expected(n))

\* When onTcpRead has returned, every message that is there to its last byte
\* has been given to the scripts: none waits for bytes of the next one.
NothingHeldBack ==
    (pc = "idle" /\ conn = "open") =>
        \/ stream.hello = "nokey" /\ ~stream.bLinker /\ delivered = <<>>
        \/ Same(delivered, Expected(Max(Complete \union {0})))

=============================================================================
