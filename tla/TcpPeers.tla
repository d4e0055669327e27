------------------------------ MODULE TcpPeers ------------------------------
(* The streams that TLC sends to TcpRead.                                     *)
EXTENDS Naturals

Peer(kind, bLinker, hello, patient, msgs) ==
    [kind |-> kind, bLinker |-> bLinker, hello |-> hello,
     patient |-> patient, msgs |-> msgs]

Message(forms, sizes) == [form : forms, size : sizes]

\* One to three messages; 63 and 64 need the longer heads.
Msgs(ms) == UNION {[1 .. n -> ms] : n \in 1 .. 3}

MCStreams ==
    {Peer(k, FALSE, "none", FALSE, ms) :
        k \in {"tcp1", "tcp2"}, ms \in Msgs(Message({"data"}, {0, 1, 3, 5}))
                                     \union {<<[form |-> "data", size |-> 63]>>}}
    \union {Peer("tcp1", FALSE, "none", FALSE,
                 <<[form |-> "data", size |-> 64], [form |-> "data", size |-> 1]>>)}
    \union {Peer("mqtt", FALSE, "none", FALSE, ms) :
                ms \in Msgs(Message({"data"}, {1, 3, 4, 9}))
                     \union {<<[form |-> "data", size |-> 16]>>}}
    \union {Peer("websock", FALSE, hello, FALSE, ms) :
                hello \in {"key", "nokey"}, ms \in Msgs(Message({"masked"}, {0, 1, 5}))
                     \union {<<[form |-> "masked", size |-> 64]>>}}
    \union {Peer("websock", TRUE, "nokey", FALSE, ms) :
                ms \in Msgs(Message({"masked"}, {0, 1}))}
    \union {Peer("http", FALSE, "none", TRUE, ms) :
                ms \in Msgs(Message({"plain"}, {0}) \union Message({"sized"}, {0, 1, 3})
                            \union Message({"chunked"}, {1, 3}))}
    \union {Peer("default", FALSE, "none", FALSE, ms) :
                ms \in Msgs(Message({"data"}, {1}))}

\* A packet without content, as PINGREQ and DISCONNECT are, is the last.
MCShort ==
    {Peer("mqtt", FALSE, "none", FALSE,
          <<[form |-> "data", size |-> 1], [form |-> "data", size |-> 0]>>)}

\* The client does not wait for the first answer.
MCPipelined ==
    {Peer("http", FALSE, "none", FALSE,
          <<[form |-> "plain", size |-> 0], [form |-> "sized", size |-> 2]>>)}

MCEmptyChunks ==
    {Peer("http", FALSE, "none", TRUE, <<[form |-> "chunked", size |-> 0]>>)}

\* The second frame is refused.
MCRefused ==
    {Peer("websock", FALSE, "key", FALSE,
          <<[form |-> "masked", size |-> 1], [form |-> "bare", size |-> 5]>>)}

\* A connection this process opened, to a server that answers as it does.
MCLink ==
    {Peer("websock", TRUE, "nokey", FALSE, <<[form |-> "bare", size |-> 1]>>)}

=============================================================================
