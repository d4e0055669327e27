----------------------------- MODULE MCTcpRead -----------------------------
(* TcpRead with the streams of TcpPeers.                                      *)
EXTENDS TcpRead, TcpPeers

ASSUME MCStreamsAssumption == \A s \in MCStreams : Ordinary(s)

=============================================================================
