----------------------------- MODULE NetWorker -----------------------------
(* The network side: CNetBase and CNetWorker (HBase/NetBase.cpp,              *)
(* NetWorker.cpp), the event thread with its sessions, listeners and links;   *)
(* CSender (Sender.cpp), the thread that writes; CLinker (Linker.cpp), the    *)
(* thread that connects; and the threads whose scripts call them.             *)
(*                                                                            *)
(* A session is known to the scripts as the pair of its descriptor and its    *)
(* number.  The system gives a closed descriptor to the next connection at    *)
(* once, while orders, messages to send and tables of three threads may still *)
(* hold it.  Connections are numbered here in the order they are made, so     *)
(* that "the peer of session n" is a value that is never used again.          *)
(*                                                                            *)
(* The sender and the linker are queue threads, used through what module      *)
(* SerialExecutor says of them.  UDP and what the bytes mean are left out.    *)
EXTENDS Naturals, Sequences, FiniteSets

CONSTANTS
    Socks,      \* descriptors the system can give to a TCP connection
    Types,      \* usSockType
    StopType,   \* the one that the scripts' onStop closes
    NoSock,     \* H_INVALID_SOCK
    NoType,
    Calls,      \* the calls that scripts make
    MaxCalls,   \* bound: number of those
    MaxConn,    \* bound: connections made
    MaxId,      \* bound: listeners and links made
    MaxTries    \* bound: length of the linker's queue when a timer adds to it

ASSUME ConstantsAssumption ==
    /\ NoSock \notin Socks
    /\ StopType \in Types
    /\ NoType \notin Types
    /\ MaxCalls \in Nat /\ MaxConn \in Nat /\ MaxId \in Nat /\ MaxTries \in Nat

Ids == 1..MaxId

VARIABLES
    order,      \* orders written to m_sockOrder and not read yet
    batch,      \* orders read by orderReadCB and not carried out yet
    loop,       \* the event loop: "run", "break", then "done"
    readyStop,  \* m_uiReadyStop
    session,    \* m_mapSession; number 0 for a descriptor that is not in it
    uiSession,  \* m_uiSession
    doomed,     \* descriptors delSession will be called with by the handler
    closing,    \* the one whose onClose has returned, not yet freed, or NoSock
    listener,   \* m_mapListener: type of a listener, or NoType
    link,       \* m_mapTcpLink
    uiID,       \* m_uiID
    open,       \* the system's descriptors: number of a connection, 0 if closed
    conns,      \* number of connections made
    lost,       \* open descriptors that the program has forgotten
    senderQ,    \* m_vcTask of the sender
    senderOpen, \* m_lCanAdd of the sender
    sending,    \* targets the sender has still to write to
    found,      \* the first of them was found in mapSender
    mapSender,  \* m_mapSender: number of a session, or 0
    linkQ,      \* m_vcTask of the linker
    linking,    \* the link the linker is connecting, and with which descriptor
    pcStop,     \* where the threads that stop the network are
    calls,      \* calls made by scripts
    born,       \* history: descriptor and connection of each session
    written     \* history: <<session, connection>> of data written

baseVars == <<readyStop, session, uiSession, doomed, closing>>
workVars == <<listener, link>>
sendVars == <<senderQ, senderOpen, sending, found, mapSender, written>>
linkVars == <<linkQ, linking>>
sysVars  == <<open, conns, lost>>
vars == <<order, batch, loop, baseVars, workVars, uiID, sysVars, sendVars,
          linkVars, pcStop, calls, born>>

NoSession == [id |-> 0, type |-> NoType, bLinker |-> FALSE]
NoLink    == [type |-> NoType, sock |-> NoSock]
NoTarget  == [id |-> 0, sock |-> NoSock]

Order(cmd, id, sock, type) ==
    [cmd |-> cmd, id |-> id, sock |-> sock, type |-> type]

sendOrder(o) == order' = Append(order, o)

\* onStart of the scripts has added a listener.
Init ==
    /\ order = <<Order("ADDLISTENER", 1, NoSock, StopType)>>
    /\ batch = <<>>
    /\ loop = "run"
    /\ readyStop = "NONE"
    /\ session = [s \in Socks |-> NoSession]
    /\ uiSession = 0
    /\ doomed = {}
    /\ closing = NoSock
    /\ listener = [i \in Ids |-> NoType]
    /\ link = [i \in Ids |-> NoLink]
    /\ uiID = 1
    /\ open = [s \in Socks |-> 0]
    /\ conns = 0
    /\ lost = {}
    /\ senderQ = <<>>
    /\ senderOpen = TRUE
    /\ sending = <<>>
    /\ found = FALSE
    /\ mapSender = [s \in Socks |-> 0]
    /\ linkQ = <<>>
    /\ linking = NoTarget
    /\ pcStop = "up"
    /\ calls = 0
    /\ born = [n \in 1..MaxConn |-> [sock |-> NoSock, conn |-> 0]]
    /\ written = {}

----------------------------------------------------------------------------
(* Calls by scripts, on any thread                                            *)

Call(c) ==
    /\ c \in Calls
    /\ calls < MaxCalls
    /\ calls' = calls + 1

CallOrder(c, o) ==
    /\ Call(c)
    /\ sendOrder(o)
    /\ UNCHANGED <<batch, loop, baseVars, workVars, sysVars, sendVars,
                   linkVars, pcStop, born>>

addListener(t) ==
    /\ uiID < MaxId
    /\ uiID' = uiID + 1
    /\ CallOrder("addListener", Order("ADDLISTENER", uiID', NoSock, t))

addTcpLink(t) ==
    /\ uiID < MaxId
    /\ uiID' = uiID + 1
    /\ CallOrder("addTcpLink", Order("ADDLINK", uiID', NoSock, t))

delListener(i) ==
    /\ i <= uiID
    /\ CallOrder("delListener", Order("DELLISTENER", i, NoSock, NoType))
    /\ UNCHANGED uiID

delTcpLink(i) ==
    /\ i <= uiID
    /\ CallOrder("delTcpLink", Order("DELLINK", i, NoSock, NoType))
    /\ UNCHANGED uiID

closeByType(t) ==
    /\ CallOrder("closeByType", Order("CLOSEBYTYPE", 0, NoSock, t))
    /\ UNCHANGED uiID

\* Of any session the scripts have ever been told of.
closeSock(n) ==
    /\ n <= uiSession
    /\ CallOrder("closeSock", Order("CLOSESOCK", n, born[n].sock, NoType))
    /\ UNCHANGED uiID

\* Session n is up: linked, and its onClose has not run.
Up(n) ==
    LET s == born[n].sock
    IN  s \in Socks /\ session[s].id = n /\ closing # s

\* CSender's addTask: refused, or accepted too late to be run, once Join is in.
addTask(c) ==
    IF senderOpen THEN senderQ' = Append(senderQ, c) ELSE UNCHANGED senderQ

Add(s, n) == [cmd |-> "AddSock", sock |-> s, id |-> n, to |-> <<>>]
Del(s)    == [cmd |-> "DelSock", sock |-> s, id |-> 0, to |-> <<>>]
SendTo(to) == [cmd |-> "SendTo", sock |-> NoSock, id |-> 0, to |-> to]

\* Send has one target, broadCast several; "live" is history.
Send(ns) ==
    /\ \A i \in DOMAIN ns : ns[i] <= uiSession
    /\ Call("Send")
    /\ addTask(SendTo([i \in DOMAIN ns |->
                  [sock |-> born[ns[i]].sock, id |-> ns[i],
                   live |-> Up(ns[i])]]))
    /\ UNCHANGED <<order, batch, loop, baseVars, workVars, uiID, sysVars,
                   senderOpen, sending, found, mapSender, written, linkVars,
                   pcStop, born>>

Script ==
    \/ \E t \in Types : addListener(t) \/ addTcpLink(t) \/ closeByType(t)
    \/ \E i \in Ids : delListener(i) \/ delTcpLink(i)
    \/ \E n \in 1..MaxConn : closeSock(n) \/ Send(<<n>>)
    \/ \E n1, n2 \in 1..MaxConn : n1 # n2 /\ Send(<<n1, n2>>)

----------------------------------------------------------------------------
(* The event thread: sessions                                                 *)

\* The thread is in event_base_dispatch, between two callbacks.
Idle == loop = "run" /\ batch = <<>> /\ doomed = {} /\ closing = NoSock

\* addTcpEv, addSession, onLinked: the sender is told, then the scripts.
addTcpEv(s, t, linked) ==
    /\ uiSession' = uiSession + 1
    /\ session' = [session EXCEPT ![s] =
                     [id |-> uiSession', type |-> t, bLinker |-> linked]]
    /\ addTask(Add(s, uiSession'))

\* Mutant: a connection is also accepted after the scripts' onStop.
AcceptAlways(s, i) ==
    /\ Idle
    /\ listener[i] # NoType
    /\ open[s] = 0
    /\ conns < MaxConn
    /\ conns' = conns + 1
    /\ open' = [open EXCEPT ![s] = conns']
    /\ addTcpEv(s, listener[i], FALSE)
    /\ born' = [born EXCEPT ![uiSession'] = [sock |-> s, conn |-> conns']]
    /\ UNCHANGED <<order, batch, loop, readyStop, doomed, closing, workVars,
                   uiID, lost, senderOpen, sending, found, mapSender, written,
                   linkVars, pcStop, calls>>

\* acceptCB; after onReadyStop the connection is closed again at once.
Accept(s, i) ==
    /\ Idle
    /\ listener[i] # NoType
    /\ readyStop = "NONE"
    /\ open[s] = 0
    /\ conns < MaxConn
    /\ conns' = conns + 1
    /\ open' = [open EXCEPT ![s] = conns']
    /\ addTcpEv(s, listener[i], FALSE)
    /\ born' = [born EXCEPT ![uiSession'] = [sock |-> s, conn |-> conns']]
    /\ UNCHANGED <<order, batch, loop, readyStop, doomed, closing, workVars,
                   uiID, lost, senderOpen, sending, found, mapSender, written,
                   linkVars, pcStop, calls>>

\* tcpEventCB: the peer has closed, or an error.
PeerClosed(s) ==
    /\ Idle
    /\ session[s].id # 0
    /\ doomed' = {s}
    /\ UNCHANGED <<order, batch, loop, readyStop, session, uiSession, closing,
                   workVars, uiID, sysVars, sendVars, linkVars, pcStop, calls,
                   born>>

\* Mutant: a link is not told that its session is closed.
OnCloseKeepsLink(s) ==
    /\ closing = NoSock
    /\ s \in doomed
    /\ addTask(Del(s))
    /\ doomed' = doomed \ {s}
    /\ closing' = s
    /\ UNCHANGED <<order, batch, loop, readyStop, session, uiSession, workVars,
                   uiID, sysVars, senderOpen, sending, found, mapSender,
                   written, linkVars, pcStop, calls, born>>

\* Mutant: the sender is told only after the descriptor is closed, if at all.
OnCloseTellsNoOne(s) ==
    /\ closing = NoSock
    /\ s \in doomed
    /\ link' = IF session[s].bLinker
               THEN [i \in Ids |-> IF link[i].sock = s
                                   THEN [link[i] EXCEPT !.sock = NoSock]
                                   ELSE link[i]]
               ELSE link
    /\ doomed' = doomed \ {s}
    /\ closing' = s
    /\ UNCHANGED <<order, batch, loop, readyStop, session, uiSession, listener,
                   uiID, sysVars, sendVars, linkVars, pcStop, calls, born>>

\* delSession, first onClose: the sender is told, then the link, then the
\* scripts.
OnClose(s) ==
    /\ closing = NoSock
    /\ s \in doomed
    /\ addTask(Del(s))
    /\ link' = IF session[s].bLinker
               THEN [i \in Ids |-> IF link[i].sock = s
                                   THEN [link[i] EXCEPT !.sock = NoSock]
                                   ELSE link[i]]
               ELSE link
    /\ doomed' = doomed \ {s}
    /\ closing' = s
    /\ UNCHANGED <<order, batch, loop, readyStop, session, uiSession, listener,
                   uiID, sysVars, senderOpen, sending, found, mapSender,
                   written, linkVars, pcStop, calls, born>>

\* delSession, then freeSession: the descriptor is closed, the entry erased.
FreeSession ==
    /\ closing # NoSock
    /\ open' = [open EXCEPT ![closing] = 0]
    /\ session' = [session EXCEPT ![closing] = NoSession]
    /\ closing' = NoSock
    /\ UNCHANGED <<order, batch, loop, readyStop, uiSession, doomed, workVars,
                   uiID, conns, lost, sendVars, linkVars, pcStop, calls, born>>

\* monitorCB, each five seconds.
Monitor(i) ==
    /\ Idle
    /\ link[i].type # NoType
    /\ link[i].sock = NoSock
    /\ Len(linkQ) < MaxTries
    /\ linkQ' = Append(linkQ, i)
    /\ UNCHANGED <<order, batch, loop, baseVars, workVars, uiID, sysVars,
                   sendVars, linking, pcStop, calls, born>>

----------------------------------------------------------------------------
(* The event thread: orders                                                   *)

\* orderReadCB reads a number of whole orders, then carries them all out.
OrderRead ==
    /\ Idle
    /\ order # <<>>
    /\ \E n \in 1..Len(order) :
         /\ batch' = SubSeq(order, 1, n)
         /\ order' = SubSeq(order, n + 1, Len(order))
    /\ UNCHANGED <<loop, baseVars, workVars, uiID, sysVars, sendVars, linkVars,
                   pcStop, calls, born>>

\* The next order is carried out when the one before is finished.
Exec(cmd) ==
    /\ batch # <<>>
    /\ doomed = {} /\ closing = NoSock
    /\ Head(batch).cmd = cmd
    /\ batch' = Tail(batch)
    /\ UNCHANGED <<uiID, conns, open, senderOpen, sending, found, mapSender,
                   written, linking, pcStop, calls>>

\* The scripts' onStop, as in Bin/script/start.lua, runs between RSTOP_RUN and
\* RSTOP_RAN.  A second order to stop does nothing.
ExecRStop ==
    /\ Exec("RSTOP")
    /\ IF readyStop = "NONE"
       THEN /\ order' = order \o <<Order("CLOSEBYTYPE", 0, NoSock, StopType),
                                   Order("DELLISTENER", 1, NoSock, NoType)>>
            /\ readyStop' = "RAN"
       ELSE UNCHANGED <<order, readyStop>>
    /\ UNCHANGED <<loop, session, uiSession, doomed, closing, workVars, lost,
                   senderQ, linkQ, born>>

\* Mutant: the loop is not told to end.
ExecStopIgnored ==
    /\ Exec("STOP")
    /\ UNCHANGED <<loop, order, baseVars, workVars, lost, senderQ, linkQ, born>>

ExecStop ==
    /\ Exec("STOP")
    /\ loop' = "break"
    /\ UNCHANGED <<order, baseVars, workVars, lost, senderQ, linkQ, born>>

ExecCloseSock ==
    /\ Exec("CLOSESOCK")
    /\ LET o == Head(batch)
       IN  doomed' = IF session[o.sock].id = o.id THEN {o.sock} ELSE {}
    /\ UNCHANGED <<order, loop, readyStop, session, uiSession, closing,
                   workVars, lost, senderQ, linkQ, born>>

\* removByType
ExecCloseByType ==
    /\ Exec("CLOSEBYTYPE")
    /\ doomed' = {s \in Socks : session[s].id # 0
                                /\ session[s].type = Head(batch).type}
    /\ UNCHANGED <<order, loop, readyStop, session, uiSession, closing,
                   workVars, lost, senderQ, linkQ, born>>

\* The address may be refused.
ExecAddListener ==
    /\ Exec("ADDLISTENER")
    /\ LET o == Head(batch)
       IN  \/ listener' = [listener EXCEPT ![o.id] = o.type]
           \/ UNCHANGED listener
    /\ UNCHANGED <<order, loop, baseVars, link, lost, senderQ, linkQ, born>>

ExecDelListener ==
    /\ Exec("DELLISTENER")
    /\ listener' = [listener EXCEPT ![Head(batch).id] = NoType]
    /\ UNCHANGED <<order, loop, baseVars, link, lost, senderQ, linkQ, born>>

ExecAddLink ==
    /\ Exec("ADDLINK")
    /\ LET o == Head(batch)
       IN  /\ link' = [link EXCEPT ![o.id] = [type |-> o.type, sock |-> NoSock]]
           /\ linkQ' = Append(linkQ, o.id)
    /\ UNCHANGED <<order, loop, baseVars, listener, lost, senderQ, born>>

\* A descriptor the linker has connected; when its link has been deleted in
\* the meantime nothing is done with it.
ExecAddLinkEv ==
    /\ Exec("ADDLINKEV")
    /\ LET o == Head(batch)
       IN  IF link[o.id].type # NoType
           THEN /\ link' = [link EXCEPT ![o.id].sock = o.sock]
                /\ addTcpEv(o.sock, link[o.id].type, TRUE)
                /\ born' = [born EXCEPT ![uiSession'] =
                              [sock |-> o.sock, conn |-> open[o.sock]]]
                /\ UNCHANGED lost
           ELSE /\ lost' = lost \cup {o.sock}
                /\ UNCHANGED <<link, uiSession, session, senderQ, born>>
    /\ UNCHANGED <<order, loop, readyStop, doomed, closing, listener, linkQ>>

\* The session first, then the link: nothing else can look at it in between.
ExecDelLink ==
    /\ Exec("DELLINK")
    /\ LET i == Head(batch).id
       IN  /\ doomed' = {s \in Socks : s = link[i].sock /\ session[s].id # 0}
           /\ link' = [link EXCEPT ![i] = NoLink]
    /\ UNCHANGED <<order, loop, readyStop, session, uiSession, closing,
                   listener, lost, senderQ, linkQ, born>>

\* event_base_dispatch returns after the callback that broke the loop.
LoopEnd ==
    /\ loop = "break"
    /\ batch = <<>> /\ doomed = {} /\ closing = NoSock
    /\ loop' = "done"
    /\ UNCHANGED <<order, batch, baseVars, workVars, uiID, sysVars, sendVars,
                   linkVars, pcStop, calls, born>>

\* What the event thread has to do; events from outside are not among it.
Handler ==
    \/ OrderRead
    \/ ExecRStop \/ ExecStop \/ ExecCloseSock \/ ExecCloseByType
    \/ ExecAddListener \/ ExecDelListener
    \/ ExecAddLink \/ ExecAddLinkEv \/ ExecDelLink
    \/ \E s \in Socks : OnClose(s)
    \/ FreeSession
    \/ LoopEnd

Event ==
    \/ \E s \in Socks, i \in Ids : Accept(s, i)
    \/ \E s \in Socks : PeerClosed(s)
    \/ \E i \in Ids : Monitor(i)

----------------------------------------------------------------------------
(* CSender::runTask                                                           *)

senderFrame == <<order, batch, loop, baseVars, workVars, uiID, sysVars,
                 senderOpen, linkVars, pcStop, calls, born>>

\* Mutant: a descriptor is kept after it was closed.
SenderKeepsSock ==
    /\ sending = <<>>
    /\ senderQ # <<>>
    /\ senderQ' = Tail(senderQ)
    /\ LET c == Head(senderQ)
       IN  /\ sending' = c.to
           /\ mapSender' = IF c.cmd = "AddSock"
                           THEN [mapSender EXCEPT ![c.sock] = c.id]
                           ELSE mapSender
    /\ UNCHANGED <<found, written, senderFrame>>

SenderTake ==
    /\ sending = <<>>
    /\ senderQ # <<>>
    /\ senderQ' = Tail(senderQ)
    /\ LET c == Head(senderQ)
       IN  /\ sending' = c.to
           /\ mapSender' = IF c.cmd = "SendTo" THEN mapSender
                           ELSE [mapSender EXCEPT ![c.sock] = c.id]
    /\ UNCHANGED <<found, written, senderFrame>>

\* Mutant: the number of the session is not compared.
SenderFindsSock ==
    /\ sending # <<>> /\ ~found
    /\ IF mapSender[Head(sending).sock] # 0
       THEN found' = TRUE /\ UNCHANGED sending
       ELSE sending' = Tail(sending) /\ UNCHANGED found
    /\ UNCHANGED <<senderQ, mapSender, written, senderFrame>>

\* sendToSock, the look into the table.
SenderFind ==
    /\ sending # <<>> /\ ~found
    /\ IF mapSender[Head(sending).sock] = Head(sending).id
       THEN found' = TRUE /\ UNCHANGED sending
       ELSE sending' = Tail(sending) /\ UNCHANGED found
    /\ UNCHANGED <<senderQ, mapSender, written, senderFrame>>

\* sendToSock, H_SockWrite: one send of a part or of the rest of the data, to
\* whatever connection the descriptor is now.
SenderWrite ==
    /\ found
    /\ LET s == Head(sending).sock
           connected == open[s] # 0 /\ linking.sock # s
       IN  /\ written' = IF connected
                         THEN written \cup {<<Head(sending).id, open[s]>>}
                         ELSE written
           /\ \/ sending' = Tail(sending) /\ found' = FALSE
              \/ connected /\ UNCHANGED <<sending, found>>
    /\ UNCHANGED <<senderQ, mapSender, senderFrame>>

Sender == SenderTake \/ SenderFind \/ SenderWrite

----------------------------------------------------------------------------
(* CLinker::runTask                                                           *)

linkerFrame == <<batch, loop, baseVars, workVars, uiID, sendVars, pcStop,
                 calls, born>>

\* initSock gets a descriptor, or fails before it has one.
LinkerSocket ==
    /\ linking = NoTarget
    /\ linkQ # <<>>
    /\ linkQ' = Tail(linkQ)
    /\ \/ \E s \in Socks :
            /\ open[s] = 0
            /\ conns < MaxConn
            /\ conns' = conns + 1
            /\ open' = [open EXCEPT ![s] = conns']
            /\ linking' = [id |-> Head(linkQ), sock |-> s]
       \/ UNCHANGED <<conns, open, linking>>
    /\ UNCHANGED <<order, lost, linkerFrame>>

LinkerConnected ==
    /\ linking # NoTarget
    /\ sendOrder(Order("ADDLINKEV", linking.id, linking.sock, NoType))
    /\ linking' = NoTarget
    /\ UNCHANGED <<linkQ, sysVars, linkerFrame>>

\* Mutant: the descriptor is not closed when connect fails.
LinkerRefusedLeaks ==
    /\ linking # NoTarget
    /\ linking' = NoTarget
    /\ UNCHANGED <<order, linkQ, sysVars, linkerFrame>>

LinkerRefused ==
    /\ linking # NoTarget
    /\ open' = [open EXCEPT ![linking.sock] = 0]
    /\ linking' = NoTarget
    /\ UNCHANGED <<order, linkQ, conns, lost, linkerFrame>>

Linker == LinkerSocket \/ LinkerConnected \/ LinkerRefused

----------------------------------------------------------------------------
(* The stop: CWorkerDisp::stopNet, then the main thread in runSV              *)

stopFrame == <<batch, loop, baseVars, workVars, uiID, sysVars, found,
               mapSender, written, linkVars, calls, born>>

StopReady ==
    /\ pcStop = "up"
    /\ sendOrder(Order("RSTOP", 0, NoSock, NoType))
    /\ pcStop' = "ready"
    /\ UNCHANGED <<senderQ, senderOpen, sending, stopFrame>>

\* Join of the sender: it may have taken one message that it gives up.
StopSender ==
    /\ pcStop = "ready"
    /\ readyStop = "RAN"
    /\ senderOpen' = FALSE
    /\ \/ UNCHANGED senderQ
       \/ sending = <<>> /\ senderQ # <<>> /\ senderQ' = Tail(senderQ)
    /\ pcStop' = "sender"
    /\ UNCHANGED <<order, sending, stopFrame>>

StopLoop ==
    /\ pcStop = "sender"
    /\ senderQ = <<>> /\ sending = <<>>
    /\ sendOrder(Order("STOP", 0, NoSock, NoType))
    /\ pcStop' = "stop"
    /\ UNCHANGED <<senderQ, senderOpen, sending, stopFrame>>

StopJoined ==
    /\ pcStop = "stop"
    /\ loop = "done"
    /\ pcStop' = "joined"
    /\ UNCHANGED <<order, senderQ, senderOpen, sending, stopFrame>>

Stop == StopReady \/ StopSender \/ StopLoop \/ StopJoined

Next == Script \/ Handler \/ Event \/ Sender \/ Linker \/ Stop

(* Every thread keeps being scheduled, and a write ends.  Nothing obliges a   *)
(* script to call, a peer to connect or to close, a link to succeed or the    *)
(* process to stop.                                                           *)
Fairness ==
    /\ WF_vars(Handler)
    /\ WF_vars(SenderTake \/ SenderFind)
    /\ WF_vars(found /\ found' = FALSE /\ SenderWrite)
    /\ WF_vars(StopSender \/ StopLoop \/ StopJoined)

Spec == Init /\ [][Next]_vars /\ Fairness

----------------------------------------------------------------------------
(* Properties                                                                 *)

Commands == {"RSTOP", "STOP", "CLOSESOCK", "CLOSEBYTYPE", "ADDLISTENER",
             "DELLISTENER", "ADDLINK", "ADDLINKEV", "DELLINK"}

OrderType == [cmd : Commands, id : Nat, sock : Socks \cup {NoSock},
              type : Types \cup {NoType}]

TargetType == [sock : Socks, id : Nat \ {0}, live : BOOLEAN]

SenderType == [cmd : {"AddSock", "DelSock", "SendTo"},
               sock : Socks \cup {NoSock}, id : Nat, to : Seq(TargetType)]

TypeOK ==
    /\ order \in Seq(OrderType)
    /\ batch \in Seq(OrderType)
    /\ loop \in {"run", "break", "done"}
    /\ readyStop \in {"NONE", "RAN"}
    /\ session \in [Socks -> [id : Nat, type : Types \cup {NoType},
                              bLinker : BOOLEAN]]
    /\ uiSession \in 0..conns
    /\ doomed \subseteq Socks
    /\ closing \in Socks \cup {NoSock}
    /\ listener \in [Ids -> Types \cup {NoType}]
    /\ link \in [Ids -> [type : Types \cup {NoType},
                         sock : Socks \cup {NoSock}]]
    /\ uiID \in Nat
    /\ open \in [Socks -> Nat]
    /\ conns \in 0..MaxConn
    /\ lost \subseteq Socks
    /\ senderQ \in Seq(SenderType)
    /\ senderOpen \in BOOLEAN
    /\ sending \in Seq(TargetType)
    /\ found \in BOOLEAN /\ (found => sending # <<>>)
    /\ mapSender \in [Socks -> Nat]
    /\ linkQ \in Seq(Ids)
    /\ linking \in [id : Nat, sock : Socks \cup {NoSock}]
    /\ pcStop \in {"up", "ready", "sender", "stop", "joined"}
    /\ calls \in 0..MaxCalls
    /\ born \in [1..MaxConn -> [sock : Socks \cup {NoSock}, conn : Nat]]
    /\ written \subseteq Nat \X Nat

\* Descriptors of connected sockets on their way from the linker.
Carried == {o.sock : o \in {p \in {order[i] : i \in DOMAIN order}
                                   \cup {batch[i] : i \in DOMAIN batch} :
                                 p.cmd = "ADDLINKEV"}}

\* Each open descriptor has exactly one owner that will close it: a session,
\* the linker while it connects, an order that carries it, except for those
\* whose link was deleted before the order arrived, which no one closes.  No
\* owner holds a descriptor that was closed, and maybe given to another.
SocketsAreOwned ==
    \A s \in Socks :
        Cardinality({x \in {"session", "linker", "order", "lost"} :
                       \/ x = "session" /\ session[s].id # 0
                       \/ x = "linker" /\ linking.sock = s
                       \/ x = "order" /\ s \in Carried
                       \/ x = "lost" /\ s \in lost})
          = IF open[s] # 0 THEN 1 ELSE 0

\* Before it carries out the k-th message of its queue, the sender believes the
\* descriptor s to be session n (0: none): so says the last AddSock or DelSock
\* of s before the k-th, or else the table.
Believes(k, s, n) ==
    LET told == {i \in DOMAIN senderQ : i < k /\ senderQ[i].sock = s}
    IN  \/ told = {} /\ mapSender[s] = n
        \/ \E i \in told : (\A j \in told : j <= i) /\ senderQ[i].id = n

\* Until it is joined, the sender's table is the event thread's table of
\* sessions, delayed: never a session forgotten, never one added twice.
SenderFollowsSessions ==
    senderOpen => \A s \in Socks :
        Believes(Len(senderQ) + 1, s, IF closing = s THEN 0 ELSE session[s].id)

\* Data sent to a session that is down already is written to no one, although
\* its descriptor may be another session's by then.  The Join of the sender can
\* give up the one message that tells it so.
LateDataIsDropped == senderOpen /\ found => Head(sending).live

\* A link's descriptor is invalid, or that of a live session of its own type
\* that knows it is a link's; no two links share one.
LinksKnowTheirSession ==
    \A i \in Ids :
        LET s == link[i].sock
        IN  s # NoSock => /\ session[s].id # 0 /\ closing # s
                          /\ session[s].bLinker
                          /\ session[s].type = link[i].type
                          /\ \A j \in Ids \ {i} : link[j].sock # s

\* After the scripts' onStop has been carried out, no client is left: those
\* that were there are closed, and no new one is accepted.
StopClosesClients ==
    /\ readyStop = "RAN"
    /\ doomed = {} /\ closing = NoSock
    /\ \A q \in {order, batch} : \A i \in DOMAIN q :
         ~(q[i].cmd = "CLOSEBYTYPE" /\ q[i].type = StopType)
    => \A s \in Socks : session[s].type = StopType => session[s].bLinker

\* Join returns, whatever orders and sends are under way.
JoinReturns == (pcStop = "ready") ~> (pcStop = "joined")

\* The sender does not go on believing in a session that is closed.
ClosedIsForgotten ==
    \A s \in Socks, n \in 1..MaxConn :
        (senderOpen /\ mapSender[s] = n /\ session[s].id # n)
            ~> (mapSender[s] # n \/ ~senderOpen)

\* README.md, "return the message: humble.Send(sock, uiSession, buffer)": what
\* is sent to a session is written to the peer of that session only.
DataReachesItsPeer == \A w \in written : w[2] = born[w[1]].conn
=============================================================================
