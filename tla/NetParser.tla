------------------------------ MODULE NetParser ------------------------------
(* CNetParser, src/HBase/NetParser.cpp: which parser cuts the stream of a     *)
(* socket type.  Two maps under one CRWLock each, used by the event thread    *)
(* (getParser for the data of each connection, and the scripts' onTcpRead,    *)
(* which calls getParserNam) and by the services (setParser, getParserNam).   *)
(*                                                                            *)
(* The locks are those of the POSIX build: pthread_rwlock_t with its default  *)
(* preference, a reader gets in unless a writer is inside.                    *)
EXTENDS Naturals, FiniteSets

CONSTANTS
    Threads,    \* the threads of services and the event thread
    EventThread,
    Names,      \* the parsers that initParser registers
    Types,      \* socket types
    SetTypes,   \* the types the scripts give a parser
    NamedTypes, \* the types whose parser's name the scripts ask for
    None,
    MaxLeft     \* bound: no more lookups by a thread that holds so many locks

ASSUME NetParserAssumption ==
    /\ EventThread \in Threads
    /\ SetTypes \cup NamedTypes \subseteq Types
    /\ None \notin Names \cup Threads
    /\ MaxLeft \in Nat

VARIABLES
    mapName,    \* m_mapName, by its keys
    mapType,    \* m_mapType; None where it has no entry
    rd,         \* the read locks each thread holds, of m_objNameLck and m_objTypeLck
    wr,         \* the writer inside each of them
    pc,
    arg         \* the type and name a call is about

vars == <<mapName, mapType, rd, wr, pc, arg>>

Locks == {"name", "type"}

NoArg == [type |-> None, name |-> None]

Init ==
    /\ mapName = {}
    /\ mapType = [u \in Types |-> None]
    /\ rd = [l \in Locks |-> [t \in Threads |-> 0]]
    /\ wr = [l \in Locks |-> None]
    /\ pc = [t \in Threads |-> "notStarted"]
    /\ arg = [t \in Threads |-> NoArg]

Goto(t, from, to) ==
    /\ pc[t] = from
    /\ pc' = [pc EXCEPT ![t] = to]

----------------------------------------------------------------------------
(* pthread_rwlock_t *)

Readable(l) == wr[l] = None

Writable(l) == wr[l] = None /\ \A t \in Threads : rd[l][t] = 0

RLock(l, t) ==
    /\ Readable(l)
    /\ rd' = [rd EXCEPT ![l][t] = @ + 1]

RUnlock(l, t) == rd' = [rd EXCEPT ![l][t] = @ - 1]

----------------------------------------------------------------------------
(* Start: initParser runs before there are other threads. *)

AddParser(n) ==
    /\ \A t \in Threads : pc[t] = "notStarted"
    /\ n \notin mapName
    /\ mapName' = mapName \cup {n}
    /\ UNCHANGED <<mapType, rd, wr, pc, arg>>

Start ==
    /\ mapName = Names
    /\ \A t \in Threads : pc[t] = "notStarted"
    /\ pc' = [t \in Threads |-> "idle"]
    /\ UNCHANGED <<mapName, mapType, rd, wr, arg>>

----------------------------------------------------------------------------
(* setParser: the lock of the names is held while the other one is taken;     *)
(* None stands for a name that is not registered                              *)

SetParser(t, u, n) ==
    /\ Goto(t, "idle", "find")
    /\ RLock("name", t)
    /\ arg' = [arg EXCEPT ![t] = [type |-> u, name |-> n]]
    /\ UNCHANGED <<mapName, mapType, wr>>

\* Mutant: a name that is not registered is looked up again.
SetFindAgain(t) ==
    /\ Goto(t, "find", IF arg[t].name \in mapName THEN "wLock" ELSE "find")
    /\ UNCHANGED <<mapName, mapType, rd, wr, arg>>

SetFind(t) ==
    /\ Goto(t, "find", IF arg[t].name \in mapName THEN "wLock" ELSE "setDone")
    /\ UNCHANGED <<mapName, mapType, rd, wr, arg>>

\* Mutant: the lock of the types is not asked for.
SetLockFree(t) ==
    /\ Goto(t, "wLock", "set")
    /\ wr' = [wr EXCEPT !["type"] = t]
    /\ UNCHANGED <<mapName, mapType, rd, arg>>

\* Mutant: a writer is not kept out by read locks of its own thread.
SetLockOwn(t) ==
    /\ Goto(t, "wLock", "set")
    /\ Readable("type") /\ \A u \in Threads \ {t} : rd["type"][u] = 0
    /\ wr' = [wr EXCEPT !["type"] = t]
    /\ UNCHANGED <<mapName, mapType, rd, arg>>

SetLock(t) ==
    /\ Goto(t, "wLock", "set")
    /\ Writable("type")
    /\ wr' = [wr EXCEPT !["type"] = t]
    /\ UNCHANGED <<mapName, mapType, rd, arg>>

\* Mutant: setParser returns with the lock of the types.
SetTypeKeepsLock(t) ==
    /\ Goto(t, "set", "setDone")
    /\ mapType' = [mapType EXCEPT ![arg[t].type] = arg[t].name]
    /\ UNCHANGED <<mapName, rd, wr, arg>>

SetType(t) ==
    /\ Goto(t, "set", "setDone")
    /\ mapType' = [mapType EXCEPT ![arg[t].type] = arg[t].name]
    /\ wr' = [wr EXCEPT !["type"] = None]
    /\ UNCHANGED <<mapName, rd, arg>>

\* Mutant: the lock of the names is kept.
SetDoneKeepsLock(t) ==
    /\ Goto(t, "setDone", "idle")
    /\ arg' = [arg EXCEPT ![t] = NoArg]
    /\ UNCHANGED <<mapName, mapType, rd, wr>>

SetDone(t) ==
    /\ Goto(t, "setDone", "idle")
    /\ RUnlock("name", t)
    /\ arg' = [arg EXCEPT ![t] = NoArg]
    /\ UNCHANGED <<mapName, mapType, wr>>

(* getParser, called by the event thread                                      *)

GetParser(t, u) ==
    /\ t = EventThread
    /\ Goto(t, "idle", "get")
    /\ RLock("type", t)
    /\ arg' = [arg EXCEPT ![t] = [type |-> u, name |-> None]]
    /\ UNCHANGED <<mapName, mapType, wr>>

\* Reads m_mapType and unlocks; what it has found is used without the lock,
\* parsers live as long as the process.
GetUnlock(t) ==
    /\ Goto(t, "get", "idle")
    /\ RUnlock("type", t)
    /\ arg' = [arg EXCEPT ![t] = NoArg]
    /\ UNCHANGED <<mapName, mapType, wr>>

(* getParserNam, which returns a name it has found with the lock still held   *)

GetParserNam(t, u) ==
    /\ rd["type"][t] < MaxLeft
    /\ Goto(t, "idle", "nam")
    /\ RLock("type", t)
    /\ arg' = [arg EXCEPT ![t] = [type |-> u, name |-> None]]
    /\ UNCHANGED <<mapName, mapType, wr>>

NamFound(t) ==
    /\ Goto(t, "nam", "idle")
    /\ mapType[arg[t].type] # None
    /\ arg' = [arg EXCEPT ![t] = NoArg]
    /\ UNCHANGED <<mapName, mapType, rd, wr>>

NamUnknown(t) ==
    /\ Goto(t, "nam", "idle")
    /\ mapType[arg[t].type] = None
    /\ RUnlock("type", t)
    /\ arg' = [arg EXCEPT ![t] = NoArg]
    /\ UNCHANGED <<mapName, mapType, wr>>

----------------------------------------------------------------------------

Call(t) ==
    \/ \E u \in SetTypes, n \in Names \cup {None} : SetParser(t, u, n)
    \/ \E u \in Types : GetParser(t, u)
    \/ \E u \in NamedTypes : GetParserNam(t, u)

Step(t) ==
    \/ SetFind(t) \/ SetType(t) \/ SetDone(t)
    \/ GetUnlock(t)
    \/ NamFound(t) \/ NamUnknown(t)

Next ==
    \/ \E n \in Names : AddParser(n)
    \/ Start
    \/ \E t \in Threads : Call(t) \/ Step(t) \/ SetLock(t)

Spec == Init /\ [][Next]_vars

\* Calls return unless a lock keeps them, and a writer that waits gets a lock
\* that is free over and over.
FairSpec ==
    Spec /\ \A t \in Threads : WF_vars(Step(t)) /\ SF_vars(SetLock(t))

----------------------------------------------------------------------------
(* Properties                                                                 *)

TypeOK ==
    /\ mapName \subseteq Names
    /\ mapType \in [Types -> Names \cup {None}]
    /\ rd \in [Locks -> [Threads -> 0 .. MaxLeft + 1]]
    /\ wr \in [Locks -> Threads \cup {None}]
    /\ pc \in [Threads -> {"notStarted", "idle", "find", "wLock", "set",
                           "setDone", "get", "nam"}]
    /\ arg \in [Threads -> [type : Types \cup {None}, name : Names \cup {None}]]

\* While setParser writes m_mapType, no other thread is inside getParser,
\* getParserNam or another setParser's write.
TypesAreGuarded ==
    \A t, u \in Threads :
        pc[t] = "set" /\ pc[u] \in {"set", "get", "nam"} => t = u

\* A thread that is in none of the calls holds no lock.  Only getParserNam can
\* leave it one, once a type that is asked for by name has a parser.
LocksAreGivenBack ==
    \A t \in Threads : pc[t] = "idle" =>
        /\ rd["name"][t] = 0
        /\ \A l \in Locks : wr[l] # t
        /\ rd["type"][t] > 0 => \E u \in NamedTypes : mapType[u] # None

\* The thread has a read lock of the types that an earlier getParserNam has left
\* it, wherever it is now: more than the call it is in has taken.
Kept(t) == rd["type"][t] > (IF pc[t] \in {"get", "nam"} THEN 1 ELSE 0)

\* A read lock that getParserNam has left behind stays for ever, and freezes the
\* registry: no setParser changes a type from then on, in whatever thread, that
\* one included.
LeftLockFreezesTypes ==
    [][\A t \in Threads : Kept(t) => UNCHANGED mapType /\ Kept(t)']_vars

\* setParser returns, so that its caller, a service or the scripts' onStart,
\* goes on.
SetParserReturns == \A t \in Threads : pc[t] = "find" ~> pc[t] = "idle"

\* It does, unless a read lock has been left behind, or reads overlap before the
\* write lock is its own: the lock prefers readers, and two threads that keep
\* reading can shut a writer out for ever.
SetParserReturnsUnlessRead ==
    \A t \in Threads :
        pc[t] = "find" ~>
            (\/ pc[t] = "idle"
             \/ \E u \in Threads : pc[u] \notin {"get", "nam"} /\ rd["type"][u] > 0
             \/ \E u, v \in Threads : u # v /\ rd["type"][u] > 0 /\ rd["type"][v] > 0)

=============================================================================
