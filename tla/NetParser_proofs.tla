-------------------------- MODULE NetParser_proofs -------------------------
(* The registry with any threads, parsers and socket types.                   *)
EXTENDS NetParser, TLAPS

\* A thread in setParser holds one read lock of the names.
NamesHeld ==
    \A t \in Threads :
        rd["name"][t] = IF pc[t] \in {"find", "wLock", "set", "setDone"} THEN 1 ELSE 0

\* A thread that reads the types holds a read lock of them; other threads may
\* have been left with some.
TypesHeld ==
    \A t \in Threads :
        /\ pc[t] \in {"get", "nam"} => rd["type"][t] > 0
        /\ pc[t] # "get" => rd["type"][t] <= MaxLeft

\* The writer is the thread that writes, and keeps all readers out.
WriterWrites ==
    /\ wr["name"] = None
    /\ \A t \in Threads : pc[t] = "set" <=> wr["type"] = t
    /\ wr["type"] # None => \A t \in Threads : rd["type"][t] = 0

IInv == TypeOK /\ NamesHeld /\ TypesHeld /\ WriterWrites

LEMMA Initially == Init => IInv
    BY NetParserAssumption
    DEF Init, IInv, TypeOK, NamesHeld, TypesHeld, WriterWrites, Locks, NoArg

\* One more read lock, and one less.
LEMMA RLockCounts ==
    ASSUME IInv, NEW l \in Locks, NEW t \in Threads, RLock(l, t),
           rd[l][t] <= MaxLeft
    PROVE  /\ wr[l] = None
           /\ rd' \in [Locks -> [Threads -> 0 .. MaxLeft + 1]]
           /\ rd'[l][t] = rd[l][t] + 1
           /\ \A k \in Locks, u \in Threads :
                 k # l \/ u # t => rd'[k][u] = rd[k][u]
    BY NetParserAssumption DEF IInv, TypeOK, RLock, Readable

LEMMA RUnlockCounts ==
    ASSUME IInv, NEW l \in Locks, NEW t \in Threads, RUnlock(l, t), rd[l][t] > 0
    PROVE  /\ rd' \in [Locks -> [Threads -> 0 .. MaxLeft + 1]]
           /\ rd'[l][t] = rd[l][t] - 1
           /\ \A k \in Locks, u \in Threads :
                 k # l \/ u # t => rd'[k][u] = rd[k][u]
    BY NetParserAssumption DEF IInv, TypeOK, RUnlock

LEMMA StepKeeps == IInv /\ [Next]_vars => IInv'
<1> SUFFICES ASSUME IInv, [Next]_vars
             PROVE  IInv'
    OBVIOUS
<1> USE NetParserAssumption DEF IInv, TypeOK, NamesHeld, TypesHeld, WriterWrites
<1>1. ASSUME NEW n \in Names, AddParser(n)
      PROVE  IInv'
    BY <1>1 DEF AddParser
<1>2. CASE Start
    BY <1>2 DEF Start
<1>3. ASSUME NEW t \in Threads, NEW u \in SetTypes, NEW n \in Names \cup {None},
             SetParser(t, u, n)
      PROVE  IInv'
    <2>1. pc[t] = "idle" /\ pc' = [pc EXCEPT ![t] = "find"]
        BY <1>3 DEF SetParser, Goto
    <2>2. "name" \in Locks /\ rd["name"][t] = 0
        BY <2>1 DEF Locks
    <2>3. /\ rd' \in [Locks -> [Threads -> 0 .. MaxLeft + 1]]
          /\ rd'["name"][t] = rd["name"][t] + 1
          /\ \A k \in Locks, v \in Threads :
                k # "name" \/ v # t => rd'[k][v] = rd[k][v]
        BY <1>3, <2>2, RLockCounts DEF SetParser
    <2>4. arg' \in [Threads -> [type : Types \cup {None}, name : Names \cup {None}]]
        BY <1>3 DEF SetParser
    <2> QED BY <1>3, <2>1, <2>2, <2>3, <2>4 DEF SetParser, Locks
<1>4. ASSUME NEW t \in Threads, NEW u \in Types, GetParser(t, u)
      PROVE  IInv'
    <2>1. pc[t] = "idle" /\ pc' = [pc EXCEPT ![t] = "get"]
        BY <1>4 DEF GetParser, Goto
    <2>2. "type" \in Locks /\ rd["type"][t] <= MaxLeft
        BY <2>1 DEF Locks
    <2>3. /\ wr["type"] = None
          /\ rd' \in [Locks -> [Threads -> 0 .. MaxLeft + 1]]
          /\ rd'["type"][t] = rd["type"][t] + 1
          /\ \A k \in Locks, v \in Threads :
                k # "type" \/ v # t => rd'[k][v] = rd[k][v]
        BY <1>4, <2>2, RLockCounts DEF GetParser
    <2>4. arg' \in [Threads -> [type : Types \cup {None}, name : Names \cup {None}]]
        BY <1>4 DEF GetParser
    <2> QED BY <1>4, <2>1, <2>2, <2>3, <2>4 DEF GetParser, Locks
<1>5. ASSUME NEW t \in Threads, NEW u \in NamedTypes, GetParserNam(t, u)
      PROVE  IInv'
    <2>1. /\ pc[t] = "idle" /\ pc' = [pc EXCEPT ![t] = "nam"]
          /\ rd["type"][t] < MaxLeft
        BY <1>5 DEF GetParserNam, Goto
    <2>2. "type" \in Locks /\ rd["type"][t] <= MaxLeft
        BY <2>1 DEF Locks
    <2>3. /\ wr["type"] = None
          /\ rd' \in [Locks -> [Threads -> 0 .. MaxLeft + 1]]
          /\ rd'["type"][t] = rd["type"][t] + 1
          /\ \A k \in Locks, v \in Threads :
                k # "type" \/ v # t => rd'[k][v] = rd[k][v]
        BY <1>5, <2>2, RLockCounts DEF GetParserNam
    <2>4. arg' \in [Threads -> [type : Types \cup {None}, name : Names \cup {None}]]
        BY <1>5 DEF GetParserNam
    <2> QED BY <1>5, <2>1, <2>2, <2>3, <2>4 DEF GetParserNam, Locks
<1>6. ASSUME NEW t \in Threads, SetFind(t)
      PROVE  IInv'
    <2>1. PICK to \in {"wLock", "setDone"} : pc[t] = "find" /\ pc' = [pc EXCEPT ![t] = to]
        BY <1>6 DEF SetFind, Goto
    <2> QED BY <1>6, <2>1 DEF SetFind
<1>7. ASSUME NEW t \in Threads, SetLock(t)
      PROVE  IInv'
    <2>1. /\ pc[t] = "wLock" /\ pc' = [pc EXCEPT ![t] = "set"]
          /\ wr["type"] = None
          /\ \A v \in Threads : rd["type"][v] = 0
          /\ wr' = [wr EXCEPT !["type"] = t]
        BY <1>7 DEF SetLock, Goto, Writable
    <2>2. wr' \in [Locks -> Threads \cup {None}] /\ wr'["type"] = t /\ wr'["name"] = None
        BY <2>1 DEF Locks
    <2> QED BY <1>7, <2>1, <2>2 DEF SetLock
<1>8. ASSUME NEW t \in Threads, SetType(t)
      PROVE  IInv'
    <2>1. /\ pc[t] = "set" /\ pc' = [pc EXCEPT ![t] = "setDone"]
          /\ wr["type"] = t
          /\ wr' = [wr EXCEPT !["type"] = None]
        BY <1>8 DEF SetType, Goto
    <2>2. /\ wr' \in [Locks -> Threads \cup {None}]
          /\ wr'["type"] = None /\ wr'["name"] = None
        BY <2>1 DEF Locks
    <2>3. mapType' \in [Types -> Names \cup {None}]
        BY <1>8 DEF SetType
    <2> QED BY <1>8, <2>1, <2>2, <2>3 DEF SetType
<1>9. ASSUME NEW t \in Threads, SetDone(t)
      PROVE  IInv'
    <2>1. pc[t] = "setDone" /\ pc' = [pc EXCEPT ![t] = "idle"]
        BY <1>9 DEF SetDone, Goto
    <2>2. "name" \in Locks /\ rd["name"][t] = 1
        BY <2>1 DEF Locks
    <2>3. /\ rd' \in [Locks -> [Threads -> 0 .. MaxLeft + 1]]
          /\ rd'["name"][t] = rd["name"][t] - 1
          /\ \A k \in Locks, v \in Threads :
                k # "name" \/ v # t => rd'[k][v] = rd[k][v]
        BY <1>9, <2>2, RUnlockCounts DEF SetDone
    <2>4. arg' \in [Threads -> [type : Types \cup {None}, name : Names \cup {None}]]
        BY <1>9 DEF SetDone, NoArg
    <2> QED BY <1>9, <2>1, <2>2, <2>3, <2>4 DEF SetDone, Locks
<1>10. ASSUME NEW t \in Threads, GetUnlock(t) \/ NamUnknown(t)
       PROVE  IInv'
    <2>1. pc[t] \in {"get", "nam"} /\ pc' = [pc EXCEPT ![t] = "idle"]
        BY <1>10 DEF GetUnlock, NamUnknown, Goto
    <2>2. "type" \in Locks /\ rd["type"][t] > 0
        BY <2>1 DEF Locks
    <2>3. /\ rd' \in [Locks -> [Threads -> 0 .. MaxLeft + 1]]
          /\ rd'["type"][t] = rd["type"][t] - 1
          /\ \A k \in Locks, v \in Threads :
                k # "type" \/ v # t => rd'[k][v] = rd[k][v]
        BY <1>10, <2>2, RUnlockCounts DEF GetUnlock, NamUnknown
    <2>4. arg' \in [Threads -> [type : Types \cup {None}, name : Names \cup {None}]]
      <3>1. arg' = [arg EXCEPT ![t] = NoArg]
        BY <1>10 DEF GetUnlock, NamUnknown
      <3> QED BY <3>1 DEF NoArg
    <2>5. UNCHANGED <<mapName, mapType, wr>>
        BY <1>10 DEF GetUnlock, NamUnknown
    <2>6. wr["type"] = None
        BY <2>2
    <2>7. TypeOK'
        BY <2>1, <2>3, <2>4, <2>5
    <2>8. NamesHeld'
        BY <2>1, <2>3 DEF Locks
    <2>9. TypesHeld'
        BY <2>1, <2>2, <2>3
    <2>10. WriterWrites'
        BY <2>1, <2>5, <2>6
    <2> QED BY <2>7, <2>8, <2>9, <2>10
<1>11. ASSUME NEW t \in Threads, NamFound(t)
       PROVE  IInv'
    <2>1. pc[t] = "nam" /\ pc' = [pc EXCEPT ![t] = "idle"]
        BY <1>11 DEF NamFound, Goto
    <2>2. arg' \in [Threads -> [type : Types \cup {None}, name : Names \cup {None}]]
        BY <1>11 DEF NamFound, NoArg
    <2> QED BY <1>11, <2>1, <2>2 DEF NamFound
<1>12. CASE UNCHANGED vars
    BY <1>12 DEF vars
<1> QED BY <1>1, <1>2, <1>3, <1>4, <1>5, <1>6, <1>7, <1>8, <1>9, <1>10, <1>11, <1>12
        DEF Next, Call, Step

LEMMA Inductive == Spec => []IInv
    BY Initially, StepKeeps, PTL DEF Spec

\* No lock of the registry is counted below zero, and no call leaves its states,
\* whatever the threads call.
THEOREM TypeCorrect == Spec => []TypeOK
<1>1. IInv => TypeOK
    BY DEF IInv
<1> QED BY <1>1, Inductive, PTL

\* Nobody reads m_mapType while setParser writes it, with any number of threads.
THEOREM Guarded == Spec => []TypesAreGuarded
<1>1. IInv => TypesAreGuarded
    BY NetParserAssumption DEF IInv, TypeOK, TypesHeld, WriterWrites, TypesAreGuarded
<1> QED BY <1>1, Inductive, PTL

\* A lock that was left stays: what a thread gives back is the lock of the call
\* it is in.
LEMMA KeptStays ==
    ASSUME IInv, [Next]_vars, NEW t \in Threads, Kept(t)
    PROVE  Kept(t)'
<1> USE NetParserAssumption DEF IInv, TypeOK, TypesHeld, Kept, Goto
<1>1. CASE UNCHANGED <<rd, pc>>
    BY <1>1
<1>2. ASSUME NEW n \in Names, AddParser(n)
      PROVE  Kept(t)'
    BY <1>2 DEF AddParser
<1>3. CASE Start
    BY <1>3 DEF Start
<1>4. ASSUME NEW v \in Threads, NEW u \in SetTypes, NEW n \in Names \cup {None},
             SetParser(v, u, n)
      PROVE  Kept(t)'
    BY <1>4 DEF SetParser, RLock, Locks
<1>5. ASSUME NEW v \in Threads, NEW u \in Types, GetParser(v, u)
      PROVE  Kept(t)'
    BY <1>5 DEF GetParser, RLock, Locks
<1>6. ASSUME NEW v \in Threads, NEW u \in NamedTypes, GetParserNam(v, u)
      PROVE  Kept(t)'
    BY <1>6 DEF GetParserNam, RLock, Locks
<1>7. ASSUME NEW v \in Threads, SetFind(v) \/ SetLock(v) \/ SetType(v) \/ NamFound(v)
      PROVE  Kept(t)'
    BY <1>7 DEF SetFind, SetLock, SetType, NamFound
<1>8. ASSUME NEW v \in Threads, SetDone(v)
      PROVE  Kept(t)'
    BY <1>8 DEF SetDone, RUnlock, Locks
<1>9. ASSUME NEW v \in Threads, GetUnlock(v) \/ NamUnknown(v)
      PROVE  Kept(t)'
    BY <1>9 DEF GetUnlock, NamUnknown, RUnlock, Locks
<1> QED BY <1>1, <1>2, <1>3, <1>4, <1>5, <1>6, <1>7, <1>8, <1>9 DEF Next, Call, Step, vars

\* One name that getParserNam has found is enough to freeze the registry for
\* ever: the lock stays, and while it does nobody is where setParser writes.
THEOREM Freezes == Spec => LeftLockFreezesTypes
<1>1. ASSUME IInv, [Next]_vars, NEW t \in Threads, Kept(t)
      PROVE  UNCHANGED mapType /\ Kept(t)'
    <2>1. rd["type"][t] > 0
        BY <1>1, NetParserAssumption DEF Kept, IInv, TypeOK, Locks
    <2>2. wr["type"] = None
        BY <1>1, <2>1, NetParserAssumption DEF IInv, TypeOK, WriterWrites, Locks
    <2>3. \A u \in Threads : pc[u] # "set"
        BY <1>1, <2>2, NetParserAssumption DEF IInv, WriterWrites
    <2>4. ASSUME NEW u \in Threads, SetType(u)
          PROVE  FALSE
        BY <2>3, <2>4 DEF SetType, Goto
    <2>5. UNCHANGED mapType
        BY <1>1, <2>4 DEF Next, Call, Step, vars, AddParser, Start, SetParser, GetParser,
                          GetParserNam, SetFind, SetLock, SetDone, GetUnlock, NamFound,
                          NamUnknown
    <2> QED BY <1>1, <2>5, KeptStays
<1>2. IInv /\ [Next]_vars =>
        [\A t \in Threads : Kept(t) => UNCHANGED mapType /\ Kept(t)']_vars
    BY <1>1
<1> QED BY <1>2, Inductive, PTL DEF Spec, LeftLockFreezesTypes

----------------------------------------------------------------------------
(* What is left behind.                                                       *)

\* As long as no type that is asked for by name has a parser, a thread holds
\* nothing but the lock of the call it is in; and a type never loses its parser.
NothingLeft ==
    /\ \A t \in Threads :
          /\ pc[t] = "nam" => arg[t].type \in NamedTypes
          /\ pc[t] \in {"wLock", "set"} => arg[t].name \in mapName
    /\ (\A u \in NamedTypes : mapType[u] = None) =>
          \A t \in Threads :
              rd["type"][t] = IF pc[t] \in {"get", "nam"} THEN 1 ELSE 0

LEMMA NothingLeftStep == IInv /\ NothingLeft /\ [Next]_vars => NothingLeft'
<1> SUFFICES ASSUME IInv, NothingLeft, [Next]_vars
             PROVE  NothingLeft'
    OBVIOUS
<1> USE NetParserAssumption DEF IInv, TypeOK, NothingLeft, Locks, Goto
<1>1. ASSUME NEW n \in Names, AddParser(n)
      PROVE  NothingLeft'
    BY <1>1 DEF AddParser
<1>2. CASE Start
    BY <1>2 DEF Start
<1>3. ASSUME NEW t \in Threads, NEW u \in SetTypes, NEW n \in Names \cup {None},
             SetParser(t, u, n)
      PROVE  NothingLeft'
    BY <1>3 DEF SetParser, RLock
<1>4. ASSUME NEW t \in Threads, NEW u \in Types, GetParser(t, u)
      PROVE  NothingLeft'
    BY <1>4 DEF GetParser, RLock
<1>5. ASSUME NEW t \in Threads, NEW u \in NamedTypes, GetParserNam(t, u)
      PROVE  NothingLeft'
    BY <1>5 DEF GetParserNam, RLock
<1>6. ASSUME NEW t \in Threads, SetFind(t)
      PROVE  NothingLeft'
    BY <1>6 DEF SetFind
<1>7. ASSUME NEW t \in Threads, SetLock(t)
      PROVE  NothingLeft'
    BY <1>7 DEF SetLock
<1>8. ASSUME NEW t \in Threads, SetType(t)
      PROVE  NothingLeft'
    <2>1. pc[t] = "set" /\ arg[t].name \in Names /\ arg[t].name # None
        BY <1>8 DEF SetType
    <2>2. \A u \in NamedTypes : mapType'[u] = None => mapType[u] = None
        BY <1>8, <2>1 DEF SetType
    <2> QED BY <1>8, <2>2 DEF SetType
<1>9. ASSUME NEW t \in Threads, SetDone(t)
      PROVE  NothingLeft'
    BY <1>9 DEF SetDone, RUnlock
<1>10. ASSUME NEW t \in Threads, GetUnlock(t) \/ NamUnknown(t)
       PROVE  NothingLeft'
    <2>1. /\ pc[t] \in {"get", "nam"} /\ pc' = [pc EXCEPT ![t] = "idle"]
          /\ rd' = [rd EXCEPT !["type"][t] = @ - 1]
          /\ UNCHANGED <<mapName, mapType>>
        BY <1>10 DEF GetUnlock, NamUnknown, RUnlock
    <2>2. \A u \in Threads :
             rd'["type"][u] = IF u = t THEN rd["type"][u] - 1 ELSE rd["type"][u]
        BY <2>1
    <2>3. \A u \in Threads \ {t} : pc'[u] = pc[u] /\ arg'[u] = arg[u]
        BY <1>10, <2>1 DEF GetUnlock, NamUnknown
    <2>4. \A u \in Threads :
             /\ pc'[u] = "nam" => arg'[u].type \in NamedTypes
             /\ pc'[u] \in {"wLock", "set"} => arg'[u].name \in mapName'
        BY <2>1, <2>3
    <2>5. ASSUME \A u \in NamedTypes : mapType'[u] = None, NEW u \in Threads
          PROVE  rd'["type"][u] = IF pc'[u] \in {"get", "nam"} THEN 1 ELSE 0
        BY <2>1, <2>2, <2>3, <2>5
    <2> QED BY <2>4, <2>5
<1>11. ASSUME NEW t \in Threads, NamFound(t)
       PROVE  NothingLeft'
    BY <1>11 DEF NamFound
<1>12. CASE UNCHANGED vars
    BY <1>12 DEF vars
<1> QED BY <1>1, <1>2, <1>3, <1>4, <1>5, <1>6, <1>7, <1>8, <1>9, <1>10, <1>11, <1>12
        DEF Next, Call, Step

\* Every call gives its locks back, whatever the threads call, until a type that
\* is asked for by name has a parser.
THEOREM GivesBack == Spec => []LocksAreGivenBack
<1>1. Init => NothingLeft
    BY NetParserAssumption DEF Init, NothingLeft, Locks
<1>2. IInv /\ NothingLeft => LocksAreGivenBack
    BY NetParserAssumption
    DEF IInv, TypeOK, NamesHeld, WriterWrites, NothingLeft, LocksAreGivenBack, Locks
<1>3. IInv /\ NothingLeft /\ [Next]_vars => NothingLeft'
    BY NothingLeftStep
<1> QED BY <1>1, <1>2, <1>3, Inductive, PTL DEF Spec

=============================================================================
