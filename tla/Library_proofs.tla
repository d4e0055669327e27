--------------------------- MODULE Library_proofs ---------------------------
(* Proofs about the parts that share no state: the watchdog, the lock and the *)
(* process, under the names they have in MCLibrary, and the identifiers, the  *)
(* ring and the pool.                                                         *)
EXTENDS MCLibrary, SequenceTheorems, FiniteSetTheorems, TLAPS

----------------------------------------------------------------------------
(* The watchdog: Watchdog, for any number of workers and services             *)

DogTypes ==
    /\ pcWorker \in [Dog!Workers -> {"free", "named", "running", "stuck", "unnamed"}]
    /\ m_pMonitor \in [Dog!Workers -> [uiVersion : Nat, uiCheckVersion : Nat,
                                       pName : Tasks \union {NoName}]]
    /\ usI \in Dog!Workers
    /\ looks \in [Dog!Workers -> 0 .. 2]

\* The version that was kept is one the worker has had; while its run has not
\* been looked at, one it had before.
DogInv ==
    /\ DogTypes
    /\ \A w \in Dog!Workers :
         /\ m_pMonitor[w].uiCheckVersion <= m_pMonitor[w].uiVersion
         /\ pcWorker[w] \in {"running", "stuck"} /\ looks[w] = 0 =>
              m_pMonitor[w].uiCheckVersion < m_pMonitor[w].uiVersion
    /\ WatchdogHasSeen

LEMMA DogInit == Dog!Init => DogInv
  BY LibraryAssumption DEF Dog!Init, DogInv, DogTypes, WatchdogHasSeen,
     Dog!SuspectsWereSeen, Dog!Workers, Dog!WatchdogAssumption

\* The remainder of the loop's index is a worker.
LEMMA NextIndex ==
    ASSUME NEW i \in Dog!Workers
    PROVE  (i + 1) % m_usMonitorNum \in Dog!Workers
<1>1. m_usMonitorNum \in Nat /\ m_usMonitorNum > 0 /\ i + 1 \in Nat
  BY LibraryAssumption DEF Dog!Workers, Dog!WatchdogAssumption
<1>2. \A k \in Nat, n \in Nat : n > 0 => k % n \in 0 .. n - 1
  OBVIOUS
<1> QED
  BY <1>1, <1>2 DEF Dog!Workers

\* The steps of a worker.
LEMMA DogWorker ==
    ASSUME DogInv, NEW w \in Dog!Workers, Dog!Worker(w)
    PROVE  DogInv'
<1> USE LibraryAssumption DEF DogInv, DogTypes, WatchdogHasSeen, Dog!SuspectsWereSeen,
        Dog!WatchdogAssumption, Dog!monitorVars
<1>1. ASSUME NEW t \in Tasks, Dog!NameTask(w, t)
      PROVE  DogInv'
  BY <1>1 DEF Dog!NameTask, Dog!WriteName
<1>2. CASE Dog!BeginRun(w)
  BY <1>2 DEF Dog!BeginRun, Dog!CountVersion
<1>3. CASE Dog!LoopForever(w)
  BY <1>3 DEF Dog!LoopForever
<1>4. CASE Dog!UnnameTask(w)
  BY <1>4 DEF Dog!UnnameTask, Dog!WriteName
<1>5. CASE Dog!EndRun(w)
  <2>1. DogTypes'
    BY <1>5 DEF Dog!EndRun, Dog!CountVersion
  <2>2. \A v \in Dog!Workers :
          /\ m_pMonitor'[v].uiCheckVersion = m_pMonitor[v].uiCheckVersion
          /\ m_pMonitor'[v].uiVersion >= m_pMonitor[v].uiVersion
          /\ pcWorker'[v] \in {"running", "stuck"} => pcWorker[v] \in {"running", "stuck"}
    BY <1>5 DEF Dog!EndRun, Dog!CountVersion
  <2>3. usI' = usI /\ pcMonitor' = pcMonitor /\ looks' = looks
    BY <1>5 DEF Dog!EndRun
  <2> QED
    BY <2>1, <2>2, <2>3
<1> QED
  BY <1>1, <1>2, <1>3, <1>4, <1>5 DEF Dog!Worker

\* The steps of the timer thread.
LEMMA DogMonitor ==
    ASSUME DogInv, Dog!Monitor
    PROVE  DogInv'
<1> USE LibraryAssumption DEF DogInv, DogTypes, WatchdogHasSeen, Dog!SuspectsWereSeen,
        Dog!WatchdogAssumption, Dog!workerVars
<1>1. CASE Dog!StartCheck
  BY <1>1 DEF Dog!StartCheck
<1>2. CASE Dog!ReadVersion
  <2>1. PICK i \in Dog!Workers : i = usI
    OBVIOUS
  <2>2. /\ looks' \in [Dog!Workers -> 0 .. 2]
        /\ looks'[i] = IF looks[i] < 2 THEN looks[i] + 1 ELSE 2
        /\ \A v \in Dog!Workers : v # i => looks'[v] = looks[v]
    BY <1>2, <2>1 DEF Dog!ReadVersion
  <2>3. pcWorker' = pcWorker
    BY <1>2 DEF Dog!ReadVersion
  <2>4. CASE uiVer' = m_pMonitor[usI].uiCheckVersion
    <3>1. m_pMonitor' = m_pMonitor /\ usI' = i
      BY <1>2, <2>1, <2>4 DEF Dog!ReadVersion
    <3>2. ~(pcWorker[i] \in {"running", "stuck"} /\ looks[i] = 0)
      <4>1. m_pMonitor[i].uiVersion = m_pMonitor[i].uiCheckVersion
        BY <1>2, <2>1, <2>4 DEF Dog!ReadVersion
      <4>2. m_pMonitor[i].uiVersion \in Nat
        OBVIOUS
      <4> QED
        BY <4>1, <4>2
    <3>3. pcWorker[i] \in {"running", "stuck"} => looks'[i] = 2
      BY <2>2, <3>2
    <3> QED
      BY <2>2, <2>3, <3>1, <3>3
  <2>5. CASE uiVer' # m_pMonitor[usI].uiCheckVersion
    <3>1. usI' \in Dog!Workers /\ pcMonitor' \notin {"name", "log"}
      BY <1>2, <2>5, NextIndex DEF Dog!ReadVersion, Dog!NextWorker
    <3>2. m_pMonitor' = [m_pMonitor EXCEPT ![i].uiCheckVersion = m_pMonitor[i].uiVersion]
      BY <1>2, <2>1, <2>5 DEF Dog!ReadVersion
    <3>3. /\ m_pMonitor' \in [Dog!Workers -> [uiVersion : Nat, uiCheckVersion : Nat,
                                              pName : Tasks \union {NoName}]]
          /\ m_pMonitor'[i].uiCheckVersion = m_pMonitor'[i].uiVersion
          /\ \A v \in Dog!Workers : v # i => m_pMonitor'[v] = m_pMonitor[v]
      BY <3>2
    <3>4. looks'[i] # 0
      BY <2>2
    <3> QED
      BY <2>2, <2>3, <3>1, <3>3, <3>4
  <2> QED
    BY <2>4, <2>5
<1>3. CASE Dog!TestName
  BY <1>3, NextIndex DEF Dog!TestName, Dog!NextWorker
<1>4. CASE Dog!LogTask
  BY <1>4, NextIndex DEF Dog!LogTask, Dog!NextWorker
<1> QED
  BY <1>1, <1>2, <1>3, <1>4 DEF Dog!Monitor

\* The watchdog does not suspect a run that it has looked at only once,
\* although it takes no lock, and a worker may end one run and begin the next
\* between any two of its accesses.
THEOREM SuspectsSeenTwice == Dog!Spec => []WatchdogHasSeen
<1>1. DogInv /\ [Dog!Next]_Dog!vars => DogInv'
  <2> SUFFICES ASSUME DogInv, [Dog!Next]_Dog!vars PROVE DogInv'
    OBVIOUS
  <2>1. CASE UNCHANGED Dog!vars
    BY <2>1 DEF Dog!vars, DogInv, DogTypes, WatchdogHasSeen, Dog!SuspectsWereSeen
  <2> QED
    BY <2>1, DogWorker, DogMonitor DEF Dog!Next
<1>2. DogInv => WatchdogHasSeen
  BY DEF DogInv
<1> QED
  BY DogInit, <1>1, <1>2, PTL DEF Dog!Spec

----------------------------------------------------------------------------
(* The lock: RWLock, for any number of threads, of which one may both read    *)
(* and write if no other reads                                                *)

At(labels) == {t \in Lock!Threads : pcLock[t] \in labels}

HasWrite == {"rCount", "rEnter", "rLeave", "wEnter", "wFlag", "writing", "uFlag",
             "uLeaveRead", "uLeaveWrite"}

\* Readers that are counted, those of them that hold m_Read_Lock together,
\* those that are about to leave it, and the writer that holds it.
Counted == At({"rEnter", "rLeave", "reading", "uCount"})
Sharing == At({"rLeave", "reading", "uCount"})
Leaving == At({"uLast"})
Writing == At({"wFlag", "writing", "uFlag", "uLeaveRead"})

ReaderAt == {"rCount", "rEnter", "rLeave", "reading", "uCount", "uLast"}
WriterAt == {"wEnter", "wFlag", "writing", "uFlag", "uLeaveRead", "uLeaveWrite"}

\* A thread is in the calls of its kind.
MayBeAt(t, label) ==
    /\ label \in {"idle"} \cup ReaderAt \cup WriterAt
    /\ label \in ReaderAt => t \in Readers
    /\ label \in WriterAt => t \in Writers

SectionsType ==
    cs \in [{"Write", "Read"} -> [owner : Lock!Threads \cup {NoThread}, depth : Nat]]

PcType ==
    /\ pcLock \in [Lock!Threads -> {"idle"} \cup ReaderAt \cup WriterAt]
    /\ \A t \in Lock!Threads : MayBeAt(t, pcLock[t])

LockTypes == SectionsType /\ PcType /\ lReader_Count \in Nat /\ bEnter_Writer \in BOOLEAN

\* m_Write_Lock is held by one thread, once.
WriteInv ==
    /\ cs["Write"].depth \in {0, 1}
    /\ \A t \in Lock!Threads :
         pcLock[t] \in HasWrite <=> cs["Write"].depth = 1 /\ cs["Write"].owner = t

\* m_lReader_Count counts the readers, and the first one is alone while it
\* waits for m_Read_Lock.
CountInv ==
    /\ lReader_Count = Cardinality(Counted)
    /\ \A t \in Lock!Threads : pcLock[t] = "rEnter" => Counted = {t}

\* Each reader that is about to leave m_Read_Lock entered it, and the readers
\* that share it entered it once: it is a reader's until all are out, and a
\* writer has it only when no reader has.
ReadInv ==
    /\ cs["Read"].depth = Cardinality(Leaving)
                            + (IF Sharing = {} THEN 0 ELSE 1) + (IF Writing = {} THEN 0 ELSE 1)
    /\ Writing # {} => Sharing = {} /\ Leaving = {}
    /\ Sharing \cup Leaving # {} => cs["Read"].owner \in Readers

\* The flag is the writer's.
FlagInv == bEnter_Writer <=> At({"writing", "uFlag"}) # {}

LockInv == LockTypes /\ WriteInv /\ CountInv /\ ReadInv /\ FlagInv

\* A thread that both reads and writes is the only one that reads.  So the locks
\* are used: m_objNameLck is written before there are other threads, and the
\* event thread, which reads m_objTypeLck, is the one that start.lua has write it.
\* The code needs it: the section of the readers belongs to one of their threads,
\* which as a writer would enter it again while the others still read.
AloneIfBoth ==
    /\ \A t \in Readers \cap Writers : Readers = {t}
    /\ IsFiniteSet(Lock!Threads)

LEMMA LockInit == AloneIfBoth /\ Lock!Init => LockInv
<1> SUFFICES ASSUME AloneIfBoth, Lock!Init PROVE LockInv
  OBVIOUS
<1>1. \A S : At(S) = {} \/ "idle" \in S
  BY DEF Lock!Init, At
<1>2. Counted = {} /\ Sharing = {} /\ Leaving = {} /\ Writing = {} /\ At({"writing", "uFlag"}) = {}
  BY <1>1 DEF Counted, Sharing, Leaving, Writing
<1>3. Cardinality({}) = 0
  BY FS_EmptySet
<1>4. LockTypes
  <2>1. SectionsType
    BY DEF SectionsType, Lock!Init
  <2>2. PcType
    BY DEF PcType, MayBeAt, Lock!Init, ReaderAt, WriterAt, Lock!Threads
  <2> QED
    BY <2>1, <2>2 DEF LockTypes, Lock!Init
<1>5. WriteInv
  BY DEF WriteInv, Lock!Init, HasWrite
<1>6. CountInv
  BY <1>2, <1>3 DEF CountInv, Lock!Init
<1>7. ReadInv
  BY <1>2, <1>3 DEF ReadInv, Lock!Init
<1>8. FlagInv
  BY <1>2 DEF FlagInv, Lock!Init
<1> QED
  BY <1>4, <1>5, <1>6, <1>7, <1>8 DEF LockInv

\* What a step of one thread does to the labels and the groups.
LEMMA PcMoved ==
    ASSUME PcType, NEW t \in Lock!Threads, NEW from, NEW to, Lock!Goto(t, from, to),
           MayBeAt(t, to)
    PROVE  /\ PcType'
           /\ pcLock[t] = from /\ pcLock'[t] = to
           /\ \A u \in Lock!Threads : u # t => pcLock'[u] = pcLock[u]
<1>1. pcLock[t] = from /\ pcLock'[t] = to
  BY DEF PcType, Lock!Goto
<1>2. \A u \in Lock!Threads : u # t => pcLock'[u] = pcLock[u]
  BY DEF PcType, Lock!Goto
<1>3. DOMAIN pcLock' = Lock!Threads /\ pcLock' = [u \in DOMAIN pcLock' |-> pcLock'[u]]
  BY DEF PcType, Lock!Goto
<1>4. \A u \in Lock!Threads : MayBeAt(u, pcLock'[u])
  BY <1>1, <1>2 DEF PcType
<1>5. pcLock' \in [Lock!Threads -> {"idle"} \cup ReaderAt \cup WriterAt]
  BY <1>3, <1>4 DEF MayBeAt
<1> QED
  BY <1>1, <1>2, <1>4, <1>5 DEF PcType

LEMMA GroupMoved ==
    ASSUME NEW t \in Lock!Threads, NEW S, NEW to, pcLock'[t] = to,
           \A u \in Lock!Threads : u # t => pcLock'[u] = pcLock[u]
    PROVE  /\ At(S)' = IF to \in S THEN At(S) \cup {t} ELSE At(S) \ {t}
           /\ pcLock[t] \in S <=> t \in At(S)
  BY DEF At

\* How the calls of the system change a section.
LEMMA SectionEntered ==
    ASSUME SectionsType, NEW l \in {"Write", "Read"}, NEW t \in Lock!Threads, Lock!Enter(l, t)
    PROVE  /\ SectionsType'
           /\ cs[l].depth = 0 \/ cs[l].owner = t
           /\ cs'[l].owner = t /\ cs'[l].depth = cs[l].depth + 1
           /\ \A m \in {"Write", "Read"} : m # l => cs'[m] = cs[m]
  BY DEF SectionsType, Lock!Enter

LEMMA SectionLeft ==
    ASSUME SectionsType, NEW l \in {"Write", "Read"}, cs[l].depth # 0, Lock!Leave(l)
    PROVE  /\ SectionsType'
           /\ cs'[l].depth = cs[l].depth - 1
           /\ cs[l].depth # 1 => cs'[l].owner = cs[l].owner
           /\ \A m \in {"Write", "Read"} : m # l => cs'[m] = cs[m]
  BY DEF SectionsType, Lock!Leave

LEMMA GroupSizes ==
    ASSUME AloneIfBoth
    PROVE  /\ Counted \subseteq Lock!Threads /\ IsFiniteSet(Counted)
           /\ Leaving \subseteq Lock!Threads /\ IsFiniteSet(Leaving)
           /\ Cardinality(Counted) \in Nat /\ Cardinality(Leaving) \in Nat
           /\ Cardinality(Counted) = 0 <=> Counted = {}
           /\ Cardinality(Leaving) = 0 <=> Leaving = {}
           /\ \A t : t \in Counted => Cardinality(Counted \ {t}) = Cardinality(Counted) - 1
           /\ \A t : t \in Leaving => Cardinality(Leaving \ {t}) = Cardinality(Leaving) - 1
           /\ \A t : t \notin Counted => Cardinality(Counted \cup {t}) = Cardinality(Counted) + 1
           /\ \A t : t \notin Leaving => Cardinality(Leaving \cup {t}) = Cardinality(Leaving) + 1
<1>1. Counted \subseteq Lock!Threads /\ Leaving \subseteq Lock!Threads
  BY DEF Counted, Leaving, At
<1>2. IsFiniteSet(Counted) /\ IsFiniteSet(Leaving)
  BY <1>1, FS_Subset DEF AloneIfBoth
<1>3. /\ Cardinality(Counted) \in Nat /\ Cardinality(Leaving) \in Nat
      /\ Cardinality(Counted) = 0 <=> Counted = {}
      /\ Cardinality(Leaving) = 0 <=> Leaving = {}
  BY <1>2, FS_CardinalityType, FS_EmptySet
<1>4. /\ \A t : t \in Counted => Cardinality(Counted \ {t}) = Cardinality(Counted) - 1
      /\ \A t : t \in Leaving => Cardinality(Leaving \ {t}) = Cardinality(Leaving) - 1
  BY <1>2, FS_RemoveElement
<1>5. /\ \A t : t \notin Counted => Cardinality(Counted \cup {t}) = Cardinality(Counted) + 1
      /\ \A t : t \notin Leaving => Cardinality(Leaving \cup {t}) = Cardinality(Leaving) + 1
  BY <1>2, FS_AddElement
<1> QED
  BY <1>1, <1>2, <1>3, <1>4, <1>5

LEMMA GroupsMoved ==
    ASSUME NEW t \in Lock!Threads, NEW from, NEW to, pcLock[t] = from, pcLock'[t] = to,
           \A u \in Lock!Threads : u # t => pcLock'[u] = pcLock[u]
    PROVE  /\ Counted' = IF to \in {"rEnter", "rLeave", "reading", "uCount"}
                         THEN Counted \cup {t} ELSE Counted \ {t}
           /\ Sharing' = IF to \in {"rLeave", "reading", "uCount"}
                         THEN Sharing \cup {t} ELSE Sharing \ {t}
           /\ Leaving' = IF to = "uLast" THEN Leaving \cup {t} ELSE Leaving \ {t}
           /\ Writing' = IF to \in {"wFlag", "writing", "uFlag", "uLeaveRead"}
                         THEN Writing \cup {t} ELSE Writing \ {t}
           /\ t \in Counted <=> from \in {"rEnter", "rLeave", "reading", "uCount"}
           /\ t \in Sharing <=> from \in {"rLeave", "reading", "uCount"}
           /\ t \in Leaving <=> from = "uLast"
           /\ t \in Writing <=> from \in {"wFlag", "writing", "uFlag", "uLeaveRead"}
<1>1. /\ Counted' = IF to \in {"rEnter", "rLeave", "reading", "uCount"}
                    THEN Counted \cup {t} ELSE Counted \ {t}
      /\ t \in Counted <=> from \in {"rEnter", "rLeave", "reading", "uCount"}
  BY DEF Counted, At
<1>2. /\ Sharing' = IF to \in {"rLeave", "reading", "uCount"}
                    THEN Sharing \cup {t} ELSE Sharing \ {t}
      /\ t \in Sharing <=> from \in {"rLeave", "reading", "uCount"}
  BY DEF Sharing, At
<1>3. /\ Leaving' = IF to = "uLast" THEN Leaving \cup {t} ELSE Leaving \ {t}
      /\ t \in Leaving <=> from = "uLast"
  BY DEF Leaving, At
<1>4. /\ Writing' = IF to \in {"wFlag", "writing", "uFlag", "uLeaveRead"}
                    THEN Writing \cup {t} ELSE Writing \ {t}
      /\ t \in Writing <=> from \in {"wFlag", "writing", "uFlag", "uLeaveRead"}
  BY DEF Writing, At
<1> QED
  BY <1>1, <1>2, <1>3, <1>4

LEMMA GroupsKept ==
    ASSUME NEW t \in Lock!Threads,
           \A u \in Lock!Threads : u # t => pcLock'[u] = pcLock[u],
           \/ pcLock[t] \in {"idle", "rCount", "wEnter", "uLeaveWrite"}
              /\ pcLock'[t] \in {"idle", "rCount", "wEnter", "uLeaveWrite"}
           \/ pcLock[t] \in {"rLeave", "reading", "uCount"}
              /\ pcLock'[t] \in {"rLeave", "reading", "uCount"}
           \/ pcLock[t] \in {"wFlag", "writing", "uFlag", "uLeaveRead"}
              /\ pcLock'[t] \in {"wFlag", "writing", "uFlag", "uLeaveRead"}
    PROVE  Counted' = Counted /\ Sharing' = Sharing /\ Leaving' = Leaving /\ Writing' = Writing
<1>1. Counted' = Counted
  BY DEF Counted, At
<1>2. Sharing' = Sharing
  BY DEF Sharing, At
<1>3. Leaving' = Leaving
  BY DEF Leaving, At
<1>4. Writing' = Writing
  BY DEF Writing, At
<1> QED
  BY <1>1, <1>2, <1>3, <1>4

\* Most steps change no group, or none but the writer's, and leave m_Read_Lock
\* alone.
LEMMA CountKept ==
    ASSUME CountInv, Counted' = Counted, lReader_Count' = lReader_Count,
           \A u \in Lock!Threads : pcLock'[u] = "rEnter" => pcLock[u] = "rEnter"
    PROVE  CountInv'
  BY DEF CountInv

LEMMA ReadKept ==
    ASSUME ReadInv, Sharing' = Sharing, Leaving' = Leaving, Writing' = Writing,
           cs'["Read"] = cs["Read"]
    PROVE  ReadInv'
  BY DEF ReadInv

LEMMA FlagKept ==
    ASSUME FlagInv, NEW t \in Lock!Threads, bEnter_Writer' = bEnter_Writer,
           pcLock[t] \in {"writing", "uFlag"} <=> pcLock'[t] \in {"writing", "uFlag"},
           \A u \in Lock!Threads : u # t => pcLock'[u] = pcLock[u]
    PROVE  FlagInv'
<1>1. At({"writing", "uFlag"})' = At({"writing", "uFlag"})
  BY DEF At
<1> QED
  BY <1>1 DEF FlagInv

\* m_Write_Lock: one holder, which alone waits for m_Read_Lock or has it as a
\* writer.
LEMMA OneHolder ==
    ASSUME WriteInv, NEW t \in Lock!Threads, pcLock[t] \in HasWrite
    PROVE  /\ \A u \in Lock!Threads : u # t => pcLock[u] \notin HasWrite
           /\ Writing \subseteq {t}
           /\ cs["Write"].depth = 1
  BY DEF WriteInv, Writing, At, HasWrite

LEMMA WriteKept ==
    ASSUME WriteInv, NEW t \in Lock!Threads, cs'["Write"] = cs["Write"],
           pcLock[t] \in HasWrite <=> pcLock'[t] \in HasWrite,
           \A u \in Lock!Threads : u # t => pcLock'[u] = pcLock[u]
    PROVE  WriteInv'
  BY DEF WriteInv

LEMMA WriteEntered ==
    ASSUME SectionsType, WriteInv, NEW t \in Lock!Threads, Lock!Enter("Write", t),
           pcLock[t] \notin HasWrite, pcLock'[t] \in HasWrite,
           \A u \in Lock!Threads : u # t => pcLock'[u] = pcLock[u]
    PROVE  WriteInv'
  BY SectionEntered DEF WriteInv

LEMMA WriteLeft ==
    ASSUME SectionsType, WriteInv, NEW t \in Lock!Threads, Lock!Leave("Write"),
           pcLock[t] \in HasWrite, pcLock'[t] \notin HasWrite,
           \A u \in Lock!Threads : u # t => pcLock'[u] = pcLock[u]
    PROVE  WriteInv'
  BY SectionLeft, OneHolder DEF WriteInv

LEMMA RLockKeeps ==
    ASSUME AloneIfBoth, LockInv, NEW t \in Readers, Lock!RLock(t)
    PROVE  LockInv'
<1> USE DEF LockInv, LockTypes
<1>1. /\ t \in Lock!Threads /\ PcType'
      /\ pcLock[t] = "idle" /\ pcLock'[t] = "rCount"
      /\ \A u \in Lock!Threads : u # t => pcLock'[u] = pcLock[u]
  <2>1. t \in Lock!Threads /\ Lock!Goto(t, "idle", "rCount")
    BY DEF Lock!RLock, Lock!Threads
  <2>2. pcLock[t] = "idle"
    BY <2>1 DEF Lock!Goto
  <2>3. MayBeAt(t, "rCount")
    BY <2>2 DEF PcType, MayBeAt, ReaderAt, WriterAt
  <2> QED
    BY <2>1, <2>3, PcMoved
<1>2. Counted' = Counted /\ Sharing' = Sharing /\ Leaving' = Leaving /\ Writing' = Writing
  BY <1>1, GroupsKept
<1>3. SectionsType' /\ cs'["Read"] = cs["Read"]
  BY <1>1, SectionEntered DEF Lock!RLock
<1>4. WriteInv'
  BY <1>1, WriteEntered DEF Lock!RLock, HasWrite
<1>5. CountInv' /\ ReadInv'
  BY <1>1, <1>2, <1>3, CountKept, ReadKept DEF Lock!RLock
<1>6. FlagInv'
  BY <1>1, FlagKept DEF Lock!RLock
<1> QED
  BY <1>1, <1>3, <1>4, <1>5, <1>6 DEF Lock!RLock

LEMMA WLockKeeps ==
    ASSUME AloneIfBoth, LockInv, NEW t \in Writers, Lock!WLock(t)
    PROVE  LockInv'
<1> USE DEF LockInv, LockTypes
<1>1. /\ t \in Lock!Threads /\ PcType'
      /\ pcLock[t] = "idle" /\ pcLock'[t] = "wEnter"
      /\ \A u \in Lock!Threads : u # t => pcLock'[u] = pcLock[u]
  <2>1. t \in Lock!Threads /\ Lock!Goto(t, "idle", "wEnter")
    BY DEF Lock!WLock, Lock!Threads
  <2>2. pcLock[t] = "idle"
    BY <2>1 DEF Lock!Goto
  <2>3. MayBeAt(t, "wEnter")
    BY <2>2 DEF PcType, MayBeAt, ReaderAt, WriterAt
  <2> QED
    BY <2>1, <2>3, PcMoved
<1>2. Counted' = Counted /\ Sharing' = Sharing /\ Leaving' = Leaving /\ Writing' = Writing
  BY <1>1, GroupsKept
<1>3. SectionsType' /\ cs'["Read"] = cs["Read"]
  BY <1>1, SectionEntered DEF Lock!WLock
<1>4. WriteInv'
  BY <1>1, WriteEntered DEF Lock!WLock, HasWrite
<1>5. CountInv' /\ ReadInv'
  BY <1>1, <1>2, <1>3, CountKept, ReadKept DEF Lock!WLock
<1>6. FlagInv'
  BY <1>1, FlagKept DEF Lock!WLock
<1> QED
  BY <1>1, <1>3, <1>4, <1>5, <1>6 DEF Lock!WLock

LEMMA RLeaveKeeps ==
    ASSUME AloneIfBoth, LockInv, NEW t \in Lock!Threads, Lock!RLeave(t)
    PROVE  LockInv'
<1> USE DEF LockInv, LockTypes
<1>1. /\ t \in Lock!Threads /\ PcType'
      /\ pcLock[t] = "rLeave" /\ pcLock'[t] = "reading"
      /\ \A u \in Lock!Threads : u # t => pcLock'[u] = pcLock[u]
  <2>1. t \in Lock!Threads /\ Lock!Goto(t, "rLeave", "reading")
    BY DEF Lock!RLeave, Lock!Threads
  <2>2. pcLock[t] = "rLeave"
    BY <2>1 DEF Lock!Goto
  <2>3. MayBeAt(t, "reading")
    BY <2>2 DEF PcType, MayBeAt, ReaderAt, WriterAt
  <2> QED
    BY <2>1, <2>3, PcMoved
<1>2. Counted' = Counted /\ Sharing' = Sharing /\ Leaving' = Leaving /\ Writing' = Writing
  BY <1>1, GroupsKept
<1>3. SectionsType' /\ cs'["Read"] = cs["Read"]
  BY <1>1, OneHolder, SectionLeft DEF Lock!RLeave, HasWrite
<1>4. WriteInv'
  BY <1>1, WriteLeft DEF Lock!RLeave, HasWrite
<1>5. CountInv' /\ ReadInv'
  BY <1>1, <1>2, <1>3, CountKept, ReadKept DEF Lock!RLeave
<1>6. FlagInv'
  BY <1>1, FlagKept DEF Lock!RLeave
<1> QED
  BY <1>1, <1>3, <1>4, <1>5, <1>6 DEF Lock!RLeave

LEMMA ULeaveWriteKeeps ==
    ASSUME AloneIfBoth, LockInv, NEW t \in Lock!Threads, Lock!ULeaveWrite(t)
    PROVE  LockInv'
<1> USE DEF LockInv, LockTypes
<1>1. /\ t \in Lock!Threads /\ PcType'
      /\ pcLock[t] = "uLeaveWrite" /\ pcLock'[t] = "idle"
      /\ \A u \in Lock!Threads : u # t => pcLock'[u] = pcLock[u]
  <2>1. t \in Lock!Threads /\ Lock!Goto(t, "uLeaveWrite", "idle")
    BY DEF Lock!ULeaveWrite, Lock!Threads
  <2>2. pcLock[t] = "uLeaveWrite"
    BY <2>1 DEF Lock!Goto
  <2>3. MayBeAt(t, "idle")
    BY <2>2 DEF PcType, MayBeAt, ReaderAt, WriterAt
  <2> QED
    BY <2>1, <2>3, PcMoved
<1>2. Counted' = Counted /\ Sharing' = Sharing /\ Leaving' = Leaving /\ Writing' = Writing
  BY <1>1, GroupsKept
<1>3. SectionsType' /\ cs'["Read"] = cs["Read"]
  BY <1>1, OneHolder, SectionLeft DEF Lock!ULeaveWrite, HasWrite
<1>4. WriteInv'
  BY <1>1, WriteLeft DEF Lock!ULeaveWrite, HasWrite
<1>5. CountInv' /\ ReadInv'
  BY <1>1, <1>2, <1>3, CountKept, ReadKept DEF Lock!ULeaveWrite
<1>6. FlagInv'
  BY <1>1, FlagKept DEF Lock!ULeaveWrite
<1> QED
  BY <1>1, <1>3, <1>4, <1>5, <1>6 DEF Lock!ULeaveWrite

LEMMA WFlagKeeps ==
    ASSUME AloneIfBoth, LockInv, NEW t \in Lock!Threads, Lock!WFlag(t)
    PROVE  LockInv'
<1> USE DEF LockInv, LockTypes
<1>1. /\ t \in Lock!Threads /\ PcType'
      /\ pcLock[t] = "wFlag" /\ pcLock'[t] = "writing"
      /\ \A u \in Lock!Threads : u # t => pcLock'[u] = pcLock[u]
  <2>1. t \in Lock!Threads /\ Lock!Goto(t, "wFlag", "writing")
    BY DEF Lock!WFlag, Lock!Threads
  <2>2. pcLock[t] = "wFlag"
    BY <2>1 DEF Lock!Goto
  <2>3. MayBeAt(t, "writing")
    BY <2>2 DEF PcType, MayBeAt, ReaderAt, WriterAt
  <2> QED
    BY <2>1, <2>3, PcMoved
<1>2. Counted' = Counted /\ Sharing' = Sharing /\ Leaving' = Leaving /\ Writing' = Writing
  BY <1>1, GroupsKept
<1>3. WriteInv'
  BY <1>1, WriteKept DEF Lock!WFlag, HasWrite
<1>4. CountInv' /\ ReadInv'
  BY <1>1, <1>2, CountKept, ReadKept DEF Lock!WFlag
<1>5. FlagInv'
  <2>1. t \in At({"writing", "uFlag"})'
    BY <1>1 DEF At
  <2> QED
    BY <2>1 DEF FlagInv, Lock!WFlag
<1> QED
  BY <1>1, <1>3, <1>4, <1>5 DEF Lock!WFlag, SectionsType

LEMMA UFlagKeeps ==
    ASSUME AloneIfBoth, LockInv, NEW t \in Lock!Threads, Lock!UFlag(t)
    PROVE  LockInv'
<1> USE DEF LockInv, LockTypes
<1>1. /\ t \in Lock!Threads /\ PcType'
      /\ pcLock[t] = "uFlag" /\ pcLock'[t] = "uLeaveRead"
      /\ \A u \in Lock!Threads : u # t => pcLock'[u] = pcLock[u]
  <2>1. t \in Lock!Threads /\ Lock!Goto(t, "uFlag", "uLeaveRead")
    BY DEF Lock!UFlag, Lock!Threads
  <2>2. pcLock[t] = "uFlag"
    BY <2>1 DEF Lock!Goto
  <2>3. MayBeAt(t, "uLeaveRead")
    BY <2>2 DEF PcType, MayBeAt, ReaderAt, WriterAt
  <2> QED
    BY <2>1, <2>3, PcMoved
<1>2. Counted' = Counted /\ Sharing' = Sharing /\ Leaving' = Leaving /\ Writing' = Writing
  BY <1>1, GroupsKept
<1>3. WriteInv'
  BY <1>1, WriteKept DEF Lock!UFlag, HasWrite
<1>4. CountInv' /\ ReadInv'
  BY <1>1, <1>2, CountKept, ReadKept DEF Lock!UFlag
<1>5. FlagInv'
  <2>1. \A u \in Lock!Threads : u # t => pcLock[u] \notin HasWrite
    BY <1>1, OneHolder DEF HasWrite
  <2>2. At({"writing", "uFlag"})' = {}
    BY <1>1, <2>1 DEF At, HasWrite
  <2> QED
    BY <2>2 DEF FlagInv, Lock!UFlag
<1> QED
  BY <1>1, <1>3, <1>4, <1>5 DEF Lock!UFlag, SectionsType

LEMMA RCountKeeps ==
    ASSUME AloneIfBoth, LockInv, NEW t \in Lock!Threads, Lock!RCount(t)
    PROVE  LockInv'
<1> USE DEF LockInv, LockTypes
<1> DEFINE to == IF lReader_Count = 0 THEN "rEnter" ELSE "rLeave"
<1>1. /\ PcType'
      /\ pcLock[t] = "rCount" /\ pcLock'[t] = to
      /\ \A u \in Lock!Threads : u # t => pcLock'[u] = pcLock[u]
  <2>1. Lock!Goto(t, "rCount", to)
    BY DEF Lock!RCount
  <2>2. pcLock[t] = "rCount"
    BY <2>1 DEF Lock!Goto
  <2>3. MayBeAt(t, to)
    BY <2>2 DEF PcType, MayBeAt, ReaderAt, WriterAt
  <2> HIDE DEF to
  <2> QED
    BY <2>1, <2>2, <2>3, PcMoved
<1>2. /\ Counted' = Counted \cup {t} /\ t \notin Counted /\ t \notin Sharing
      /\ Sharing' = (IF to = "rEnter" THEN Sharing ELSE Sharing \cup {t})
      /\ Leaving' = Leaving /\ Writing' = Writing /\ Writing = {}
  <2>1. to \in {"rEnter", "rLeave"}
    OBVIOUS
  <2> HIDE DEF to
  <2>2. Writing \subseteq {t} /\ t \notin Writing
    BY <1>1, OneHolder, GroupsMoved DEF HasWrite
  <2>3. CASE to = "rEnter"
    BY <1>1, <2>2, <2>3, GroupsMoved
  <2>4. CASE to = "rLeave"
    BY <1>1, <2>2, <2>4, GroupsMoved
  <2> QED
    BY <2>1, <2>3, <2>4
<1>3. WriteInv'
  BY <1>1, WriteKept DEF Lock!RCount, HasWrite
<1>4. lReader_Count = 0 <=> Counted = {}
  BY GroupSizes DEF CountInv
<1>5. \A u \in Lock!Threads : pcLock[u] # "rEnter"
  BY <1>1, OneHolder DEF HasWrite
<1>6. CountInv'
  <2>1. lReader_Count' = Cardinality(Counted')
    BY <1>2, GroupSizes DEF CountInv, Lock!RCount
  <2>2. ASSUME NEW u \in Lock!Threads, pcLock'[u] = "rEnter" PROVE Counted' = {u}
    BY <1>1, <1>2, <1>4, <1>5, <2>2
  <2> QED
    BY <2>1, <2>2 DEF CountInv
<1>7. Counted # {} => Sharing # {}
  BY <1>5 DEF Counted, Sharing, At
<1>8. ReadInv'
  <2>1. cs' = cs
    BY DEF Lock!RCount
  <2>2. (Sharing' = {}) <=> (Sharing = {})
    BY <1>2, <1>4, <1>7
  <2>3. Sharing \cup Leaving = {} <=> Sharing' \cup Leaving' = {}
    BY <1>2, <2>2
  <2> QED
    BY <1>2, <2>1, <2>2, <2>3 DEF ReadInv
<1>9. FlagInv'
  BY <1>1, FlagKept DEF Lock!RCount
<1> QED
  BY <1>1, <1>3, <1>6, <1>8, <1>9 DEF Lock!RCount, SectionsType

LEMMA REnterKeeps ==
    ASSUME AloneIfBoth, LockInv, NEW t \in Lock!Threads, Lock!REnter(t)
    PROVE  LockInv'
<1> USE DEF LockInv, LockTypes
<1>1. /\ PcType' /\ t \in Readers
      /\ pcLock[t] = "rEnter" /\ pcLock'[t] = "rLeave"
      /\ \A u \in Lock!Threads : u # t => pcLock'[u] = pcLock[u]
  <2>1. Lock!Goto(t, "rEnter", "rLeave")
    BY DEF Lock!REnter
  <2>2. pcLock[t] = "rEnter"
    BY <2>1 DEF Lock!Goto
  <2>3. t \in Readers /\ MayBeAt(t, "rLeave")
    BY <2>2 DEF PcType, MayBeAt, ReaderAt, WriterAt
  <2> QED
    BY <2>1, <2>3, PcMoved
<1>2. /\ Counted = {t} /\ Sharing = {} /\ Writing = {}
      /\ Counted' = {t} /\ Sharing' = {t} /\ Leaving' = Leaving /\ Writing' = {}
  <2>1. Counted = {t}
    BY <1>1 DEF CountInv
  <2>2. Sharing \subseteq Counted /\ t \notin Sharing
    BY <1>1 DEF Sharing, Counted, At
  <2>3. Writing \subseteq {t} /\ t \notin Writing
    BY <1>1, OneHolder, GroupsMoved DEF HasWrite
  <2>4. Sharing' = Sharing \cup {t}
    BY <1>1, GroupsMoved
  <2>5. Counted' = Counted \cup {t}
    BY <1>1, GroupsMoved
  <2>6. Leaving' = Leaving \ {t} /\ t \notin Leaving
    BY <1>1, GroupsMoved
  <2>7. Writing' = Writing \ {t}
    BY <1>1, GroupsMoved
  <2> QED
    BY <2>1, <2>2, <2>3, <2>4, <2>5, <2>6, <2>7
<1>3. /\ SectionsType' /\ cs'["Write"] = cs["Write"]
      /\ cs'["Read"].owner = t /\ cs'["Read"].depth = cs["Read"].depth + 1
  BY SectionEntered DEF Lock!REnter
<1>4. WriteInv'
  BY <1>1, <1>3, WriteKept DEF HasWrite
<1>5. CountInv'
  BY <1>1, <1>2, CountKept DEF Lock!REnter
<1>6. ReadInv'
  BY <1>1, <1>2, <1>3, GroupSizes DEF ReadInv
<1>7. FlagInv'
  BY <1>1, FlagKept DEF Lock!REnter
<1> QED
  BY <1>1, <1>3, <1>4, <1>5, <1>6, <1>7 DEF Lock!REnter

\* A writer that enters m_Read_Lock finds it free: while readers have it, its
\* owner is a reader, and if that is the writer itself nobody else reads.
LEMMA WEnterKeeps ==
    ASSUME AloneIfBoth, LockInv, NEW t \in Lock!Threads, Lock!WEnter(t)
    PROVE  LockInv'
<1> USE DEF LockInv, LockTypes
<1>1. /\ PcType' /\ t \in Writers
      /\ pcLock[t] = "wEnter" /\ pcLock'[t] = "wFlag"
      /\ \A u \in Lock!Threads : u # t => pcLock'[u] = pcLock[u]
  <2>1. Lock!Goto(t, "wEnter", "wFlag")
    BY DEF Lock!WEnter
  <2>2. pcLock[t] = "wEnter"
    BY <2>1 DEF Lock!Goto
  <2>3. t \in Writers /\ MayBeAt(t, "wFlag")
    BY <2>2 DEF PcType, MayBeAt, ReaderAt, WriterAt
  <2> QED
    BY <2>1, <2>2, <2>3, PcMoved
<1>2. /\ Counted' = Counted /\ Sharing' = Sharing /\ Leaving' = Leaving
      /\ Writing = {} /\ Writing' = {t}
  <2>1. Writing \subseteq {t} /\ t \notin Writing
    BY <1>1, OneHolder, GroupsMoved DEF HasWrite
  <2>2. Writing' = Writing \cup {t}
    BY <1>1, GroupsMoved
  <2>3. Counted' = Counted \ {t} /\ t \notin Counted
    BY <1>1, GroupsMoved
  <2>4. Sharing' = Sharing \ {t} /\ t \notin Sharing
    BY <1>1, GroupsMoved
  <2>5. Leaving' = Leaving \ {t} /\ t \notin Leaving
    BY <1>1, GroupsMoved
  <2> QED
    BY <2>1, <2>2, <2>3, <2>4, <2>5
<1>3. /\ SectionsType' /\ cs'["Write"] = cs["Write"]
      /\ cs["Read"].depth = 0 \/ cs["Read"].owner = t
      /\ cs'["Read"].owner = t /\ cs'["Read"].depth = cs["Read"].depth + 1
  BY SectionEntered DEF Lock!WEnter
<1>4. Sharing = {} /\ Leaving = {} /\ cs["Read"].depth = 0
  <2>1. Sharing \cup Leaving \subseteq Readers \ {t}
    BY <1>1 DEF Sharing, Leaving, At, PcType, MayBeAt, ReaderAt
  <2>2. Sharing \cup Leaving # {} => cs["Read"].depth # 0
    BY <1>2, GroupSizes DEF ReadInv
  <2>3. Sharing \cup Leaving # {} => t \in Readers
    BY <1>3, <2>2 DEF ReadInv
  <2>4. Sharing \cup Leaving = {}
    BY <1>1, <2>1, <2>3 DEF AloneIfBoth
  <2> QED
    BY <1>2, <2>4, GroupSizes DEF ReadInv
<1>5. WriteInv'
  BY <1>1, <1>3, WriteKept DEF HasWrite
<1>6. CountInv'
  BY <1>1, <1>2, CountKept DEF Lock!WEnter
<1>7. ReadInv'
  BY <1>2, <1>3, <1>4, GroupSizes DEF ReadInv
<1>8. FlagInv'
  BY <1>1, FlagKept DEF Lock!WEnter
<1> QED
  BY <1>1, <1>3, <1>5, <1>6, <1>7, <1>8 DEF Lock!WEnter

LEMMA ULeaveReadKeeps ==
    ASSUME AloneIfBoth, LockInv, NEW t \in Lock!Threads, Lock!ULeaveRead(t)
    PROVE  LockInv'
<1> USE DEF LockInv, LockTypes
<1>1. /\ PcType'
      /\ pcLock[t] = "uLeaveRead" /\ pcLock'[t] = "uLeaveWrite"
      /\ \A u \in Lock!Threads : u # t => pcLock'[u] = pcLock[u]
  <2>1. Lock!Goto(t, "uLeaveRead", "uLeaveWrite")
    BY DEF Lock!ULeaveRead
  <2>2. pcLock[t] = "uLeaveRead"
    BY <2>1 DEF Lock!Goto
  <2>3. MayBeAt(t, "uLeaveWrite")
    BY <2>2 DEF PcType, MayBeAt, ReaderAt, WriterAt
  <2> QED
    BY <2>1, <2>2, <2>3, PcMoved
<1>2. /\ Counted' = Counted /\ Sharing' = Sharing /\ Leaving' = Leaving
      /\ Writing = {t} /\ Writing' = {}
  <2>1. Writing \subseteq {t} /\ t \in Writing
    BY <1>1, OneHolder, GroupsMoved DEF HasWrite
  <2>2. Writing' = Writing \ {t}
    BY <1>1, GroupsMoved
  <2>3. Counted' = Counted \ {t} /\ t \notin Counted
    BY <1>1, GroupsMoved
  <2>4. Sharing' = Sharing \ {t} /\ t \notin Sharing
    BY <1>1, GroupsMoved
  <2>5. Leaving' = Leaving \ {t} /\ t \notin Leaving
    BY <1>1, GroupsMoved
  <2> QED
    BY <2>1, <2>2, <2>3, <2>4, <2>5
<1>3. Sharing = {} /\ Leaving = {} /\ cs["Read"].depth = 1
  BY <1>2, GroupSizes DEF ReadInv
<1>4. /\ SectionsType' /\ cs'["Write"] = cs["Write"]
      /\ cs'["Read"].depth = cs["Read"].depth - 1
  BY <1>3, SectionLeft DEF Lock!ULeaveRead
<1>5. WriteInv'
  BY <1>1, <1>4, WriteKept DEF HasWrite
<1>6. CountInv'
  BY <1>1, <1>2, CountKept DEF Lock!ULeaveRead
<1>7. ReadInv'
  BY <1>2, <1>3, <1>4, GroupSizes DEF ReadInv
<1>8. FlagInv'
  BY <1>1, FlagKept DEF Lock!ULeaveRead
<1> QED
  BY <1>1, <1>4, <1>5, <1>6, <1>7, <1>8 DEF Lock!ULeaveRead

\* The readers' last one leaves m_Read_Lock; the others do not.
LEMMA UCountKeeps ==
    ASSUME AloneIfBoth, LockInv, NEW t \in Lock!Threads, Lock!UCount(t)
    PROVE  LockInv'
<1> USE DEF LockInv, LockTypes
<1> DEFINE to == IF lReader_Count = 1 THEN "uLast" ELSE "idle"
<1>1. /\ PcType'
      /\ pcLock[t] = "uCount" /\ pcLock'[t] = to
      /\ \A u \in Lock!Threads : u # t => pcLock'[u] = pcLock[u]
  <2>1. Lock!Goto(t, "uCount", to)
    BY DEF Lock!UCount
  <2>2. pcLock[t] = "uCount"
    BY <2>1 DEF Lock!Goto
  <2>3. MayBeAt(t, to)
    BY <2>2 DEF PcType, MayBeAt, ReaderAt, WriterAt
  <2> HIDE DEF to
  <2> QED
    BY <2>1, <2>2, <2>3, PcMoved
<1>2. /\ Counted' = Counted \ {t} /\ t \in Counted
      /\ Sharing' = Sharing \ {t} /\ t \in Sharing
      /\ Leaving' = (IF to = "uLast" THEN Leaving \cup {t} ELSE Leaving) /\ t \notin Leaving
      /\ Writing' = Writing
  <2>1. to \in {"uLast", "idle"}
    OBVIOUS
  <2> HIDE DEF to
  <2>2. Counted' = Counted \ {t} /\ t \in Counted
    BY <1>1, <2>1, GroupsMoved
  <2>3. Sharing' = Sharing \ {t} /\ t \in Sharing
    BY <1>1, <2>1, GroupsMoved
  <2>4. Leaving' = (IF to = "uLast" THEN Leaving \cup {t} ELSE Leaving) /\ t \notin Leaving
    BY <1>1, <2>1, GroupsMoved
  <2>5. Writing' = Writing \ {t} /\ t \notin Writing
    BY <1>1, <2>1, GroupsMoved
  <2> QED
    BY <2>2, <2>3, <2>4, <2>5
<1>3. \A u \in Lock!Threads : pcLock[u] # "rEnter"
  <2>1. ASSUME NEW u \in Lock!Threads, pcLock[u] = "rEnter" PROVE FALSE
    BY <1>1, <1>2, <2>1 DEF CountInv
  <2> QED
    BY <2>1
<1>4. Counted = Sharing
  BY <1>3 DEF Counted, Sharing, At
<1>5. lReader_Count = 1 <=> Sharing' = {}
  <2>1. /\ Cardinality(Counted) = lReader_Count
        /\ Cardinality(Counted \ {t}) = Cardinality(Counted) - 1
    BY <1>2, GroupSizes DEF CountInv
  <2>2. IsFiniteSet(Counted \ {t})
    BY GroupSizes, FS_RemoveElement
  <2>3. Cardinality(Counted \ {t}) = 0 <=> Counted \ {t} = {}
    BY <2>2, FS_EmptySet
  <2> QED
    BY <1>2, <1>4, <2>1, <2>3
<1>6. WriteInv'
  BY <1>1, WriteKept DEF Lock!UCount, HasWrite
<1>7. CountInv'
  <2>1. lReader_Count' = Cardinality(Counted')
    BY <1>2, GroupSizes DEF CountInv, Lock!UCount
  <2>2. \A u \in Lock!Threads : pcLock'[u] # "rEnter"
    BY <1>1, <1>3
  <2> QED
    BY <2>1, <2>2 DEF CountInv
<1>8. ReadInv'
  <2>1. cs' = cs
    BY DEF Lock!UCount
  <2>2. CASE lReader_Count = 1
    <3>1. Leaving' = Leaving \cup {t} /\ Sharing' = {}
      BY <1>2, <1>5, <2>2
    <3>2. Cardinality(Leaving') = Cardinality(Leaving) + 1
      BY <1>2, <3>1, GroupSizes
    <3> QED
      BY <1>2, <2>1, <3>1, <3>2, GroupSizes DEF ReadInv
  <2>3. CASE lReader_Count # 1
    <3>1. Leaving' = Leaving /\ Sharing' # {}
      BY <1>2, <1>5, <2>3
    <3> QED
      BY <1>2, <2>1, <3>1 DEF ReadInv
  <2> QED
    BY <2>2, <2>3
<1>9. FlagInv'
  BY <1>1, FlagKept DEF Lock!UCount
<1>10. lReader_Count' \in Nat
  BY <1>7, <1>2, GroupSizes, FS_RemoveElement, FS_CardinalityType DEF CountInv
<1> QED
  BY <1>1, <1>6, <1>7, <1>8, <1>9, <1>10 DEF Lock!UCount, SectionsType

LEMMA ULastKeeps ==
    ASSUME AloneIfBoth, LockInv, NEW t \in Lock!Threads, Lock!ULast(t)
    PROVE  LockInv'
<1> USE DEF LockInv, LockTypes
<1>1. /\ PcType'
      /\ pcLock[t] = "uLast" /\ pcLock'[t] = "idle"
      /\ \A u \in Lock!Threads : u # t => pcLock'[u] = pcLock[u]
  <2>1. Lock!Goto(t, "uLast", "idle")
    BY DEF Lock!ULast
  <2> QED
    BY <2>1, PcMoved DEF MayBeAt, ReaderAt, WriterAt
<1>2. /\ Counted' = Counted /\ Sharing' = Sharing /\ Writing' = Writing
      /\ Leaving' = Leaving \ {t} /\ t \in Leaving
  <2>1. Counted' = Counted \ {t} /\ t \notin Counted
    BY <1>1, GroupsMoved
  <2>2. Sharing' = Sharing \ {t} /\ t \notin Sharing
    BY <1>1, GroupsMoved
  <2>3. Leaving' = Leaving \ {t} /\ t \in Leaving
    BY <1>1, GroupsMoved
  <2>4. Writing' = Writing \ {t} /\ t \notin Writing
    BY <1>1, GroupsMoved
  <2> QED
    BY <2>1, <2>2, <2>3, <2>4
<1>3. /\ Cardinality(Leaving) \in Nat \ {0}
      /\ Cardinality(Leaving') = Cardinality(Leaving) - 1
  BY <1>2, GroupSizes
<1>4. cs["Read"].depth # 0 /\ Writing = {}
  BY <1>2, <1>3 DEF ReadInv
<1>5. /\ SectionsType' /\ cs'["Write"] = cs["Write"]
      /\ cs'["Read"].depth = cs["Read"].depth - 1
      /\ cs["Read"].depth # 1 => cs'["Read"].owner = cs["Read"].owner
  BY <1>4, SectionLeft DEF Lock!ULast
<1>6. WriteInv'
  BY <1>1, <1>5, WriteKept DEF HasWrite
<1>7. CountInv'
  BY <1>1, <1>2, CountKept DEF Lock!ULast
<1>8. ReadInv'
  <2>1. Sharing' \cup Leaving' # {} => cs["Read"].depth # 1
    <3>1. IsFiniteSet(Leaving')
      BY <1>2, GroupSizes, FS_RemoveElement
    <3>2. Cardinality(Leaving') = 0 <=> Leaving' = {}
      BY <3>1, FS_EmptySet
    <3> QED
      BY <1>2, <1>3, <1>4, <3>2 DEF ReadInv
  <2>2. cs'["Read"].depth = Cardinality(Leaving') + (IF Sharing' = {} THEN 0 ELSE 1)
    BY <1>2, <1>3, <1>4, <1>5 DEF ReadInv
  <2>3. Sharing' \cup Leaving' # {} => cs'["Read"].owner \in Readers
    BY <1>2, <1>5, <2>1 DEF ReadInv
  <2>4. Writing' = {} /\ Cardinality(Leaving') \in Nat
    BY <1>2, <1>3, <1>4
  <2>5. cs'["Read"].depth = Cardinality(Leaving') + (IF Sharing' = {} THEN 0 ELSE 1)
                              + (IF Writing' = {} THEN 0 ELSE 1)
    BY <2>2, <2>4
  <2> QED
    BY <2>3, <2>4, <2>5 DEF ReadInv
<1>9. FlagInv'
  BY <1>1, FlagKept DEF Lock!ULast
<1> QED
  BY <1>1, <1>5, <1>6, <1>7, <1>8, <1>9 DEF Lock!ULast

\* The flag tells unLock what the caller had: while a reader is inside no
\* writer has set it, and a writer inside has.
LEMMA UnlockKeeps ==
    ASSUME AloneIfBoth, LockInv, NEW t \in Lock!Threads, Lock!Unlock(t)
    PROVE  LockInv' /\ pcLock'[t] \notin {"reading", "writing"}
<1> USE DEF LockInv, LockTypes
<1>1. pcLock[t] = "reading" => ~bEnter_Writer
  BY DEF ReadInv, FlagInv, Writing, Sharing, At
<1>2. pcLock[t] = "writing" => bEnter_Writer
  BY DEF FlagInv, At
<1>3. /\ PcType'
      /\ \/ pcLock[t] = "reading" /\ pcLock'[t] = "uCount"
         \/ pcLock[t] = "writing" /\ pcLock'[t] = "uFlag"
      /\ \A u \in Lock!Threads : u # t => pcLock'[u] = pcLock[u]
  <2>1. CASE pcLock[t] = "reading"
    <3>1. Lock!Goto(t, "reading", "uCount")
      BY <1>1, <2>1 DEF Lock!Unlock
    <3>2. MayBeAt(t, "uCount")
      BY <2>1 DEF PcType, MayBeAt, ReaderAt, WriterAt
    <3> QED
      BY <3>1, <3>2, PcMoved
  <2>2. CASE pcLock[t] = "writing"
    <3>1. Lock!Goto(t, "writing", "uFlag")
      BY <1>2, <2>2 DEF Lock!Unlock
    <3>2. MayBeAt(t, "uFlag")
      BY <2>2 DEF PcType, MayBeAt, ReaderAt, WriterAt
    <3> QED
      BY <3>1, <3>2, PcMoved
  <2> QED
    BY <2>1, <2>2 DEF Lock!Unlock
<1>4. Counted' = Counted /\ Sharing' = Sharing /\ Leaving' = Leaving /\ Writing' = Writing
  BY <1>3, GroupsKept
<1>5. WriteInv'
  BY <1>3, WriteKept DEF Lock!Unlock, HasWrite
<1>6. CountInv' /\ ReadInv'
  BY <1>3, <1>4, CountKept, ReadKept DEF Lock!Unlock
<1>7. FlagInv'
  BY <1>3, FlagKept DEF Lock!Unlock
<1> QED
  BY <1>3, <1>5, <1>6, <1>7 DEF Lock!Unlock, SectionsType

LEMMA LockNext ==
    ASSUME AloneIfBoth, LockInv, [Lock!Next]_(Lock!vars)
    PROVE  LockInv'
<1>1. CASE UNCHANGED Lock!vars
  BY <1>1 DEF Lock!vars, LockInv, LockTypes, SectionsType, PcType, WriteInv, CountInv, ReadInv,
     FlagInv, Counted, Sharing, Leaving, Writing, At
<1>2. ASSUME NEW t \in Lock!Threads, Lock!Step(t) PROVE LockInv'
  BY <1>2, RCountKeeps, REnterKeeps, RLeaveKeeps, WEnterKeeps, WFlagKeeps, UnlockKeeps,
     UFlagKeeps, ULeaveReadKeeps, ULeaveWriteKeeps, UCountKeeps, ULastKeeps DEF Lock!Step
<1> QED
  BY <1>1, <1>2, RLockKeeps, WLockKeeps DEF Lock!Next

\* A thread has the lock for reading once it has left m_Write_Lock, and for
\* writing once it has set the flag; unLock gives it back with its first test.
\* The other steps change neither.
LEMMA LockStutters ==
    ASSUME PcType, NEW t \in Lock!Threads, NEW from, NEW to, Lock!Goto(t, from, to),
           from \notin {"reading", "writing"}, to \notin {"reading", "writing"}
    PROVE  UNCHANGED Lock!RW!vars
  BY DEF PcType, Lock!Goto, Lock!RW!vars

LEMMA RLeaveAcquires ==
    ASSUME LockInv, NEW t \in Lock!Threads, Lock!RLeave(t)
    PROVE  Lock!RW!AcquireRead(t)
<1> USE DEF LockInv, LockTypes
<1>1. /\ pcLock[t] = "rLeave" /\ pcLock'[t] = "reading"
      /\ \A u \in Lock!Threads : u # t => pcLock'[u] = pcLock[u]
  BY DEF Lock!RLeave, Lock!Goto, PcType
<1>2. \A u \in Lock!Threads : pcLock[u] # "writing"
  BY <1>1 DEF ReadInv, Sharing, Writing, At
<1> QED
  BY <1>1, <1>2 DEF Lock!RW!AcquireRead

LEMMA WFlagAcquires ==
    ASSUME LockInv, NEW t \in Lock!Threads, Lock!WFlag(t)
    PROVE  Lock!RW!AcquireWrite(t)
<1> USE DEF LockInv, LockTypes
<1>1. /\ pcLock[t] = "wFlag" /\ pcLock'[t] = "writing"
      /\ \A u \in Lock!Threads : u # t => pcLock'[u] = pcLock[u]
  BY DEF Lock!WFlag, Lock!Goto, PcType
<1>2. \A u \in Lock!Threads : pcLock[u] # "reading"
  BY <1>1 DEF ReadInv, Sharing, Writing, At
<1>3. \A u \in Lock!Threads : pcLock[u] # "writing"
  BY <1>1, OneHolder DEF HasWrite
<1> QED
  BY <1>1, <1>2, <1>3 DEF Lock!RW!AcquireWrite

LEMMA UnlockReleases ==
    ASSUME AloneIfBoth, LockInv, NEW t \in Lock!Threads, Lock!Unlock(t)
    PROVE  Lock!RW!Release(t)
<1>1. pcLock[t] \in {"reading", "writing"} /\ pcLock'[t] \notin {"reading", "writing"}
  BY UnlockKeeps DEF Lock!Unlock
<1>2. \A u \in Lock!Threads : u # t => pcLock'[u] = pcLock[u]
  BY DEF Lock!Unlock, Lock!Goto, LockInv, LockTypes, PcType
<1> QED
  BY <1>1, <1>2 DEF Lock!RW!Release

LEMMA LockSimulates ==
    ASSUME AloneIfBoth, LockInv, [Lock!Next]_(Lock!vars)
    PROVE  [Lock!RW!Next]_(Lock!RW!vars)
<1> USE DEF LockInv, LockTypes
<1>1. CASE UNCHANGED Lock!vars
  BY <1>1 DEF Lock!vars, Lock!RW!vars
<1>2. ASSUME NEW t \in Readers, Lock!RLock(t) PROVE UNCHANGED Lock!RW!vars
  BY <1>2, LockStutters DEF Lock!RLock, Lock!Threads
<1>3. ASSUME NEW t \in Writers, Lock!WLock(t) PROVE UNCHANGED Lock!RW!vars
  BY <1>3, LockStutters DEF Lock!WLock, Lock!Threads
<1>4. ASSUME NEW t \in Lock!Threads, Lock!Step(t) PROVE [Lock!RW!Next]_(Lock!RW!vars)
  <2>1. CASE Lock!RLeave(t)
    BY <2>1, RLeaveAcquires DEF Lock!RW!Next
  <2>2. CASE Lock!WFlag(t)
    BY <2>2, WFlagAcquires DEF Lock!RW!Next
  <2>3. CASE Lock!Unlock(t)
    BY <2>3, UnlockReleases DEF Lock!RW!Next
  <2>4. CASE Lock!RCount(t) \/ Lock!REnter(t) \/ Lock!WEnter(t) \/ Lock!UFlag(t)
    BY <2>4, LockStutters DEF Lock!RCount, Lock!REnter, Lock!WEnter, Lock!UFlag
  <2>5. CASE Lock!ULeaveRead(t) \/ Lock!ULeaveWrite(t) \/ Lock!UCount(t) \/ Lock!ULast(t)
    BY <2>5, LockStutters DEF Lock!ULeaveRead, Lock!ULeaveWrite, Lock!UCount, Lock!ULast
  <2> QED
    BY <1>4, <2>1, <2>2, <2>3, <2>4, <2>5 DEF Lock!Step
<1> QED
  BY <1>1, <1>2, <1>3, <1>4 DEF Lock!Next

\* CRWLock, of two critical sections, a counter and a flag, is a reader/writer
\* lock, for threads as the registry uses it: a reader that enters sees no writer
\* inside, a writer sees nobody, and each gives back what it had.
THEOREM LockCorrect ==
    ASSUME AloneIfBoth
    PROVE  Lock!Spec => LockIsReadersWriters
<1>1. Lock!Init => LockInv /\ Lock!RW!Init
  <2> SUFFICES ASSUME Lock!Init PROVE Lock!RW!Init
    BY LockInit
  <2> QED
    BY DEF Lock!Init, Lock!RW!Init
<1>2. LockInv /\ [Lock!Next]_(Lock!vars) => LockInv' /\ [Lock!RW!Next]_(Lock!RW!vars)
  BY LockNext, LockSimulates
<1> QED
  BY <1>1, <1>2, PTL DEF Lock!Spec, LockIsReadersWriters, Lock!ImplementsReadersWriters,
     Lock!RW!Spec

----------------------------------------------------------------------------
(* The process: Shutdown, with and without a mail server, for any number of   *)
(* workers and signals                                                        *)

\* runSV creates each thread once and joins each once.
LEMMA ThreadsInTurn ==
    /\ Len(Proc!Started) \in {6, 7} /\ Len(Proc!Joined) = Len(Proc!Started)
    /\ \A i \in 1 .. Len(Proc!Started) : Proc!Started[i] \in Proc!Services
    /\ \A i \in 1 .. Len(Proc!Joined) : Proc!Joined[i] \in Proc!Services
    /\ \A i, j \in 1 .. Len(Proc!Started) : Proc!Started[i] = Proc!Started[j] => i = j
    /\ \A i, j \in 1 .. Len(Proc!Joined) : Proc!Joined[i] = Proc!Joined[j] => i = j
    /\ \A s \in Proc!Services : \E i \in 1 .. Len(Proc!Started) : Proc!Started[i] = s
    /\ \A s \in Proc!Services : \E i \in 1 .. Len(Proc!Joined) : Proc!Joined[i] = s
<1>1. CASE m_bSet
  <2>1. Proc!Started = <<"log", "mail", "linker", "net", "sender", "worker", "tick">>
    BY <1>1 DEF Proc!Started
  <2>2. Proc!Joined = <<"tick", "worker", "sender", "net", "linker", "mail", "log">>
    BY <1>1 DEF Proc!Joined
  <2>3. Proc!Services = {"log", "mail", "linker", "net", "sender", "worker", "tick"}
    BY <2>1 DEF Proc!Services
  <2>4. Len(Proc!Started) = 7 /\ Len(Proc!Joined) = 7
    BY <2>1, <2>2
  <2>5. \A i \in 1 .. 7 : Proc!Started[i] \in Proc!Services /\ Proc!Joined[i] \in Proc!Services
    BY <2>1, <2>2, <2>3
  <2>6. \A i, j \in 1 .. 7 : Proc!Started[i] = Proc!Started[j] => i = j
    BY <2>1
  <2>7. \A i, j \in 1 .. 7 : Proc!Joined[i] = Proc!Joined[j] => i = j
    BY <2>2
  <2>8. \A s \in Proc!Services : \E i \in 1 .. 7 : Proc!Started[i] = s
    BY <2>1, <2>3
  <2>9. \A s \in Proc!Services : \E i \in 1 .. 7 : Proc!Joined[i] = s
    BY <2>2, <2>3
  <2> QED
    BY <2>4, <2>5, <2>6, <2>7, <2>8, <2>9
<1>2. CASE ~m_bSet
  <2>1. Proc!Started = <<"log", "linker", "net", "sender", "worker", "tick">>
    BY <1>2 DEF Proc!Started
  <2>2. Proc!Joined = <<"tick", "worker", "sender", "net", "linker", "log">>
    BY <1>2 DEF Proc!Joined
  <2>3. Proc!Services = {"log", "linker", "net", "sender", "worker", "tick"}
    BY <2>1 DEF Proc!Services
  <2>4. Len(Proc!Started) = 6 /\ Len(Proc!Joined) = 6
    BY <2>1, <2>2
  <2>5. \A i \in 1 .. 6 : Proc!Started[i] \in Proc!Services /\ Proc!Joined[i] \in Proc!Services
    BY <2>1, <2>2, <2>3
  <2>6. \A i, j \in 1 .. 6 : Proc!Started[i] = Proc!Started[j] => i = j
    BY <2>1
  <2>7. \A i, j \in 1 .. 6 : Proc!Joined[i] = Proc!Joined[j] => i = j
    BY <2>2
  <2>8. \A s \in Proc!Services : \E i \in 1 .. 6 : Proc!Started[i] = s
    BY <2>1, <2>3
  <2>9. \A s \in Proc!Services : \E i \in 1 .. 6 : Proc!Joined[i] = s
    BY <2>2, <2>3
  <2> QED
    BY <2>4, <2>5, <2>6, <2>7, <2>8, <2>9
<1> QED
  BY <1>1, <1>2

\* The same of each sequence alone.
LEMMA StartedInTurn ==
    /\ Len(Proc!Started) \in Nat \ {0}
    /\ \A i \in 1 .. Len(Proc!Started) : Proc!Started[i] \in Proc!Services
    /\ \A i, j \in 1 .. Len(Proc!Started) : Proc!Started[i] = Proc!Started[j] => i = j
    /\ \A s \in Proc!Services : \E i \in 1 .. Len(Proc!Started) : Proc!Started[i] = s
  BY ThreadsInTurn

LEMMA JoinedInTurn ==
    /\ Len(Proc!Joined) \in Nat \ {0} /\ Len(Proc!Joined) = Len(Proc!Started)
    /\ \A i \in 1 .. Len(Proc!Joined) : Proc!Joined[i] \in Proc!Services
    /\ \A i, j \in 1 .. Len(Proc!Joined) : Proc!Joined[i] = Proc!Joined[j] => i = j
    /\ \A s \in Proc!Services : \E i \in 1 .. Len(Proc!Joined) : Proc!Joined[i] = s
  BY ThreadsInTurn

\* The order that the properties are about.
LEMMA ThreadsOrder ==
    /\ \E i \in 1 .. Len(Proc!Started) - 3 :
         Proc!Started[i] = "net" /\ Proc!Started[i + 2] = "worker" /\ Proc!Started[i + 3] = "tick"
    /\ Proc!Joined[1] = "tick" /\ Proc!Joined[2] = "worker" /\ Proc!Joined[3] = "sender"
    /\ Proc!Joined[4] = "net" /\ Proc!Joined[5] = "linker"
    /\ Proc!Joined[Len(Proc!Joined)] = "log"
<1>1. CASE m_bSet
  <2>1. Proc!Started = <<"log", "mail", "linker", "net", "sender", "worker", "tick">>
    BY <1>1 DEF Proc!Started
  <2>2. Proc!Joined = <<"tick", "worker", "sender", "net", "linker", "mail", "log">>
    BY <1>1 DEF Proc!Joined
  <2>3. /\ Proc!Started[4] = "net" /\ Proc!Started[4 + 2] = "worker"
        /\ Proc!Started[4 + 3] = "tick" /\ 4 \in 1 .. Len(Proc!Started) - 3
    BY <2>1
  <2> QED
    BY <2>2, <2>3
<1>2. CASE ~m_bSet
  <2>1. Proc!Started = <<"log", "linker", "net", "sender", "worker", "tick">>
    BY <1>2 DEF Proc!Started
  <2>2. Proc!Joined = <<"tick", "worker", "sender", "net", "linker", "log">>
    BY <1>2 DEF Proc!Joined
  <2>3. /\ Proc!Started[3] = "net" /\ Proc!Started[3 + 2] = "worker"
        /\ Proc!Started[3 + 3] = "tick" /\ 3 \in 1 .. Len(Proc!Started) - 3
    BY <2>1
  <2> QED
    BY <2>2, <2>3
<1> QED
  BY <1>1, <1>2

States == {"none", "created", "onStart", "running", "stopping", "draining", "ended"}

\* While the threads are created, while all run, and while they are joined: the
\* one at the place next is on its way, those before it have got there.
Creating ==
    /\ pcMain \in {"create", "waitStart"}
    /\ next \in 1 .. Len(Proc!Started)
    /\ \A i \in 1 .. Len(Proc!Started) :
         /\ i < next => status[Proc!Started[i]] = "running"
         /\ i > next => status[Proc!Started[i]] = "none"
         /\ i = next => status[Proc!Started[i]] \in
              IF pcMain = "create" THEN {"none"} ELSE {"created", "onStart", "running"}

AllRun ==
    /\ pcMain \in {"logStarted", "loggingStarted", "lock", "toWait", "wait", "logStop",
                   "loggingStop", "unlock"}
    /\ next = 1
    /\ \A s \in Proc!Services : status[s] = "running"

Ending ==
    /\ pcMain \in {"join", "waitJoin", "logStopped", "loggingStopped"}
    /\ next \in 1 .. Len(Proc!Joined)
    /\ \A i \in 1 .. Len(Proc!Joined) :
         /\ i < next => status[Proc!Joined[i]] = "ended"
         /\ i > next => status[Proc!Joined[i]] = "running"
         /\ i = next => status[Proc!Joined[i]] \in
              IF pcMain = "waitJoin" THEN {"stopping", "draining", "ended"} ELSE {"running"}

AllEnded == pcMain = "stopped" /\ \A s \in Proc!Services : status[s] = "ended"

Turn ==
    /\ status \in [Proc!Services -> States]
    /\ Creating \/ AllRun \/ Ending \/ AllEnded

ProcInv == Turn /\ (status["worker"] = "ended" => working = {})

LEMMA WorkerAndLogAreServices == "worker" \in Proc!Services /\ "log" \in Proc!Services
<1> DEFINE n == Len(Proc!Started)
           m == Len(Proc!Joined)
<1>1. PICK i \in 1 .. n - 3 : Proc!Started[i + 2] = "worker"
  BY ThreadsOrder
<1>2. n \in Nat \ {0} /\ m \in Nat \ {0}
  BY StartedInTurn, JoinedInTurn
<1>3. i + 2 \in 1 .. n /\ m \in 1 .. m
  BY <1>2
<1>4. Proc!Joined[m] = "log"
  BY ThreadsOrder
<1>5. "worker" \in Proc!Services
  BY <1>1, <1>3, StartedInTurn
<1>6. "log" \in Proc!Services
  BY <1>3, <1>4, JoinedInTurn
<1> QED
  BY <1>5, <1>6

LEMMA ProcInit == Proc!Init => ProcInv
<1> SUFFICES ASSUME Proc!Init PROVE ProcInv
  OBVIOUS
<1>1. status \in [Proc!Services -> States]
  BY DEF Proc!Init, States
<1>2. Creating
  BY StartedInTurn DEF Proc!Init, Creating
<1>3. status["worker"] = "none"
  BY WorkerAndLogAreServices DEF Proc!Init
<1> QED
  BY <1>1, <1>2, <1>3 DEF ProcInv, Turn

\* One thread's status changes.
LEMMA StatusAt ==
    ASSUME status \in [Proc!Services -> States], NEW s \in Proc!Services, NEW v \in States,
           status' = [status EXCEPT ![s] = v]
    PROVE  /\ status' \in [Proc!Services -> States]
           /\ status'[s] = v
           /\ \A u \in Proc!Services : u # s => status'[u] = status[u]
  OBVIOUS

\* What a thread of a service does by itself.
LEMMA ServiceKeepsTurn ==
    ASSUME Turn, NEW s \in Proc!Services, NEW from, NEW v \in States,
           Proc!ServiceAt(s, from, v), UNCHANGED <<pcMain, next>>,
           \/ from = "created" /\ v = "onStart"
           \/ from = "onStart" /\ v = "running"
           \/ from = "stopping" /\ v \in {"draining", "ended"}
           \/ from = "draining" /\ v = "ended"
    PROVE  Turn'
<1>1. status[s] = from /\ status' = [status EXCEPT ![s] = v]
  BY DEF Proc!ServiceAt
<1>2. pcMain' = pcMain /\ next' = next
  OBVIOUS
<1>3. /\ status' \in [Proc!Services -> States]
      /\ status'[s] = v
      /\ \A u \in Proc!Services : u # s => status'[u] = status[u]
  BY <1>1, StatusAt DEF Turn
<1>4. CASE Creating
  <2>1. PICK k \in 1 .. Len(Proc!Started) : Proc!Started[k] = s
    BY StartedInTurn
  <2>2. k = next /\ pcMain = "waitStart" /\ v \in {"onStart", "running"}
    BY <1>1, <1>4, <2>1 DEF Creating
  <2>3. \A i \in 1 .. Len(Proc!Started) : i # k => status'[Proc!Started[i]] = status[Proc!Started[i]]
    BY <1>3, <2>1, StartedInTurn
  <2>4. Creating'
    BY <1>2, <1>3, <1>4, <2>1, <2>2, <2>3 DEF Creating
  <2> QED
    BY <1>3, <2>4 DEF Turn
<1>5. CASE Ending
  <2>1. PICK k \in 1 .. Len(Proc!Joined) : Proc!Joined[k] = s
    BY JoinedInTurn
  <2>2. k = next /\ pcMain = "waitJoin" /\ v \in {"draining", "ended"}
    BY <1>1, <1>5, <2>1 DEF Ending
  <2>3. \A i \in 1 .. Len(Proc!Joined) : i # k => status'[Proc!Joined[i]] = status[Proc!Joined[i]]
    BY <1>3, <2>1, JoinedInTurn
  <2>4. Ending'
    BY <1>2, <1>3, <1>5, <2>1, <2>2, <2>3 DEF Ending
  <2> QED
    BY <1>3, <2>4 DEF Turn
<1>6. ~AllRun /\ ~AllEnded
  BY <1>1 DEF AllRun, AllEnded
<1> QED
  BY <1>4, <1>5, <1>6 DEF Turn

LEMMA MainKeepsTurn ==
    ASSUME Turn, Proc!MainStep
    PROVE  Turn'
<1> DEFINE n == Len(Proc!Started)
<1> USE DEF Proc!MainAt
<1>0. n \in {6, 7} /\ Len(Proc!Joined) = n
  BY ThreadsInTurn
<1>1. CASE Proc!Creat
  <2> DEFINE s == Proc!Started[next]
  <2>1. Creating /\ pcMain = "create" /\ pcMain' = "waitStart" /\ next' = next
    BY <1>1 DEF Turn, AllRun, Ending, AllEnded, Proc!Creat
  <2>2. next \in 1 .. n /\ s \in Proc!Services
    BY <2>1, StartedInTurn DEF Creating
  <2>3. /\ status' \in [Proc!Services -> States]
        /\ status'[s] = "created"
        /\ \A u \in Proc!Services : u # s => status'[u] = status[u]
    BY <1>1, <2>2, StatusAt DEF Turn, Proc!Creat, States
  <2>4. \A i \in 1 .. n : i # next => status'[Proc!Started[i]] = status[Proc!Started[i]]
    BY <2>2, <2>3, StartedInTurn
  <2>5. Creating'
    BY <2>1, <2>2, <2>3, <2>4 DEF Creating
  <2> QED
    BY <2>3, <2>5 DEF Turn
<1>2. CASE Proc!WaitStart
  <2>1. Creating /\ pcMain = "waitStart" /\ status' = status /\ status[Proc!Started[next]] = "running"
    BY <1>2 DEF Turn, AllRun, Ending, AllEnded, Proc!WaitStart
  <2>2. next \in 1 .. n
    BY <2>1 DEF Creating
  <2>3. CASE next = n
    <3>1. \A i \in 1 .. n : status[Proc!Started[i]] = "running"
      BY <2>1, <2>2, <2>3 DEF Creating
    <3>2. \A s \in Proc!Services : status[s] = "running"
      BY <3>1, StartedInTurn
    <3>3. AllRun'
      BY <1>2, <2>1, <2>3, <3>2 DEF AllRun, Proc!WaitStart
    <3> QED
      BY <2>1, <3>3 DEF Turn
  <2>4. CASE next # n
    <3>1. pcMain' = "create" /\ next' = next + 1 /\ next' \in 1 .. n
      BY <1>0, <1>2, <2>2, <2>4 DEF Proc!WaitStart
    <3>2. Creating'
      BY <2>1, <2>2, <3>1 DEF Creating
    <3> QED
      BY <2>1, <3>2 DEF Turn
  <2> QED
    BY <2>3, <2>4
<1>3. CASE Proc!LockExit \/ Proc!Wait \/ Proc!Woken
           \/ Proc!Log("logStarted", "loggingStarted", "lock")
           \/ Proc!Log("logStop", "loggingStop", "unlock")
  <2>1. AllRun /\ status' = status /\ next' = next
    BY <1>3 DEF Turn, Creating, Ending, AllEnded, Proc!LockExit, Proc!Wait, Proc!Woken,
       Proc!Log
  <2>2. AllRun'
    BY <1>3, <2>1 DEF AllRun, Proc!LockExit, Proc!Wait, Proc!Woken, Proc!Log
  <2> QED
    BY <2>1, <2>2 DEF Turn
<1>4. CASE Proc!UnlockExit
  <2>1. AllRun /\ pcMain' = "join" /\ status' = status /\ next' = next
    BY <1>4 DEF Turn, Creating, Ending, AllEnded, Proc!UnlockExit
  <2>2. Ending'
    BY <1>0, <2>1, JoinedInTurn DEF AllRun, Ending
  <2> QED
    BY <2>1, <2>2 DEF Turn
<1>5. CASE Proc!Join
  <2> DEFINE s == Proc!Joined[next]
  <2>1. Ending /\ pcMain = "join" /\ pcMain' = "waitJoin" /\ next' = next
    BY <1>5 DEF Turn, AllRun, Creating, AllEnded, Proc!Join
  <2>2. next \in 1 .. n /\ s \in Proc!Services
    BY <1>0, <2>1, JoinedInTurn DEF Ending
  <2>3. /\ status' \in [Proc!Services -> States]
        /\ status'[s] = "stopping"
        /\ \A u \in Proc!Services : u # s => status'[u] = status[u]
    BY <1>5, <2>2, StatusAt DEF Turn, Proc!Join, States
  <2>4. \A i \in 1 .. n : i # next => status'[Proc!Joined[i]] = status[Proc!Joined[i]]
    BY <1>0, <2>2, <2>3, JoinedInTurn
  <2>5. Ending'
    BY <1>0, <2>1, <2>2, <2>3, <2>4 DEF Ending
  <2> QED
    BY <2>3, <2>5 DEF Turn
<1>6. CASE Proc!WaitJoin
  <2>1. Ending /\ pcMain = "waitJoin" /\ status' = status /\ status[Proc!Joined[next]] = "ended"
        /\ next' = next + 1
    BY <1>6 DEF Turn, AllRun, Creating, AllEnded, Proc!WaitJoin
  <2>2. next \in 1 .. n
    BY <1>0, <2>1 DEF Ending
  <2>3. CASE next = n
    <3>1. \A i \in 1 .. n : status[Proc!Joined[i]] = "ended"
      BY <1>0, <2>1, <2>2, <2>3 DEF Ending
    <3>2. \A s \in Proc!Services : status[s] = "ended"
      BY <1>0, <3>1, JoinedInTurn
    <3>3. AllEnded'
      BY <1>0, <1>6, <2>1, <2>3, <3>2 DEF AllEnded, Proc!WaitJoin
    <3> QED
      BY <2>1, <3>3 DEF Turn
  <2>4. CASE next # n
    <3>1. pcMain' \in {"logStopped", "join"} /\ next' \in 1 .. n
      BY <1>0, <1>6, <2>2, <2>4 DEF Proc!WaitJoin
    <3>2. Ending'
      BY <1>0, <2>1, <2>2, <3>1 DEF Ending
    <3> QED
      BY <2>1, <3>2 DEF Turn
  <2> QED
    BY <2>3, <2>4
<1>7. CASE Proc!Log("logStopped", "loggingStopped", "join")
  <2>1. Ending /\ pcMain # "waitJoin" /\ status' = status /\ next' = next
    BY <1>7 DEF Turn, Creating, AllRun, AllEnded, Proc!Log
  <2>2. pcMain' \in {"loggingStopped", "join"}
    BY <1>7 DEF Proc!Log
  <2>3. Ending'
    BY <2>1, <2>2 DEF Ending
  <2> QED
    BY <2>1, <2>3 DEF Turn
<1> QED
  BY <1>1, <1>2, <1>3, <1>4, <1>5, <1>6, <1>7 DEF Proc!MainStep

\* The workers are joined by the time the dispatcher's thread ends: only that
\* thread says "ended" of itself, and no worker comes back.
LEMMA ServicesKeep ==
    ASSUME ProcInv,
           (\E s \in Proc!Services : Proc!ServiceStep(s)) \/ Proc!LogDrains \/ Proc!LogEnds
    PROVE  ProcInv'
<1> USE DEF ProcInv, States
<1>0. working' = working /\ "log" \in Proc!Services /\ "log" # "worker"
  <2>1. "log" \in Proc!Services
    BY WorkerAndLogAreServices
  <2> QED
    BY <2>1 DEF Proc!ServiceStep, Proc!LogDrains, Proc!LogEnds
<1>1. ASSUME NEW s \in Proc!Services, Proc!ServiceStep(s)
      PROVE  ProcInv'
  <2>1. UNCHANGED <<pcMain, next>>
    BY <1>1 DEF Proc!ServiceStep
  <2>2. CASE Proc!ServiceAt(s, "created", "onStart") \/ Proc!ServiceAt(s, "onStart", "running")
    <3>1. Turn'
      BY <2>1, <2>2, ServiceKeepsTurn
    <3>2. status'["worker"] = "ended" => status["worker"] = "ended"
      BY <2>2, WorkerAndLogAreServices DEF Turn, Proc!ServiceAt
    <3> QED
      BY <1>0, <3>1, <3>2
  <2>3. CASE Proc!ServiceAt(s, "stopping", "ended") /\ (s = "worker" => working = {})
    <3>1. Turn'
      BY <2>1, <2>3, ServiceKeepsTurn
    <3>2. s # "worker" => status'["worker"] = status["worker"]
      BY <2>3, WorkerAndLogAreServices DEF Turn, Proc!ServiceAt
    <3> QED
      BY <1>0, <2>3, <3>1, <3>2
  <2> QED
    BY <1>1, <2>2, <2>3 DEF Proc!ServiceStep
<1>2. ASSUME NEW from, NEW v \in {"draining", "ended"}, Proc!ServiceAt("log", from, v),
             \/ from = "stopping"
             \/ from = "draining" /\ v = "ended",
             UNCHANGED <<pcMain, next>>
      PROVE  ProcInv'
  <2>1. Turn'
    BY <1>0, <1>2, ServiceKeepsTurn
  <2>2. status'["worker"] = status["worker"]
    BY <1>0, <1>2, WorkerAndLogAreServices DEF Turn, Proc!ServiceAt
  <2> QED
    BY <1>0, <2>1, <2>2
<1>3. CASE Proc!LogDrains
  BY <1>2, <1>3 DEF Proc!LogDrains
<1>4. CASE Proc!LogEnds
  BY <1>2, <1>4 DEF Proc!LogEnds
<1> QED
  BY <1>1, <1>3, <1>4

LEMMA MainKeeps ==
    ASSUME ProcInv, Proc!MainStep
    PROVE  ProcInv'
<1>1. working' = working
  BY DEF Proc!MainStep, Proc!Creat, Proc!WaitStart, Proc!LockExit, Proc!Wait, Proc!Woken,
     Proc!UnlockExit, Proc!Join, Proc!WaitJoin, Proc!Log
<1>2. status' = status \/ \E s : \E v \in {"created", "stopping"} :
                             status' = [status EXCEPT ![s] = v]
  BY DEF Proc!MainStep, Proc!Creat, Proc!WaitStart, Proc!LockExit, Proc!Wait, Proc!Woken,
     Proc!UnlockExit, Proc!Join, Proc!WaitJoin, Proc!Log
<1>3. status'["worker"] = "ended" => status["worker"] = "ended"
  BY <1>2, WorkerAndLogAreServices DEF ProcInv, Turn
<1> QED
  BY <1>1, <1>3, MainKeepsTurn DEF ProcInv

\* A signal, its handler and the log change nothing of the turn.
LEMMA ProcNext ==
    ASSUME ProcInv, [Proc!Next]_(Proc!vars)
    PROVE  ProcInv'
<1>1. CASE UNCHANGED <<pcMain, next, status, working>>
  BY <1>1 DEF ProcInv, Turn, Creating, AllRun, Ending, AllEnded
<1>2. UNCHANGED Proc!vars => UNCHANGED <<pcMain, next, status, working>>
  BY DEF Proc!vars
<1>3. ASSUME NEW t \in Proc!Threads,
             Proc!Signal(t) \/ Proc!HandlerStep(t) \/ Proc!TakesLog(t) \/ Proc!GivesLog(t)
      PROVE  UNCHANGED <<pcMain, next, status, working>>
  BY <1>3 DEF Proc!Signal, Proc!HandlerStep, Proc!HandlerLogs, Proc!HandlerLocks,
     Proc!HandlerBroadcasts, Proc!TakesLog, Proc!GivesLog
<1>4. ASSUME NEW w \in m_pWorker, Proc!WorkerLeaves(w)
      PROVE  ProcInv'
  <2>1. UNCHANGED <<pcMain, next, status>> /\ status["worker"] = "stopping"
    BY <1>4 DEF Proc!WorkerLeaves
  <2> QED
    BY <2>1 DEF ProcInv, Turn, Creating, AllRun, Ending, AllEnded
<1> QED
  BY <1>1, <1>2, <1>3, <1>4, MainKeeps, ServicesKeep DEF Proc!Next, Proc!Onward, Proc!LogGiven

\* What the turn says of two threads: one that has left "none" was created
\* after those before it ran, one that is asked to stop is asked after those
\* joined before it have ended.
LEMMA TurnsKept ==
    ASSUME Turn
    PROVE  /\ \A i, j \in 1 .. Len(Proc!Started) :
                i < j /\ status[Proc!Started[i]] \in {"none", "created", "onStart"}
                  => status[Proc!Started[j]] = "none"
           /\ \A i, j \in 1 .. Len(Proc!Joined) :
                i < j /\ status[Proc!Joined[j]] \in {"stopping", "draining", "ended"}
                  => status[Proc!Joined[i]] = "ended"
<1>0. /\ Len(Proc!Started) \in Nat /\ Len(Proc!Joined) \in Nat
      /\ \A i \in 1 .. Len(Proc!Started) : Proc!Started[i] \in Proc!Services
      /\ \A i \in 1 .. Len(Proc!Joined) : Proc!Joined[i] \in Proc!Services
  BY ThreadsInTurn
<1>1. CASE AllRun \/ AllEnded
  BY <1>0, <1>1 DEF AllRun, AllEnded
<1>2. CASE Creating
  <2>1. \A s \in Proc!Services : status[s] \in {"none", "created", "onStart", "running"}
    <3> SUFFICES ASSUME NEW s \in Proc!Services
                 PROVE  status[s] \in {"none", "created", "onStart", "running"}
      OBVIOUS
    <3>1. PICK i \in 1 .. Len(Proc!Started) : Proc!Started[i] = s
      BY StartedInTurn
    <3> QED
      BY <1>0, <1>2, <3>1 DEF Creating
  <2> QED
    BY <1>0, <1>2, <2>1 DEF Creating
<1>3. CASE Ending
  <2>1. \A s \in Proc!Services : status[s] \in {"running", "stopping", "draining", "ended"}
    <3> SUFFICES ASSUME NEW s \in Proc!Services
                 PROVE  status[s] \in {"running", "stopping", "draining", "ended"}
      OBVIOUS
    <3>1. PICK i \in 1 .. Len(Proc!Joined) : Proc!Joined[i] = s
      BY JoinedInTurn
    <3> QED
      BY <1>0, <1>3, <3>1 DEF Ending
  <2> QED
    BY <1>0, <1>3, <2>1 DEF Ending
<1> QED
  BY <1>1, <1>2, <1>3 DEF Turn

LEMMA TurnsSuffice == ProcInv => ProcessKeepsOrder
<1> SUFFICES ASSUME Turn, status["worker"] = "ended" => working = {}
             PROVE Proc!RegistryIsQuiet /\ Proc!EndsAfterItsUsers
  BY DEF ProcInv, ProcessKeepsOrder
<1>0. Len(Proc!Started) \in {6, 7} /\ Len(Proc!Joined) \in {6, 7}
  BY ThreadsInTurn
<1>1. Proc!RegistryIsQuiet
  <2>1. PICK i \in 1 .. Len(Proc!Started) - 3 :
          Proc!Started[i] = "net" /\ Proc!Started[i + 2] = "worker" /\ Proc!Started[i + 3] = "tick"
    BY ThreadsOrder
  <2>2. /\ i \in 1 .. Len(Proc!Started) /\ i + 2 \in 1 .. Len(Proc!Started)
        /\ i + 3 \in 1 .. Len(Proc!Started) /\ i < i + 2 /\ i < i + 3
    BY <1>0
  <2>3. status["net"] \in {"none", "created", "onStart"} =>
          status["worker"] = "none" /\ status["tick"] = "none"
    BY <2>1, <2>2, TurnsKept
  <2> QED
    BY <2>3 DEF Proc!RegistryIsQuiet
<1>2. Proc!EndsAfterItsUsers
  <2> DEFINE Kept(i, j) == status[Proc!Joined[j]] \in {"stopping", "draining", "ended"} =>
                             status[Proc!Joined[i]] = "ended"
  <2>1. \A i, j \in 1 .. Len(Proc!Joined) : i < j => Kept(i, j)
    BY TurnsKept
  <2>2. Kept(1, 2) /\ Kept(2, 3) /\ Kept(2, 4) /\ Kept(4, 5)
    BY <1>0, <2>1
  <2>3. /\ status["worker"] \in {"stopping", "draining", "ended"} => status["tick"] = "ended"
        /\ status["sender"] \in {"stopping", "draining", "ended"} => status["worker"] = "ended"
        /\ status["net"] \in {"stopping", "draining", "ended"} => status["worker"] = "ended"
        /\ status["linker"] \in {"stopping", "draining", "ended"} => status["net"] = "ended"
    BY <2>2, ThreadsOrder
  <2>4. ASSUME NEW s \in Proc!Services \ {"log"},
               status["log"] \in {"stopping", "draining", "ended"}
        PROVE  status[s] = "ended"
    <3>1. PICK i \in 1 .. Len(Proc!Joined) : Proc!Joined[i] = s
      BY JoinedInTurn
    <3>2. i < Len(Proc!Joined) /\ Len(Proc!Joined) \in 1 .. Len(Proc!Joined)
      BY <1>0, <3>1, ThreadsOrder
    <3>3. Kept(i, Len(Proc!Joined))
      BY <2>1, <3>2
    <3> QED
      BY <2>4, <3>1, <3>3, ThreadsOrder
  <2> SUFFICES ASSUME NEW use \in {<<"tick", "worker">>, <<"worker", "sender">>,
                                   <<"worker", "net">>, <<"net", "linker">>}
                                  \union ((Proc!Services \ {"log"}) \X {"log"}),
                      status[use[2]] \in {"stopping", "draining", "ended"}
               PROVE  status[use[1]] = "ended"
    BY DEF Proc!EndsAfterItsUsers
  <2>5. CASE use \in (Proc!Services \ {"log"}) \X {"log"}
    BY <2>4, <2>5
  <2>6. CASE use \in {<<"tick", "worker">>, <<"worker", "sender">>, <<"worker", "net">>,
                      <<"net", "linker">>}
    BY <2>3, <2>6
  <2> QED
    BY <2>5, <2>6
<1> QED
  BY <1>1, <1>2

\* runSV waits for each thread before it creates or joins the next, so the
\* services' map is filled before anybody reads it, and each thread ends after
\* those that use it, the workers before the dispatcher.
THEOREM ThreadsKeepOrder == Proc!Spec => []ProcessKeepsOrder
<1>1. ProcInv /\ [Proc!Next]_(Proc!vars) => ProcInv'
  BY ProcNext
<1> QED
  BY ProcInit, <1>1, TurnsSuffice, PTL DEF Proc!Spec

----------------------------------------------------------------------------
(* Packing.  A number is its quotient and its remainder.                      *)

LEMMA Fields ==
    ASSUME NEW n \in Nat \ {0}, NEW a \in Nat, NEW b \in Nat,
           NEW c \in 0 .. n - 1, NEW d \in 0 .. n - 1
    PROVE  /\ a * n + c = b * n + d => a = b /\ c = d
           /\ a < b => a * n + c < b * n + d
<1>1. ASSUME NEW x \in Nat, NEW y \in Nat, x < y,
             NEW e \in 0 .. n - 1, NEW f \in 0 .. n - 1
      PROVE  x * n + e < y * n + f
  <2>1. PICK k \in Nat : y = x + 1 + k
    BY <1>1, y - x - 1 \in Nat
  <2>2. y * n = x * n + n + k * n
    BY <2>1
  <2>3. k * n \in Nat /\ x * n \in Nat
    OBVIOUS
  <2> QED BY <2>2, <2>3
<1>2. a = b \/ a < b \/ b < a
  OBVIOUS
<1>3. a * n \in Nat /\ b * n \in Nat
  OBVIOUS
<1>4. ASSUME a * n + c = b * n + d PROVE a = b /\ c = d
  <2>1. ~(a < b) /\ ~(b < a)
    BY <1>1, <1>3, <1>4
  <2> QED BY <2>1, <1>2, <1>3, <1>4
<1> QED BY <1>1, <1>4

LEMMA IdInjective ==
    ASSUME NEW g \in Gens, NEW h \in Gens, NEW t \in Nat, NEW u \in Nat,
           NEW s \in 0 .. SequenceSize - 1, NEW r \in 0 .. SequenceSize - 1,
           Id(g, t, s) = Id(h, u, r)
    PROVE  g = h /\ t = u /\ s = r
<1> DEFINE a == t * DatacenterSize + Centerid[g]
           b == u * DatacenterSize + Centerid[h]
           c == a * WorkerSize + Workid[g]
           d == b * WorkerSize + Workid[h]
<1>0. /\ DatacenterSize \in Nat \ {0} /\ WorkerSize \in Nat \ {0}
      /\ SequenceSize \in Nat \ {0}
      /\ Centerid[g] \in 0 .. DatacenterSize - 1
      /\ Centerid[h] \in 0 .. DatacenterSize - 1
      /\ Workid[g] \in 0 .. WorkerSize - 1 /\ Workid[h] \in 0 .. WorkerSize - 1
  BY SnowFlakeAssumption
<1>1. a \in Nat /\ b \in Nat
  BY <1>0
<1>2. c \in Nat /\ d \in Nat
  <2> HIDE DEF a, b
  <2> QED BY <1>0, <1>1
<1>3. c * SequenceSize + s = d * SequenceSize + r
  BY DEF Id
<1>4. c = d /\ s = r
  <2> HIDE DEF c, d
  <2> QED BY <1>0, <1>2, <1>3, Fields
<1>5. a = b /\ Workid[g] = Workid[h]
  <2> HIDE DEF a, b
  <2> QED BY <1>0, <1>1, <1>4, Fields
<1>6. t = u /\ Centerid[g] = Centerid[h]
  <2>1. t * DatacenterSize + Centerid[g] = u * DatacenterSize + Centerid[h]
    BY <1>5
  <2> QED BY <2>1, <1>0, Fields
<1> QED BY <1>4, <1>5, <1>6, DistinctAssumption

LEMMA IdGrows ==
    ASSUME NEW g \in Gens, NEW t \in Nat, NEW u \in Nat,
           NEW s \in 0 .. SequenceSize - 1, NEW r \in 0 .. SequenceSize - 1,
           t < u \/ (t = u /\ s < r)
    PROVE  Id(g, t, s) < Id(g, u, r)
<1> DEFINE a == t * DatacenterSize + Centerid[g]
           b == u * DatacenterSize + Centerid[g]
           c == a * WorkerSize + Workid[g]
           d == b * WorkerSize + Workid[g]
<1>0. /\ DatacenterSize \in Nat \ {0} /\ WorkerSize \in Nat \ {0}
      /\ SequenceSize \in Nat \ {0}
      /\ Centerid[g] \in 0 .. DatacenterSize - 1
      /\ Workid[g] \in 0 .. WorkerSize - 1
  BY SnowFlakeAssumption
<1>1. a \in Nat /\ b \in Nat /\ (t < u => a < b)
  BY <1>0, Fields
<1>2. c \in Nat /\ d \in Nat /\ (a < b => c < d)
  <2> HIDE DEF a, b
  <2> QED BY <1>0, <1>1, Fields
<1>3. t < u => c * SequenceSize + s < d * SequenceSize + r
  <2> HIDE DEF a, b, c, d
  <2> QED BY <1>0, <1>1, <1>2, Fields
<1>4. t = u /\ s < r => c * SequenceSize + s < d * SequenceSize + r
  <2>1. t = u => c = d
    OBVIOUS
  <2>2. c * SequenceSize \in Nat
    <3> HIDE DEF c
    <3> QED BY <1>0, <1>2
  <2> HIDE DEF c, d
  <2> QED BY <2>1, <2>2
<1> QED BY <1>3, <1>4 DEF Id

----------------------------------------------------------------------------
(* The inductive invariant                                                    *)

LEMMA IdsInitially == IdsInit => IInv
BY SnowFlakeAssumption
   DEF IdsInit, IInv, IdsTypeOK, IssuedLiesBehind, IssuedInOrder

\* Returning an identifier that lies ahead of all the generator has returned.
LEMMA IdsReturnKeeps ==
    ASSUME IInv, NEW g \in Gens, NEW t \in 0 .. MaxClock,
           NEW s \in 0 .. SequenceSize - 1, Return(g, t, s), pcIds[g] # "none",
           t >= lastTime[g],
           \A i \in DOMAIN issued :
               issued[i].gen = g => issued[i].time < t
                                    \/ (issued[i].time = t /\ issued[i].seq < s)
    PROVE  IInv'
<1> DEFINE new == [gen |-> g, time |-> t, seq |-> s]
<1>0. IdsTypeOK /\ IssuedLiesBehind /\ IssuedInOrder
  BY DEF IInv
<1>1. new \in Record
  BY DEF Record
<1>2. issued \in Seq(Record) /\ issued' = Append(issued, new)
  BY <1>0 DEF IdsTypeOK, Return
<1> DEFINE n == Len(issued) + 1
<1>3. /\ n \in Nat /\ DOMAIN issued' = 1 .. n /\ DOMAIN issued = 1 .. n - 1
      /\ issued'[n] = new
      /\ \A i \in 1 .. n - 1 : issued'[i] = issued[i] /\ issued[i] \in Record
  BY <1>1, <1>2
<1> HIDE DEF n
<1>4. IdsTypeOK'
  BY <1>0, <1>1, <1>2 DEF IdsTypeOK, Return
<1>5. pcIds'[g] = "ready" /\ lastTime'[g] = t /\ sequence'[g] = s
  BY <1>0 DEF IdsTypeOK, Return
<1>6. IssuedLiesBehind'
  <2> SUFFICES ASSUME NEW i \in 1 .. n
               PROVE  /\ pcIds'[issued'[i].gen] # "none"
                      /\ issued'[i].time <= lastTime'[issued'[i].gen]
                      /\ pcIds'[issued'[i].gen] = "ready"
                            /\ issued'[i].time = lastTime'[issued'[i].gen]
                         => issued'[i].seq <= sequence'[issued'[i].gen]
    BY <1>3 DEF IssuedLiesBehind
  <2>1. CASE i = n
    BY <2>1, <1>0, <1>3 DEF Return, IdsTypeOK
  <2>2. CASE i # n /\ issued[i].gen = g
    <3>1. i \in DOMAIN issued /\ issued'[i] = issued[i] /\ issued[i] \in Record
      BY <2>2, <1>3
    <3>2. issued[i].time \in Nat /\ issued[i].seq \in Nat
      BY <3>1, SnowFlakeAssumption DEF Record
    <3>3. issued[i].time < t \/ (issued[i].time = t /\ issued[i].seq < s)
      BY <2>2, <3>1
    <3>4. t \in Nat /\ s \in Nat
      BY SnowFlakeAssumption
    <3>5. issued[i].time <= t /\ (issued[i].time = t => issued[i].seq <= s)
      BY <3>2, <3>3, <3>4
    <3> QED BY <1>5, <2>2, <3>1, <3>5
  <2>3. CASE i # n /\ issued[i].gen # g
    <3>1. i \in DOMAIN issued /\ issued'[i] = issued[i] /\ issued[i].gen \in Gens
      BY <2>3, <1>3 DEF Record
    <3> QED BY <2>3, <3>1, <1>0 DEF Return, IdsTypeOK, IssuedLiesBehind
  <2> QED BY <2>1, <2>2, <2>3
<1>7. IssuedInOrder'
  <2> SUFFICES ASSUME NEW i \in 1 .. n, NEW j \in 1 .. n,
                      i < j, issued'[i].gen = issued'[j].gen
               PROVE  \/ issued'[i].time < issued'[j].time
                      \/ /\ issued'[i].time = issued'[j].time
                         /\ issued'[i].seq < issued'[j].seq
    BY <1>3 DEF IssuedInOrder
  <2>1. CASE j = n
    BY <2>1, <1>3
  <2>2. CASE j # n
    BY <2>2, <1>0, <1>3 DEF IssuedInOrder
  <2> QED BY <2>1, <2>2
<1> QED BY <1>4, <1>6, <1>7 DEF IInv

LEMMA IdsStep ==
    ASSUME IInv, [IdsNext]_idsVars
    PROVE  IInv'
<1>0. IdsTypeOK /\ IssuedLiesBehind /\ IssuedInOrder
  BY DEF IInv
<1>1. \A i \in DOMAIN issued : issued[i] \in Record
  BY <1>0 DEF IdsTypeOK
<1>2. CASE Clock
  BY <1>0, <1>2 DEF Clock, IInv, IdsTypeOK, IssuedLiesBehind, IssuedInOrder
<1>3. ASSUME NEW g \in Gens, Construct(g) PROVE IInv'
  <2>1. \A i \in DOMAIN issued : issued[i].gen # g /\ issued[i].gen \in Gens
    BY <1>0, <1>1, <1>3 DEF IssuedLiesBehind, Construct, Record
  <2>2. IdsTypeOK'
    BY <1>0, <1>3 DEF IdsTypeOK, Construct
  <2>3. IssuedLiesBehind'
    BY <1>0, <1>3, <2>1 DEF IssuedLiesBehind, Construct, IdsTypeOK
  <2>4. IssuedInOrder'
    BY <1>0, <1>3 DEF IssuedInOrder, Construct
  <2> QED BY <2>2, <2>3, <2>4 DEF IInv
<1>4. ASSUME NEW g \in Gens, GetIDNew(g) PROVE IInv'
  <2>1. \A i \in DOMAIN issued : issued[i].gen = g => issued[i].time < clock
    BY <1>0, <1>1, <1>4 DEF IssuedLiesBehind, GetIDNew, IdsTypeOK, Record
  <2>2. Return(g, clock, 0) /\ pcIds[g] # "none" /\ clock >= lastTime[g]
    BY <1>0, <1>4 DEF GetIDNew, IdsTypeOK
  <2>3. clock \in 0 .. MaxClock /\ 0 \in 0 .. SequenceSize - 1
    BY <1>0, SnowFlakeAssumption DEF IdsTypeOK
  <2> QED BY <2>1, <2>2, <2>3, IdsReturnKeeps
<1>5. ASSUME NEW g \in Gens, GetIDNext(g) PROVE IInv'
  <2>1. sequence[g] + 1 \in 0 .. SequenceSize - 1
    <3>1. sequence[g] \in 0 .. SequenceSize - 1 /\ SequenceSize \in Nat \ {0}
      BY <1>0, SnowFlakeAssumption DEF IdsTypeOK
    <3>2. (sequence[g] + 1) % SequenceSize # 0
      BY <1>5 DEF GetIDNext
    <3>3. SequenceSize % SequenceSize = 0
      BY <3>1, Z3
    <3>4. sequence[g] + 1 # SequenceSize
      BY <3>2, <3>3
    <3> QED BY <3>1, <3>4
  <2>2. \A i \in DOMAIN issued :
            issued[i].gen = g => issued[i].time < clock
                \/ (issued[i].time = clock /\ issued[i].seq < sequence[g] + 1)
    <3> SUFFICES ASSUME NEW i \in DOMAIN issued, issued[i].gen = g
                 PROVE  \/ issued[i].time < clock
                        \/ issued[i].time = clock /\ issued[i].seq < sequence[g] + 1
      OBVIOUS
    <3>1. issued[i].time \in 0 .. MaxClock /\ issued[i].seq \in 0 .. SequenceSize - 1
      BY <1>1 DEF Record
    <3>2. /\ issued[i].time <= lastTime[g]
          /\ issued[i].time = lastTime[g] => issued[i].seq <= sequence[g]
      BY <1>0, <1>5 DEF IssuedLiesBehind, GetIDNext
    <3>3. lastTime[g] = clock /\ clock \in Nat /\ sequence[g] \in Nat
      BY <1>0, <1>5, SnowFlakeAssumption DEF GetIDNext, IdsTypeOK
    <3> QED BY <3>1, <3>2, <3>3, SnowFlakeAssumption
  <2>3. Return(g, clock, sequence[g] + 1) /\ pcIds[g] # "none" /\ clock >= lastTime[g]
    BY <1>0, <1>5 DEF GetIDNext, IdsTypeOK
  <2>4. clock \in 0 .. MaxClock
    BY <1>0 DEF IdsTypeOK
  <2> QED BY <2>1, <2>2, <2>3, <2>4, IdsReturnKeeps
<1>6. ASSUME NEW g \in Gens, GetIDFull(g) PROVE IInv'
  <2>1. \A i \in DOMAIN issued : issued[i].gen \in Gens
    BY <1>1 DEF Record
  <2>2. IdsTypeOK'
    BY <1>0, <1>6, SnowFlakeAssumption DEF IdsTypeOK, GetIDFull
  <2>3. IssuedLiesBehind'
    <3> SUFFICES ASSUME NEW i \in DOMAIN issued
                 PROVE  LET r == issued[i] IN
                        /\ pcIds'[r.gen] # "none"
                        /\ r.time <= lastTime[r.gen]
                        /\ pcIds'[r.gen] = "ready" /\ r.time = lastTime[r.gen]
                           => r.seq <= sequence'[r.gen]
      BY <1>6 DEF IssuedLiesBehind, GetIDFull
    <3>1. CASE issued[i].gen = g
      BY <1>0, <1>6, <3>1 DEF IssuedLiesBehind, GetIDFull, IdsTypeOK
    <3>2. CASE issued[i].gen # g
      <4>1. /\ pcIds'[issued[i].gen] = pcIds[issued[i].gen]
            /\ sequence'[issued[i].gen] = sequence[issued[i].gen]
        BY <1>0, <1>6, <2>1, <3>2 DEF GetIDFull, IdsTypeOK
      <4> QED BY <1>0, <4>1 DEF IssuedLiesBehind
    <3> QED BY <3>1, <3>2
  <2>4. IssuedInOrder'
    BY <1>0, <1>6 DEF IssuedInOrder, GetIDFull
  <2> QED BY <2>2, <2>3, <2>4 DEF IInv
<1>7. ASSUME NEW g \in Gens, TilNextMillis(g) PROVE IInv'
  <2>1. \A i \in DOMAIN issued : issued[i].gen = g => issued[i].time < clock
    BY <1>0, <1>1, <1>7 DEF IssuedLiesBehind, TilNextMillis, IdsTypeOK, Record
  <2>2. sequence[g] \in 0 .. SequenceSize - 1
    BY <1>0 DEF IdsTypeOK
  <2> QED BY <1>0, <1>7, <2>1, <2>2, IdsReturnKeeps DEF TilNextMillis, IdsTypeOK
<1>8. ASSUME NEW g \in Gens, Abort(g) PROVE IInv'
  <2>1. \A i \in DOMAIN issued : issued[i].gen \in Gens
    BY <1>1 DEF Record
  <2>2. IdsTypeOK'
    BY <1>0, <1>8 DEF IdsTypeOK, Abort
  <2>3. IssuedLiesBehind'
    BY <1>0, <1>8, <2>1 DEF IssuedLiesBehind, Abort
  <2>4. IssuedInOrder'
    BY <1>0, <1>8 DEF IssuedInOrder, Abort
  <2> QED BY <2>2, <2>3, <2>4 DEF IInv
<1>9. CASE UNCHANGED idsVars
  BY <1>0, <1>9 DEF idsVars, IInv, IdsTypeOK, IssuedLiesBehind, IssuedInOrder
<1> QED BY <1>2, <1>3, <1>4, <1>5, <1>6, <1>7, <1>8, <1>9 DEF IdsNext, GetID

LEMMA IdsInductive == IdsSpec => []IInv
BY IdsInitially, IdsStep, PTL DEF IdsSpec

----------------------------------------------------------------------------

LEMMA OrderGivesIds ==
    ASSUME IInv
    PROVE  Unique /\ Increasing
<1>0. IdsTypeOK /\ IssuedInOrder
  BY DEF IInv
<1>1. ASSUME NEW i \in DOMAIN issued
      PROVE  /\ i \in Nat /\ issued[i].gen \in Gens /\ issued[i].time \in Nat
             /\ issued[i].seq \in 0 .. SequenceSize - 1
  <2>1. i \in Nat /\ issued[i] \in Record
    BY <1>0, <1>1 DEF IdsTypeOK
  <2> QED BY <2>1, SnowFlakeAssumption DEF Record
<1>2. Increasing
  <2> SUFFICES ASSUME NEW i \in DOMAIN issued, NEW j \in DOMAIN issued,
                      i < j, issued[i].gen = issued[j].gen
               PROVE  IdOf(i) < IdOf(j)
    BY DEF Increasing
  <2>1. \/ issued[i].time < issued[j].time
        \/ issued[i].time = issued[j].time /\ issued[i].seq < issued[j].seq
    BY <1>0 DEF IssuedInOrder
  <2> DEFINE g == issued[i].gen
  <2>2. /\ g \in Gens /\ issued[i].time \in Nat /\ issued[j].time \in Nat
        /\ issued[i].seq \in 0 .. SequenceSize - 1
        /\ issued[j].seq \in 0 .. SequenceSize - 1
    BY <1>1
  <2>3. Id(g, issued[i].time, issued[i].seq) < Id(g, issued[j].time, issued[j].seq)
    <3> HIDE DEF g
    <3> QED BY <2>1, <2>2, IdGrows
  <2> QED BY <2>3 DEF IdOf
<1>3. ASSUME NEW i \in DOMAIN issued, NEW j \in DOMAIN issued,
             IdOf(i) = IdOf(j), i < j
      PROVE  FALSE
  <2>1. /\ issued[i].gen = issued[j].gen /\ issued[i].time = issued[j].time
        /\ issued[i].seq = issued[j].seq
    BY <1>1, <1>3, IdInjective DEF IdOf
  <2> QED BY <2>1, <1>0, <1>1, <1>3 DEF IssuedInOrder
<1>4. Unique
  BY <1>1, <1>3 DEF Unique
<1> QED BY <1>2, <1>4

\* The state of CSnowFlake stays within its fields: the sequence within its
\* bits, the last time never beyond the clock's range.
THEOREM IdsTypeCorrect == IdsSpec => []IdsTypeOK
<1>1. IInv => IdsTypeOK
  BY DEF IInv
<1> QED BY <1>1, IdsInductive, PTL

\* getID never returns an identifier twice, for any number of generators with
\* distinct numbers, whatever the clock does.
THEOREM NeverTwice == IdsSpec => []Unique
BY OrderGivesIds, IdsInductive, PTL

\* The identifiers that one generator's getID returns grow.
THEOREM AlwaysGrows == IdsSpec => []Increasing
BY OrderGivesIds, IdsInductive, PTL

----------------------------------------------------------------------------
(* CCirQueue                                                                  *)

\* A step stays within the ring's memory.
LEMMA StepKeepsTypes == QueueTypeOK /\ [QueueNext]_queueVars => QueueTypeOK'
<1> SUFFICES ASSUME QueueTypeOK, [QueueNext]_queueVars
             PROVE  QueueTypeOK'
    OBVIOUS
<1> USE CirQueueAssumption DEF QueueTypeOK, Places
<1>1. ASSUME NEW v \in Values, Push(v)
      PROVE  QueueTypeOK'
    <2>1. CASE Full
        BY <1>1, <2>1 DEF Push
    <2>2. CASE ~Full
        <3>1. Wrap(m_iNext + m_iSize) \in Places
            BY <2>2 DEF Wrap, Full
        <3>2. m_iSize' \in 0 .. m_iCapacity
            BY <1>1, <2>2 DEF Push, Full
        <3> QED BY <1>1, <2>2, <3>1, <3>2 DEF Push
    <2> QED BY <2>1, <2>2
<1>2. CASE Pop
    BY <1>2 DEF Pop, Wrap
<1>3. CASE Peek
    BY <1>3 DEF Peek
<1>4. CASE UNCHANGED queueVars
    BY <1>4 DEF queueVars
<1> QED BY <1>1, <1>2, <1>3, <1>4 DEF QueueNext

\* CCirQueue never writes or reads outside its memory, whatever the capacity.
THEOREM QueueTypeCorrect == QueueSpec => []QueueTypeOK
<1>1. QueueInit => QueueTypeOK
    BY CirQueueAssumption DEF QueueInit, QueueTypeOK, Places
<1> QED BY <1>1, StepKeepsTypes, PTL DEF QueueSpec

\* The ring's places, in their order from the oldest value, are different.
LEMMA Distinct ==
    ASSUME QueueTypeOK, NEW i \in 1 .. m_iCapacity, NEW j \in 1 .. m_iCapacity,
           Wrap(m_iNext + i - 1) = Wrap(m_iNext + j - 1)
    PROVE  i = j
    BY CirQueueAssumption DEF QueueTypeOK, Wrap, Places

\* The values of the ring, as a sequence.
LEMMA QueueIsSeq ==
    QueueTypeOK =>
        /\ Queue \in Seq(Values)
        /\ Len(Queue) = m_iSize
        /\ \A i \in 1 .. m_iSize : Queue[i] = m_pData[Wrap(m_iNext + i - 1)]
<1> SUFFICES ASSUME QueueTypeOK
             PROVE  /\ Queue \in Seq(Values)
                    /\ Len(Queue) = m_iSize
                    /\ \A i \in 1 .. m_iSize :
                          Queue[i] = m_pData[Wrap(m_iNext + i - 1)]
    OBVIOUS
<1>1. \A i \in 1 .. m_iSize : Wrap(m_iNext + i - 1) \in Places
    BY CirQueueAssumption DEF QueueTypeOK, Wrap, Places
<1>2. Queue \in [1 .. m_iSize -> Values]
    BY <1>1 DEF Queue, QueueTypeOK
<1>3. m_iSize \in Nat
    BY CirQueueAssumption DEF QueueTypeOK
<1>4. Len(Queue) = m_iSize
    BY <1>2, <1>3
<1> QED BY <1>2, <1>3, <1>4 DEF Queue

\* The same after a step.
LEMMA NewQueueIsSeq ==
    QueueTypeOK' =>
        /\ Queue' \in Seq(Values)
        /\ Len(Queue') = m_iSize'
        /\ \A i \in 1 .. m_iSize' : Queue'[i] = m_pData'[Wrap(m_iNext' + i - 1)]
<1>1. (QueueTypeOK =>
        /\ Queue \in Seq(Values)
        /\ Len(Queue) = m_iSize
        /\ \A i \in 1 .. m_iSize : Queue[i] = m_pData[Wrap(m_iNext + i - 1)])'
    BY QueueIsSeq, PTL
<1> QED BY <1>1 DEF Wrap

\* Push appends, or finds the queue full.
LEMMA PushAppends ==
    ASSUME QueueTypeOK, QueueTypeOK', NEW v \in Values, Push(v)
    PROVE  Fifo!Push(v)
<1>1. CASE Full
    <2>1. Queue' = Queue
        BY <1>1 DEF Push, Queue, Wrap
    <2>2. ~(Len(Queue) < m_iCapacity)
        BY <1>1, QueueIsSeq, CirQueueAssumption DEF Full, QueueTypeOK
    <2> QED BY <1>1, <2>1, <2>2 DEF Push, Fifo!Push
<1>2. CASE ~Full
    <2>1. m_iSize < m_iCapacity /\ m_iSize' = m_iSize + 1 /\ m_iNext' = m_iNext
        BY <1>2, CirQueueAssumption DEF Push, Full, QueueTypeOK
    <2>2. m_pData' = [m_pData EXCEPT ![Wrap(m_iNext + m_iSize)] = v]
        BY <1>2 DEF Push
    <2>3. ASSUME NEW i \in 1 .. m_iSize
          PROVE  m_pData'[Wrap(m_iNext + i - 1)] = m_pData[Wrap(m_iNext + i - 1)]
        <3>1. i \in 1 .. m_iCapacity /\ m_iSize + 1 \in 1 .. m_iCapacity /\ i # m_iSize + 1
            BY <2>1, <2>3, CirQueueAssumption DEF QueueTypeOK
        <3>2. m_iNext + (m_iSize + 1) - 1 = m_iNext + m_iSize
            BY CirQueueAssumption DEF QueueTypeOK, Places
        <3>3. Wrap(m_iNext + i - 1) # Wrap(m_iNext + m_iSize)
            BY <3>1, <3>2, Distinct
        <3> QED BY <2>2, <3>3 DEF QueueTypeOK
    <2>4. m_pData'[Wrap(m_iNext + m_iSize)] = v
        <3>1. Wrap(m_iNext + m_iSize) \in Places
            BY <2>1, CirQueueAssumption DEF QueueTypeOK, Wrap, Places
        <3> QED BY <2>2, <3>1 DEF QueueTypeOK
    <2>5. m_iNext + (m_iSize + 1) - 1 = m_iNext + m_iSize
        BY CirQueueAssumption DEF QueueTypeOK, Places
    <2>6. ASSUME NEW i \in 1 .. m_iSize + 1
          PROVE  Queue'[i] = Append(Queue, v)[i]
        <3>1. Queue'[i] = m_pData'[Wrap(m_iNext + i - 1)]
            BY <2>1, <2>6, NewQueueIsSeq
        <3>2. CASE i = m_iSize + 1
            BY <3>1, <3>2, <2>4, <2>5, QueueIsSeq, AppendProperties
        <3>3. CASE i # m_iSize + 1
            <4>1. i \in 1 .. m_iSize
                BY <3>3, <2>6, CirQueueAssumption DEF QueueTypeOK
            <4> QED BY <3>1, <4>1, <2>3, QueueIsSeq, AppendProperties
        <3> QED BY <3>2, <3>3
    <2>7. Queue' = Append(Queue, v)
        BY <2>1, <2>6, QueueIsSeq, NewQueueIsSeq, AppendProperties, SeqEqual
    <2>8. Len(Queue) < m_iCapacity
        BY <2>1, QueueIsSeq
    <2> QED BY <1>2, <2>7, <2>8 DEF Push, Fifo!Push
<1> QED BY <1>1, <1>2

\* Pop takes the head, or finds the queue empty.
LEMMA PopTakesHead ==
    ASSUME QueueTypeOK, QueueTypeOK', Pop
    PROVE  Fifo!Pop
<1>1. CASE m_iSize > 0
    <2>1. /\ m_iSize' = m_iSize - 1
          /\ m_iNext' = Wrap(m_iNext + 1)
          /\ m_pData' = m_pData
          /\ rtn' = m_pData[m_iNext]
        BY <1>1 DEF Pop
    <2>2. m_iSize \in Nat /\ m_iNext \in Nat /\ m_iNext < m_iCapacity
        BY CirQueueAssumption DEF QueueTypeOK, Places
    <2>3. Queue # <<>> /\ Head(Queue) = m_pData[m_iNext]
        <3>1. Wrap(m_iNext + 1 - 1) = m_iNext
            BY <2>2, CirQueueAssumption DEF Wrap
        <3>2. 1 \in 1 .. m_iSize
            BY <1>1, <2>2
        <3> QED BY <1>1, <3>1, <3>2, QueueIsSeq
    <2>4. ASSUME NEW i \in 1 .. m_iSize - 1
          PROVE  Queue'[i] = Tail(Queue)[i]
        <3>1. i \in 1 .. m_iSize' /\ i + 1 \in 1 .. m_iSize
            BY <2>1, <2>2, <2>4
        <3>2. Queue'[i] = m_pData[Wrap(m_iNext' + i - 1)]
            BY <2>1, <3>1, NewQueueIsSeq
        <3>3. Tail(Queue)[i] = Queue[i + 1]
            BY <2>3, <2>4, <2>2, QueueIsSeq, HeadTailProperties
        <3>4. i < m_iCapacity
            BY <2>4, CirQueueAssumption DEF QueueTypeOK
        <3>5. Wrap(m_iNext' + i - 1) = Wrap(m_iNext + (i + 1) - 1)
            BY <2>1, <2>2, <2>4, <3>4, CirQueueAssumption DEF Wrap
        <3> QED BY <3>1, <3>2, <3>3, <3>5, QueueIsSeq
    <2>7. Queue' = Tail(Queue)
        <3>1. /\ Tail(Queue) \in Seq(Values)
              /\ Len(Tail(Queue)) = m_iSize - 1
            BY <2>3, QueueIsSeq, HeadTailProperties
        <3>2. /\ Queue' \in Seq(Values)
              /\ Len(Queue') = m_iSize - 1
            BY <2>1, NewQueueIsSeq
        <3> QED BY <2>4, <3>1, <3>2, SeqEqual
    <2> QED BY <2>1, <2>3, <2>7 DEF Fifo!Pop
<1>2. CASE ~(m_iSize > 0)
    <2>1. Len(Queue) = 0
        BY <1>2, QueueIsSeq, CirQueueAssumption DEF QueueTypeOK
    <2>2. Queue = <<>>
        BY <2>1, QueueIsSeq
    <2>3. Queue' = Queue
        BY <1>2 DEF Pop, Queue, Wrap
    <2> QED BY <1>2, <2>2, <2>3 DEF Pop, Fifo!Pop
<1> QED BY <1>1, <1>2

\* Peek looks at the head.
LEMMA PeekLooks ==
    ASSUME QueueTypeOK, Peek
    PROVE  Fifo!Peek
<1>1. Queue' = Queue
    BY DEF Peek, Queue, Wrap
<1>2. m_iSize \in Nat /\ m_iNext \in Nat /\ m_iNext < m_iCapacity
    BY CirQueueAssumption DEF QueueTypeOK, Places
<1>3. CASE m_iSize > 0
    <2>1. Wrap(m_iNext + 1 - 1) = m_iNext
        BY <1>2, CirQueueAssumption DEF Wrap
    <2>2. 1 \in 1 .. m_iSize
        BY <1>2, <1>3
    <2>3. Queue # <<>> /\ Head(Queue) = m_pData[m_iNext]
        BY <1>3, <2>1, <2>2, QueueIsSeq
    <2> QED BY <1>1, <1>3, <2>3 DEF Peek, Fifo!Peek
<1>4. CASE ~(m_iSize > 0)
    <2>1. Queue = <<>>
        BY <1>2, <1>4, QueueIsSeq
    <2> QED BY <1>1, <1>4, <2>1 DEF Peek, Fifo!Peek
<1> QED BY <1>3, <1>4

\* The ring is a bounded first-in first-out queue, for every capacity: no value
\* is lost, overwritten, returned twice or made up.
THEOREM QueueImplements == QueueSpec => ImplementsBoundedFifo
<1>1. QueueInit => Fifo!Init
    <2> SUFFICES ASSUME QueueInit
                 PROVE  Fifo!Init
        OBVIOUS
    <2>1. Queue = <<>>
        BY DEF QueueInit, Queue
    <2> QED BY <2>1 DEF QueueInit, Fifo!Init
<1>2. QueueTypeOK /\ QueueTypeOK' /\ [QueueNext]_queueVars => [Fifo!Next]_<<Queue, rtn>>
    <2> SUFFICES ASSUME QueueTypeOK, QueueTypeOK', [QueueNext]_queueVars
                 PROVE  [Fifo!Next]_<<Queue, rtn>>
        OBVIOUS
    <2>1. ASSUME NEW v \in Values, Push(v)
          PROVE  Fifo!Next
        BY <2>1, PushAppends DEF Fifo!Next
    <2>2. CASE Pop
        BY <2>2, PopTakesHead DEF Fifo!Next
    <2>3. CASE Peek
        BY <2>3, PeekLooks DEF Fifo!Next
    <2>4. CASE UNCHANGED queueVars
        BY <2>4 DEF queueVars, Queue, Wrap
    <2> QED BY <2>1, <2>2, <2>3, <2>4 DEF QueueNext
<1> QED BY <1>1, <1>2, QueueTypeCorrect, PTL DEF QueueSpec, ImplementsBoundedFifo, Fifo!Spec

----------------------------------------------------------------------------
(* CObjPool                                                                   *)

PoolIInv == PoolTypeOK /\ OneOwner /\ CountIsUsed

\* What Malloc takes from the queue is not in the rest of it.
LEMMA TailForgetsHead ==
    ASSUME NEW q \in Seq(Objects), q # <<>>, IsInjective(q)
    PROVE  /\ Tail(q) \in Seq(Objects)
           /\ IsInjective(Tail(q))
           /\ Head(q) \in Range(q)
           /\ Range(Tail(q)) = Range(q) \ {Head(q)}
<1>1. /\ Tail(q) \in Seq(Objects)
      /\ Len(Tail(q)) = Len(q) - 1
      /\ \A i \in 1 .. Len(Tail(q)) : Tail(q)[i] = q[i + 1]
    BY HeadTailProperties
<1>2. /\ Len(q) \in Nat /\ Len(q) > 0
      /\ DOMAIN q = 1 .. Len(q)
      /\ DOMAIN Tail(q) = 1 .. Len(q) - 1
      /\ Head(q) = q[1]
    BY <1>1, LenProperties, EmptySeq
<1>3. IsInjective(Tail(q))
    BY <1>1, <1>2 DEF IsInjective
<1>4. Head(q) \in Range(q)
    BY <1>2 DEF Range
<1>5. ASSUME NEW o \in Range(Tail(q))
      PROVE  o \in Range(q) \ {Head(q)}
    <2>1. PICK i \in 1 .. Len(q) - 1 : o = Tail(q)[i]
        BY <1>2, <1>5 DEF Range
    <2>2. o = q[i + 1] /\ i + 1 \in 1 .. Len(q) /\ 1 \in 1 .. Len(q) /\ i + 1 # 1
        BY <1>1, <1>2, <2>1
    <2> QED BY <1>2, <2>2 DEF Range, IsInjective
<1>6. ASSUME NEW o \in Range(q) \ {Head(q)}
      PROVE  o \in Range(Tail(q))
    <2>1. PICK i \in 1 .. Len(q) : o = q[i]
        BY <1>2, <1>6 DEF Range
    <2>2. i - 1 \in 1 .. Len(q) - 1 /\ (i - 1) + 1 = i
        BY <1>2, <1>6, <2>1
    <2>3. Tail(q)[i - 1] = o
        BY <1>1, <2>1, <2>2
    <2> QED BY <1>2, <2>2, <2>3 DEF Range
<1> QED BY <1>1, <1>3, <1>4, <1>5, <1>6

\* What Free puts into the queue is in it once.
LEMMA AppendAddsOne ==
    ASSUME NEW q \in Seq(Objects), IsInjective(q), NEW o \in Objects, o \notin Range(q)
    PROVE  /\ Append(q, o) \in Seq(Objects)
           /\ IsInjective(Append(q, o))
           /\ Range(Append(q, o)) = Range(q) \union {o}
<1>1. /\ Append(q, o) \in Seq(Objects)
      /\ Len(Append(q, o)) = Len(q) + 1
      /\ \A i \in 1 .. Len(q) : Append(q, o)[i] = q[i]
      /\ Append(q, o)[Len(q) + 1] = o
    BY AppendProperties
<1>2. /\ Len(q) \in Nat
      /\ DOMAIN q = 1 .. Len(q)
      /\ DOMAIN Append(q, o) = 1 .. Len(q) + 1
    BY <1>1, LenProperties
<1>3. \A i \in 1 .. Len(q) : q[i] # o
    BY <1>2 DEF Range
<1>4. IsInjective(Append(q, o))
    <2> SUFFICES ASSUME NEW i \in 1 .. Len(q) + 1, NEW j \in 1 .. Len(q) + 1,
                        Append(q, o)[i] = Append(q, o)[j]
                 PROVE  i = j
        BY <1>2 DEF IsInjective
    <2>1. CASE i \in 1 .. Len(q) /\ j \in 1 .. Len(q)
        BY <1>1, <1>2, <2>1 DEF IsInjective
    <2>2. CASE i = Len(q) + 1 \/ j = Len(q) + 1
        BY <1>1, <1>2, <1>3, <2>2
    <2> QED BY <1>2, <2>1, <2>2
<1>5. Range(Append(q, o)) = Range(q) \union {o}
    <2>1. ASSUME NEW x \in Range(Append(q, o))
          PROVE  x \in Range(q) \union {o}
        BY <1>1, <1>2, <2>1 DEF Range
    <2>2. ASSUME NEW x \in Range(q) \union {o}
          PROVE  x \in Range(Append(q, o))
        <3>1. CASE x = o
            BY <1>1, <1>2, <3>1 DEF Range
        <3>2. CASE x \in Range(q)
            <4>1. PICK i \in 1 .. Len(q) : x = q[i]
                BY <1>2, <3>2 DEF Range
            <4> QED BY <1>1, <1>2, <4>1 DEF Range
        <3> QED BY <2>2, <3>1, <3>2
    <2> QED BY <2>1, <2>2
<1> QED BY <1>1, <1>4, <1>5

LEMMA PoolInitially == PoolInit => PoolIInv
<1> SUFFICES ASSUME PoolInit
             PROVE  PoolIInv
    OBVIOUS
<1>1. m_quFree \in Seq(Objects)
    BY ObjPoolAssumption, FS_CardinalityType DEF PoolInit
<1>2. Cardinality({}) = 0 /\ Cardinality(Objects) \in Nat
    BY ObjPoolAssumption, FS_EmptySet, FS_CardinalityType
<1> QED BY <1>1, <1>2 DEF PoolInit, PoolIInv, PoolTypeOK, OneOwner, CountIsUsed

\* An object that is not out is handed out.
LEMMA HandOutCounts ==
    ASSUME PoolIInv, NEW o \in Objects \ m_mapUsed, HandOut(o)
    PROVE  /\ m_mapUsed' \subseteq Objects
           /\ m_lCount' = Cardinality(m_mapUsed')
           /\ m_lCount' \in 0 .. Cardinality(Objects)
<1>1. m_mapUsed' \subseteq Objects
    BY DEF PoolIInv, PoolTypeOK, HandOut
<1>2. IsFiniteSet(m_mapUsed) /\ Cardinality(m_mapUsed) \in Nat
    BY ObjPoolAssumption, FS_Subset, FS_CardinalityType DEF PoolIInv, PoolTypeOK
<1>3. Cardinality(m_mapUsed') = Cardinality(m_mapUsed) + 1
    BY <1>2, FS_AddElement DEF HandOut
<1>4. Cardinality(m_mapUsed') <= Cardinality(Objects) /\ Cardinality(Objects) \in Nat
    BY <1>1, ObjPoolAssumption, FS_Subset, FS_CardinalityType
<1> QED BY <1>1, <1>2, <1>3, <1>4 DEF PoolIInv, CountIsUsed, HandOut

LEMMA PoolStep == PoolIInv /\ [PoolNext]_poolVars => PoolIInv'
<1> SUFFICES ASSUME PoolIInv, [PoolNext]_poolVars
             PROVE  PoolIInv'
    OBVIOUS
<1> USE DEF PoolIInv, PoolTypeOK, OneOwner, CountIsUsed, Free
<1>1. CASE MallocReused
    <2>1. /\ Tail(m_quFree) \in Seq(Objects)
          /\ IsInjective(Tail(m_quFree))
          /\ Head(m_quFree) \in Range(m_quFree)
          /\ Range(Tail(m_quFree)) = Range(m_quFree) \ {Head(m_quFree)}
        BY <1>1, TailForgetsHead DEF MallocReused
    <2>2. Head(m_quFree) \in Objects \ m_mapUsed
        BY <1>1, <2>1, HeadTailProperties DEF MallocReused
    <2>3. /\ m_mapUsed' \subseteq Objects
          /\ m_lCount' = Cardinality(m_mapUsed')
          /\ m_lCount' \in 0 .. Cardinality(Objects)
        BY <1>1, <2>2, HandOutCounts DEF MallocReused
    <2>4. m_mapUsed' = m_mapUsed \union {Head(m_quFree)} /\ m_quFree' = Tail(m_quFree)
        BY <1>1 DEF MallocReused, HandOut
    <2> QED BY <2>1, <2>3, <2>4
<1>2. CASE MallocNew
    <2>1. PICK o \in Objects \ m_mapUsed : HandOut(o)
        BY <1>2 DEF MallocNew
    <2>2. /\ m_mapUsed' \subseteq Objects
          /\ m_lCount' = Cardinality(m_mapUsed')
          /\ m_lCount' \in 0 .. Cardinality(Objects)
        BY <2>1, HandOutCounts
    <2>3. m_quFree' = m_quFree /\ m_quFree = <<>>
        BY <1>2 DEF MallocNew
    <2>4. Range(m_quFree) = {}
        BY <2>3 DEF Range
    <2> QED BY <2>2, <2>3, <2>4
<1>3. ASSUME NEW o \in Objects, FreeObject(o)
      PROVE  PoolIInv'
    <2>1. CASE o \in m_mapUsed
        <3>1. /\ m_mapUsed' = m_mapUsed \ {o}
              /\ m_quFree' = Append(m_quFree, o)
              /\ m_lCount' = m_lCount - 1
            BY <1>3, <2>1 DEF FreeObject
        <3>2. /\ m_quFree' \in Seq(Objects)
              /\ IsInjective(m_quFree')
              /\ Range(m_quFree') = Range(m_quFree) \union {o}
            BY <2>1, <3>1, AppendAddsOne
        <3>3. IsFiniteSet(m_mapUsed) /\ Cardinality(m_mapUsed) \in Nat
            BY ObjPoolAssumption, FS_Subset, FS_CardinalityType
        <3>4. Cardinality(m_mapUsed') = Cardinality(m_mapUsed) - 1
            BY <2>1, <3>1, <3>3, FS_RemoveElement
        <3>5. Cardinality(m_mapUsed') \in Nat
            BY <3>1, <3>3, FS_RemoveElement, FS_CardinalityType
        <3>6. Cardinality(Objects) \in Nat
            BY ObjPoolAssumption, FS_CardinalityType
        <3> QED BY <3>1, <3>2, <3>3, <3>4, <3>5, <3>6
    <2>2. CASE o \notin m_mapUsed
        BY <1>3, <2>2 DEF FreeObject, poolVars
    <2> QED BY <2>1, <2>2
<1>4. CASE UNCHANGED poolVars
    BY <1>4 DEF poolVars
<1> QED BY <1>1, <1>2, <1>3, <1>4 DEF PoolNext

LEMMA PoolInductive == PoolSpec => []PoolIInv
    BY PoolInitially, PoolStep, PTL DEF PoolSpec

\* No object is handed out to two users, nor waits while it is handed out, for
\* any number of objects and any calls of Free.
THEOREM OwnedOnce == PoolSpec => []OneOwner
<1>1. PoolIInv => OneOwner
    BY DEF PoolIInv
<1> QED BY <1>1, PoolInductive, PTL

\* The count the destructor looks at is that of the objects out.
THEOREM CountsUsed == PoolSpec => []CountIsUsed
<1>1. PoolIInv => CountIsUsed
    BY DEF PoolIInv
<1> QED BY <1>1, PoolInductive, PTL

=============================================================================
