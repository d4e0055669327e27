------------------------------- MODULE RWLock -------------------------------
(* CRWLock, src/HBase/RWLock.cpp, as the Windows build has it: two critical   *)
(* sections, a counter and a flag.  (Elsewhere the class only wraps           *)
(* pthread_rwlock_t; NetParser models its use.)                               *)
(*                                                                            *)
(* A thread goes through rLock or wLock and later unLock, for ever.  An       *)
(* action is one call of the system or one access to a shared word.           *)
EXTENDS Integers, FiniteSets

CONSTANTS
    Readers,    \* threads that call rLock
    Writers,    \* threads that call wLock; one thread may do both
    NoThread

Threads == Readers \cup Writers

NoThreadAssumption == NoThread \notin Threads

VARIABLES
    cs,             \* m_Write_Lock and m_Read_Lock
    lReader_Count,  \* m_lReader_Count
    bEnter_Writer,  \* m_bEnter_Writer
    pc

vars == <<cs, lReader_Count, bEnter_Writer, pc>>

Init ==
    /\ cs = [l \in {"Write", "Read"} |-> [owner |-> NoThread, depth |-> 0]]
    /\ lReader_Count = 0
    /\ bEnter_Writer = FALSE
    /\ pc = [t \in Threads |-> "idle"]

Goto(t, from, to) ==
    /\ pc[t] = from
    /\ pc' = [pc EXCEPT ![t] = to]

----------------------------------------------------------------------------
(* CRITICAL_SECTION: its owner may enter it again; LeaveCriticalSection       *)
(* counts down and does not ask who calls it.                                 *)

Enter(l, t) ==
    /\ cs[l].depth = 0 \/ cs[l].owner = t
    /\ cs' = [cs EXCEPT ![l] = [owner |-> t, depth |-> @.depth + 1]]

Leave(l) ==
    cs' = [cs EXCEPT ![l] =
              [owner |-> IF @.depth = 1 THEN NoThread ELSE @.owner,
               depth |-> @.depth - 1]]

----------------------------------------------------------------------------
(* rLock                                                                      *)

\* Mutant: rLock does not enter m_Write_Lock.
RLockUngated(t) ==
    /\ Goto(t, "idle", "rCount")
    /\ UNCHANGED <<cs, lReader_Count, bEnter_Writer>>

RLock(t) ==
    /\ Goto(t, "idle", "rCount")
    /\ Enter("Write", t)
    /\ UNCHANGED <<lReader_Count, bEnter_Writer>>

RCount(t) ==
    /\ Goto(t, "rCount", IF lReader_Count = 0 THEN "rEnter" ELSE "rLeave")
    /\ lReader_Count' = lReader_Count + 1
    /\ UNCHANGED <<cs, bEnter_Writer>>

REnter(t) ==
    /\ Goto(t, "rEnter", "rLeave")
    /\ Enter("Read", t)
    /\ UNCHANGED <<lReader_Count, bEnter_Writer>>

RLeave(t) ==
    /\ Goto(t, "rLeave", "reading")
    /\ Leave("Write")
    /\ UNCHANGED <<lReader_Count, bEnter_Writer>>

(* wLock                                                                      *)

WLock(t) ==
    /\ Goto(t, "idle", "wEnter")
    /\ Enter("Write", t)
    /\ UNCHANGED <<lReader_Count, bEnter_Writer>>

WEnter(t) ==
    /\ Goto(t, "wEnter", "wFlag")
    /\ Enter("Read", t)
    /\ UNCHANGED <<lReader_Count, bEnter_Writer>>

WFlag(t) ==
    /\ Goto(t, "wFlag", "writing")
    /\ bEnter_Writer' = TRUE
    /\ UNCHANGED <<cs, lReader_Count>>

(* unLock: whether the caller wrote or read is told from the shared flag      *)

Unlock(t) ==
    /\ pc[t] \in {"reading", "writing"}
    /\ Goto(t, pc[t], IF bEnter_Writer THEN "uFlag" ELSE "uCount")
    /\ UNCHANGED <<cs, lReader_Count, bEnter_Writer>>

UFlag(t) ==
    /\ Goto(t, "uFlag", "uLeaveRead")
    /\ bEnter_Writer' = FALSE
    /\ UNCHANGED <<cs, lReader_Count>>

ULeaveRead(t) ==
    /\ Goto(t, "uLeaveRead", "uLeaveWrite")
    /\ Leave("Read")
    /\ UNCHANGED <<lReader_Count, bEnter_Writer>>

ULeaveWrite(t) ==
    /\ Goto(t, "uLeaveWrite", "idle")
    /\ Leave("Write")
    /\ UNCHANGED <<lReader_Count, bEnter_Writer>>

\* Mutant: every reader that unlocks leaves m_Read_Lock.
UCountAlwaysLeaves(t) ==
    /\ Goto(t, "uCount", "uLast")
    /\ lReader_Count' = lReader_Count - 1
    /\ UNCHANGED <<cs, bEnter_Writer>>

UCount(t) ==
    /\ Goto(t, "uCount", IF lReader_Count = 1 THEN "uLast" ELSE "idle")
    /\ lReader_Count' = lReader_Count - 1
    /\ UNCHANGED <<cs, bEnter_Writer>>

ULast(t) ==
    /\ Goto(t, "uLast", "idle")
    /\ Leave("Read")
    /\ UNCHANGED <<lReader_Count, bEnter_Writer>>

----------------------------------------------------------------------------

\* What a call that has begun does until it returns, and the unLock that
\* follows it.
Step(t) ==
    \/ RCount(t) \/ REnter(t) \/ RLeave(t)
    \/ WEnter(t) \/ WFlag(t)
    \/ Unlock(t)
    \/ UFlag(t) \/ ULeaveRead(t) \/ ULeaveWrite(t)
    \/ UCount(t) \/ ULast(t)

Next ==
    \/ \E t \in Readers : RLock(t)
    \/ \E t \in Writers : WLock(t)
    \/ \E t \in Threads : Step(t)

Spec == Init /\ [][Next]_vars

\* A thread inside a call goes on, and one that has the lock gives it back.
\* Nothing is assumed of the threads that wait for m_Write_Lock: a critical
\* section is not handed over in order.
FairSpec == Spec /\ \A t \in Threads : WF_vars(Step(t))

----------------------------------------------------------------------------
(* Properties                                                                 *)

TypeOK ==
    /\ cs \in [{"Write", "Read"} ->
                  [owner : Threads \cup {NoThread}, depth : Nat]]
    /\ lReader_Count \in 0 .. Cardinality(Threads)
    /\ bEnter_Writer \in BOOLEAN
    /\ pc \in [Threads -> {"idle", "rCount", "rEnter", "rLeave", "reading",
                           "wEnter", "wFlag", "writing", "uFlag", "uCount",
                           "uLeaveRead", "uLeaveWrite", "uLast"}]

\* Between rLock and unLock of one thread, no thread is between wLock and
\* unLock; and two threads never are.
Exclusion ==
    \A t, u \in Threads :
        pc[t] = "writing" /\ pc[u] \in {"reading", "writing"} => t = u

RW == INSTANCE ReadersWriters WITH
          reading <- {t \in Threads : pc[t] = "reading"},
          writing <- {t \in Threads : pc[t] = "writing"}

\* CRWLock implements a reader/writer lock.
ImplementsReadersWriters == RW!Spec

\* A writer that has entered m_Write_Lock gets the lock although readers come
\* and go: it keeps new readers out and those inside leave one by one.
WriterGetsIn == \A t \in Writers : pc[t] = "wEnter" ~> pc[t] = "writing"

=============================================================================
