------------------------------ MODULE SnowFlake ------------------------------
(* CSnowFlake, src/HBase/SnowFlake.cpp: identifiers made of the time in       *)
(* milliseconds, the number of a data centre, of a worker, and a sequence     *)
(* number that starts again in each millisecond.                              *)
(*                                                                            *)
(* A generator belongs to one Lua state, so its calls do not overlap; what    *)
(* goes on beside them is the clock, which an administrator can also put      *)
(* back.                                                                      *)
EXTENDS Integers, Sequences

CONSTANTS
    Gens,           \* the generators in use
    Centerid,       \* what setCenterid and
    Workid,         \* setWorkid gave each of them before its first getID
    DatacenterSize, \* 2^DatacenterIdBits
    WorkerSize,     \* 2^WorkerIdBits
    SequenceSize,   \* 2^SequenceBits, SequenceMask + 1
    MaxClock        \* bound: the clock's last millisecond, counted from Epoch

ASSUME SnowFlakeAssumption ==
    /\ DatacenterSize \in Nat \ {0}
    /\ WorkerSize \in Nat \ {0}
    /\ SequenceSize \in Nat \ {0}
    /\ MaxClock \in Nat
    /\ Centerid \in [Gens -> 0 .. DatacenterSize - 1]
    /\ Workid \in [Gens -> 0 .. WorkerSize - 1]

\* What an installation has to see to: no two generators share both numbers.
ASSUME DistinctAssumption ==
    \A g, h \in Gens : Centerid[g] = Centerid[h] /\ Workid[g] = Workid[h] => g = h

VARIABLES
    clock,      \* getCurMS
    lastTime,   \* m_ulLastTime of each generator
    sequence,   \* m_lSequence of each generator
    pcIds,
    issued      \* what getID has returned, in this order, by generator

idsVars == <<clock, lastTime, sequence, pcIds, issued>>

IdsInit ==
    /\ clock \in 0 .. MaxClock
    /\ lastTime = [g \in Gens |-> 0]
    /\ sequence = [g \in Gens |-> 0]
    /\ pcIds = [g \in Gens |-> "none"]
    /\ issued = <<>>

\* The return value: the fields side by side, time first.
Id(g, t, s) ==
    ((t * DatacenterSize + Centerid[g]) * WorkerSize + Workid[g]) * SequenceSize + s

----------------------------------------------------------------------------

Construct(g) ==
    /\ pcIds[g] = "none"
    /\ pcIds' = [pcIds EXCEPT ![g] = "ready"]
    /\ lastTime' = [lastTime EXCEPT ![g] = clock]
    /\ UNCHANGED <<clock, sequence, issued>>

Return(g, t, s) ==
    /\ lastTime' = [lastTime EXCEPT ![g] = t]
    /\ sequence' = [sequence EXCEPT ![g] = s]
    /\ pcIds' = [pcIds EXCEPT ![g] = "ready"]
    /\ issued' = Append(issued, [gen |-> g, time |-> t, seq |-> s])
    /\ UNCHANGED clock

\* A later millisecond starts the sequence again.
GetIDNew(g) ==
    /\ pcIds[g] = "ready" /\ clock > lastTime[g]
    /\ Return(g, clock, 0)

GetIDNext(g) ==
    /\ pcIds[g] = "ready" /\ clock = lastTime[g]
    /\ (sequence[g] + 1) % SequenceSize # 0
    /\ Return(g, clock, sequence[g] + 1)

\* The millisecond is used up: tilNextMillis.
GetIDFull(g) ==
    /\ pcIds[g] = "ready" /\ clock = lastTime[g]
    /\ (sequence[g] + 1) % SequenceSize = 0
    /\ sequence' = [sequence EXCEPT ![g] = 0]
    /\ pcIds' = [pcIds EXCEPT ![g] = "tilNext"]
    /\ UNCHANGED <<clock, lastTime, issued>>

\* Mutant: the loop ends in the same millisecond.
TilNextMillisEarly(g) ==
    /\ pcIds[g] = "tilNext" /\ clock >= lastTime[g]
    /\ Return(g, clock, sequence[g])

TilNextMillis(g) ==
    /\ pcIds[g] = "tilNext" /\ clock > lastTime[g]
    /\ Return(g, clock, sequence[g])

\* "time error.": H_ASSERT aborts the process, and with it every generator.
Abort(g) ==
    /\ pcIds[g] = "ready" /\ clock < lastTime[g]
    /\ pcIds' = [h \in Gens |-> "aborted"]
    /\ UNCHANGED <<clock, lastTime, sequence, issued>>

GetID(g) == GetIDNew(g) \/ GetIDNext(g) \/ GetIDFull(g) \/ TilNextMillis(g) \/ Abort(g)

\* Time goes by, or the clock is put back.
Clock ==
    /\ clock' \in {clock + 1, clock - 1} \cap (0 .. MaxClock)
    /\ UNCHANGED <<lastTime, sequence, pcIds, issued>>

IdsNext == Clock \/ \E g \in Gens : Construct(g) \/ GetID(g)

IdsSpec == IdsInit /\ [][IdsNext]_idsVars

----------------------------------------------------------------------------
(* Properties                                                                 *)

Record == [gen : Gens, time : 0 .. MaxClock, seq : 0 .. SequenceSize - 1]

IdsTypeOK ==
    /\ clock \in 0 .. MaxClock
    /\ lastTime \in [Gens -> 0 .. MaxClock]
    /\ sequence \in [Gens -> 0 .. SequenceSize - 1]
    /\ pcIds \in [Gens -> {"none", "ready", "tilNext", "aborted"}]
    /\ issued \in Seq(Record)

IdOf(i) == Id(issued[i].gen, issued[i].time, issued[i].seq)

\* No identifier is handed out twice, by whichever generators and whatever the
\* clock does.
Unique == \A i, j \in DOMAIN issued : IdOf(i) = IdOf(j) => i = j

\* The identifiers of one generator grow.
Increasing ==
    \A i, j \in DOMAIN issued :
        i < j /\ issued[i].gen = issued[j].gen => IdOf(i) < IdOf(j)

\* Why: what a generator has returned lies before what it returns next, in time
\* or, within the millisecond, in sequence.
IssuedLiesBehind ==
    \A i \in DOMAIN issued : LET r == issued[i] IN
        /\ pcIds[r.gen] # "none"
        /\ r.time <= lastTime[r.gen]
        /\ pcIds[r.gen] = "ready" /\ r.time = lastTime[r.gen] => r.seq <= sequence[r.gen]

IssuedInOrder ==
    \A i, j \in DOMAIN issued : LET r == issued[i]  q == issued[j] IN
        i < j /\ r.gen = q.gen => r.time < q.time \/ (r.time = q.time /\ r.seq < q.seq)

IInv == IdsTypeOK /\ IssuedLiesBehind /\ IssuedInOrder

=============================================================================
