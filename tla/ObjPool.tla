------------------------------- MODULE ObjPool -----------------------------
(* CObjPool (src/HBase/ObjectPool.h): objects that are handed out by Malloc   *)
(* and wait in a queue, after Free, to be handed out again.  It has no lock   *)
(* and one user at a time, who may give back what is not his.                 *)
EXTENDS Integers, FiniteSets, Sequences, Functions

CONSTANTS
    Objects,        \* the addresses the heap can give
    uiInitNum       \* objects made in advance

ASSUME ObjPoolAssumption ==
    IsFiniteSet(Objects) /\ uiInitNum \in 0 .. Cardinality(Objects)

VARIABLES
    m_lCount,
    m_mapUsed,      \* the set of its keys
    m_quFree

poolVars == <<m_lCount, m_mapUsed, m_quFree>>

Free == Range(m_quFree)

PoolTypeOK ==
    /\ m_lCount \in 0 .. Cardinality(Objects)
    /\ m_mapUsed \subseteq Objects
    /\ m_quFree \in Seq(Objects)

PoolInit ==
    /\ m_lCount = 0
    /\ m_mapUsed = {}
    /\ m_quFree \in [1 .. uiInitNum -> Objects]
    /\ IsInjective(m_quFree)

HandOut(o) ==
    /\ m_mapUsed' = m_mapUsed \union {o}
    /\ m_lCount' = m_lCount + 1

MallocReused ==
    /\ m_quFree # <<>>
    /\ HandOut(Head(m_quFree))
    /\ m_quFree' = Tail(m_quFree)

\* The heap gives an address that is not in use.
MallocNew ==
    /\ m_quFree = <<>>
    /\ \E o \in Objects \ m_mapUsed : HandOut(o)
    /\ UNCHANGED m_quFree

\* Mutant: an object given back is not looked for.
FreeUnchecked(o) ==
    /\ m_mapUsed' = m_mapUsed \ {o}
    /\ m_quFree' = Append(m_quFree, o)
    /\ m_lCount' = m_lCount - 1

\* What the pool has not handed out, or has got back already, it ignores.
FreeObject(o) ==
    IF o \in m_mapUsed
    THEN /\ m_mapUsed' = m_mapUsed \ {o}
         /\ m_quFree' = Append(m_quFree, o)
         /\ m_lCount' = m_lCount - 1
    ELSE UNCHANGED poolVars

PoolNext == MallocReused \/ MallocNew \/ \E o \in Objects : FreeObject(o)

PoolSpec == PoolInit /\ [][PoolNext]_poolVars

----------------------------------------------------------------------------
\* An object has one owner: it is not in the queue while it is handed out, nor
\* twice in the queue, so that two calls of Malloc never return it to two
\* users, also after one of them has given it back twice.
OneOwner ==
    /\ m_mapUsed \cap Free = {}
    /\ IsInjective(m_quFree)

\* The destructor's warning is right: the count is that of the objects out.
CountIsUsed == m_lCount = Cardinality(m_mapUsed)

=============================================================================
