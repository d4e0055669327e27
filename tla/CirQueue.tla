------------------------------ MODULE CirQueue -----------------------------
(* CCirQueue (src/HBase/CirQueue.h): a ring of m_iCapacity pointers.  It has  *)
(* no lock and one user at a time.                                            *)
EXTENDS Integers

CONSTANTS
    Values,         \* what is pushed; the code's pointers, without NULL
    NULL,
    m_iCapacity

ASSUME CirQueueAssumption == m_iCapacity \in Nat \ {0} /\ NULL \notin Values

VARIABLES
    m_iSize,
    m_iNext,        \* where the oldest value is
    m_pData,        \* the memory of malloc, with whatever was in it
    rtn             \* what the last call returned

queueVars == <<m_iSize, m_iNext, m_pData, rtn>>

Places == 0 .. m_iCapacity - 1

QueueTypeOK ==
    /\ m_iSize \in 0 .. m_iCapacity
    /\ m_iNext \in Places
    /\ m_pData \in [Places -> Values]
    /\ rtn \in Values \union {NULL, "true", "false"}

QueueInit ==
    /\ m_iSize = 0
    /\ m_iNext = 0
    /\ m_pData \in [Places -> Values]
    /\ rtn = NULL

Full == m_iSize >= m_iCapacity

\* Mutant: the index wraps one place too early.
WrapEarly(i) == IF i >= m_iCapacity - 1 THEN i - (m_iCapacity - 1) ELSE i

Wrap(i) == IF i >= m_iCapacity THEN i - m_iCapacity ELSE i

Push(v) ==
    /\ UNCHANGED m_iNext
    /\ IF Full
       THEN rtn' = "false" /\ UNCHANGED <<m_iSize, m_pData>>
       ELSE /\ m_pData' = [m_pData EXCEPT ![Wrap(m_iNext + m_iSize)] = v]
            /\ m_iSize' = m_iSize + 1
            /\ rtn' = "true"

Pop ==
    /\ UNCHANGED m_pData
    /\ IF m_iSize > 0
       THEN /\ rtn' = m_pData[m_iNext]
            /\ m_iNext' = Wrap(m_iNext + 1)
            /\ m_iSize' = m_iSize - 1
       ELSE rtn' = NULL /\ UNCHANGED <<m_iSize, m_iNext>>

Peek ==
    /\ rtn' = IF m_iSize > 0 THEN m_pData[m_iNext] ELSE NULL
    /\ UNCHANGED <<m_iSize, m_iNext, m_pData>>

QueueNext == (\E v \in Values : Push(v)) \/ Pop \/ Peek

QueueSpec == QueueInit /\ [][QueueNext]_queueVars

----------------------------------------------------------------------------
(* The ring as a queue.                                                       *)

Queue == [i \in 1 .. m_iSize |-> m_pData[Wrap(m_iNext + i - 1)]]

Fifo == INSTANCE BoundedFifo WITH
            queue <- Queue, Capacity <- m_iCapacity

\* The ring is a bounded first-in first-out queue, wherever in the memory it
\* has got to: no value is lost, overwritten, returned twice or made up.
ImplementsBoundedFifo == Fifo!Spec

=============================================================================
