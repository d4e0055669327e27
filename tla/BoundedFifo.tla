---------------------------- MODULE BoundedFifo ----------------------------
(* What CCirQueue promises: a queue of at most Capacity values, first in,     *)
(* first out.  Push says whether there was room, Pop and Peek return the      *)
(* oldest value or NULL.                                                      *)
EXTENDS Naturals, Sequences

CONSTANTS Values, Capacity, NULL

VARIABLES
    queue,      \* the values, the oldest first
    rtn         \* what the last call returned

TypeOK ==
    /\ queue \in Seq(Values) /\ Len(queue) <= Capacity
    /\ rtn \in Values \union {NULL, "true", "false"}

Init == queue = <<>> /\ rtn = NULL

Push(v) ==
    IF Len(queue) < Capacity
    THEN queue' = Append(queue, v) /\ rtn' = "true"
    ELSE queue' = queue /\ rtn' = "false"

Pop ==
    IF queue = <<>>
    THEN queue' = queue /\ rtn' = NULL
    ELSE queue' = Tail(queue) /\ rtn' = Head(queue)

Peek ==
    /\ queue' = queue
    /\ rtn' = IF queue = <<>> THEN NULL ELSE Head(queue)

Next == (\E v \in Values : Push(v)) \/ Pop \/ Peek

Spec == Init /\ [][Next]_<<queue, rtn>>

=============================================================================
