---------------------------- MODULE ActorService ----------------------------
(* What the task scheduler (CChan, CWorker, CWorkerDisp) promises the writer  *)
(* of a service: messages sent to a service are handled one at a time, in the *)
(* order they were sent, and no message is handled once the services are      *)
(* being destroyed.                                                           *)
EXTENDS Naturals, Sequences

CONSTANTS
    Tasks,      \* the services
    Messages,   \* the messages
    NoMsg       \* none of them

VARIABLES
    inbox,      \* inbox[t]: messages sent to t and not yet received, oldest first
    current,    \* current[t]: the message t is handling, or NoMsg
    closed      \* the services are being destroyed

vars == <<inbox, current, closed>>

Init ==
    /\ inbox = [t \in Tasks |-> <<>>]
    /\ current = [t \in Tasks |-> NoMsg]
    /\ closed = FALSE

Send(t, m) ==
    /\ inbox' = [inbox EXCEPT ![t] = Append(@, m)]
    /\ UNCHANGED <<current, closed>>

Begin(t) ==
    /\ ~closed
    /\ current[t] = NoMsg
    /\ inbox[t] # <<>>
    /\ current' = [current EXCEPT ![t] = Head(inbox[t])]
    /\ inbox' = [inbox EXCEPT ![t] = Tail(@)]
    /\ UNCHANGED closed

End(t) ==
    /\ current[t] # NoMsg
    /\ current' = [current EXCEPT ![t] = NoMsg]
    /\ UNCHANGED <<inbox, closed>>

Destroy ==
    /\ \A t \in Tasks : current[t] = NoMsg
    /\ closed' = TRUE
    /\ UNCHANGED <<inbox, current>>

Next ==
    \/ \E t \in Tasks :
         \/ \E m \in Messages : Send(t, m)
         \/ Begin(t)
         \/ End(t)
    \/ Destroy

Spec == Init /\ [][Next]_vars
=============================================================================
