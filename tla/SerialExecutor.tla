--------------------------- MODULE SerialExecutor ---------------------------
(* What a CRecvTask<T> (src/HBase/RecvTask.h) promises the threads that hand  *)
(* it work, with the lock, the condition variable and the counters left out:  *)
(* one consumer takes the accepted messages in the order they were accepted   *)
(* and runs them one at a time.  When it is shut down it may give up the one  *)
(* message it has taken and not started, runs the backlog it finds, and never  *)
(* runs anything again; what is accepted after that stays where it is.         *)
EXTENDS Naturals, Sequences

CONSTANTS
    Messages,   \* the messages (T *) that may be handed over
    NoMsg       \* NULL, not one of them

VARIABLES
    backlog,    \* messages accepted and not taken, oldest first
    taken,      \* the message taken and not yet started, or NoMsg
    running,    \* the message whose runTask is in progress, or NoMsg
    phase,      \* "open", then "draining", then "closed"
    ran         \* the messages whose runTask has returned, in that order

vars == <<backlog, taken, running, phase, ran>>

TypeOK ==
    /\ backlog \in Seq(Messages)
    /\ taken \in Messages \cup {NoMsg}
    /\ running \in Messages \cup {NoMsg}
    /\ phase \in {"open", "draining", "closed"}
    /\ ran \in Seq(Messages)

Init ==
    /\ backlog = <<>>
    /\ taken = NoMsg
    /\ running = NoMsg
    /\ phase = "open"
    /\ ran = <<>>

Accept(m) ==
    /\ backlog' = Append(backlog, m)
    /\ UNCHANGED <<taken, running, phase, ran>>

Take ==
    /\ phase = "open"
    /\ taken = NoMsg
    /\ running = NoMsg
    /\ backlog # <<>>
    /\ taken' = Head(backlog)
    /\ backlog' = Tail(backlog)
    /\ UNCHANGED <<running, phase, ran>>

Start ==
    /\ phase = "open"
    /\ taken # NoMsg
    /\ running' = taken
    /\ taken' = NoMsg
    /\ UNCHANGED <<backlog, phase, ran>>

Finish ==
    /\ running # NoMsg
    /\ ran' = Append(ran, running)
    /\ running' = NoMsg
    /\ UNCHANGED <<backlog, taken, phase>>

Shut ==
    /\ phase = "open"
    /\ running = NoMsg
    /\ phase' = "draining"
    /\ taken' = NoMsg
    /\ UNCHANGED <<backlog, running, ran>>

Drain ==
    /\ phase = "draining"
    /\ running = NoMsg
    /\ backlog # <<>>
    /\ running' = Head(backlog)
    /\ backlog' = Tail(backlog)
    /\ UNCHANGED <<taken, phase, ran>>

Close ==
    /\ phase = "draining"
    /\ running = NoMsg
    /\ backlog = <<>>
    /\ phase' = "closed"
    /\ UNCHANGED <<backlog, taken, running, ran>>

Next ==
    \/ \E m \in Messages : Accept(m)
    \/ Take
    \/ Start
    \/ Finish
    \/ Shut
    \/ Drain
    \/ Close

(* The consumer never sits on work: what has been accepted is taken, what has *)
(* been taken is started or given up at the shutdown, what runs returns.      *)
Fairness ==
    /\ WF_vars(Take)
    /\ WF_vars(taken # NoMsg /\ (Start \/ Shut))
    /\ WF_vars(Finish)
    /\ WF_vars(Drain \/ Close)

SafeSpec == Init /\ [][Next]_vars

Spec == SafeSpec /\ Fairness
=============================================================================
