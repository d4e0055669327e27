--------------------------- MODULE ReadersWriters ---------------------------
(* What a reader/writer lock promises to the threads that use it: any number  *)
(* of readers, or one writer.                                                 *)
CONSTANT Threads

VARIABLES reading, writing      \* the threads that hold the lock, by kind

vars == <<reading, writing>>

Init ==
    /\ reading = {}
    /\ writing = {}

AcquireRead(t) ==
    /\ t \notin reading
    /\ writing = {}
    /\ reading' = reading \cup {t}
    /\ UNCHANGED writing

AcquireWrite(t) ==
    /\ reading \cup writing = {}
    /\ writing' = {t}
    /\ UNCHANGED reading

Release(t) ==
    /\ t \in reading \cup writing
    /\ reading' = reading \ {t}
    /\ writing' = writing \ {t}

Next == \E t \in Threads : AcquireRead(t) \/ AcquireWrite(t) \/ Release(t)

Spec == Init /\ [][Next]_vars
=============================================================================
