--------------------------- MODULE RecvTask_proofs ---------------------------
(* Proofs about RecvTask for any number of producers and messages.            *)
EXTENDS RecvTask, TLAPS

----------------------------------------------------------------------------
(* The inductive invariant: what ties the counters, the lock and the flag of  *)
(* the condition variable to the place each thread is at.                     *)

SleepInv ==
    /\ objCond = "Run" => pcRun = "wait" /\ vcTask = <<>>
    /\ uiWait = IF pcRun = "wait" THEN 1 ELSE 0

CountInv ==
    /\ lCount = IF pcRun \in {"start", "unlock", "done"} THEN 0 ELSE 1
    /\ pcRun = "start" => pcMain = "waitStart"
    /\ pcMain = "joined" => pcRun \in {"unlock", "done"}

MsgInv ==
    /\ pcRun \in {"exec", "drainExec"} => pMsg # NoMsg
    /\ pcRun \in {"start", "lock", "wait"} => pMsg = NoMsg

IInv == TypeOK /\ SleepInv /\ CountInv /\ MsgInv

\* What a queue of messages is made of: its head, its tail, a longer queue.
LEMMA SeqFacts ==
    ASSUME NEW q \in Seq(Messages)
    PROVE  /\ q # <<>> => Head(q) \in Messages /\ Tail(q) \in Seq(Messages)
           /\ \A m \in Messages : Append(q, m) \in Seq(Messages)
  OBVIOUS

\* The initial state of the class (its constructor) satisfies the invariant.
LEMMA InitIInv == Init => IInv
<1> SUFFICES ASSUME Init PROVE IInv
  OBVIOUS
<1>1. TypeOK
  <2>1. vcTask \in Seq(Messages) /\ ran \in Seq(Messages)
    BY DEF Init
  <2> QED
    BY <2>1 DEF Init, TypeOK
<1>2. SleepInv /\ CountInv /\ MsgInv
  BY DEF Init, SleepInv, CountInv, MsgInv
<1> QED
  BY <1>1, <1>2 DEF IInv

\* Every critical section and atomic access of Run, addTask, waitStart and
\* Join keeps the invariant.
LEMMA NextIInv == IInv /\ [Next]_vars => IInv'
<1> SUFFICES ASSUME IInv, [Next]_vars PROVE IInv'
  OBVIOUS
<1> USE NoMsgAssumption DEF IInv, TypeOK, SleepInv, CountInv, MsgInv
<1>1. ASSUME NEW p \in Producers, NEW m \in Messages, AddTaskTest(p, m)
      PROVE  IInv'
  BY <1>1 DEF AddTaskTest
<1>2. ASSUME NEW p \in Producers, AddTaskPush(p)
      PROVE  IInv'
  <2>1. Append(vcTask, arg[p]) \in Seq(Messages)
    BY <1>2, SeqFacts DEF AddTaskPush
  <2>2. objCond' = "none"
    BY <1>2 DEF AddTaskPush, Signal
  <2> QED
    BY <1>2, <2>1, <2>2 DEF AddTaskPush, Signal
<1>3. CASE RunStart
  BY <1>3 DEF RunStart
<1>4. CASE RunTest
  BY <1>4 DEF RunTest
<1>5. CASE RunExec
  BY <1>5, SeqFacts DEF RunExec
<1>6. CASE RunPop
  BY <1>6, SeqFacts DEF RunPop
<1>7. CASE RunSleep
  BY <1>7 DEF RunSleep
<1>8. CASE RunWake
  BY <1>8 DEF RunWake
<1>9. CASE RunDrainLock
  BY <1>9 DEF RunDrainLock
<1>10. CASE RunDrainPop
  BY <1>10, SeqFacts DEF RunDrainPop
<1>11. CASE RunDrainExec
  BY <1>11, SeqFacts DEF RunDrainExec
<1>12. CASE RunLeave
  BY <1>12 DEF RunLeave
<1>13. CASE RunUnlock
  BY <1>13 DEF RunUnlock
<1>14. CASE SpuriousWake
  BY <1>14 DEF SpuriousWake
<1>15. CASE MainWaitStart
  BY <1>15 DEF MainWaitStart
<1>16. CASE JoinClose
  BY <1>16 DEF JoinClose
<1>17. CASE JoinStop
  BY <1>17 DEF JoinStop
<1>18. CASE JoinBroadcast
  BY <1>18 DEF JoinBroadcast
<1>19. CASE JoinCount
  BY <1>19 DEF JoinCount
<1>20. CASE UNCHANGED vars
  BY <1>20 DEF vars
<1> QED
  BY <1>1, <1>2, <1>3, <1>4, <1>5, <1>6, <1>7, <1>8, <1>9, <1>10, <1>11,
     <1>12, <1>13, <1>14, <1>15, <1>16, <1>17, <1>18, <1>19, <1>20
     DEF Next, Run, Main

\* The strengthened invariant holds in every reachable state of the class.
THEOREM Inductive == Spec => []IInv
  BY InitIInv, NextIInv, PTL DEF Spec

\* Every field of the object keeps the values the code gives it.
THEOREM TypeCorrect == Spec => []TypeOK
<1>1. IInv => TypeOK
  BY DEF IInv
<1> QED
  BY <1>1, Inductive, PTL

\* However many producers there are, the consumer of the queue is never asleep
\* while a message waits.
THEOREM NeverLosesAWakeup == Spec => []NoLostWakeup
<1>1. IInv => NoLostWakeup
  BY DEF IInv, SleepInv, NoLostWakeup
<1> QED
  BY <1>1, Inductive, PTL

\* After Join has returned, Run executes no task any more.
THEOREM QuietAfterJoin == Spec => JoinedIsQuiet
<1> DEFINE Quiet == pcMain = "joined" =>
                      pcRun \notin {"exec", "drainExec"} /\ ran' = ran
<1>1. ASSUME IInv, [Next]_vars PROVE [Quiet]_vars
  <2> USE <1>1 DEF IInv, CountInv
  <2> SUFFICES ASSUME pcMain = "joined"
               PROVE  pcRun \notin {"exec", "drainExec"} /\ ran' = ran
    OBVIOUS
  <2>1. pcRun \in {"unlock", "done"}
    OBVIOUS
  <2>2. ran' = ran
    BY <2>1 DEF Next, Run, Main, vars, AddTaskTest, AddTaskPush, RunStart,
         RunTest, RunExec, RunPop, RunSleep, RunWake, RunDrainLock,
         RunDrainPop, RunDrainExec, RunLeave, RunUnlock, SpuriousWake,
         MainWaitStart, JoinClose, JoinStop, JoinBroadcast, JoinCount
  <2> QED
    BY <2>1, <2>2
<1> QED
  BY <1>1, Inductive, PTL DEF Spec, JoinedIsQuiet

----------------------------------------------------------------------------
(* CRecvTask is a serial executor (the safety part of the refinement: the     *)
(* fairness part is left to TLC).                                             *)

\* Every step of a thread on the object is a step of the serial executor or
\* leaves it unchanged.
LEMMA StepSimulation == IInv /\ [Next]_vars => [Serial!Next]_Serial!vars
<1> SUFFICES ASSUME IInv, [Next]_vars PROVE [Serial!Next]_Serial!vars
  OBVIOUS
<1> USE NoMsgAssumption
    DEF IInv, MsgInv, Serial!vars
<1>1. ASSUME NEW p \in Producers, NEW m \in Messages, AddTaskTest(p, m)
      PROVE  UNCHANGED Serial!vars
  BY <1>1 DEF AddTaskTest
<1>2. ASSUME NEW p \in Producers, AddTaskPush(p)
      PROVE  \E m \in Messages : Serial!Accept(m)
  <2>1. arg[p] \in Messages
    BY <1>2 DEF AddTaskPush, TypeOK
  <2>2. Serial!Accept(arg[p])
    BY <1>2 DEF AddTaskPush, Serial!Accept
  <2> QED
    BY <2>1, <2>2
<1>3. CASE RunStart
  BY <1>3 DEF RunStart, TypeOK
<1>4. CASE RunTest
  <2>1. CASE lExit = "STOP"
    BY <1>4, <2>1 DEF RunTest, Serial!Shut, Serial!Next
  <2>2. CASE lExit # "STOP" /\ pMsg # NoMsg
    BY <1>4, <2>2 DEF RunTest, Serial!Start, Serial!Next
  <2>3. CASE lExit # "STOP" /\ pMsg = NoMsg
    BY <1>4, <2>3 DEF RunTest
  <2> QED
    BY <2>1, <2>2, <2>3
<1>5. CASE RunExec
  BY <1>5 DEF RunExec, Serial!Finish, Serial!Next
<1>6. CASE RunPop
  BY <1>6 DEF RunPop, Serial!Take, Serial!Next
<1>7. CASE RunSleep
  BY <1>7 DEF RunSleep
<1>8. CASE RunWake
  BY <1>8 DEF RunWake
<1>9. CASE RunDrainLock
  BY <1>9 DEF RunDrainLock
<1>10. CASE RunDrainPop
  BY <1>10 DEF RunDrainPop, Serial!Drain, Serial!Next
<1>11. CASE RunDrainExec
  BY <1>11 DEF RunDrainExec, Serial!Finish, Serial!Next
<1>12. CASE RunLeave
  BY <1>12 DEF RunLeave, Serial!Close, Serial!Next
<1>13. CASE RunUnlock
  BY <1>13 DEF RunUnlock
<1>14. CASE SpuriousWake \/ Main
  BY <1>14 DEF SpuriousWake, Main, MainWaitStart, JoinClose, JoinStop,
               JoinBroadcast, JoinCount
<1>15. CASE UNCHANGED vars
  BY <1>15 DEF vars
<1> QED
  BY <1>1, <1>2, <1>3, <1>4, <1>5, <1>6, <1>7, <1>8, <1>9, <1>10, <1>11,
     <1>12, <1>13, <1>14, <1>15
     DEF Next, Run, Serial!Next

\* What the threads do to the object, hidden lock and condition variable and
\* all, is what a serial executor may do.
THEOREM RefinesSerialExecutor == Spec => Serial!SafeSpec
<1>1. Init => Serial!Init
  BY DEF Init, Serial!Init
<1> QED
  BY <1>1, StepSimulation, Inductive, PTL DEF Spec, Serial!SafeSpec
=============================================================================
