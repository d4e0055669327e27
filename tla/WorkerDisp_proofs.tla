-------------------------- MODULE WorkerDisp_proofs --------------------------
(* Proofs about WorkerDisp for any number of services, workers, senders and   *)
(* messages.                                                                  *)
EXTENDS WorkerDisp, FiniteSetTheorems, FunctionTheorems, SequenceTheorems,
        TLAPS

----------------------------------------------------------------------------
(* The inductive invariant                                                    *)

WorkerLabels == {"test", "take", "wait", "recv", "handle", "subRef", "free",
                 "drain", "done"}

DispLabels == {"init", "test", "pop", "ref", "requeue", "scan", "addRef",
               "addTask", "stopNet", "waitNet", "join", "joinWait",
               "surpNext", "surpSize", "surpPush", "surpPop", "recv",
               "handle", "destroy", "done"}

\* Labels at which the dispatcher is past stopWorker.
LateLabels == {"surpNext", "surpSize", "surpPush", "surpPop", "recv",
               "handle", "destroy", "done"}

\* Where each runner is, and when it holds a service.
PcInv ==
    /\ \A w \in Workers :
         /\ pc[w] \in WorkerLabels
         /\ pc[w] \in {"recv", "handle", "subRef", "free"} => task[w] # NoTask
         /\ pc[w] \in {"take", "wait", "drain", "done"} => task[w] = NoTask
    /\ pc[Disp] \in DispLabels
    /\ pc[Disp] \in {"ref", "requeue", "scan", "addRef", "addTask", "recv",
                     "handle", "surpSize", "surpPush"} => task[Disp] # NoTask
    /\ lCount = IF pc[Disp] \in {"init", "done"} THEN 0 ELSE 1

\* A worker has at most one task, queued or taken; a free one has none.
QueueInv ==
    /\ \A w \in Workers :
         /\ wkTask[w] = <<>> \/ \E t \in Tasks : wkTask[w] = <<t>>
         /\ wkTask[w] # <<>> => task[w] = NoTask
         /\ wkTask[w] # <<>> \/ task[w] # NoTask => status[w] = "BUSY"
    /\ pc[Disp] \in {"addRef", "addTask"} =>
         wkTask[usI] = <<>> /\ task[usI] = NoTask /\ status[usI] = "BUSY"

\* Worker w has service t and has not given up its reference.
Has(w, t) == (wkTask[w] = <<t>> \/ task[w] = t) /\ pc[w] # "free"

\* The reference count of a service is 1 while some worker has it, and no
\* other worker has it then.
RefInv ==
    /\ \A w \in Workers, t \in Tasks : Has(w, t) => ref[t] = 1
    /\ \A w1, w2 \in Workers, t \in Tasks :
         Has(w1, t) /\ Has(w2, t) => w1 = w2
    /\ pc[Disp] \in {"scan", "addRef"} => ref[task[Disp]] = 0
    /\ pc[Disp] = "addTask" =>
         /\ ref[task[Disp]] = 1
         /\ \A w \in Workers : ~Has(w, task[Disp])

\* stopWorker joins the workers one after the other.
JoinInv ==
    /\ pc[Disp] \in {"join", "joinWait"} =>
         \A w \in Workers : w < usI => pc[w] = "done"
    /\ pc[Disp] \in LateLabels => \A w \in Workers : pc[w] = "done"

IInv == TypeOK /\ PcInv /\ QueueInv /\ RefInv /\ JoinInv

\* The dispatcher's thread number is not a worker's.
LEMMA RunnerFacts ==
    /\ Disp \in Runners
    /\ Disp \notin Workers
    /\ Workers \subseteq Runners
    /\ Runners \subseteq Threads
    /\ Senders \subseteq Threads
    /\ \A r \in Runners : r # Disp => r \in Workers
  BY DEF Disp, Runners, Workers, Threads

\* What a queue of services or messages is made of.
LEMMA SeqFacts ==
    ASSUME NEW S, NEW q \in Seq(S)
    PROVE  /\ q # <<>> => Head(q) \in S /\ Tail(q) \in Seq(S)
           /\ \A m \in S : Append(q, m) \in Seq(S)
  OBVIOUS

\* A queue of one service.
LEMMA SingletonFacts ==
    ASSUME NEW t
    PROVE  /\ <<t>> # <<>>
           /\ Head(<<t>>) = t
           /\ Tail(<<t>>) = <<>>
           /\ Append(<<>>, t) = <<t>>
           /\ \A u : <<t>> = <<u>> => t = u
  OBVIOUS

\* A thread goes on at a label.
LEMMA GotoType ==
    ASSUME TypeOK, NEW r \in Runners, NEW l \in Labels, Goto(r, l)
    PROVE  pc' \in [Runners -> Labels]
  BY DEF TypeOK, Goto

\* A step of one worker keeps PcInv if it does for that worker.
LEMMA PcFrame ==
    ASSUME PcInv, NEW w \in Workers, lCount' = lCount,
           \A r \in Runners : r # w => pc'[r] = pc[r] /\ task'[r] = task[r],
           pc'[w] \in WorkerLabels,
           pc'[w] \in {"recv", "handle", "subRef", "free"} => task'[w] # NoTask,
           pc'[w] \in {"take", "wait", "drain", "done"} => task'[w] = NoTask
    PROVE  PcInv'
<1>1. Disp # w /\ pc'[Disp] = pc[Disp] /\ task'[Disp] = task[Disp]
  BY RunnerFacts
<1>2. \A v \in Workers : v # w => pc'[v] = pc[v] /\ task'[v] = task[v]
  BY RunnerFacts
<1> QED
  BY <1>1, <1>2 DEF PcInv

\* A step that gives no worker another service, leaves the counts alone and
\* does not take the dispatcher to a place that needs a count keeps RefInv.
LEMMA RefFrame ==
    /\ RefInv
    /\ ref' = ref
    /\ \A w \in Workers, t \in Tasks : Has(w, t)' => Has(w, t)
    /\ pc'[Disp] \in {"scan", "addRef", "addTask"} =>
         pc'[Disp] = pc[Disp] /\ task'[Disp] = task[Disp]
    /\ task[Disp] \in Tasks \/ pc'[Disp] \notin {"scan", "addRef", "addTask"}
    => RefInv'
<1> SUFFICES ASSUME RefInv, ref' = ref,
                    \A w \in Workers, t \in Tasks : Has(w, t)' => Has(w, t),
                    pc'[Disp] \in {"scan", "addRef", "addTask"} =>
                      pc'[Disp] = pc[Disp] /\ task'[Disp] = task[Disp],
                    \/ task[Disp] \in Tasks
                    \/ pc'[Disp] \notin {"scan", "addRef", "addTask"}
             PROVE  RefInv'
  OBVIOUS
<1>1. \A w \in Workers, t \in Tasks : Has(w, t)' => ref'[t] = 1
  BY DEF RefInv
<1>2. \A w1, w2 \in Workers, t \in Tasks :
        Has(w1, t)' /\ Has(w2, t)' => w1 = w2
  BY DEF RefInv
<1>3. pc'[Disp] \in {"scan", "addRef"} => ref'[task'[Disp]] = 0
  BY DEF RefInv
<1>4. pc'[Disp] = "addTask" =>
        /\ ref'[task'[Disp]] = 1
        /\ \A w \in Workers : ~Has(w, task[Disp])'
  BY DEF RefInv
<1> QED
  BY <1>1, <1>2, <1>3, <1>4 DEF RefInv

\* Every action of every thread keeps the invariant.
LEMMA NextIInv == IInv /\ [Next]_vars => IInv'
<1> SUFFICES ASSUME IInv, [Next]_vars PROVE IInv'
  OBVIOUS
<1> USE ConstantsAssumption, RunnerFacts
    DEF IInv, vars, chanVars, dispVars, workVars, runVars
<1>1. CASE \/ \E x \in Threads, t \in Tasks, m \in Messages : SendPush(x, t, m)
           \/ \E x \in Threads : Notify(x)
           \/ NetReadyStop
           \/ Join
           \/ UNCHANGED vars
  <2>1. UNCHANGED <<runVars, workVars, lCount, usI>>
    BY <1>1 DEF SendPush, Notify, NetReadyStop, Join
  <2>2. TypeOK'
    <3>1. ASSUME NEW x \in Threads, NEW t \in Tasks, NEW m \in Messages,
                 SendPush(x, t, m)
          PROVE  TypeOK'
      BY <3>1, SeqFacts DEF SendPush, TypeOK
    <3>2. ASSUME NEW x \in Threads, Notify(x)
          PROVE  TypeOK'
      BY <3>2, SeqFacts DEF Notify, TypeOK
    <3>3. CASE NetReadyStop \/ Join \/ UNCHANGED vars
      BY <3>3 DEF NetReadyStop, Join, TypeOK
    <3> QED
      BY <1>1, <3>1, <3>2, <3>3
  <2>3. PcInv' /\ QueueInv' /\ JoinInv'
    BY <2>1 DEF PcInv, QueueInv, JoinInv
  <2>4. RefInv'
    BY <2>1 DEF RefInv, Has
  <2> QED
    BY <2>2, <2>3, <2>4
<1>2. ASSUME NEW r \in Runners, RunRecv(r)
      PROVE  IInv'
  <2>1. TypeOK'
    <3>1. task[r] \in Tasks /\ chan[task[r]] \in Seq(Messages)
      BY <1>2 DEF RunRecv, TypeOK, PcInv
    <3>2. CASE chan[task[r]] = <<>>
      BY <1>2, <3>2 DEF RunRecv, Goto, TypeOK, Labels
    <3>3. CASE chan[task[r]] # <<>>
      <4>1. /\ Head(chan[task[r]]) \in Messages
            /\ Tail(chan[task[r]]) \in Seq(Messages)
        BY <3>1, <3>3
      <4>2. chan' \in [Tasks -> Seq(Messages)]
        BY <1>2, <3>1, <3>3, <4>1 DEF RunRecv, TypeOK
      <4>3. got' \in [Runners -> Messages \cup {NoMsg}]
        BY <1>2, <3>1, <3>3, <4>1 DEF RunRecv, TypeOK
      <4> QED
        BY <1>2, <4>2, <4>3 DEF RunRecv, Goto, TypeOK, Labels
    <3> QED
      BY <3>2, <3>3
  <2>2. PcInv' /\ QueueInv' /\ JoinInv'
    BY <1>2, SingletonFacts DEF TypeOK, PcInv, QueueInv, JoinInv, LateLabels,
       WorkerLabels, DispLabels, RunRecv, Goto
  <2>3. RefInv'
    BY <1>2, RefFrame DEF TypeOK, PcInv, WorkerLabels, Has, RunRecv, Goto
  <2> QED
    BY <2>1, <2>2, <2>3
<1>3. ASSUME NEW r \in Runners, RunEnd(r)
      PROVE  IInv'
  <2>1. TypeOK'
    <3>1. got' \in [Runners -> Messages \cup {NoMsg}]
      BY <1>3 DEF RunEnd, TypeOK
    <3>2. task' \in [Runners -> Tasks \cup {NoTask}]
      BY <1>3 DEF RunEnd, TypeOK
    <3>3. pc' \in [Runners -> Labels]
      <4>1. {"surpPop", "subRef"} \subseteq Labels
        BY DEF Labels
      <4>2. PICK l \in {"surpPop", "subRef"} : Goto(r, l)
        BY <1>3 DEF RunEnd
      <4> QED
        BY <4>1, <4>2, GotoType
    <3> QED
      BY <1>3, <3>1, <3>2, <3>3 DEF RunEnd, TypeOK
  <2>2. PcInv' /\ QueueInv' /\ JoinInv'
    <3>1. PcInv'
      <4>1. CASE r = Disp
        <5>1. /\ task' = [task EXCEPT ![Disp] = NoTask] /\ lCount' = lCount
              /\ pc' = [pc EXCEPT ![Disp] = "surpPop"] /\ pc[Disp] = "handle"
          BY <1>3, <4>1 DEF RunEnd, Goto, dispVars
        <5>2. \A v \in Workers : task'[v] = task[v] /\ pc'[v] = pc[v]
          BY <5>1 DEF TypeOK
        <5>3. pc'[Disp] = "surpPop"
          BY <5>1 DEF TypeOK
        <5> QED
          BY <5>1, <5>2, <5>3 DEF PcInv, DispLabels
      <4>2. CASE r # Disp
        <5>1. task' = task /\ pc' = [pc EXCEPT ![r] = "subRef"] /\ lCount' = lCount
          BY <1>3, <4>2 DEF RunEnd, Goto, dispVars
        <5>2. r \in Workers /\ task[r] # NoTask
          BY <1>3, <4>2 DEF RunEnd, PcInv
        <5> QED
          BY <5>1, <5>2, PcFrame DEF TypeOK, WorkerLabels
      <4> QED
        BY <4>1, <4>2
    <3>2. QueueInv'
      BY <1>3 DEF TypeOK, PcInv, QueueInv, WorkerLabels, DispLabels,
         RunEnd, Goto
    <3>3. JoinInv'
      BY <1>3 DEF TypeOK, PcInv, JoinInv, LateLabels, WorkerLabels,
         DispLabels, RunEnd, Goto
    <3> QED
      BY <3>1, <3>2, <3>3
  <2>3. RefInv'
    BY <1>3, RefFrame DEF TypeOK, PcInv, WorkerLabels, Has, RunEnd, Goto
  <2> QED
    BY <2>1, <2>2, <2>3
<1>4. ASSUME NEW w \in Workers, WorkerTest(w)
      PROVE  IInv'
  <2>1. TypeOK'
    <3>1. task' \in [Runners -> Tasks \cup {NoTask}]
      BY <1>4 DEF WorkerTest, TypeOK
    <3>2. pc' \in [Runners -> Labels]
      <4>1. {"drain", "recv", "take"} \subseteq Labels
        BY DEF Labels
      <4>2. PICK l \in {"drain", "recv", "take"} : Goto(w, l)
        BY <1>4 DEF WorkerTest
      <4> QED
        BY <4>1, <4>2, GotoType
    <3> QED
      BY <1>4, <3>1, <3>2 DEF WorkerTest, TypeOK
  <2>2. PcInv'
    <3>1. CASE wkExit[w] = "STOP"
      <4>1. /\ task' = [task EXCEPT ![w] = NoTask] /\ lCount' = lCount
            /\ pc' = [pc EXCEPT ![w] = "drain"]
        BY <1>4, <3>1 DEF WorkerTest, Goto, dispVars
      <4> QED
        BY <4>1, PcFrame DEF TypeOK, WorkerLabels
    <3>2. CASE wkExit[w] # "STOP"
      <4>1. /\ task' = task /\ lCount' = lCount
            /\ pc' = [pc EXCEPT ![w] = IF task[w] # NoTask THEN "recv" ELSE "take"]
        BY <1>4, <3>2 DEF WorkerTest, Goto, dispVars
      <4> QED
        BY <4>1, PcFrame DEF TypeOK, WorkerLabels
    <3> QED
      BY <3>1, <3>2
  <2>3. QueueInv'
    BY <1>4, SingletonFacts DEF TypeOK, PcInv, QueueInv, WorkerLabels,
       DispLabels, WorkerTest, Goto
  <2>4. JoinInv'
    BY <1>4 DEF TypeOK, PcInv, JoinInv, LateLabels, WorkerLabels, DispLabels,
       WorkerTest, Goto
  <2>5. RefInv'
    BY <1>4, RefFrame DEF TypeOK, PcInv, WorkerLabels, Has, WorkerTest, Goto
  <2> QED
    BY <2>1, <2>2, <2>3, <2>4, <2>5
<1>5. ASSUME NEW w \in Workers, WorkerTake(w)
      PROVE  IInv'
  <2>1. TypeOK'
    BY <1>5, SeqFacts DEF TypeOK, PcInv, Labels, WorkerTake, Goto,
       WorkerTakeTo
  <2>2. PcInv'
    BY <1>5, SeqFacts DEF TypeOK, PcInv, QueueInv, JoinInv, LateLabels,
       WorkerLabels, DispLabels, WorkerTake, Goto, WorkerTakeTo
  <2>3. QueueInv'
    <3>1. PICK t \in Tasks : wkTask[w] = <<t>>
      BY <1>5 DEF WorkerTake, WorkerTakeTo, QueueInv
    <3>2. /\ wkTask' = [wkTask EXCEPT ![w] = <<>>]
          /\ task' = [task EXCEPT ![w] = t]
      BY <1>5, <3>1, SingletonFacts DEF WorkerTake, WorkerTakeTo
    <3>3. /\ UNCHANGED <<status, usI>> /\ status[w] = "BUSY"
          /\ pc' = [pc EXCEPT ![w] = "test"]
      <4>1. wkTask[w] # <<>>
        BY <1>5 DEF WorkerTake, WorkerTakeTo
      <4>2. status[w] = "BUSY"
        BY <4>1 DEF QueueInv
      <4> QED
        BY <1>5, <4>2 DEF WorkerTake, WorkerTakeTo, Goto, dispVars, workVars
    <3>4. pc'[Disp] \in {"addRef", "addTask"} =>
            wkTask[usI] = <<>> /\ task[usI] = NoTask /\ usI # w
      <4>1. pc'[Disp] = pc[Disp]
        BY <3>3 DEF TypeOK
      <4>2. wkTask[w] # <<>>
        BY <3>1, SingletonFacts
      <4> QED
        BY <4>1, <4>2 DEF QueueInv
    <3>5. ASSUME NEW v \in Workers
          PROVE  /\ wkTask'[v] = <<>> \/ \E u \in Tasks : wkTask'[v] = <<u>>
                 /\ wkTask'[v] # <<>> => task'[v] = NoTask
                 /\ wkTask'[v] # <<>> \/ task'[v] # NoTask => status'[v] = "BUSY"
      <4>1. CASE v = w
        BY <3>2, <3>3, <4>1 DEF TypeOK
      <4>2. CASE v # w
        BY <3>2, <3>3, <4>2 DEF TypeOK, QueueInv
      <4> QED
        BY <4>1, <4>2
    <3>6. pc'[Disp] \in {"addRef", "addTask"} =>
            wkTask'[usI'] = <<>> /\ task'[usI'] = NoTask /\ status'[usI'] = "BUSY"
      BY <3>2, <3>3, <3>4 DEF TypeOK, QueueInv
    <3> QED
      BY <3>5, <3>6 DEF QueueInv
  <2>4. JoinInv'
    BY <1>5 DEF TypeOK, PcInv, JoinInv, LateLabels, WorkerLabels, DispLabels,
       WorkerTake, Goto, WorkerTakeTo
  <2>5. RefInv'
    <3>1. PICK q \in Tasks : wkTask[w] = <<q>>
      BY <1>5 DEF WorkerTake, WorkerTakeTo, QueueInv
    <3>2. task' = [task EXCEPT ![w] = q] /\ wkTask' = [wkTask EXCEPT ![w] = <<>>]
      BY <1>5, <3>1, SingletonFacts DEF WorkerTake, WorkerTakeTo
    <3>3. \A u \in Tasks : Has(w, u)' => Has(w, u)
      BY <1>5, <3>1, <3>2, SingletonFacts DEF WorkerTake, TypeOK, Has
    <3>4. \A v \in Workers, u \in Tasks : v # w => (Has(v, u)' <=> Has(v, u))
      BY <1>5, <3>2 DEF WorkerTake, WorkerTakeTo, Goto, TypeOK, Has
    <3> QED
      BY <1>5, <3>3, <3>4, RefFrame
         DEF WorkerTake, WorkerTakeTo, Goto, TypeOK, PcInv
  <2> QED
    BY <2>1, <2>2, <2>3, <2>4, <2>5
<1>6. ASSUME NEW w \in Workers, WorkerSleep(w)
      PROVE  IInv'
  <2>1. TypeOK'
    BY <1>6, SeqFacts DEF TypeOK, PcInv, Labels, WorkerSleep, Goto
  <2>2. PcInv' /\ QueueInv' /\ JoinInv'
    BY <1>6, SingletonFacts DEF TypeOK, PcInv, QueueInv, JoinInv, LateLabels,
       WorkerLabels, DispLabels, WorkerSleep, Goto
  <2>3. RefInv'
    BY <1>6, RefFrame DEF TypeOK, PcInv, WorkerLabels, Has, WorkerSleep, Goto
  <2> QED
    BY <2>1, <2>2, <2>3
<1>7. ASSUME NEW w \in Workers, WorkerWake(w)
      PROVE  IInv'
  <2>1. TypeOK'
    BY <1>7, SeqFacts DEF TypeOK, PcInv, Labels, WorkerWake, Goto
  <2>2. PcInv' /\ QueueInv' /\ JoinInv'
    BY <1>7, SingletonFacts DEF TypeOK, PcInv, QueueInv, JoinInv, LateLabels,
       WorkerLabels, DispLabels, WorkerWake, Goto
  <2>3. RefInv'
    BY <1>7, RefFrame DEF TypeOK, PcInv, WorkerLabels, Has, WorkerWake, Goto
  <2> QED
    BY <2>1, <2>2, <2>3
<1>8. ASSUME NEW w \in Workers, WorkerSubRef(w)
      PROVE  IInv'
  <2>1. TypeOK'
    <3>1. task[w] \in Tasks /\ Has(w, task[w])
      BY <1>8 DEF WorkerSubRef, TypeOK, PcInv, Has
    <3>2. ref[task[w]] = 1
      BY <3>1 DEF RefInv
    <3> QED
      BY <1>8, <3>1, <3>2 DEF WorkerSubRef, Goto, TypeOK, Labels
  <2>2. PcInv' /\ QueueInv' /\ JoinInv'
    BY <1>8, SingletonFacts DEF TypeOK, PcInv, QueueInv, JoinInv, LateLabels,
       WorkerLabels, DispLabels, WorkerSubRef, Goto
  <2>3. RefInv'
    <3>1. task[w] \in Tasks /\ Has(w, task[w]) /\ ~Has(w, task[w])'
      BY <1>8 DEF WorkerSubRef, Goto, TypeOK, PcInv, Has
    <3>2. \A v \in Workers, u \in Tasks : Has(v, u)' => Has(v, u) /\ v # w
      BY <1>8 DEF WorkerSubRef, Goto, TypeOK, Has
    <3>3. \A u \in Tasks : u # task[w] => ref'[u] = ref[u]
      BY <1>8 DEF WorkerSubRef, TypeOK
    <3>4. \A v \in Workers, u \in Tasks : Has(v, u)' => u # task[w]
      BY <3>1, <3>2 DEF RefInv
    <3>5. pc'[Disp] = pc[Disp] /\ task' = task
      BY <1>8 DEF WorkerSubRef, Goto, TypeOK
    <3>6. ref[task[w]] = 1
      BY <3>1 DEF RefInv
    <3>7. pc[Disp] \in {"scan", "addRef", "addTask"} => task[Disp] \in Tasks
      BY DEF TypeOK, PcInv
    <3>8. pc[Disp] \in {"scan", "addRef", "addTask"} => task[Disp] # task[w]
      BY <3>1, <3>6 DEF RefInv
    <3> QED
      BY <3>2, <3>3, <3>4, <3>5, <3>7, <3>8 DEF RefInv
  <2> QED
    BY <2>1, <2>2, <2>3
<1>9. ASSUME NEW w \in Workers, WorkerFree(w)
      PROVE  IInv'
  <2>1. TypeOK'
    BY <1>9, SeqFacts DEF TypeOK, PcInv, Labels, WorkerFree, Goto
  <2>2. PcInv' /\ QueueInv' /\ JoinInv'
    BY <1>9, SingletonFacts DEF TypeOK, PcInv, QueueInv, JoinInv, LateLabels,
       WorkerLabels, DispLabels, WorkerFree, Goto
  <2>3. RefInv'
    <3>1. \A v \in Workers, u \in Tasks : Has(v, u)' => Has(v, u)
      BY <1>9, SingletonFacts
         DEF WorkerFree, Goto, TypeOK, PcInv, QueueInv, Has
    <3> QED
      BY <1>9, <3>1, RefFrame DEF WorkerFree, Goto, TypeOK, PcInv, WorkerLabels
  <2> QED
    BY <2>1, <2>2, <2>3
<1>10. ASSUME NEW w \in Workers, WorkerDrain(w)
      PROVE  IInv'
  <2>1. TypeOK'
    BY <1>10, SeqFacts DEF TypeOK, PcInv, Labels, WorkerDrain, Goto,
       WorkerTakeTo
  <2>2. PcInv'
    BY <1>10, SeqFacts DEF TypeOK, PcInv, QueueInv, JoinInv, LateLabels,
       WorkerLabels, DispLabels, WorkerDrain, Goto, WorkerTakeTo
  <2>3. QueueInv'
    <3>1. PICK t \in Tasks : wkTask[w] = <<t>>
      BY <1>10 DEF WorkerDrain, WorkerTakeTo, QueueInv
    <3>2. /\ wkTask' = [wkTask EXCEPT ![w] = <<>>]
          /\ task' = [task EXCEPT ![w] = t]
      BY <1>10, <3>1, SingletonFacts DEF WorkerDrain, WorkerTakeTo
    <3>3. /\ UNCHANGED <<status, usI>> /\ status[w] = "BUSY"
          /\ pc' = [pc EXCEPT ![w] = "recv"]
      <4>1. wkTask[w] # <<>>
        BY <1>10 DEF WorkerDrain, WorkerTakeTo
      <4>2. status[w] = "BUSY"
        BY <4>1 DEF QueueInv
      <4> QED
        BY <1>10, <4>2 DEF WorkerDrain, WorkerTakeTo, Goto, dispVars, workVars
    <3>4. pc'[Disp] \in {"addRef", "addTask"} =>
            wkTask[usI] = <<>> /\ task[usI] = NoTask /\ usI # w
      <4>1. pc'[Disp] = pc[Disp]
        BY <3>3 DEF TypeOK
      <4>2. wkTask[w] # <<>>
        BY <3>1, SingletonFacts
      <4> QED
        BY <4>1, <4>2 DEF QueueInv
    <3>5. ASSUME NEW v \in Workers
          PROVE  /\ wkTask'[v] = <<>> \/ \E u \in Tasks : wkTask'[v] = <<u>>
                 /\ wkTask'[v] # <<>> => task'[v] = NoTask
                 /\ wkTask'[v] # <<>> \/ task'[v] # NoTask => status'[v] = "BUSY"
      <4>1. CASE v = w
        BY <3>2, <3>3, <4>1 DEF TypeOK
      <4>2. CASE v # w
        BY <3>2, <3>3, <4>2 DEF TypeOK, QueueInv
      <4> QED
        BY <4>1, <4>2
    <3>6. pc'[Disp] \in {"addRef", "addTask"} =>
            wkTask'[usI'] = <<>> /\ task'[usI'] = NoTask /\ status'[usI'] = "BUSY"
      BY <3>2, <3>3, <3>4 DEF TypeOK, QueueInv
    <3> QED
      BY <3>5, <3>6 DEF QueueInv
  <2>4. JoinInv'
    BY <1>10 DEF TypeOK, PcInv, JoinInv, LateLabels, WorkerLabels,
       DispLabels, WorkerDrain, Goto, WorkerTakeTo
  <2>5. RefInv'
    <3>1. PICK q \in Tasks : wkTask[w] = <<q>>
      BY <1>10 DEF WorkerDrain, WorkerTakeTo, QueueInv
    <3>2. task' = [task EXCEPT ![w] = q] /\ wkTask' = [wkTask EXCEPT ![w] = <<>>]
      BY <1>10, <3>1, SingletonFacts DEF WorkerDrain, WorkerTakeTo
    <3>3. \A u \in Tasks : Has(w, u)' => Has(w, u)
      BY <1>10, <3>1, <3>2, SingletonFacts DEF WorkerDrain, TypeOK, Has
    <3>4. \A v \in Workers, u \in Tasks : v # w => (Has(v, u)' <=> Has(v, u))
      BY <1>10, <3>2 DEF WorkerDrain, WorkerTakeTo, Goto, TypeOK, Has
    <3> QED
      BY <1>10, <3>3, <3>4, RefFrame
         DEF WorkerDrain, WorkerTakeTo, Goto, TypeOK, PcInv
  <2> QED
    BY <2>1, <2>2, <2>3, <2>4, <2>5
<1>11. ASSUME NEW w \in Workers, WorkerLeave(w)
      PROVE  IInv'
  <2>1. TypeOK'
    BY <1>11, SeqFacts DEF TypeOK, PcInv, Labels, WorkerLeave, Goto
  <2>2. PcInv' /\ QueueInv' /\ JoinInv'
    BY <1>11, SingletonFacts DEF TypeOK, PcInv, QueueInv, JoinInv,
       LateLabels, WorkerLabels, DispLabels, WorkerLeave, Goto
  <2>3. RefInv'
    BY <1>11, RefFrame DEF TypeOK, PcInv, WorkerLabels, Has, WorkerLeave, Goto
  <2> QED
    BY <2>1, <2>2, <2>3
<1>12. CASE DispStart
  <2>1. TypeOK'
    BY <1>12, SeqFacts DEF TypeOK, PcInv, Labels, DispStart, Goto
  <2>2. PcInv' /\ QueueInv' /\ JoinInv'
    BY <1>12, SingletonFacts DEF TypeOK, PcInv, QueueInv, JoinInv,
       LateLabels, WorkerLabels, DispLabels, DispStart, Goto
  <2>3. RefInv'
    BY <1>12, RefFrame DEF TypeOK, PcInv, WorkerLabels, Has, DispStart, Goto
  <2> QED
    BY <2>1, <2>2, <2>3
<1>13. CASE DispTest
  <2>1. TypeOK'
    BY <1>13, SeqFacts DEF TypeOK, PcInv, Labels, DispTest, Goto
  <2>2. PcInv' /\ QueueInv' /\ JoinInv'
    BY <1>13, SingletonFacts DEF TypeOK, PcInv, QueueInv, JoinInv,
       LateLabels, WorkerLabels, DispLabels, DispTest, Goto
  <2>3. RefInv'
    BY <1>13, RefFrame DEF TypeOK, PcInv, WorkerLabels, Has, DispTest, Goto
  <2> QED
    BY <2>1, <2>2, <2>3
<1>14. CASE DispPop
  <2>1. TypeOK'
    <3>1. pc' \in [Runners -> Labels]
      <4>1. "test" \in Labels /\ "ref" \in Labels
        BY DEF Labels
      <4> QED
        BY <1>14, <4>1, GotoType DEF DispPop
    <3>2. quTask' \in Seq(Tasks) /\ task' \in [Runners -> Tasks \cup {NoTask}]
      <4>1. CASE quTask = <<>>
        BY <1>14, <4>1 DEF DispPop, TypeOK
      <4>2. CASE quTask # <<>>
        <5>1. Head(quTask) \in Tasks /\ Tail(quTask) \in Seq(Tasks)
          BY <4>2, SeqFacts DEF TypeOK
        <5>2. /\ quTask' = Tail(quTask)
              /\ task' = [task EXCEPT ![Disp] = Head(quTask)]
          BY <1>14, <4>2 DEF DispPop
        <5> QED
          BY <5>1, <5>2 DEF TypeOK
      <4> QED
        BY <4>1, <4>2
    <3> QED
      BY <1>14, <3>1, <3>2 DEF DispPop, TypeOK
  <2>2. PcInv'
    BY <1>14, SeqFacts DEF TypeOK, PcInv, QueueInv, JoinInv, LateLabels,
       WorkerLabels, DispLabels, DispPop, Goto
  <2>3. QueueInv'
    BY <1>14, SingletonFacts DEF TypeOK, PcInv, QueueInv, WorkerLabels,
       DispLabels, DispPop, Goto
  <2>4. JoinInv'
    BY <1>14 DEF TypeOK, PcInv, JoinInv, LateLabels, WorkerLabels,
       DispLabels, DispPop, Goto
  <2>5. RefInv'
    BY <1>14, RefFrame DEF TypeOK, PcInv, WorkerLabels, Has, DispPop, Goto
  <2> QED
    BY <2>1, <2>2, <2>3, <2>4, <2>5
<1>15. CASE DispRef
  <2>1. TypeOK'
    <3>1. 1 \in Workers
      BY DEF Workers
    <3>2. pc' \in [Runners -> Labels]
      BY <1>15 DEF DispRef, Goto, TypeOK, Labels
    <3> QED
      BY <1>15, <3>1, <3>2 DEF DispRef, TypeOK
  <2>2. PcInv' /\ QueueInv' /\ JoinInv'
    BY <1>15, SingletonFacts DEF TypeOK, PcInv, QueueInv, JoinInv,
       LateLabels, WorkerLabels, DispLabels, DispRef, Goto
  <2>3. RefInv'
    <3>1. \A v \in Workers, u \in Tasks : Has(v, u)' <=> Has(v, u)
      BY <1>15 DEF TypeOK, Has, DispRef, Goto
    <3>2. task[Disp] \in Tasks /\ task' = task /\ ref' = ref
      BY <1>15 DEF DispRef, TypeOK, PcInv
    <3>3. pc'[Disp] \in {"requeue", "scan"}
      BY <1>15 DEF DispRef, Goto, TypeOK
    <3>4. pc'[Disp] = "scan" => ref[task[Disp]] = 0
      BY <1>15 DEF DispRef, Goto, TypeOK
    <3> QED
      BY <3>1, <3>2, <3>3, <3>4 DEF RefInv
  <2> QED
    BY <2>1, <2>2, <2>3
<1>16. CASE DispRequeue
  <2>1. TypeOK'
    BY <1>16, SeqFacts DEF TypeOK, PcInv, Labels, DispRequeue, Goto
  <2>2. PcInv' /\ QueueInv' /\ JoinInv'
    BY <1>16, SingletonFacts DEF TypeOK, PcInv, QueueInv, JoinInv,
       LateLabels, WorkerLabels, DispLabels, DispRequeue, Goto
  <2>3. RefInv'
    BY <1>16, RefFrame DEF TypeOK, PcInv, WorkerLabels, Has, DispRequeue, Goto
  <2> QED
    BY <2>1, <2>2, <2>3
<1>17. CASE DispScan
  <2>1. TypeOK'
    <3>1. (usI % ThreadNum) + 1 \in Workers
      BY DEF TypeOK, Workers
    <3>2. usI' \in Workers
      BY <1>17, <3>1 DEF DispScan, TypeOK
    <3>3. /\ pc' \in [Runners -> Labels]
          /\ status' \in [Workers -> {"FREE", "BUSY"}]
      BY <1>17 DEF DispScan, Goto, TypeOK, Labels
    <3> QED
      BY <1>17, <3>2, <3>3 DEF DispScan, TypeOK
  <2>2. PcInv' /\ QueueInv' /\ JoinInv'
    BY <1>17, SingletonFacts DEF TypeOK, PcInv, QueueInv, JoinInv,
       LateLabels, WorkerLabels, DispLabels, DispScan, Goto
  <2>3. RefInv'
    <3>1. \A v \in Workers, u \in Tasks : Has(v, u)' <=> Has(v, u)
      BY <1>17 DEF TypeOK, Has, DispScan, Goto
    <3>2. task[Disp] \in Tasks /\ task' = task /\ ref' = ref
      BY <1>17 DEF DispScan, TypeOK, PcInv
    <3>3. pc'[Disp] \in {"scan", "addRef"}
      BY <1>17 DEF DispScan, Goto, TypeOK
    <3>4. ref[task[Disp]] = 0
      BY <1>17 DEF DispScan, RefInv
    <3> QED
      BY <3>1, <3>2, <3>3, <3>4 DEF RefInv
  <2> QED
    BY <2>1, <2>2, <2>3
<1>18. CASE DispAddRef
  <2>1. TypeOK'
    <3>1. task[Disp] \in Tasks /\ ref[task[Disp]] = 0
      BY <1>18 DEF DispAddRef, TypeOK, PcInv, RefInv
    <3> QED
      BY <1>18, <3>1 DEF DispAddRef, Goto, TypeOK, Labels
  <2>2. PcInv' /\ QueueInv' /\ JoinInv'
    BY <1>18, SingletonFacts DEF TypeOK, PcInv, QueueInv, JoinInv,
       LateLabels, WorkerLabels, DispLabels, DispAddRef, Goto
  <2>3. RefInv'
    <3>1. \A v \in Workers, u \in Tasks : Has(v, u)' <=> Has(v, u)
      BY <1>18 DEF TypeOK, Has, DispAddRef, Goto
    <3>0. task[Disp] \in Tasks /\ task' = task /\ ref[task[Disp]] = 0
      BY <1>18 DEF DispAddRef, TypeOK, PcInv, RefInv
    <3>2. /\ task[Disp] \in Tasks /\ task' = task
          /\ ref' = [ref EXCEPT ![task[Disp]] = 1]
      BY <1>18, <3>0 DEF DispAddRef
    <3>3. pc'[Disp] = "addTask"
      BY <1>18 DEF DispAddRef, Goto, TypeOK
    <3>4. \A v \in Workers : ~Has(v, task[Disp])
      BY <1>18, <3>2 DEF DispAddRef, RefInv
    <3>5. \A u \in Tasks : ref'[u] = IF u = task[Disp] THEN 1 ELSE ref[u]
      BY <3>2 DEF TypeOK
    <3>6. \A v \in Workers, u \in Tasks : Has(v, u)' => ref'[u] = 1
      BY <3>1, <3>5 DEF RefInv
    <3>7. \A v1, v2 \in Workers, u \in Tasks :
            Has(v1, u)' /\ Has(v2, u)' => v1 = v2
      BY <3>1 DEF RefInv
    <3>8. \A v \in Workers : ~Has(v, task[Disp])'
      BY <3>1, <3>2, <3>4
    <3> QED
      BY <3>2, <3>3, <3>5, <3>6, <3>7, <3>8 DEF RefInv
  <2> QED
    BY <2>1, <2>2, <2>3
<1>19. CASE DispAddTask
  <2>1. TypeOK'
    BY <1>19, SeqFacts DEF TypeOK, PcInv, Labels, DispAddTask, Goto
  <2>2. PcInv' /\ QueueInv' /\ JoinInv'
    BY <1>19, SingletonFacts DEF TypeOK, PcInv, QueueInv, JoinInv,
       LateLabels, WorkerLabels, DispLabels, DispAddTask, Goto
  <2>3. RefInv'
    <3> DEFINE d == task[Disp]
    <3>1. d \in Tasks /\ usI \in Workers /\ ref' = ref
      BY <1>19 DEF DispAddTask, TypeOK, PcInv
    <3>2. wkTask' = [wkTask EXCEPT ![usI] = <<d>>]
      BY <1>19, SingletonFacts DEF DispAddTask, TypeOK, QueueInv
    <3>3. \A v \in Workers : task'[v] = task[v] /\ pc'[v] = pc[v]
      BY <1>19 DEF DispAddTask, Goto, TypeOK
    <3>4. \A v \in Workers, u \in Tasks :
            Has(v, u)' => Has(v, u) \/ (v = usI /\ u = d)
      BY <3>1, <3>2, <3>3, SingletonFacts DEF Has, TypeOK
    <3>5. ref[d] = 1 /\ \A v \in Workers : ~Has(v, d)
      BY <1>19 DEF DispAddTask, RefInv
    <3>6. pc'[Disp] = "test"
      BY <1>19 DEF DispAddTask, Goto, TypeOK
    <3>7. \A v \in Workers, u \in Tasks : Has(v, u)' => ref'[u] = 1
      BY <3>1, <3>4, <3>5 DEF RefInv
    <3>8. \A v1, v2 \in Workers, u \in Tasks :
            Has(v1, u)' /\ Has(v2, u)' => v1 = v2
      BY <3>4, <3>5 DEF RefInv
    <3> QED
      BY <3>6, <3>7, <3>8 DEF RefInv
  <2> QED
    BY <2>1, <2>2, <2>3
<1>20. CASE DispStopNet
  <2>1. TypeOK'
    BY <1>20, SeqFacts DEF TypeOK, PcInv, Labels, DispStopNet, Goto
  <2>2. PcInv' /\ QueueInv' /\ JoinInv'
    BY <1>20, SingletonFacts DEF TypeOK, PcInv, QueueInv, JoinInv,
       LateLabels, WorkerLabels, DispLabels, DispStopNet, Goto
  <2>3. RefInv'
    BY <1>20, RefFrame DEF TypeOK, PcInv, WorkerLabels, Has, DispStopNet, Goto
  <2> QED
    BY <2>1, <2>2, <2>3
<1>21. CASE DispNetStopped
  <2>1. TypeOK'
    <3>1. 1 \in Workers
      BY DEF Workers
    <3> QED
      BY <1>21, <3>1 DEF DispNetStopped, Goto, TypeOK, Labels
  <2>2. PcInv'
    BY <1>21, SeqFacts DEF TypeOK, PcInv, QueueInv, JoinInv, LateLabels,
       WorkerLabels, DispLabels, DispNetStopped, Goto
  <2>3. QueueInv'
    BY <1>21, SingletonFacts DEF TypeOK, PcInv, QueueInv, WorkerLabels,
       DispLabels, DispNetStopped, Goto
  <2>4. JoinInv'
    BY <1>21 DEF DispNetStopped, Goto, TypeOK, JoinInv, LateLabels, Workers
  <2>5. RefInv'
    BY <1>21, RefFrame DEF TypeOK, PcInv, WorkerLabels, Has, DispNetStopped, Goto
  <2> QED
    BY <2>1, <2>2, <2>3, <2>4, <2>5
<1>22. CASE DispJoin
  <2>1. TypeOK'
    BY <1>22, SeqFacts DEF TypeOK, PcInv, Labels, DispJoin, Goto
  <2>2. PcInv' /\ QueueInv' /\ JoinInv'
    BY <1>22, SingletonFacts DEF TypeOK, PcInv, QueueInv, JoinInv,
       LateLabels, WorkerLabels, DispLabels, DispJoin, Goto
  <2>3. RefInv'
    BY <1>22, RefFrame DEF TypeOK, PcInv, WorkerLabels, Has, DispJoin, Goto
  <2> QED
    BY <2>1, <2>2, <2>3
<1>23. CASE DispJoined
  <2>1. TypeOK'
    <3>1. usI' \in Workers
      BY <1>23 DEF DispJoined, TypeOK, Workers
    <3>2. pc' \in [Runners -> Labels] /\ todo' \subseteq Tasks
      BY <1>23 DEF DispJoined, Goto, TypeOK, Labels
    <3> QED
      BY <1>23, <3>1, <3>2 DEF DispJoined, TypeOK
  <2>2. PcInv'
    BY <1>23, SeqFacts DEF TypeOK, PcInv, QueueInv, JoinInv, LateLabels,
       WorkerLabels, DispLabels, DispJoined, Goto
  <2>3. QueueInv'
    BY <1>23, SingletonFacts DEF TypeOK, PcInv, QueueInv, WorkerLabels,
       DispLabels, DispJoined, Goto
  <2>4. JoinInv'
    <3>1. \A v \in Workers : v <= usI => pc[v] = "done"
      BY <1>23 DEF DispJoined, JoinInv, TypeOK, Workers
    <3>2. \A v \in Workers : pc'[v] = pc[v]
      BY <1>23 DEF DispJoined, Goto, TypeOK
    <3>3. CASE usI < ThreadNum
      BY <1>23, <3>1, <3>2, <3>3
         DEF DispJoined, Goto, TypeOK, JoinInv, LateLabels, Workers
    <3>4. CASE ~(usI < ThreadNum)
      BY <1>23, <3>1, <3>2, <3>4
         DEF DispJoined, Goto, TypeOK, JoinInv, LateLabels, Workers
    <3> QED
      BY <3>3, <3>4
  <2>5. RefInv'
    BY <1>23, RefFrame DEF TypeOK, PcInv, WorkerLabels, Has, DispJoined, Goto
  <2> QED
    BY <2>1, <2>2, <2>3, <2>4, <2>5
<1>24. CASE DispSurpNext
  <2>1. TypeOK'
    <3>1. task' \in [Runners -> Tasks \cup {NoTask}] /\ todo' \subseteq Tasks
      BY <1>24 DEF DispSurpNext, TypeOK
    <3>2. pc' \in [Runners -> Labels]
      BY <1>24 DEF DispSurpNext, Goto, TypeOK, Labels
    <3>3. surp' \in Nat
      BY <1>24 DEF DispSurpNext, TypeOK
    <3> QED
      BY <1>24, <3>1, <3>2, <3>3 DEF DispSurpNext, TypeOK
  <2>2. PcInv' /\ QueueInv' /\ JoinInv'
    <3>1. PcInv'
      BY <1>24 DEF TypeOK, PcInv, WorkerLabels, DispLabels, DispSurpNext, Goto
    <3>2. QueueInv'
      BY <1>24 DEF TypeOK, PcInv, QueueInv, WorkerLabels, DispLabels,
         DispSurpNext, Goto
    <3>3. JoinInv'
      BY <1>24 DEF TypeOK, PcInv, JoinInv, LateLabels, WorkerLabels,
         DispLabels, DispSurpNext, Goto
    <3> QED
      BY <3>1, <3>2, <3>3
  <2>3. RefInv'
    BY <1>24, RefFrame DEF TypeOK, PcInv, WorkerLabels, Has, DispSurpNext, Goto
  <2> QED
    BY <2>1, <2>2, <2>3
<1>25. CASE DispSurpSize
  <2>1. TypeOK'
    <3>1. pc' \in [Runners -> Labels]
      <4>1. {"surpPush", "surpNext"} \subseteq Labels
        BY DEF Labels
      <4>2. PICK l \in {"surpPush", "surpNext"} : Goto(Disp, l)
        BY <1>25 DEF DispSurpSize
      <4> QED
        BY <4>1, <4>2, GotoType
    <3>2. task' \in [Runners -> Tasks \cup {NoTask}]
      BY <1>25 DEF DispSurpSize, TypeOK
    <3> QED
      BY <1>25, <3>1, <3>2 DEF DispSurpSize, TypeOK
  <2>2. PcInv' /\ QueueInv' /\ JoinInv'
    <3>1. PcInv'
      BY <1>25 DEF TypeOK, PcInv, WorkerLabels, DispLabels, DispSurpSize, Goto
    <3>2. QueueInv'
      BY <1>25 DEF TypeOK, PcInv, QueueInv, WorkerLabels, DispLabels,
         DispSurpSize, Goto
    <3>3. JoinInv'
      BY <1>25 DEF TypeOK, PcInv, JoinInv, LateLabels, WorkerLabels,
         DispLabels, DispSurpSize, Goto
    <3> QED
      BY <3>1, <3>2, <3>3
  <2>3. RefInv'
    BY <1>25, RefFrame DEF TypeOK, PcInv, WorkerLabels, Has, DispSurpSize, Goto
  <2> QED
    BY <2>1, <2>2, <2>3
<1>26. CASE DispSurpPush
  <2>1. TypeOK'
    BY <1>26, SeqFacts DEF TypeOK, PcInv, Labels, DispSurpPush, Goto
  <2>2. PcInv' /\ QueueInv' /\ JoinInv'
    <3>1. PcInv'
      BY <1>26 DEF TypeOK, PcInv, WorkerLabels, DispLabels, DispSurpPush, Goto
    <3>2. QueueInv'
      BY <1>26 DEF TypeOK, PcInv, QueueInv, WorkerLabels, DispLabels,
         DispSurpPush, Goto
    <3>3. JoinInv'
      BY <1>26 DEF TypeOK, PcInv, JoinInv, LateLabels, WorkerLabels,
         DispLabels, DispSurpPush, Goto
    <3> QED
      BY <3>1, <3>2, <3>3
  <2>3. RefInv'
    BY <1>26, RefFrame DEF TypeOK, PcInv, WorkerLabels, Has, DispSurpPush, Goto
  <2> QED
    BY <2>1, <2>2, <2>3
<1>27. CASE DispSurpPop
  <2>1. TypeOK'
    <3>1. pc' \in [Runners -> Labels]
      <4>1. "destroy" \in Labels /\ "recv" \in Labels
        BY DEF Labels
      <4> QED
        BY <1>27, <4>1, GotoType DEF DispSurpPop
    <3>2. quTask' \in Seq(Tasks) /\ task' \in [Runners -> Tasks \cup {NoTask}]
      <4>1. CASE quTask = <<>>
        BY <1>27, <4>1 DEF DispSurpPop, TypeOK
      <4>2. CASE quTask # <<>>
        <5>1. Head(quTask) \in Tasks /\ Tail(quTask) \in Seq(Tasks)
          BY <4>2, SeqFacts DEF TypeOK
        <5>2. /\ quTask' = Tail(quTask)
              /\ task' = [task EXCEPT ![Disp] = Head(quTask)]
          BY <1>27, <4>2 DEF DispSurpPop
        <5> QED
          BY <5>1, <5>2 DEF TypeOK
      <4> QED
        BY <4>1, <4>2
    <3> QED
      BY <1>27, <3>1, <3>2 DEF DispSurpPop, TypeOK
  <2>2. PcInv'
    BY <1>27, SeqFacts DEF TypeOK, PcInv, QueueInv, JoinInv, LateLabels,
       WorkerLabels, DispLabels, DispSurpPop, Goto
  <2>3. QueueInv'
    BY <1>27, SingletonFacts DEF TypeOK, PcInv, QueueInv, WorkerLabels,
       DispLabels, DispSurpPop, Goto
  <2>4. JoinInv'
    BY <1>27 DEF TypeOK, PcInv, JoinInv, LateLabels, WorkerLabels,
       DispLabels, DispSurpPop, Goto
  <2>5. RefInv'
    BY <1>27, RefFrame DEF TypeOK, PcInv, WorkerLabels, Has, DispSurpPop, Goto
  <2> QED
    BY <2>1, <2>2, <2>3, <2>4, <2>5
<1>28. CASE DispLeave
  <2>1. TypeOK'
    BY <1>28, SeqFacts DEF TypeOK, PcInv, Labels, DispLeave, Goto
  <2>2. PcInv' /\ QueueInv' /\ JoinInv'
    BY <1>28, SingletonFacts DEF TypeOK, PcInv, QueueInv, JoinInv,
       LateLabels, WorkerLabels, DispLabels, DispLeave, Goto
  <2>3. RefInv'
    BY <1>28, RefFrame DEF TypeOK, PcInv, WorkerLabels, Has, DispLeave, Goto
  <2> QED
    BY <2>1, <2>2, <2>3
<1> QED
  BY <1>1, <1>2, <1>3, <1>4, <1>5, <1>6, <1>7, <1>8, <1>9, <1>10, <1>11,
     <1>12, <1>13, <1>14, <1>15, <1>16, <1>17, <1>18, <1>19, <1>20, <1>21,
     <1>22, <1>23, <1>24, <1>25, <1>26, <1>27, <1>28 DEF Next, SenderSend,
     RunnerSend, Worker, Dispatcher, Dispatch, Shutdown

\* The constructors and setThreadNum establish the invariant.
LEMMA InitIInv == Init => IInv
<1> SUFFICES ASSUME Init PROVE IInv
  OBVIOUS
<1> USE ConstantsAssumption, RunnerFacts DEF Init
<1>1. TypeOK
  <2>1. 1 \in Workers
    BY DEF Workers
  <2>2. <<>> \in Seq(Tasks) /\ <<>> \in Seq(Messages)
    OBVIOUS
  <2> QED
    BY <2>1, <2>2 DEF TypeOK, Labels
<1>2. PcInv
  BY DEF PcInv, WorkerLabels, DispLabels
<1>3. QueueInv
  BY DEF QueueInv
<1>4. RefInv
  <2>1. \A w \in Workers, t \in Tasks : ~Has(w, t)
    BY SingletonFacts DEF Has
  <2> QED
    BY <2>1 DEF RefInv
<1>5. JoinInv
  BY DEF JoinInv, LateLabels
<1> QED
  BY <1>1, <1>2, <1>3, <1>4, <1>5 DEF IInv

\* The strengthened invariant holds in every reachable state of the scheduler.
THEOREM Inductive == Spec => []IInv
  BY InitIInv, NextIInv, PTL DEF Spec

\* Every field keeps the values the code gives it; in particular m_uiRef, an
\* unsigned counter, is never decremented at 0 and never exceeds 1.
THEOREM TypeCorrect == Spec => []TypeOK
<1>1. IInv => TypeOK
  BY DEF IInv
<1> QED
  BY <1>1, Inductive, PTL

\* The reference count keeps two workers apart, and the joins keep the workers
\* and the dispatcher apart.
LEMMA OneRunner == IInv => OneRunnerPerTask
<1> SUFFICES ASSUME IInv, NEW t \in Tasks, NEW r1 \in Runners,
                    NEW r2 \in Runners, InRun(r1, t), InRun(r2, t)
             PROVE  r1 = r2
  BY DEF OneRunnerPerTask
<1> USE RunnerFacts DEF IInv, InRun
<1>1. CASE r1 \in Workers /\ r2 \in Workers
  BY <1>1 DEF RefInv, Has
<1>2. CASE r1 = Disp \/ r2 = Disp
  BY <1>2 DEF JoinInv, LateLabels
<1> QED
  BY <1>1, <1>2

\* With any number of services, workers and senders, two threads are never
\* inside runTask of the same service: not two workers, and not a worker and
\* the dispatcher that runs the remaining tasks.
THEOREM MutualExclusion == Spec => []OneRunnerPerTask
  BY OneRunner, Inductive, PTL

\* getFreeWorker never picks a worker that still has something to do.
THEOREM NeverQueuesBehindARun == Spec => []OneTaskPerWorker
<1>1. IInv => OneTaskPerWorker
  <2> SUFFICES ASSUME IInv, NEW w \in Workers
               PROVE  Len(wkTask[w]) + (IF task[w] # NoTask THEN 1 ELSE 0) <= 1
    BY DEF OneTaskPerWorker
  <2>1. CASE wkTask[w] = <<>>
    BY <2>1
  <2>2. CASE wkTask[w] # <<>>
    <3>1. PICK t \in Tasks : wkTask[w] = <<t>>
      BY <2>2 DEF IInv, QueueInv
    <3>2. task[w] = NoTask
      BY <2>2 DEF IInv, QueueInv
    <3> QED
      BY <3>1, <3>2
  <2> QED
    BY <2>1, <2>2
<1> QED
  BY <1>1, Inductive, PTL

\* When the dispatcher runs the remaining tasks and destroys the services, no
\* worker will touch them again.
THEOREM WorkersLeaveFirst == Spec => []DestroyAfterLastRun
<1>1. IInv => DestroyAfterLastRun
  BY DEF IInv, JoinInv, LateLabels, DestroyAfterLastRun
<1> QED
  BY <1>1, Inductive, PTL

----------------------------------------------------------------------------
(* The scheduler is an actor system.                                          *)

CurrentInv ==
    /\ \A t \in Tasks, r \in Runners :
         pc[r] = "handle" /\ task[r] = t => Current[t] = got[r]
    /\ \A t \in Tasks :
         (\A r \in Runners : ~(pc[r] = "handle" /\ task[r] = t))
         => Current[t] = NoMsg

\* Of each service there is something, or nothing, being handled.
LEMMA CurrentIsFunction ==
    /\ Current = [t \in Tasks |-> Current[t]]
    /\ Current' = [t \in Tasks |-> Current'[t]]
  BY DEF Current

\* At most one runner handles a service, so that the CHOOSE of Current has no
\* choice.
LEMMA CurrentFacts == IInv => CurrentInv
<1> SUFFICES ASSUME IInv PROVE CurrentInv
  OBVIOUS
<1>1. ASSUME NEW t \in Tasks, NEW r \in Runners, pc[r] = "handle", task[r] = t
      PROVE  Current[t] = got[r]
  <2>1. Handlers(t) = {r}
    BY <1>1, OneRunner DEF OneRunnerPerTask, InRun, Handlers
  <2> QED
    BY <2>1 DEF Current
<1>2. ASSUME NEW t \in Tasks,
             \A r \in Runners : ~(pc[r] = "handle" /\ task[r] = t)
      PROVE  Current[t] = NoMsg
  BY <1>2 DEF Current, Handlers
<1> QED
  BY <1>1, <1>2 DEF CurrentInv

\* A step that starts and ends no handling leaves what is handled alone.
LEMMA CurrentFrame ==
    /\ CurrentInv
    /\ CurrentInv'
    /\ \A r \in Runners :
         /\ pc'[r] = "handle" <=> pc[r] = "handle"
         /\ pc[r] = "handle" => task'[r] = task[r] /\ got'[r] = got[r]
    => Current' = Current
<1> SUFFICES ASSUME CurrentInv, CurrentInv',
                    \A r \in Runners :
                      /\ pc'[r] = "handle" <=> pc[r] = "handle"
                      /\ pc[r] = "handle" =>
                           task'[r] = task[r] /\ got'[r] = got[r],
                    NEW t \in Tasks
             PROVE  Current'[t] = Current[t]
  BY DEF Current
<1>1. CASE \E r \in Runners : pc[r] = "handle" /\ task[r] = t
  BY <1>1 DEF CurrentInv
<1>2. CASE \A r \in Runners : ~(pc[r] = "handle" /\ task[r] = t)
  BY <1>2 DEF CurrentInv
<1> QED
  BY <1>1, <1>2

\* Every step of the scheduler is a step of the actor system or leaves it
\* unchanged.
LEMMA StepSimulation == IInv /\ [Next]_vars => [Actor!Next]_Actor!vars
<1> SUFFICES ASSUME IInv, [Next]_vars PROVE [Actor!Next]_Actor!vars
  OBVIOUS
<1>1. CurrentInv /\ CurrentInv' /\ IInv'
  BY CurrentFacts, NextIInv, PTL
<1> USE ConstantsAssumption, RunnerFacts, <1>1
    DEF vars, chanVars, dispVars, workVars, runVars
<1>2. ASSUME NEW x \in Threads, NEW t \in Tasks, NEW m \in Messages,
             SendPush(x, t, m)
      PROVE  Actor!Next
  <2>1. Current' = Current
    BY <1>2, CurrentFrame DEF SendPush
  <2>2. Actor!Send(t, m)
    BY <1>2, <2>1 DEF SendPush, Actor!Send
  <2> QED
    BY <2>2 DEF Actor!Next
<1>3. ASSUME NEW r \in Runners, RunRecv(r)
      PROVE  [Actor!Next]_Actor!vars
  <2> DEFINE t == task[r]
  <2>1. t \in Tasks /\ pc[r] = "recv" /\ pc'[r] = "handle" /\ task' = task
    BY <1>3 DEF RunRecv, Goto, IInv, TypeOK, PcInv
  <2>2. \A q \in Runners : ~(pc[q] = "handle" /\ task[q] = t)
    BY <2>1, OneRunner DEF OneRunnerPerTask, InRun
  <2>3. Current[t] = NoMsg /\ Current'[t] = got'[r]
    BY <2>1, <2>2 DEF CurrentInv
  <2>4. \A u \in Tasks : u # t => Current'[u] = Current[u]
    <3> SUFFICES ASSUME NEW u \in Tasks, u # t
                 PROVE  Current'[u] = Current[u]
      OBVIOUS
    <3>1. \A q \in Runners : q # r => pc'[q] = pc[q] /\ got'[q] = got[q]
      BY <1>3 DEF RunRecv, Goto, IInv, TypeOK
    <3>2. CASE \E q \in Runners : pc[q] = "handle" /\ task[q] = u
      BY <2>1, <3>1, <3>2 DEF CurrentInv
    <3>3. CASE \A q \in Runners : ~(pc[q] = "handle" /\ task[q] = u)
      BY <2>1, <3>1, <3>3 DEF CurrentInv
    <3> QED
      BY <3>2, <3>3
  <2>5. Current' = [Current EXCEPT ![t] = got'[r]]
    BY <2>1, <2>3, <2>4, CurrentIsFunction
  <2>6. pc[Disp] \notin {"destroy", "done"} /\ pc'[Disp] \notin {"destroy", "done"}
    BY <1>3, <2>1 DEF RunRecv, Goto, IInv, TypeOK, JoinInv, LateLabels
  <2>7. CASE chan[t] = <<>>
    <3>1. got'[r] = NoMsg /\ chan' = chan
      BY <1>3, <2>7 DEF RunRecv, IInv, TypeOK
    <3>2. Current' = Current
      BY <2>3, <2>5, <3>1 DEF Current
    <3> QED
      BY <2>6, <3>1, <3>2 DEF Actor!vars
  <2>8. CASE chan[t] # <<>>
    <3>1. /\ got'[r] = Head(chan[t])
          /\ chan' = [chan EXCEPT ![t] = Tail(chan[t])]
      BY <1>3, <2>8 DEF RunRecv, IInv, TypeOK
    <3>2. Actor!Begin(t)
      BY <2>3, <2>5, <2>6, <2>8, <3>1 DEF Actor!Begin
    <3> QED
      BY <2>1, <3>2 DEF Actor!Next
  <2> QED
    BY <2>7, <2>8
<1>4. ASSUME NEW r \in Runners, RunEnd(r)
      PROVE  [Actor!Next]_Actor!vars
  <2> DEFINE t == task[r]
  <2>1. t \in Tasks /\ pc[r] = "handle" /\ pc'[r] # "handle" /\ chan' = chan
    BY <1>4 DEF RunEnd, Goto, IInv, TypeOK, PcInv
  <2>2. \A q \in Runners :
          q # r => pc'[q] = pc[q] /\ got'[q] = got[q] /\ task'[q] = task[q]
    BY <1>4 DEF RunEnd, Goto, IInv, TypeOK
  <2>3. \A q \in Runners : q # r => ~(pc[q] = "handle" /\ task[q] = t)
    BY <2>1, OneRunner DEF OneRunnerPerTask, InRun
  <2>4. Current[t] = got[r] /\ Current'[t] = NoMsg
    BY <2>1, <2>2, <2>3 DEF CurrentInv
  <2>5. \A u \in Tasks : u # t => Current'[u] = Current[u]
    <3> SUFFICES ASSUME NEW u \in Tasks, u # t
                 PROVE  Current'[u] = Current[u]
      OBVIOUS
    <3>1. CASE \E q \in Runners : pc[q] = "handle" /\ task[q] = u
      BY <2>1, <2>2, <3>1 DEF CurrentInv
    <3>2. CASE \A q \in Runners : ~(pc[q] = "handle" /\ task[q] = u)
      BY <2>1, <2>2, <3>2 DEF CurrentInv
    <3> QED
      BY <3>1, <3>2
  <2>6. Current' = [Current EXCEPT ![t] = NoMsg]
    BY <2>1, <2>4, <2>5, CurrentIsFunction
  <2>7. pc'[Disp] \in {"destroy", "done"} <=> pc[Disp] \in {"destroy", "done"}
    BY <1>4, <2>1 DEF RunEnd, Goto, IInv, TypeOK
  <2>8. CASE got[r] = NoMsg
    BY <2>1, <2>4, <2>6, <2>7, <2>8 DEF Actor!vars, Current
  <2>9. CASE got[r] # NoMsg
    <3>1. Actor!End(t)
      BY <2>1, <2>4, <2>6, <2>7, <2>9 DEF Actor!End
    <3> QED
      BY <2>1, <3>1 DEF Actor!Next
  <2> QED
    BY <2>8, <2>9
<1>5. CASE DispSurpPop
  <2>1. Current' = Current
    BY <1>5, CurrentFrame DEF DispSurpPop, Goto, IInv, TypeOK
  <2>2. CASE quTask = <<>>
    <3>1. \A r \in Runners : pc[r] # "handle"
      BY <1>5 DEF DispSurpPop, IInv, JoinInv, LateLabels
    <3>2. \A t \in Tasks : Current[t] = NoMsg
      BY <3>1 DEF CurrentInv
    <3>3. Actor!Destroy
      BY <1>5, <2>1, <2>2, <3>2
         DEF DispSurpPop, Goto, IInv, TypeOK, Actor!Destroy
    <3> QED
      BY <3>3 DEF Actor!Next
  <2>3. CASE quTask # <<>>
    BY <1>5, <2>1, <2>3 DEF DispSurpPop, Goto, IInv, TypeOK, Actor!vars
  <2> QED
    BY <2>2, <2>3
<1>6. ASSUME NEW x \in Threads, Notify(x)
      PROVE  UNCHANGED Actor!vars
  BY <1>6, CurrentFrame DEF Notify, Actor!vars
<1>7. CASE NetReadyStop \/ Join \/ UNCHANGED vars
  BY <1>7, CurrentFrame DEF NetReadyStop, Join, Actor!vars
<1>8. ASSUME NEW w \in Workers,
             \/ WorkerTest(w) \/ WorkerTake(w) \/ WorkerSleep(w)
             \/ WorkerWake(w) \/ WorkerSubRef(w) \/ WorkerFree(w)
             \/ WorkerDrain(w) \/ WorkerLeave(w)
      PROVE  UNCHANGED Actor!vars
  <2>1. /\ chan' = chan /\ got' = got /\ pc'[Disp] = pc[Disp]
        /\ pc[w] # "handle" /\ pc'[w] # "handle"
        /\ \A r \in Runners : r # w => pc'[r] = pc[r] /\ task'[r] = task[r]
    BY <1>8 DEF WorkerTest, WorkerTake, WorkerTakeTo, WorkerSleep, WorkerWake,
         WorkerSubRef, WorkerFree, WorkerDrain, WorkerLeave, Goto, IInv, TypeOK
  <2> QED
    BY <2>1, CurrentFrame DEF Actor!vars
<1>9. CASE \/ Dispatch
           \/ DispStopNet \/ DispNetStopped \/ DispJoin \/ DispJoined
           \/ DispSurpNext \/ DispSurpSize \/ DispSurpPush \/ DispLeave
  <2>1. /\ chan' = chan /\ got' = got
        /\ pc[Disp] # "handle" /\ pc'[Disp] # "handle"
        /\ \A w \in Workers : pc'[w] = pc[w] /\ task'[w] = task[w]
        /\ pc'[Disp] \in {"destroy", "done"} <=> pc[Disp] \in {"destroy", "done"}
    BY <1>9 DEF Dispatch, DispStart, DispTest, DispPop, DispRef, DispRequeue,
         DispScan, DispAddRef, DispAddTask, DispStopNet, DispNetStopped,
         DispJoin, DispJoined, DispSurpNext, DispSurpSize, DispSurpPush,
         DispLeave, Goto, IInv, TypeOK
  <2> QED
    BY <2>1, CurrentFrame DEF Actor!vars
<1> QED
  BY <1>2, <1>3, <1>4, <1>5, <1>6, <1>7, <1>8, <1>9
     DEF Next, SenderSend, RunnerSend, Worker, Dispatcher, Shutdown

\* Services see an actor system: one message at a time, in order, none after
\* destroyTask, whatever the workers, the re-queued names and the shutdown do.
THEOREM RefinesActors == Spec => ImplementsActors
<1>1. Init => Actor!Init
  <2> SUFFICES ASSUME Init PROVE Actor!Init
    OBVIOUS
  <2>1. \A t \in Tasks : Handlers(t) = {}
    BY DEF Init, Handlers
  <2>2. Current = [t \in Tasks |-> NoMsg]
    BY <2>1 DEF Current
  <2> QED
    BY <2>2, RunnerFacts DEF Init, Actor!Init
<1> QED
  BY <1>1, StepSimulation, Inductive, PTL
     DEF Spec, ImplementsActors, Actor!Spec

----------------------------------------------------------------------------
(* Messages and notifications balance.                                        *)

\* The places of q that name service t.
Named(q, t) == {i \in 1..Len(q) : q[i] = t}

LEMMA NamedType ==
    ASSUME NEW S, NEW q \in Seq(S), NEW t
    PROVE  IsFiniteSet(Named(q, t)) /\ Cardinality(Named(q, t)) \in Nat
<1>1. Len(q) \in Nat
  BY LenProperties
<1>2. IsFiniteSet(1..Len(q))
  BY <1>1, FS_Interval
<1>3. Named(q, t) \in SUBSET (1..Len(q))
  BY DEF Named
<1>4. IsFiniteSet(Named(q, t))
  BY <1>2, <1>3, FS_Subset
<1> QED
  BY <1>4, FS_CardinalityType

\* A name is pushed.
LEMMA NamedAppend ==
    ASSUME NEW S, NEW q \in Seq(S), NEW u \in S, NEW t
    PROVE  Cardinality(Named(Append(q, u), t))
             = Cardinality(Named(q, t)) + (IF u = t THEN 1 ELSE 0)
<1> DEFINE p == Append(q, u)
<1>1. /\ Len(q) \in Nat /\ Len(p) = Len(q) + 1
      /\ \A i \in 1..Len(q) : p[i] = q[i]
      /\ p[Len(q) + 1] = u
  BY AppendProperties, LenProperties
<1>2. IsFiniteSet(Named(q, t)) /\ Cardinality(Named(q, t)) \in Nat
  BY NamedType
<1> HIDE DEF p
<1>3. CASE u = t
  <2>1. Named(p, t) = Named(q, t) \cup {Len(q) + 1}
    BY <1>1, <1>3 DEF Named
  <2>2. Len(q) + 1 \notin Named(q, t)
    BY <1>1 DEF Named
  <2>3. Cardinality(Named(p, t)) = Cardinality(Named(q, t)) + 1
    BY <1>2, <2>1, <2>2, FS_AddElement
  <2> QED
    BY <1>3, <2>3 DEF p
<1>4. CASE u # t
  <2>1. Named(p, t) = Named(q, t)
    BY <1>1, <1>4 DEF Named
  <2> QED
    BY <1>2, <1>4, <2>1 DEF p
<1> QED
  BY <1>3, <1>4

\* A name is popped.
LEMMA NamedTail ==
    ASSUME NEW S, NEW q \in Seq(S), q # <<>>, NEW t
    PROVE  Cardinality(Named(q, t))
             = Cardinality(Named(Tail(q), t)) + (IF Head(q) = t THEN 1 ELSE 0)
<1> DEFINE A == Named(Tail(q), t)
           B == Named(q, t) \ {1}
           f == [i \in A |-> i + 1]
<1>1. /\ Len(q) \in Nat \ {0} /\ Tail(q) \in Seq(S) /\ Len(Tail(q)) = Len(q) - 1
      /\ \A i \in 1..(Len(q) - 1) : Tail(q)[i] = q[i + 1]
      /\ Head(q) = q[1]
  BY HeadTailProperties, EmptySeq, LenProperties
<1>2. IsFiniteSet(A) /\ Cardinality(A) \in Nat
  BY <1>1, NamedType
<1>3. \A i \in A : i + 1 \in B
  BY <1>1 DEF Named
<1>4. \A j \in B : j - 1 \in A /\ (j - 1) + 1 = j
  BY <1>1 DEF Named
<1>5. A \subseteq Nat
  BY <1>1 DEF Named
<1> HIDE DEF A, B
<1>6. f \in [A -> B]
  BY <1>3
<1>7. \A i, j \in A : f[i] = f[j] => i = j
  BY <1>5
<1>8. \A j \in B : \E i \in A : f[i] = j
  BY <1>4
<1>9. f \in Bijection(A, B)
  <2> HIDE DEF f
  <2> QED
    BY <1>6, <1>7, <1>8, Fun_IsBij
<1>10. IsFiniteSet(B) /\ Cardinality(B) = Cardinality(A)
  <2>1. ExistsBijection(A, B)
    BY <1>9 DEF ExistsBijection
  <2> QED
    BY <1>2, <2>1, FS_Bijection
<1>11. IsFiniteSet(Named(q, t)) /\ Cardinality(Named(q, t)) \in Nat
  BY NamedType
<1>12. Cardinality(B) = IF 1 \in Named(q, t) THEN Cardinality(Named(q, t)) - 1
                        ELSE Cardinality(Named(q, t))
  BY <1>11, FS_RemoveElement DEF B
<1>13. 1 \in Named(q, t) <=> Head(q) = t
  BY <1>1 DEF Named
<1> QED
  BY <1>2, <1>10, <1>11, <1>12, <1>13 DEF A

\* The parts of Notifications(t): names in m_quTask, Sends between their two
\* halves, what the dispatcher has in its hands, what the workers have.
Sent(t) == {x \in Threads : pending[x] = t}

InHand(t) == IF task[Disp] = t /\ pc[Disp] \in {"ref", "requeue", "scan", "addRef",
                                                "addTask", "recv"} THEN 1 ELSE 0

StartedBy(w, t) == wkTask[w] = <<t>> \/ (task[w] = t /\ pc[w] \in {"test", "recv"})

Started(t) == {w \in Workers : StartedBy(w, t)}

\* Only finitely many threads are inside Send, however many there are.
SendInv == IsFiniteSet({x \in Threads : pending[x] # NoTask})

\* The count of service t is the sum of its parts.
PartsAt(t) ==
    /\ Notifications(t) = Cardinality(Named(quTask, t)) + Cardinality(Sent(t))
                            + InHand(t) + Cardinality(Started(t))
    /\ Cardinality(Named(quTask, t)) \in Nat
    /\ IsFiniteSet(Sent(t)) /\ Cardinality(Sent(t)) \in Nat
    /\ InHand(t) \in Nat
    /\ IsFiniteSet(Started(t)) /\ Cardinality(Started(t)) \in Nat
    /\ Len(chan[t]) \in Nat

PartsInv == \A t \in Tasks : PartsAt(t)

LEMMA PartsHold == IInv /\ SendInv => PartsInv
<1> SUFFICES ASSUME IInv, SendInv, NEW t \in Tasks
             PROVE  PartsAt(t)
  BY DEF PartsInv
<1>1. Cardinality(Named(quTask, t)) \in Nat
  BY NamedType DEF IInv, TypeOK
<1>2. IsFiniteSet(Sent(t)) /\ Cardinality(Sent(t)) \in Nat
  <2>1. Sent(t) \in SUBSET {x \in Threads : pending[x] # NoTask}
    BY ConstantsAssumption DEF Sent
  <2>2. IsFiniteSet(Sent(t))
    BY <2>1, FS_Subset DEF SendInv
  <2> QED
    BY <2>2, FS_CardinalityType
<1>3. IsFiniteSet(Started(t)) /\ Cardinality(Started(t)) \in Nat
  <2>1. IsFiniteSet(Workers)
    BY ConstantsAssumption, FS_Interval DEF Workers
  <2>2. Started(t) \in SUBSET Workers
    BY DEF Started
  <2>3. IsFiniteSet(Started(t))
    BY <2>1, <2>2, FS_Subset
  <2> QED
    BY <2>3, FS_CardinalityType
<1>4. InHand(t) \in Nat
  BY DEF InHand
<1>5. Len(chan[t]) \in Nat
  BY LenProperties DEF IInv, TypeOK
<1>6. {w \in Workers : \/ \E i \in 1..Len(wkTask[w]) : wkTask[w][i] = t
                       \/ task[w] = t /\ pc[w] \in {"test", "recv"}} = Started(t)
  <2>1. ASSUME NEW w \in Workers
        PROVE  (\E i \in 1..Len(wkTask[w]) : wkTask[w][i] = t) <=> wkTask[w] = <<t>>
    <3>1. CASE wkTask[w] = <<>>
      BY <3>1
    <3>2. CASE \E u \in Tasks : wkTask[w] = <<u>>
      BY <3>2
    <3> QED
      BY <3>1, <3>2 DEF IInv, QueueInv
  <2> QED
    BY <2>1 DEF Started, StartedBy
<1>7. Notifications(t) = Cardinality(Named(quTask, t)) + Cardinality(Sent(t))
                           + InHand(t) + Cardinality(Started(t))
  BY <1>6 DEF Notifications, Named, Sent, InHand
<1> QED
  BY <1>1, <1>2, <1>3, <1>4, <1>5, <1>7 DEF PartsAt

LEMMA SendFinite == SendInv /\ [Next]_vars => SendInv'
<1> SUFFICES ASSUME SendInv, [Next]_vars PROVE SendInv'
  OBVIOUS
<1> DEFINE X == {x \in Threads : pending[x] # NoTask}
<1>1. IsFiniteSet(X)
  BY DEF SendInv
<1>2. ASSUME NEW x \in Threads, NEW t \in Tasks, NEW m \in Messages, SendPush(x, t, m)
      PROVE  SendInv'
  <2>1. IsFiniteSet(X \cup {x})
    BY <1>1, FS_AddElement
  <2>2. {y \in Threads : pending'[y] # NoTask} \in SUBSET (X \cup {x})
    BY <1>2 DEF SendPush
  <2> HIDE DEF X
  <2> QED
    BY <2>1, <2>2, FS_Subset DEF SendInv
<1>3. ASSUME NEW x \in Threads, Notify(x)
      PROVE  SendInv'
  <2>1. {y \in Threads : pending'[y] # NoTask} \in SUBSET X
    BY <1>3 DEF Notify
  <2> HIDE DEF X
  <2> QED
    BY <1>1, <2>1, FS_Subset DEF SendInv
<1>4. CASE pending' = pending
  BY <1>4 DEF SendInv
<1>5. ASSUME NEW r \in Runners, RunRecv(r) \/ RunEnd(r)
      PROVE  pending' = pending
  BY <1>5 DEF RunRecv, RunEnd, chanVars
<1>6. ASSUME NEW w \in Workers,
             \/ WorkerTest(w) \/ WorkerTake(w) \/ WorkerSleep(w)
             \/ WorkerWake(w) \/ WorkerSubRef(w) \/ WorkerFree(w)
             \/ WorkerDrain(w) \/ WorkerLeave(w)
      PROVE  pending' = pending
  BY <1>6 DEF WorkerTest, WorkerTake, WorkerTakeTo, WorkerSleep, WorkerWake,
       WorkerSubRef, WorkerFree, WorkerDrain, WorkerLeave, chanVars
<1>7. CASE \/ Dispatch
           \/ DispStopNet \/ DispNetStopped \/ DispJoin \/ DispJoined
           \/ DispSurpNext \/ DispSurpSize \/ DispSurpPush \/ DispSurpPop
           \/ DispLeave \/ NetReadyStop \/ Join \/ UNCHANGED vars
  <2>1. pending' = pending
    BY <1>7 DEF Dispatch, DispStart, DispTest, DispPop, DispRef, DispRequeue,
         DispScan, DispAddRef, DispAddTask, DispStopNet, DispNetStopped,
         DispJoin, DispJoined, DispSurpNext, DispSurpSize, DispSurpPush,
         DispSurpPop, DispLeave, NetReadyStop, Join, vars, chanVars
  <2> QED
    BY <1>4, <2>1
<1> QED
  BY <1>2, <1>3, <1>4, <1>5, <1>6, <1>7, RunnerFacts
     DEF Next, SenderSend, RunnerSend, Worker, Dispatcher, Shutdown

----------------------------------------------------------------------------
(* What each step does to messages and notifications                          *)

\* Send's first half adds one of each.
LEMMA PushCounts ==
    ASSUME IInv, PartsInv, PartsInv', NEW x \in Threads, NEW u \in Tasks,
           NEW m \in Messages, SendPush(x, u, m), NEW t \in Tasks
    PROVE  /\ u = t => /\ Len(chan'[t]) = Len(chan[t]) + 1
                       /\ Notifications(t)' = Notifications(t) + 1
           /\ u # t => /\ Len(chan'[t]) = Len(chan[t])
                       /\ Notifications(t)' = Notifications(t)
<1>0. PartsAt(t) /\ PartsAt(t)'
  BY DEF PartsInv
<1>1. /\ pending[x] = NoTask
      /\ chan' = [chan EXCEPT ![u] = Append(chan[u], m)]
      /\ pending' = [pending EXCEPT ![x] = u]
      /\ UNCHANGED <<quTask, wkTask, task, pc>>
  BY DEF SendPush, workVars, runVars
<1>2. /\ chan \in [Tasks -> Seq(Messages)]
      /\ pending \in [Threads -> Tasks \cup {NoTask}]
  BY DEF IInv, TypeOK
<1>3. x \notin Sent(t)
  BY <1>1, ConstantsAssumption DEF Sent
<1>4. /\ Named(quTask, t)' = Named(quTask, t) /\ InHand(t)' = InHand(t)
      /\ Started(t)' = Started(t)
  BY <1>1 DEF Named, InHand, Started, StartedBy
<1>5. /\ Cardinality(Named(quTask, t)') = Cardinality(Named(quTask, t))
      /\ Cardinality(Started(t)') = Cardinality(Started(t))
      /\ InHand(t)' = InHand(t)
  BY <1>4
<1>6. CASE u = t
  <2>1. Len(chan'[t]) = Len(chan[t]) + 1
    <3>1. chan'[t] = Append(chan[t], m) /\ chan[t] \in Seq(Messages)
      BY <1>1, <1>2, <1>6
    <3> QED
      BY <3>1, AppendProperties
  <2>2. Sent(t)' = Sent(t) \cup {x}
    BY <1>1, <1>2, <1>6 DEF Sent
  <2>3. IsFiniteSet(Sent(t))
    BY <1>0 DEF PartsAt
  <2>4. Cardinality(Sent(t)') = Cardinality(Sent(t)) + 1
    BY <1>3, <2>2, <2>3, FS_AddElement
  <2>5. Notifications(t)' = Notifications(t) + 1
    BY <1>0, <1>5, <2>4 DEF PartsAt
  <2> QED
    BY <1>6, <2>1, <2>5
<1>7. CASE u # t
  <2>1. chan'[t] = chan[t]
    BY <1>1, <1>2, <1>7
  <2>2. Sent(t)' = Sent(t)
    BY <1>1, <1>2, <1>3, <1>7 DEF Sent
  <2>3. Cardinality(Sent(t)') = Cardinality(Sent(t))
    BY <2>2
  <2>4. Notifications(t)' = Notifications(t)
    BY <1>0, <1>5, <2>3 DEF PartsAt
  <2> QED
    BY <1>7, <2>1, <2>4
<1> QED
  BY <1>6, <1>7

\* Send's second half hands the notification on.
LEMMA NotifyCounts ==
    ASSUME IInv, PartsInv, PartsInv', NEW x \in Threads, Notify(x), NEW t \in Tasks
    PROVE  Notifications(t)' = Notifications(t)
<1>0. PartsAt(t) /\ PartsAt(t)'
  BY DEF PartsInv
<1> DEFINE u == pending[x]
<1>1. /\ u # NoTask /\ quTask' = Append(quTask, u)
      /\ pending' = [pending EXCEPT ![x] = NoTask]
      /\ UNCHANGED <<wkTask, task, pc>>
  BY DEF Notify, workVars, runVars
<1>2. pending \in [Threads -> Tasks \cup {NoTask}] /\ quTask \in Seq(Tasks)
  BY DEF IInv, TypeOK
<1>3. u \in Tasks
  BY <1>1, <1>2
<1>4. Cardinality(Named(quTask, t)')
        = Cardinality(Named(quTask, t)) + (IF u = t THEN 1 ELSE 0)
  <2>1. Named(quTask, t)' = Named(Append(quTask, u), t)
    BY <1>1 DEF Named
  <2> HIDE DEF u
  <2> QED
    BY <1>2, <1>3, <2>1, NamedAppend
<1>5. Cardinality(Sent(t)') + (IF u = t THEN 1 ELSE 0) = Cardinality(Sent(t))
  <2>1. CASE u = t
    <3>1. Sent(t)' = Sent(t) \ {x} /\ x \in Sent(t)
      BY <1>2, <1>1, <2>1, ConstantsAssumption DEF Sent
    <3>2. IsFiniteSet(Sent(t)) /\ Cardinality(Sent(t)) \in Nat
      BY <1>0 DEF PartsAt
    <3>3. Cardinality(Sent(t) \ {x}) = Cardinality(Sent(t)) - 1
      BY <3>1, <3>2, FS_RemoveElement
    <3> HIDE DEF u
    <3> QED
      BY <2>1, <3>1, <3>2, <3>3
  <2>2. CASE u # t
    <3>1. Sent(t)' = Sent(t)
      BY <1>1, <1>2, <2>2, ConstantsAssumption DEF Sent
    <3> QED
      BY <1>0, <2>2, <3>1 DEF PartsAt
  <2> QED
    BY <2>1, <2>2
<1>6. InHand(t)' = InHand(t) /\ Started(t)' = Started(t)
  BY <1>1 DEF InHand, Started, StartedBy
<1> HIDE DEF u
<1> QED
  BY <1>0, <1>4, <1>5, <1>6 DEF PartsAt

\* Nothing is counted where the places of t in the queues stay the same.
LEMMA CountFrame ==
    ASSUME PartsInv, PartsInv', NEW t \in Tasks,
           quTask' = quTask, pending' = pending, InHand(t)' = InHand(t),
           \A w \in Workers : StartedBy(w, t)' <=> StartedBy(w, t)
    PROVE  Notifications(t)' = Notifications(t)
<1>0. PartsAt(t) /\ PartsAt(t)'
  BY DEF PartsInv
<1>1. Named(quTask, t)' = Named(quTask, t) /\ Sent(t)' = Sent(t)
  BY DEF Named, Sent
<1>2. Started(t)' = Started(t)
  BY DEF Started
<1> QED
  BY <1>0, <1>1, <1>2 DEF PartsAt

\* A receive uses one notification up and takes one message, if there is one.
LEMMA RecvCounts ==
    ASSUME IInv, PartsInv, PartsInv', NEW r \in Runners, RunRecv(r), NEW t \in Tasks
    PROVE  /\ task[r] = t => /\ Notifications(t) = Notifications(t)' + 1
                             /\ chan[t] # <<>> => Len(chan[t]) = Len(chan'[t]) + 1
                             /\ chan[t] = <<>> => Len(chan[t]) = 0 /\ Len(chan'[t]) = 0
           /\ task[r] # t => /\ Notifications(t) = Notifications(t)'
                             /\ Len(chan[t]) = Len(chan'[t])
<1>0. PartsAt(t) /\ PartsAt(t)'
  BY DEF PartsInv
<1>1. /\ pc[r] = "recv" /\ pc' = [pc EXCEPT ![r] = "handle"]
      /\ UNCHANGED <<quTask, pending, wkTask, task>>
  BY DEF RunRecv, Goto, dispVars, workVars
<1>2. /\ task[r] \in Tasks /\ pc \in [Runners -> Labels]
      /\ chan \in [Tasks -> Seq(Messages)]
  BY <1>1, RunnerFacts DEF IInv, TypeOK, PcInv
<1>3. task[r] # t => Len(chan[t]) = Len(chan'[t])
  BY <1>2 DEF RunRecv
<1>4. task[r] = t /\ chan[t] # <<>> => Len(chan[t]) = Len(chan'[t]) + 1
  <2> SUFFICES ASSUME task[r] = t, chan[t] # <<>>
               PROVE  Len(chan[t]) = Len(chan'[t]) + 1
    OBVIOUS
  <2>1. chan'[t] = Tail(chan[t]) /\ chan[t] \in Seq(Messages)
    BY <1>2 DEF RunRecv
  <2> QED
    BY <2>1
<1>5. task[r] = t /\ chan[t] = <<>> => Len(chan[t]) = 0 /\ Len(chan'[t]) = 0
  BY <1>2 DEF RunRecv
<1>6. Named(quTask, t)' = Named(quTask, t) /\ Sent(t)' = Sent(t)
  BY <1>1 DEF Named, Sent
<1>7. /\ Cardinality(Named(quTask, t)') = Cardinality(Named(quTask, t))
      /\ Cardinality(Sent(t)') = Cardinality(Sent(t))
  BY <1>6
<1>8. /\ task[r] = t => Notifications(t) = Notifications(t)' + 1
      /\ task[r] # t => Notifications(t) = Notifications(t)'
  <2>1. CASE r = Disp
    <3>1. Started(t)' = Started(t)
      BY <1>1, <1>2, <2>1, RunnerFacts DEF Started, StartedBy
    <3>2. Cardinality(Started(t)') = Cardinality(Started(t))
      BY <3>1
    <3>3. CASE task[r] = t
      <4>1. InHand(t) = 1 /\ InHand(t)' = 0
        BY <1>1, <1>2, <2>1, <3>3 DEF InHand
      <4> QED
        BY <1>0, <1>7, <3>2, <3>3, <4>1 DEF PartsAt
    <3>4. CASE task[r] # t
      <4>1. InHand(t) = 0 /\ InHand(t)' = 0
        BY <1>1, <2>1, <3>4 DEF InHand
      <4> QED
        BY <1>0, <1>7, <3>2, <3>4, <4>1 DEF PartsAt
    <3> QED
      BY <3>3, <3>4
  <2>2. CASE r # Disp
    <3>1. r \in Workers /\ InHand(t)' = InHand(t)
      BY <1>1, <1>2, <2>2, RunnerFacts DEF InHand
    <3>2. wkTask[r] = <<>>
      BY <1>2, <3>1, ConstantsAssumption DEF IInv, QueueInv
    <3>3. CASE task[r] = t
      <4>1. r \in Started(t) /\ Started(t)' = Started(t) \ {r}
        BY <1>1, <1>2, <3>1, <3>2, <3>3, SingletonFacts, RunnerFacts
           DEF Started, StartedBy
      <4>2. IsFiniteSet(Started(t)) /\ Cardinality(Started(t)) \in Nat
        BY <1>0 DEF PartsAt
      <4>3. Cardinality(Started(t)') = Cardinality(Started(t)) - 1
        BY <4>1, <4>2, FS_RemoveElement
      <4> QED
        BY <1>0, <1>7, <3>1, <3>3, <4>3 DEF PartsAt
    <3>4. CASE task[r] # t
      <4>1. Started(t)' = Started(t)
        BY <1>1, <1>2, <3>1, <3>2, <3>4, RunnerFacts DEF Started, StartedBy
      <4>2. Cardinality(Started(t)') = Cardinality(Started(t))
        BY <4>1
      <4> QED
        BY <1>0, <1>7, <3>1, <3>4, <4>2 DEF PartsAt
    <3> QED
      BY <3>3, <3>4
  <2> QED
    BY <2>1, <2>2
<1> QED
  BY <1>3, <1>4, <1>5, <1>8

\* A step of a worker outside a run keeps the count, except that a stopped
\* worker gives up the task it has taken.
LEMMA WorkerCounts ==
    ASSUME IInv, PartsInv, PartsInv', NEW w \in Workers,
           \/ WorkerTest(w) \/ WorkerTake(w) \/ WorkerSleep(w)
           \/ WorkerWake(w) \/ WorkerSubRef(w) \/ WorkerFree(w)
           \/ WorkerDrain(w) \/ WorkerLeave(w),
           NEW t \in Tasks
    PROVE  /\ Notifications(t)' <= Notifications(t)
           /\ ~(WorkerTest(w) /\ wkExit[w] = "STOP") =>
                Notifications(t)' = Notifications(t)
<1>0. PartsAt(t) /\ PartsAt(t)'
  BY DEF PartsInv
<1>1. /\ quTask' = quTask /\ pending' = pending
      /\ \A r \in Runners : r # w => pc'[r] = pc[r] /\ task'[r] = task[r]
      /\ \A v \in Workers : v # w => wkTask'[v] = wkTask[v]
  <2>1. /\ pc \in [Runners -> Labels] /\ task \in [Runners -> Tasks \cup {NoTask}]
        /\ wkTask \in [Workers -> Seq(Tasks)] /\ w \in Runners
    BY RunnerFacts DEF IInv, TypeOK
  <2> QED
    BY <2>1 DEF WorkerTest, WorkerTake, WorkerTakeTo, WorkerSleep, WorkerWake,
       WorkerSubRef, WorkerFree, WorkerDrain, WorkerLeave, Goto, chanVars, workVars
<1>2. InHand(t)' = InHand(t)
  BY <1>1, RunnerFacts DEF InHand
<1>3. \A v \in Workers : v # w => (StartedBy(v, t)' <=> StartedBy(v, t))
  BY <1>1, RunnerFacts DEF StartedBy
<1>4. /\ wkTask[w] = <<>> \/ \E u \in Tasks : wkTask[w] = <<u>>
      /\ wkTask[w] # <<>> => task[w] = NoTask
      /\ pc[w] \in {"take", "wait", "drain", "done"} => task[w] = NoTask
      /\ t # NoTask
  BY ConstantsAssumption DEF IInv, QueueInv, PcInv
<1>5. /\ pc \in [Runners -> Labels] /\ task \in [Runners -> Tasks \cup {NoTask}]
      /\ wkTask \in [Workers -> Seq(Tasks)] /\ w \in Runners
  BY RunnerFacts DEF IInv, TypeOK
<1>6. CASE WorkerTest(w) /\ wkExit[w] = "STOP"
  <2>1. Started(t)' \in SUBSET Started(t)
    <3>1. StartedBy(w, t)' => StartedBy(w, t)
      BY <1>4, <1>5, <1>6 DEF WorkerTest, Goto, StartedBy, workVars
    <3> QED
      BY <1>3, <3>1 DEF Started
  <2>2. Cardinality(Started(t)') <= Cardinality(Started(t))
    <3>1. IsFiniteSet(Started(t))
      BY <1>0 DEF PartsAt
    <3> QED
      BY <2>1, <3>1, FS_Subset
  <2>3. Named(quTask, t)' = Named(quTask, t) /\ Sent(t)' = Sent(t)
    BY <1>1 DEF Named, Sent
  <2>4. /\ Cardinality(Named(quTask, t)') = Cardinality(Named(quTask, t))
        /\ Cardinality(Sent(t)') = Cardinality(Sent(t))
    BY <2>3
  <2>5. Notifications(t)' <= Notifications(t)
    BY <1>0, <1>2, <2>2, <2>4 DEF PartsAt
  <2> QED
    BY <1>6, <2>5
<1>7. CASE ~(WorkerTest(w) /\ wkExit[w] = "STOP")
  <2>1. StartedBy(w, t)' <=> StartedBy(w, t)
    <3>1. CASE WorkerTake(w) \/ WorkerDrain(w)
      <4>1. PICK u \in Tasks : wkTask[w] = <<u>>
        BY <1>4, <3>1 DEF WorkerTake, WorkerDrain, WorkerTakeTo
      <4>2. /\ task'[w] = u /\ wkTask'[w] = <<>> /\ pc'[w] \in {"test", "recv"}
            /\ task[w] = NoTask
        BY <1>4, <1>5, <3>1, <4>1, SingletonFacts
           DEF WorkerTake, WorkerDrain, WorkerTakeTo, Goto
      <4> QED
        BY <1>4, <4>1, <4>2, SingletonFacts DEF StartedBy
    <3>2. CASE WorkerTest(w) \/ WorkerSleep(w) \/ WorkerWake(w)
               \/ WorkerSubRef(w) \/ WorkerFree(w) \/ WorkerLeave(w)
      <4>1. wkTask' = wkTask
        BY <3>2 DEF WorkerTest, WorkerSleep, WorkerWake, WorkerSubRef,
           WorkerFree, WorkerLeave, workVars
      <4>2. (task'[w] = t /\ pc'[w] \in {"test", "recv"})
              <=> (task[w] = t /\ pc[w] \in {"test", "recv"})
        BY <1>4, <1>5, <1>7, <3>2 DEF WorkerTest, WorkerSleep, WorkerWake,
           WorkerSubRef, WorkerFree, WorkerLeave, Goto
      <4> QED
        BY <4>1, <4>2 DEF StartedBy
    <3> QED
      BY <3>1, <3>2
  <2>2. \A v \in Workers : StartedBy(v, t)' <=> StartedBy(v, t)
    BY <1>3, <2>1
  <2>3. Notifications(t)' = Notifications(t)
    BY <1>1, <1>2, <2>2, CountFrame
  <2> QED
    BY <1>0, <1>7, <2>3 DEF PartsAt
<1> QED
  BY <1>6, <1>7

\* The end of a run keeps the count: its notification is used up already.
LEMMA EndCounts ==
    ASSUME IInv, PartsInv, PartsInv', NEW r \in Runners, RunEnd(r), NEW t \in Tasks
    PROVE  Notifications(t)' = Notifications(t)
<1>1. /\ pc \in [Runners -> Labels] /\ task \in [Runners -> Tasks \cup {NoTask}]
      /\ pc[r] = "handle" /\ pc'[r] \notin {"test", "recv", "ref", "requeue", "scan",
                                            "addRef", "addTask"}
      /\ \A q \in Runners : q # r => pc'[q] = pc[q] /\ task'[q] = task[q]
      /\ UNCHANGED <<quTask, pending, wkTask>>
  BY DEF RunEnd, Goto, chanVars, workVars, IInv, TypeOK
<1>2. InHand(t)' = InHand(t)
  BY <1>1, RunnerFacts DEF InHand
<1>3. \A w \in Workers : StartedBy(w, t)' <=> StartedBy(w, t)
  BY <1>1, RunnerFacts DEF StartedBy
<1> QED
  BY <1>1, <1>2, <1>3, CountFrame

\* The dispatcher pops a name, with its notification in its hands then.
LEMMA PopCounts ==
    ASSUME IInv, PartsInv, PartsInv', DispPop \/ DispSurpPop, NEW t \in Tasks
    PROVE  Notifications(t)' = Notifications(t)
<1>0. PartsAt(t) /\ PartsAt(t)'
  BY DEF PartsInv
<1>1. /\ pc \in [Runners -> Labels] /\ task \in [Runners -> Tasks \cup {NoTask}]
      /\ quTask \in Seq(Tasks) /\ t # NoTask
  BY ConstantsAssumption DEF IInv, TypeOK
<1>2. /\ \A w \in Workers : pc'[w] = pc[w] /\ task'[w] = task[w]
      /\ UNCHANGED <<pending, wkTask>>
  BY <1>1, RunnerFacts DEF DispPop, DispSurpPop, Goto, chanVars, workVars
<1>3. Started(t)' = Started(t) /\ Sent(t)' = Sent(t)
  BY <1>2 DEF Started, StartedBy, Sent
<1>4. /\ Cardinality(Started(t)') = Cardinality(Started(t))
      /\ Cardinality(Sent(t)') = Cardinality(Sent(t))
  BY <1>3
<1>5. InHand(t) = 0
  BY DEF DispPop, DispSurpPop, InHand
<1>6. CASE quTask = <<>>
  <2>1. Named(quTask, t)' = Named(quTask, t)
    BY <1>6 DEF DispPop, DispSurpPop, Named
  <2>2. Cardinality(Named(quTask, t)') = Cardinality(Named(quTask, t))
    BY <2>1
  <2>3. InHand(t)' = 0
    BY <1>1, <1>6, RunnerFacts DEF DispPop, DispSurpPop, Goto, InHand
  <2> QED
    BY <1>0, <1>4, <1>5, <2>2, <2>3 DEF PartsAt
<1>7. CASE quTask # <<>>
  <2>1. /\ quTask' = Tail(quTask) /\ task'[Disp] = Head(quTask)
        /\ pc'[Disp] \in {"ref", "recv"}
    BY <1>1, <1>7, RunnerFacts DEF DispPop, DispSurpPop, Goto
  <2>2. Cardinality(Named(quTask, t)) = Cardinality(Named(quTask, t)')
          + (IF Head(quTask) = t THEN 1 ELSE 0)
    BY <1>1, <1>7, <2>1, NamedTail
  <2>3. CASE Head(quTask) = t
    <3>1. InHand(t)' = 1
      BY <2>1, <2>3 DEF InHand
    <3>2. Cardinality(Named(quTask, t)) = Cardinality(Named(quTask, t)') + 1
      BY <2>2, <2>3
    <3> QED
      BY <1>0, <1>4, <1>5, <3>1, <3>2 DEF PartsAt
  <2>4. CASE Head(quTask) # t
    <3>1. InHand(t)' = 0
      BY <2>1, <2>4 DEF InHand
    <3>2. Cardinality(Named(quTask, t)) = Cardinality(Named(quTask, t)') + 0
      BY <2>2, <2>4
    <3> QED
      BY <1>0, <1>4, <1>5, <3>1, <3>2 DEF PartsAt
  <2> QED
    BY <2>3, <2>4
<1> QED
  BY <1>6, <1>7

\* A name put back is in the queue and no longer in the dispatcher's hands; a
\* name of runSurpTask is one more.
LEMMA PutCounts ==
    ASSUME IInv, PartsInv, PartsInv', DispRequeue \/ DispSurpPush, NEW t \in Tasks
    PROVE  /\ DispRequeue \/ task[Disp] # t => Notifications(t)' = Notifications(t)
           /\ DispSurpPush /\ task[Disp] = t =>
                Notifications(t)' = Notifications(t) + 1
<1> DEFINE u == task[Disp]
<1>0. PartsAt(t) /\ PartsAt(t)'
  BY DEF PartsInv
<1>1. /\ pc \in [Runners -> Labels] /\ task \in [Runners -> Tasks \cup {NoTask}]
      /\ quTask \in Seq(Tasks) /\ t # NoTask /\ u \in Tasks
  BY ConstantsAssumption, RunnerFacts
     DEF IInv, TypeOK, PcInv, DispRequeue, DispSurpPush
<1>2. /\ \A w \in Workers : pc'[w] = pc[w] /\ task'[w] = task[w]
      /\ UNCHANGED <<pending, wkTask>>
      /\ quTask' = Append(quTask, u)
  BY <1>1, RunnerFacts DEF DispRequeue, DispSurpPush, Goto, chanVars, workVars
<1>3. Started(t)' = Started(t) /\ Sent(t)' = Sent(t)
  BY <1>2 DEF Started, StartedBy, Sent
<1>4. /\ Cardinality(Started(t)') = Cardinality(Started(t))
      /\ Cardinality(Sent(t)') = Cardinality(Sent(t))
  BY <1>3
<1>5. Cardinality(Named(quTask, t)')
        = Cardinality(Named(quTask, t)) + (IF u = t THEN 1 ELSE 0)
  <2> HIDE DEF u
  <2> QED
    BY <1>1, <1>2, NamedAppend
<1>6. InHand(t)' = 0
  BY <1>1, RunnerFacts DEF DispRequeue, DispSurpPush, Goto, InHand
<1>7. /\ DispRequeue => InHand(t) = IF u = t THEN 1 ELSE 0
      /\ DispSurpPush => InHand(t) = 0
      /\ ~(DispRequeue /\ DispSurpPush)
  BY DEF DispRequeue, DispSurpPush, InHand
<1>8. CASE u = t
  <2>1. Cardinality(Named(quTask, t)') = Cardinality(Named(quTask, t)) + 1
    BY <1>5, <1>8
  <2>2. CASE DispRequeue
    <3>1. InHand(t) = 1
      BY <1>7, <1>8, <2>2
    <3>2. Notifications(t)' = Notifications(t)
      BY <1>0, <1>4, <1>6, <2>1, <3>1 DEF PartsAt
    <3> QED
      BY <1>7, <2>2, <3>2
  <2>3. CASE DispSurpPush
    <3>1. InHand(t) = 0
      BY <1>7, <2>3
    <3>2. Notifications(t)' = Notifications(t) + 1
      BY <1>0, <1>4, <1>6, <2>1, <3>1 DEF PartsAt
    <3> QED
      BY <1>7, <1>8, <2>3, <3>2
  <2> QED
    BY <2>2, <2>3
<1>9. CASE u # t
  <2>1. Cardinality(Named(quTask, t)') = Cardinality(Named(quTask, t)) + 0
    BY <1>5, <1>9
  <2>2. InHand(t) = 0
    BY <1>7, <1>9
  <2>3. Notifications(t)' = Notifications(t)
    BY <1>0, <1>4, <1>6, <2>1, <2>2 DEF PartsAt
  <2> QED
    BY <1>9, <2>3
<1> QED
  BY <1>8, <1>9

\* The other steps of the dispatcher, addTask apart, keep what it has in hand.
LEMMA PlainCounts ==
    ASSUME IInv, PartsInv, PartsInv', NEW t \in Tasks,
           \/ DispStart \/ DispTest \/ DispRef \/ DispScan \/ DispAddRef
           \/ DispStopNet \/ DispNetStopped \/ DispJoin \/ DispJoined
           \/ DispSurpNext \/ DispSurpSize \/ DispLeave
    PROVE  Notifications(t)' = Notifications(t)
<1>1. /\ pc \in [Runners -> Labels] /\ task \in [Runners -> Tasks \cup {NoTask}]
      /\ wkTask \in [Workers -> Seq(Tasks)]
  BY DEF IInv, TypeOK
<1>2. /\ \A w \in Workers : pc'[w] = pc[w] /\ task'[w] = task[w]
      /\ UNCHANGED <<quTask, pending, wkTask>>
  BY <1>1, RunnerFacts DEF DispStart, DispTest, DispRef, DispScan, DispAddRef,
     DispStopNet, DispNetStopped, DispJoin, DispJoined, DispSurpNext,
     DispSurpSize, DispLeave, Goto, chanVars, workVars
<1>3. \A w \in Workers : StartedBy(w, t)' <=> StartedBy(w, t)
  BY <1>2 DEF StartedBy
<1>4. InHand(t)' = InHand(t)
  <2>1. CASE DispRef \/ DispScan \/ DispAddRef
    BY <1>1, <2>1, RunnerFacts DEF DispRef, DispScan, DispAddRef, Goto, InHand
  <2>2. CASE \/ DispStart \/ DispTest \/ DispStopNet \/ DispNetStopped \/ DispJoin
             \/ DispJoined \/ DispSurpNext \/ DispSurpSize \/ DispLeave
    <3>1. /\ pc[Disp] \notin {"ref", "requeue", "scan", "addRef", "addTask", "recv"}
          /\ pc'[Disp] \notin {"ref", "requeue", "scan", "addRef", "addTask", "recv"}
      BY <1>1, <2>2, RunnerFacts DEF DispStart, DispTest, DispStopNet,
         DispNetStopped, DispJoin, DispJoined, DispSurpNext, DispSurpSize,
         DispLeave, Goto
    <3> QED
      BY <3>1 DEF InHand
  <2> QED
    BY <2>1, <2>2
<1> QED
  BY <1>2, <1>3, <1>4, CountFrame

\* addWorker hands the notification to a worker that had none.
LEMMA AddTaskCounts ==
    ASSUME IInv, PartsInv, PartsInv', DispAddTask, NEW t \in Tasks
    PROVE  Notifications(t)' = Notifications(t)
<1> DEFINE u == task[Disp]
<1>0. PartsAt(t) /\ PartsAt(t)'
  BY DEF PartsInv
<1>1. /\ pc \in [Runners -> Labels] /\ task \in [Runners -> Tasks \cup {NoTask}]
      /\ wkTask \in [Workers -> Seq(Tasks)] /\ usI \in Workers
      /\ t # NoTask /\ u \in Tasks
  BY ConstantsAssumption, RunnerFacts DEF IInv, TypeOK, PcInv, DispAddTask
<1>2. PICK v \in Workers : v = usI
  BY <1>1
<1>3. wkTask[v] = <<>> /\ task[v] = NoTask
  BY <1>2 DEF DispAddTask, IInv, QueueInv
<1>4. /\ \A w \in Workers : pc'[w] = pc[w] /\ task'[w] = task[w]
      /\ UNCHANGED <<quTask, pending>>
      /\ wkTask' = [wkTask EXCEPT ![v] = <<u>>]
  BY <1>1, <1>2, <1>3, RunnerFacts, SingletonFacts DEF DispAddTask, Goto, chanVars
<1>5. /\ wkTask'[v] = <<u>>
      /\ \A w \in Workers : w # v => wkTask'[w] = wkTask[w]
  <2> HIDE DEF u
  <2> QED
    BY <1>1, <1>4
<1>6. /\ <<t>> # <<>>
       /\ <<u>> = <<t>> => u = t
  BY SingletonFacts
<1>7. Named(quTask, t)' = Named(quTask, t) /\ Sent(t)' = Sent(t)
  BY <1>4 DEF Named, Sent
<1>8. /\ Cardinality(Named(quTask, t)') = Cardinality(Named(quTask, t))
      /\ Cardinality(Sent(t)') = Cardinality(Sent(t))
  BY <1>7
<1>9. InHand(t)' = 0
  BY <1>1, RunnerFacts DEF DispAddTask, Goto, InHand
<1>10. CASE u = t
  <2>1. InHand(t) = 1
    BY <1>10 DEF DispAddTask, InHand
  <2>2. Started(t)' = Started(t) \cup {v} /\ v \notin Started(t)
    <3>1. ~StartedBy(v, t) /\ StartedBy(v, t)'
      <4>1. wkTask[v] # <<t>> /\ task[v] # t /\ wkTask'[v] = <<t>>
        BY <1>1, <1>3, <1>10, <1>5, <1>6
      <4> QED
        BY <4>1 DEF StartedBy
    <3>2. \A w \in Workers : w # v => (StartedBy(w, t)' <=> StartedBy(w, t))
      BY <1>4, <1>5 DEF StartedBy
    <3> QED
      BY <1>1, <3>1, <3>2 DEF Started
  <2>3. IsFiniteSet(Started(t))
    BY <1>0 DEF PartsAt
  <2>4. Cardinality(Started(t)') = Cardinality(Started(t)) + 1
    BY <2>2, <2>3, FS_AddElement
  <2> QED
    BY <1>0, <1>8, <1>9, <2>1, <2>4 DEF PartsAt
<1>11. CASE u # t
  <2>1. InHand(t) = 0
    BY <1>11 DEF InHand
  <2>2. Started(t)' = Started(t)
    <3>1. ~StartedBy(v, t) /\ ~StartedBy(v, t)'
      <4>1. /\ wkTask[v] # <<t>> /\ task[v] # t
            /\ wkTask'[v] # <<t>> /\ task'[v] # t
        BY <1>1, <1>3, <1>4, <1>11, <1>5, <1>6
      <4> QED
        BY <4>1 DEF StartedBy
    <3>2. \A w \in Workers : w # v => (StartedBy(w, t)' <=> StartedBy(w, t))
      BY <1>4, <1>5 DEF StartedBy
    <3> QED
      BY <1>1, <3>1, <3>2 DEF Started
  <2>3. Cardinality(Started(t)') = Cardinality(Started(t))
    BY <2>2
  <2> QED
    BY <1>0, <1>8, <1>9, <2>1, <2>3 DEF PartsAt
<1> QED
  BY <1>10, <1>11

\* A step that touches nothing counted.
LEMMA IdleCounts ==
    ASSUME PartsInv, PartsInv', NetReadyStop \/ Join \/ UNCHANGED vars,
           NEW t \in Tasks
    PROVE  Notifications(t)' = Notifications(t)
<1>1. UNCHANGED <<quTask, pending, wkTask, task, pc>>
  BY DEF NetReadyStop, Join, vars, chanVars, workVars, runVars
<1>2. InHand(t)' = InHand(t) /\ \A w \in Workers : StartedBy(w, t)' <=> StartedBy(w, t)
  BY <1>1 DEF InHand, StartedBy
<1> QED
  BY <1>1, <1>2, CountFrame

----------------------------------------------------------------------------
(* The balance in each phase of the dispatcher                                *)

Joining == pc[Disp] \in {"join", "joinWait"}

\* runSurpTask is done with the names of service t.
Reached(t) ==
    pc[Disp] \in {"surpNext", "surpSize", "surpPush"} =>
        t \notin todo /\ (pc[Disp] = "surpNext" \/ task[Disp] # t)

\* Equal while services are scheduled; a worker that is joined may give its
\* notification up, so that messages prevail; runSurpTask pushes at least as
\* many names as there are messages, service by service.
BalAt(t) ==
    /\ Scheduling => Len(chan[t]) = Notifications(t)
    /\ Joining => Notifications(t) <= Len(chan[t])
    /\ ~Scheduling /\ ~Joining /\ Reached(t) => Len(chan[t]) <= Notifications(t)
    /\ pc[Disp] \in {"surpSize", "surpPush"} /\ task[Disp] = t =>
         surp <= Notifications(t)

\* No worker is stopped while services are scheduled.
StopInv == \A w \in Workers : wkExit[w] = "STOP" => ~Scheduling

BalInv == StopInv /\ (\A t \in Tasks : BalAt(t)) /\ WorkerRunFindsMessage

\* Both numbers are numbers.
LEMMA CountTypes ==
    ASSUME PartsInv, PartsInv', NEW t \in Tasks
    PROVE  /\ Notifications(t) \in Nat /\ Len(chan[t]) \in Nat
           /\ Notifications(t)' \in Nat /\ Len(chan'[t]) \in Nat
<1> DEFINE a == Cardinality(Named(quTask, t))
           b == Cardinality(Sent(t))
           d == Cardinality(Started(t))
<1>1. \A i, j, k, l \in Nat : i + j + k + l \in Nat
  OBVIOUS
<1>2. PartsAt(t) /\ PartsAt(t)'
  BY DEF PartsInv
<1>3. Notifications(t) \in Nat
  <2>1. /\ Notifications(t) = a + b + InHand(t) + d
        /\ a \in Nat /\ b \in Nat /\ InHand(t) \in Nat /\ d \in Nat
    BY <1>2 DEF PartsAt
  <2> HIDE DEF a, b, d
  <2> QED
    BY <1>1, <2>1
<1>4. Notifications(t)' \in Nat
  <2>1. /\ Notifications(t)' = a' + b' + InHand(t)' + d'
        /\ a' \in Nat /\ b' \in Nat /\ InHand(t)' \in Nat /\ d' \in Nat
    BY <1>2 DEF PartsAt
  <2> HIDE DEF a, b, d
  <2> QED
    BY <1>1, <2>1
<1>5. Len(chan[t]) \in Nat /\ Len(chan'[t]) \in Nat
  BY <1>2 DEF PartsAt
<1> QED
  BY <1>3, <1>4, <1>5

\* A step that keeps both numbers or raises both by one, with the dispatcher
\* where it was.
LEMMA BalFrame ==
    ASSUME PartsInv, PartsInv', NEW t \in Tasks, BalAt(t), surp \in Nat,
           pc'[Disp] = pc[Disp], task'[Disp] = task[Disp], todo' = todo, surp' = surp,
           \/ Notifications(t)' = Notifications(t) /\ Len(chan'[t]) = Len(chan[t])
           \/ /\ Notifications(t)' = Notifications(t) + 1
              /\ Len(chan'[t]) = Len(chan[t]) + 1
    PROVE  BalAt(t)'
<1>1. /\ Scheduling' <=> Scheduling
      /\ Joining' <=> Joining
      /\ Reached(t)' <=> Reached(t)
  BY DEF Scheduling, Joining, Reached
<1>2. /\ Notifications(t) \in Nat /\ Len(chan[t]) \in Nat
      /\ Notifications(t)' \in Nat /\ Len(chan'[t]) \in Nat
  BY CountTypes
<1>3. CASE Notifications(t)' = Notifications(t) /\ Len(chan'[t]) = Len(chan[t])
  BY <1>1, <1>3 DEF BalAt
<1>4. CASE /\ Notifications(t)' = Notifications(t) + 1
           /\ Len(chan'[t]) = Len(chan[t]) + 1
  BY <1>1, <1>2, <1>4 DEF BalAt
<1> QED
  BY <1>3, <1>4

\* The steps of the dispatcher.
LEMMA DispBal ==
    ASSUME IInv, PartsInv, PartsInv', NEW t \in Tasks, BalAt(t),
           \/ Dispatch
           \/ DispStopNet \/ DispNetStopped \/ DispJoin \/ DispJoined
           \/ DispSurpNext \/ DispSurpSize \/ DispSurpPush \/ DispSurpPop
           \/ DispLeave
    PROVE  BalAt(t)'
<1>1. /\ pc \in [Runners -> Labels] /\ task \in [Runners -> Tasks \cup {NoTask}]
      /\ surp \in Nat /\ Disp \in Runners
  BY RunnerFacts DEF IInv, TypeOK
<1>2. /\ Notifications(t) \in Nat /\ Len(chan[t]) \in Nat
      /\ Notifications(t)' \in Nat /\ Len(chan'[t]) \in Nat
  BY CountTypes
<1>3. chan' = chan
  BY DEF Dispatch, DispStart, DispTest, DispPop, DispRef, DispRequeue, DispScan,
     DispAddRef, DispAddTask, DispStopNet, DispNetStopped, DispJoin, DispJoined,
     DispSurpNext, DispSurpSize, DispSurpPush, DispSurpPop, DispLeave, chanVars
<1>4. ~DispSurpPush => Notifications(t)' = Notifications(t)
  BY PlainCounts, PopCounts, PutCounts, AddTaskCounts DEF Dispatch
<1>5. CASE Dispatch \/ DispStopNet
  <2>1. Scheduling /\ Scheduling' /\ ~DispSurpPush
    BY <1>1, <1>5 DEF Dispatch, DispStart, DispTest, DispPop, DispRef, DispRequeue,
       DispScan, DispAddRef, DispAddTask, DispStopNet, DispSurpPush, Goto, Scheduling
  <2>2. Len(chan'[t]) = Notifications(t)'
    BY <1>3, <1>4, <2>1 DEF BalAt
  <2>3. ~Joining' /\ pc'[Disp] \notin {"surpSize", "surpPush"}
    BY <2>1 DEF Scheduling, Joining
  <2> QED
    BY <2>1, <2>2, <2>3 DEF BalAt
<1>6. CASE DispNetStopped \/ DispJoin
  <2>1. /\ Scheduling \/ Joining
        /\ ~Scheduling' /\ Joining' /\ ~DispSurpPush
        /\ pc'[Disp] \notin {"surpSize", "surpPush"}
    BY <1>1, <1>6 DEF DispNetStopped, DispJoin, DispSurpPush, Goto, Scheduling, Joining
  <2>2. Notifications(t)' <= Len(chan'[t])
    BY <1>2, <1>3, <1>4, <2>1 DEF BalAt
  <2> QED
    BY <2>1, <2>2 DEF BalAt
<1>7. CASE DispJoined
  <2>1. Joining /\ ~Scheduling' /\ ~DispSurpPush
        /\ pc'[Disp] \notin {"surpSize", "surpPush"}
    BY <1>1, <1>7 DEF DispJoined, DispSurpPush, Goto, Scheduling, Joining
  <2>2. Joining' \/ ~Reached(t)'
    BY <1>1, <1>7 DEF DispJoined, Goto, Joining, Reached
  <2>3. Notifications(t)' <= Len(chan'[t])
    BY <1>3, <1>4, <2>1 DEF BalAt
  <2> QED
    BY <2>1, <2>2, <2>3 DEF BalAt
<1>8. CASE DispSurpNext
  <2>1. ~Scheduling /\ ~Joining /\ ~Scheduling' /\ ~Joining' /\ ~DispSurpPush
    BY <1>1, <1>8 DEF DispSurpNext, DispSurpPush, Goto, Scheduling, Joining
  <2>2. Reached(t)' => Reached(t)
    BY <1>1, <1>8 DEF DispSurpNext, Goto, Reached
  <2>3. pc'[Disp] \in {"surpSize", "surpPush"} => surp' = 0
    BY <1>1, <1>8 DEF DispSurpNext, Goto
  <2> QED
    BY <1>2, <1>3, <1>4, <2>1, <2>2, <2>3 DEF BalAt
<1>9. CASE DispSurpSize
  <2>1. /\ ~Scheduling /\ ~Joining /\ ~Scheduling' /\ ~Joining' /\ ~DispSurpPush
        /\ surp' = surp
    BY <1>1, <1>9 DEF DispSurpSize, DispSurpPush, Goto, Scheduling, Joining, dispVars
  <2>2. CASE task[Disp] = t
    <3>1. surp <= Notifications(t)
      BY <1>9, <2>2 DEF DispSurpSize, BalAt
    <3>2. CASE surp < Len(chan[t])
      <4>1. pc'[Disp] = "surpPush" /\ task'[Disp] = t
        BY <1>1, <1>9, <2>2, <3>2 DEF DispSurpSize, Goto
      <4>2. ~Reached(t)'
        BY <4>1 DEF Reached
      <4> QED
        BY <1>4, <2>1, <3>1, <4>1, <4>2 DEF BalAt
    <3>3. CASE ~(surp < Len(chan[t]))
      <4>1. pc'[Disp] = "surpNext"
        BY <1>1, <1>9, <2>2, <3>3 DEF DispSurpSize, Goto
      <4>2. Len(chan[t]) <= Notifications(t)
        BY <1>1, <1>2, <3>1, <3>3
      <4> QED
        BY <1>3, <1>4, <2>1, <4>1, <4>2 DEF BalAt
    <3> QED
      BY <3>2, <3>3
  <2>3. CASE task[Disp] # t
    <3>1. Reached(t)' => Reached(t)
      BY <1>1, <1>9, <2>3 DEF DispSurpSize, Goto, Reached, dispVars
    <3>2. ~(pc'[Disp] \in {"surpSize", "surpPush"} /\ task'[Disp] = t)
      BY <1>1, <1>9, <2>3 DEF DispSurpSize, Goto
    <3> QED
      BY <1>3, <1>4, <2>1, <3>1, <3>2 DEF BalAt
  <2> QED
    BY <2>2, <2>3
<1>10. CASE DispSurpPush
  <2>1. /\ ~Scheduling /\ ~Joining /\ ~Scheduling' /\ ~Joining'
        /\ surp' = surp + 1 /\ task' = task /\ todo' = todo
        /\ pc[Disp] = "surpPush" /\ pc'[Disp] = "surpSize"
    BY <1>1, <1>10 DEF DispSurpPush, Goto, Scheduling, Joining
  <2>2. Reached(t)' <=> Reached(t)
    BY <2>1 DEF Reached
  <2>3. CASE task[Disp] = t
    <3>1. Notifications(t)' = Notifications(t) + 1
      BY <1>10, <2>3, PutCounts
    <3>2. ~Reached(t)' /\ surp <= Notifications(t)
      BY <2>1, <2>3 DEF Reached, BalAt
    <3>3. surp' <= Notifications(t)'
      BY <1>1, <1>2, <2>1, <3>1, <3>2
    <3> QED
      BY <2>1, <3>2, <3>3 DEF BalAt
  <2>4. CASE task[Disp] # t
    <3>1. Notifications(t)' = Notifications(t)
      BY <1>10, <2>4, PutCounts
    <3> QED
      BY <1>3, <2>1, <2>2, <2>4, <3>1 DEF BalAt
  <2> QED
    BY <2>3, <2>4
<1>11. CASE DispSurpPop \/ DispLeave
  <2>1. /\ ~Scheduling /\ ~Joining /\ ~Scheduling' /\ ~Joining' /\ ~DispSurpPush
        /\ pc'[Disp] \notin {"surpSize", "surpPush"} /\ Reached(t)
    BY <1>1, <1>11 DEF DispSurpPop, DispLeave, DispSurpPush, Goto, Scheduling,
       Joining, Reached
  <2> QED
    BY <1>3, <1>4, <2>1 DEF BalAt
<1> QED
  BY <1>5, <1>6, <1>7, <1>8, <1>9, <1>10, <1>11

\* The steps of the other threads, and the dispatcher's own runs.
LEMMA OtherBal ==
    ASSUME IInv, PartsInv, PartsInv', StopInv, NEW t \in Tasks, BalAt(t),
           \/ \E x \in Threads, u \in Tasks, m \in Messages : SendPush(x, u, m)
           \/ \E x \in Threads : Notify(x)
           \/ NetReadyStop \/ Join \/ UNCHANGED vars
           \/ \E r \in Runners : RunRecv(r) \/ RunEnd(r)
           \/ \E w \in Workers :
                \/ WorkerTest(w) \/ WorkerTake(w) \/ WorkerSleep(w) \/ WorkerWake(w)
                \/ WorkerSubRef(w) \/ WorkerFree(w) \/ WorkerDrain(w) \/ WorkerLeave(w)
    PROVE  BalAt(t)'
<1>1. /\ pc \in [Runners -> Labels] /\ task \in [Runners -> Tasks \cup {NoTask}]
      /\ surp \in Nat
  BY DEF IInv, TypeOK
<1>2. /\ Notifications(t) \in Nat /\ Len(chan[t]) \in Nat
      /\ Notifications(t)' \in Nat /\ Len(chan'[t]) \in Nat
  BY CountTypes
<1>3. ASSUME NEW x \in Threads, NEW u \in Tasks, NEW m \in Messages, SendPush(x, u, m)
      PROVE  BalAt(t)'
  <2>1. pc' = pc /\ task' = task /\ todo' = todo /\ surp' = surp
    BY <1>3 DEF SendPush, runVars, dispVars
  <2> QED
    BY <1>1, <1>3, <2>1, PushCounts, BalFrame
<1>4. CASE (\E x \in Threads : Notify(x)) \/ NetReadyStop \/ Join \/ UNCHANGED vars
  <2>1. /\ pc' = pc /\ task' = task /\ todo' = todo /\ surp' = surp
        /\ chan' = chan
    BY <1>4 DEF Notify, NetReadyStop, Join, vars, runVars, dispVars, chanVars
  <2>2. Notifications(t)' = Notifications(t)
    BY <1>4, NotifyCounts, IdleCounts
  <2> QED
    BY <1>1, <2>1, <2>2, BalFrame
<1>5. ASSUME NEW w \in Workers, RunRecv(w)
      PROVE  BalAt(t)'
  <2>1. /\ pc'[Disp] = pc[Disp] /\ task' = task /\ todo' = todo /\ surp' = surp
        /\ w \in Runners /\ pc[w] = "recv"
    BY <1>1, <1>5, RunnerFacts DEF RunRecv, Goto, dispVars
  <2>2. pc[Disp] \notin LateLabels
    BY <2>1 DEF IInv, JoinInv
  <2>3. Scheduling \/ Joining
    BY <2>2 DEF IInv, PcInv, DispLabels, LateLabels, Scheduling, Joining
  <2>4. (Scheduling' <=> Scheduling) /\ (Joining' <=> Joining)
        /\ pc'[Disp] \notin {"surpSize", "surpPush"}
    BY <2>1, <2>2 DEF Scheduling, Joining, LateLabels
  <2>5. CASE task[w] = t
    <3>1. Notifications(t) = Notifications(t)' + 1
      BY <1>5, <2>1, <2>5, RecvCounts
    <3>2. Len(chan[t]) >= 1
      BY <1>2, <2>3, <3>1 DEF BalAt
    <3>3. Len(chan[t]) = Len(chan'[t]) + 1
      BY <1>5, <2>1, <2>5, <3>2, RecvCounts
    <3> QED
      BY <1>2, <2>3, <2>4, <3>1, <3>3 DEF BalAt
  <2>6. CASE task[w] # t
    <3>1. Notifications(t)' = Notifications(t) /\ Len(chan'[t]) = Len(chan[t])
      BY <1>5, <2>1, <2>6, RecvCounts
    <3> QED
      BY <1>1, <2>1, <3>1, BalFrame
  <2> QED
    BY <2>5, <2>6
<1>6. CASE RunRecv(Disp)
  <2>1. /\ ~Scheduling /\ ~Joining /\ Reached(t) /\ ~Scheduling' /\ ~Joining'
        /\ pc'[Disp] \notin {"surpSize", "surpPush"} /\ Disp \in Runners
    BY <1>1, <1>6, RunnerFacts DEF RunRecv, Goto, Scheduling, Joining, Reached
  <2>2. Len(chan[t]) <= Notifications(t)
    BY <2>1 DEF BalAt
  <2>3. Len(chan'[t]) <= Notifications(t)'
    <3>1. CASE task[Disp] = t /\ chan[t] # <<>>
      <4>1. Notifications(t) = Notifications(t)' + 1 /\ Len(chan[t]) = Len(chan'[t]) + 1
        BY <1>6, <2>1, <3>1, RecvCounts
      <4> QED
        BY <1>2, <2>2, <4>1
    <3>2. CASE task[Disp] = t /\ chan[t] = <<>>
      <4>1. Len(chan'[t]) = 0
        BY <1>6, <2>1, <3>2, RecvCounts
      <4> QED
        BY <1>2, <4>1
    <3>3. CASE task[Disp] # t
      <4>1. Notifications(t) = Notifications(t)' /\ Len(chan[t]) = Len(chan'[t])
        BY <1>6, <2>1, <3>3, RecvCounts
      <4> QED
        BY <2>2, <4>1
    <3> QED
      BY <3>1, <3>2, <3>3
  <2> QED
    BY <2>1, <2>3 DEF BalAt
<1>7. ASSUME NEW r \in Runners, RunEnd(r)
      PROVE  BalAt(t)'
  <2>1. Notifications(t)' = Notifications(t) /\ chan' = chan
    BY <1>7, EndCounts DEF RunEnd, chanVars
  <2>2. CASE r = Disp
    <3>1. /\ ~Scheduling /\ ~Joining /\ Reached(t) /\ ~Scheduling' /\ ~Joining'
          /\ pc'[Disp] \notin {"surpSize", "surpPush"}
      BY <1>1, <1>7, <2>2 DEF RunEnd, Goto, Scheduling, Joining, Reached
    <3> QED
      BY <2>1, <3>1 DEF BalAt
  <2>3. CASE r # Disp
    <3>1. /\ pc'[Disp] = pc[Disp] /\ task' = task /\ todo' = todo /\ surp' = surp
      BY <1>1, <1>7, <2>3, RunnerFacts DEF RunEnd, Goto, dispVars
    <3> QED
      BY <1>1, <2>1, <3>1, BalFrame
  <2> QED
    BY <2>2, <2>3
<1>8. ASSUME NEW w \in Workers,
             \/ WorkerTest(w) \/ WorkerTake(w) \/ WorkerSleep(w) \/ WorkerWake(w)
             \/ WorkerSubRef(w) \/ WorkerFree(w) \/ WorkerDrain(w) \/ WorkerLeave(w)
      PROVE  BalAt(t)'
  <2>1. /\ pc'[Disp] = pc[Disp] /\ task'[Disp] = task[Disp]
        /\ todo' = todo /\ surp' = surp /\ chan' = chan
    BY <1>1, <1>8, RunnerFacts DEF WorkerTest, WorkerTake, WorkerTakeTo, WorkerSleep,
       WorkerWake, WorkerSubRef, WorkerFree, WorkerDrain, WorkerLeave, Goto,
       dispVars, chanVars
  <2>2. CASE ~(WorkerTest(w) /\ wkExit[w] = "STOP")
    <3>1. Notifications(t)' = Notifications(t)
      BY <1>8, <2>2, WorkerCounts
    <3> QED
      BY <1>1, <2>1, <3>1, BalFrame
  <2>3. CASE WorkerTest(w) /\ wkExit[w] = "STOP"
    <3>1. Notifications(t)' <= Notifications(t)
      BY <2>3, WorkerCounts
    <3>2. ~Scheduling /\ pc[w] # "done"
      BY <2>3 DEF StopInv, WorkerTest
    <3>3. Joining
      BY <3>2 DEF IInv, PcInv, JoinInv, DispLabels, LateLabels, Scheduling, Joining
    <3>4. Notifications(t)' <= Len(chan'[t])
      BY <1>2, <2>1, <3>1, <3>3 DEF BalAt
    <3>5. ~Scheduling' /\ Joining' /\ pc'[Disp] \notin {"surpSize", "surpPush"}
      BY <2>1, <3>2, <3>3 DEF Scheduling, Joining
    <3> QED
      BY <3>4, <3>5 DEF BalAt
  <2> QED
    BY <2>2, <2>3
<1> QED
  BY <1>3, <1>4, <1>5, <1>6, <1>7, <1>8, RunnerFacts

\* A worker that receives was notified, and its notification stands for a
\* message; the stop of the workers begins when scheduling has ended.
LEMMA NextBal ==
    ASSUME IInv, PartsInv, PartsInv', BalInv, [Next]_vars
    PROVE  BalInv'
<1>1. \A t \in Tasks : BalAt(t)'
  BY DispBal, OtherBal, RunnerFacts
     DEF BalInv, Next, SenderSend, RunnerSend, Worker, Dispatcher, Shutdown
<1>2. /\ pc \in [Runners -> Labels] /\ wkExit \in [Workers -> {"RUN", "STOP"}]
      /\ got \in [Runners -> Messages \cup {NoMsg}]
      /\ chan \in [Tasks -> Seq(Messages)] /\ Disp \in Runners
  BY RunnerFacts DEF IInv, TypeOK
<1>3. CASE \/ \E x \in Threads, u \in Tasks, m \in Messages : SendPush(x, u, m)
           \/ \E x \in Threads : Notify(x)
           \/ NetReadyStop \/ Join \/ UNCHANGED vars
  <2>1. pc' = pc /\ wkExit' = wkExit /\ got' = got
    BY <1>3 DEF SendPush, Notify, NetReadyStop, Join, vars, runVars, workVars
  <2>2. StopInv' /\ WorkerRunFindsMessage'
    BY <2>1 DEF BalInv, StopInv, Scheduling, WorkerRunFindsMessage
  <2> QED
    BY <1>1, <2>2 DEF BalInv
<1>4. ASSUME NEW r \in Runners, RunRecv(r)
      PROVE  BalInv'
  <2>1. /\ \A q \in Runners : q # r => pc'[q] = pc[q] /\ got'[q] = got[q]
        /\ wkExit' = wkExit /\ pc[r] = "recv" /\ pc'[r] = "handle"
    BY <1>2, <1>4 DEF RunRecv, Goto, workVars
  <2>2. Scheduling' <=> Scheduling
    <3>1. CASE r = Disp
      BY <2>1, <3>1 DEF Scheduling
    <3>2. CASE r # Disp
      BY <1>2, <2>1, <3>2 DEF Scheduling
    <3> QED
      BY <3>1, <3>2
  <2>3. StopInv'
    BY <2>1, <2>2 DEF BalInv, StopInv
  <2>4. CASE r = Disp
    BY <1>1, <2>1, <2>3, <2>4, RunnerFacts DEF BalInv, WorkerRunFindsMessage
  <2>5. CASE r # Disp
    <3>1. r \in Workers /\ task[r] \in Tasks
      BY <2>1, <2>5, RunnerFacts DEF IInv, TypeOK, PcInv
    <3>2. Scheduling \/ Joining
      BY <2>1, <3>1 DEF IInv, PcInv, JoinInv, DispLabels, LateLabels, Scheduling, Joining
    <3>3. chan[task[r]] # <<>>
      <4>1. PICK t \in Tasks : t = task[r]
        BY <3>1
      <4>2. Notifications(t) = Notifications(t)' + 1
        BY <1>4, <4>1, RecvCounts
      <4>3. /\ Notifications(t) \in Nat /\ Len(chan[t]) \in Nat
            /\ Notifications(t)' \in Nat
        BY CountTypes
      <4>4. Notifications(t) <= Len(chan[t])
        BY <3>2, <4>3 DEF BalInv, BalAt
      <4>5. Len(chan[t]) # 0
        BY <4>2, <4>3, <4>4
      <4> QED
        BY <4>1, <4>5
    <3>4. got'[r] # NoMsg
      <4>1. got'[r] = Head(chan[task[r]])
        BY <1>2, <1>4, <3>3 DEF RunRecv
      <4>2. Head(chan[task[r]]) \in Messages
        BY <1>2, <3>1, <3>3
      <4> QED
        BY <4>1, <4>2, ConstantsAssumption
    <3>5. WorkerRunFindsMessage'
      BY <2>1, <3>4, RunnerFacts DEF BalInv, WorkerRunFindsMessage
    <3> QED
      BY <1>1, <2>3, <3>5 DEF BalInv
  <2> QED
    BY <2>4, <2>5
<1>5. ASSUME NEW r \in Runners, RunEnd(r)
      PROVE  BalInv'
  <2>1. /\ \A q \in Runners : q # r => pc'[q] = pc[q] /\ got'[q] = got[q]
        /\ wkExit' = wkExit /\ pc[r] = "handle"
        /\ pc'[r] \in {"surpPop", "subRef"}
    BY <1>2, <1>5 DEF RunEnd, Goto, workVars
  <2>2. Scheduling' <=> Scheduling
    <3>1. CASE r = Disp
      BY <2>1, <3>1 DEF Scheduling
    <3>2. CASE r # Disp
      BY <1>2, <2>1, <3>2 DEF Scheduling
    <3> QED
      BY <3>1, <3>2
  <2>3. StopInv' /\ WorkerRunFindsMessage'
    BY <2>1, <2>2, RunnerFacts DEF BalInv, StopInv, WorkerRunFindsMessage
  <2> QED
    BY <1>1, <2>3 DEF BalInv
<1>6. ASSUME NEW w \in Workers,
             \/ WorkerTest(w) \/ WorkerTake(w) \/ WorkerSleep(w) \/ WorkerWake(w)
             \/ WorkerSubRef(w) \/ WorkerFree(w) \/ WorkerDrain(w) \/ WorkerLeave(w)
      PROVE  BalInv'
  <2>1. /\ pc'[Disp] = pc[Disp] /\ wkExit' = wkExit /\ got' = got
        /\ \A v \in Workers : pc'[v] = "handle" => pc[v] = "handle"
    BY <1>2, <1>6, RunnerFacts DEF WorkerTest, WorkerTake, WorkerTakeTo, WorkerSleep,
       WorkerWake, WorkerSubRef, WorkerFree, WorkerDrain, WorkerLeave, Goto, workVars
  <2>2. StopInv' /\ WorkerRunFindsMessage'
    BY <2>1 DEF BalInv, StopInv, Scheduling, WorkerRunFindsMessage
  <2> QED
    BY <1>1, <2>2 DEF BalInv
<1>7. CASE \/ Dispatch
           \/ DispStopNet \/ DispNetStopped \/ DispJoin \/ DispJoined
           \/ DispSurpNext \/ DispSurpSize \/ DispSurpPush \/ DispSurpPop
           \/ DispLeave
  <2>1. /\ \A w \in Workers : pc'[w] = pc[w]
        /\ got' = got
    BY <1>2, <1>7, RunnerFacts DEF Dispatch, DispStart, DispTest, DispPop, DispRef,
       DispRequeue, DispScan, DispAddRef, DispAddTask, DispStopNet, DispNetStopped,
       DispJoin, DispJoined, DispSurpNext, DispSurpSize, DispSurpPush, DispSurpPop,
       DispLeave, Goto
  <2>2. WorkerRunFindsMessage'
    BY <2>1 DEF BalInv, WorkerRunFindsMessage
  <2>3. CASE DispJoin
    <3>1. ~Scheduling'
      BY <1>2, <2>3 DEF DispJoin, Goto, Scheduling
    <3> QED
      BY <1>1, <2>2, <3>1 DEF BalInv, StopInv
  <2>4. CASE ~DispJoin
    <3>1. wkExit' = wkExit
      BY <1>7, <2>4 DEF Dispatch, DispStart, DispTest, DispPop, DispRef,
         DispRequeue, DispScan, DispAddRef, DispAddTask, DispStopNet,
         DispNetStopped, DispJoined, DispSurpNext, DispSurpSize, DispSurpPush,
         DispSurpPop, DispLeave, workVars
    <3>2. Scheduling' => Scheduling
      BY <1>2, <1>7, <2>4 DEF Dispatch, DispStart, DispTest, DispPop, DispRef,
         DispRequeue, DispScan, DispAddRef, DispAddTask, DispStopNet,
         DispNetStopped, DispJoined, DispSurpNext, DispSurpSize, DispSurpPush,
         DispSurpPop, DispLeave, Goto, Scheduling
    <3> QED
      BY <1>1, <2>2, <3>1, <3>2 DEF BalInv, StopInv
  <2> QED
    BY <2>3, <2>4
<1> QED
  BY <1>3, <1>4, <1>5, <1>6, <1>7, RunnerFacts
     DEF Next, SenderSend, RunnerSend, Worker, Dispatcher, Shutdown

LEMMA InitBal == Init => SendInv /\ BalInv
<1> SUFFICES ASSUME Init PROVE SendInv /\ BalInv
  OBVIOUS
<1>1. SendInv
  <2>1. {x \in Threads : pending[x] # NoTask} = {}
    BY DEF Init
  <2> QED
    BY <2>1, FS_EmptySet DEF SendInv
<1>2. StopInv /\ WorkerRunFindsMessage
  BY RunnerFacts DEF Init, StopInv, WorkerRunFindsMessage
<1>3. ASSUME NEW t \in Tasks
      PROVE  BalAt(t)
  <2>1. /\ Named(quTask, t) = {} /\ Sent(t) = {} /\ Started(t) = {}
        /\ InHand(t) = 0 /\ Len(chan[t]) = 0
    BY ConstantsAssumption, RunnerFacts, SingletonFacts
       DEF Init, Named, Sent, Started, StartedBy, InHand
  <2>2. /\ Cardinality(Named(quTask, t)) = 0 /\ Cardinality(Sent(t)) = 0
        /\ Cardinality(Started(t)) = 0
    BY <2>1, FS_EmptySet
  <2>3. PartsAt(t)
    BY <1>1, InitIInv, PartsHold DEF PartsInv
  <2>4. Notifications(t) = 0
    BY <2>1, <2>2, <2>3 DEF PartsAt
  <2>5. pc[Disp] = "init"
    BY RunnerFacts DEF Init
  <2> QED
    BY <2>1, <2>4, <2>5 DEF BalAt, Scheduling, Joining
<1> QED
  BY <1>1, <1>2, <1>3 DEF BalInv

LEMMA Balanced == Spec => [](IInv /\ SendInv /\ BalInv)
<1>1. Init => IInv /\ SendInv /\ BalInv
  BY InitIInv, InitBal
<1>2. IInv /\ SendInv /\ BalInv /\ [Next]_vars => (IInv /\ SendInv /\ BalInv)'
  <2> SUFFICES ASSUME IInv, SendInv, BalInv, [Next]_vars
               PROVE  (IInv /\ SendInv /\ BalInv)'
    OBVIOUS
  <2>1. IInv' /\ SendInv'
    BY NextIInv, SendFinite
  <2>2. PartsInv /\ PartsInv'
    BY <2>1, PartsHold, PTL
  <2> QED
    BY <2>1, <2>2, NextBal
<1> QED
  BY <1>1, <1>2, PTL DEF Spec

\* Send queues message and name under two locks and a stopped worker loses a
\* name it has taken: a channel never has fewer notifications on their way than
\* messages, and until the stop it has exactly as many.
THEOREM MessagesCovered == Spec => []NotificationsCoverMessages
<1>1. IInv /\ SendInv /\ BalInv => NotificationsCoverMessages
  <2> SUFFICES ASSUME BalInv, NEW t \in Tasks
               PROVE  /\ Scheduling => Len(chan[t]) = Notifications(t)
                      /\ ~Scheduling /\ ~Stopping => Len(chan[t]) <= Notifications(t)
    BY DEF NotificationsCoverMessages, EveryMessageNotified, SurplusCoversChannels
  <2>1. ~Stopping => ~Joining /\ Reached(t)
    BY DEF Stopping, Joining, Reached
  <2> QED
    BY <2>1 DEF BalInv, BalAt
<1> QED
  BY <1>1, Balanced, PTL

\* The service name a worker takes always stands for a message that is there
\* when the run receives, whatever is sent, re-queued or stopped meanwhile.
THEOREM RunsFindMessages == Spec => []WorkerRunFindsMessage
<1>1. IInv /\ SendInv /\ BalInv => WorkerRunFindsMessage
  BY DEF BalInv
<1> QED
  BY <1>1, Balanced, PTL
=============================================================================
