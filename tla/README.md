# Humble in TLA+

Humble is a C++ network server whose services are Lua scripts.  Event threads
(network, timer) put messages into the *channel* of a service; a *dispatcher*
gives the services that have messages to a pool of *worker* threads, which run
the script.  This directory holds TLA+ models of the parts of that machinery
where threads meet, the TLC runs that check them on small instances, and
theorems about them checked by TLAPS.

File names below are relative to `src/`; the first mention of a class gives its
file.

## 1. Inventory

| Component | State | Operations | Talks to |
|---|---|---|---|
| `CRecvTask<T>` (HBase/RecvTask.h): a thread with a queue; base of `CWorker`, `CSender`, `CLinker`, `CLog`, `CMail` | `m_vcTask`, `m_lExit`, `m_lCanAdd`, `m_lCount`, `m_uiWait`, lock, condition | `addTask`, `Run`, `waitStart`, `Join` | any thread calls `addTask`; the owner calls `Join` |
| Scheduler: `CChan` (Chan.cpp), `CWorkerTask`, `CWorker` (Worker.h), `CWorkerDisp` (WorkerDisp.cpp), `CLuaTask` (Humble/LuaTask.cpp) | channels, queue of service names `m_quTask`, reference count of a service, status of a worker | `Send`, `Recv`, `Notify`, `Run`, `getFreeWorker`, `runSurpTask`, `Join` | event threads send; workers run services, which send |
| Network: `CNetBase`, `CNetWorker`, `CSender`, `CLinker`, `CLNetDisp` | sessions by descriptor, listeners, links with their monitor, queue of orders (a socket pair) | `addListener`, `delListener`, `addTcpLink`, `delTcpLink`, `addLinkEv`, `closeSock`, `closeByType`, `Send`, `broadCast`, accept/read/close events, `readyStop`, `Join` | sends to channels; sender and linker are queue threads; the script calls the orders from any worker |
| Timer: `CTick`, `CLTick` (HBase/Tick.cpp, Humble/LTick.cpp) | tick count, watch record per worker | `timeCB`, `monitorCB`, `monitorTrigger` | sends to channels; reads what workers write |
| Parser registry: `CNetParser`, `CRWLock` | two maps, two locks | `addParser`, `setParser`, `getParser`, `getParserNam` | scripts, network thread |
| Stream parsers (Tcp1, Tcp2, mqtt, WebSock, Httpd) | none, or the handshake flag of the session | `parsePack`, `createHead` | network thread |
| Events to scripts: `CLNetDisp` (Humble/LNetDisp.cpp), `CEvBuffer` | libevent's buffer of each connection | `onTcpRead`, `onTcpLinked`, `onTcpClose`, `onUdpRead` | calls the parser of the connection, then the script |
| `timewheel.lua` (Bin/script/public) | wheels, slots, registrations | `Add`, `Remove`, `onTime`, and callbacks that use them | one script |
| `CSnowFlake` | last time, sequence | `getID` | one script |
| `CCirQueue`, `CObjPool` | ring buffer; used map and free queue | `Push`, `Pop`; `Malloc`, `Free` | offered to users, not used by the program |
| Process (Humble/Humble.cpp) | signal condition | start, wait for a signal, join everything in order | all |
| Utilities, digests, Lua glue, vendored libraries, Tool | | | not modelled, see section 8 |

What is hard here, and what makes each part correct:

* **Queue thread.**  One lock, one condition variable, two flags and a counter,
  of which three are read outside the lock.  Correct means: no wakeup is lost,
  messages run one at a time in the order of the pushes, `Join` returns, and
  nothing runs afterwards.
* **Scheduler.**  A message and its notification are queued under two different
  locks; a reference count is read without any lock; the stop sequence runs
  while services still send.  Correct means: a service, which has one Lua state
  and no lock, is never run by two threads at once, handles its messages in
  order, gets each one, and is destroyed last.
* **Network.**  Descriptors are reused by the system at once while three threads
  hold them in tables of their own; a link can be deleted while it is being
  connected.  Correct means: data only goes to the session it was meant for, a
  session's close is reported once and after its opening, no socket is left
  without an owner.
* **Cutting streams.**  A segment can end anywhere, in a length field too, and
  hold many messages; a parser can fail after it has cut some.  Correct means:
  the scripts are given the peer's messages, in order, each once, and none that
  is complete is kept back.
* **Locks.**  `CRWLock` of the Windows build makes a reader/writer lock of two
  critical sections, which belong to threads; `getParserNam` returns with a lock.
  Correct means: exclusion, and that whoever wants the lock gets it.
* **Timing wheels.**  A timer far away moves from wheel to wheel, and its
  callback adds and removes others while a slot is being walked.  Correct means:
  it is called once, at its tick, and not at all once it is removed.
* **Watchdog.**  It reads two words that a worker writes one after the other.
  Correct means: an endless loop is reported, by name, and nothing else is.
* **Identifiers, containers.**  A sequence that wraps, a clock that goes back,
  places that are reused, objects given back twice.
* **Process.**  Threads start and end in an order their uses depend on; a signal
  is handled in any thread, also in one that holds what the handler locks.
  Correct means: a signal ends the process.

`PROJECT.json` lists the hazards one by one, each with its line and the
properties that cover it, or why none does.

## 2. Plan

What exists, in order of importance:

1. `SerialExecutor`, `RecvTask`, `RecvTask_proofs`: the queue thread.
2. `ActorService`, `WorkerDisp`, `WorkerDisp_proofs`: the scheduler, on top of
   what `SerialExecutor` says of a queue thread.
3. `NetWorker`, `NetWorker_proofs`: the event thread, the sender and the linker,
   with descriptors that are reused.
4. `Parsers`, `TcpRead`, `TcpPeers`, `MCTcpRead`, `TcpRead_proofs`: the parsers as
   operators on sequences, the loop that cuts a connection's stream with them, and
   what peers send.
5. `Shutdown`: the threads' start and end, signals and their handler.
6. `ReadersWriters`, `RWLock`; `NetParser`, `NetParser_proofs`: the Windows lock
   as an implementation of readers/writers, and the registry.
7. `TimeWheel`, `MCTimeWheel`, `TimeWheel_proofs`: the timing wheels.
   `Induction` is used by these proofs and by those of `TcpRead`.
8. `Watchdog`: the timer thread's look at the workers.
9. `SnowFlake`; `BoundedFifo`, `CirQueue`, `ObjPool`.
10. `MCLibrary`: the parts that share no state, checked in one run;
    `Library_proofs`: the theorems about them.

Not written: an abstract life of a connection (opened, data, closed, once and in
that order) that `NetWorker` and `TcpRead` together implement, with UDP sockets.

Every safety property of the runs is proved; what is left to TLC is liveness
(section 7).

## 3. Modules

### SerialExecutor
What a `CRecvTask` promises, in five variables: `backlog`, `taken`, `running`,
`phase`, `ran`.  Messages are taken in order and run one at a time; when it is
shut the one taken message may be given up, the backlog is drained, nothing runs
after that.  `SafeSpec` has no fairness; `Spec` adds that it never sits on work.

### RecvTask
`CRecvTask` itself.  A variable per field (`lExit` is `m_lExit`, ...), a program
counter for the consumer and one for the owner, and for each producer the
argument of a call between the test of `m_lCanAdd` and the push.  An action is
one atomic access or one critical section.  The lock is a variable because `Run`
keeps it over the whole drain, calls of `runTask` included.  The condition
variable is the set of its waiters, here at most the consumer; POSIX lets a wait
return without a signal (`SpuriousWake`).  A message has no content.

| Code | Actions |
|---|---|
| `addTask` | `AddTaskTest`, `AddTaskPush` (with `Signal`) |
| `Run`, loop | `RunStart`, `RunTest`, `RunExec`, `RunPop`, `RunSleep`, `RunWake` |
| `Run`, drain | `RunDrainLock`, `RunDrainPop`, `RunDrainExec`, `RunLeave`, `RunUnlock` |
| `waitStart`, `Join` | `MainWaitStart`, `JoinClose`, `JoinStop`, `JoinBroadcast`, `JoinCount` |

### ActorService
What the scheduler promises the author of a service: an inbox per service,
messages begun in the order they were sent, one at a time, none after the
services are destroyed.

### WorkerDisp
The scheduler with everything that sends to it.  Runners are the workers
`1..ThreadNum` and the dispatcher, `0`, which runs services itself at the end.
`pending[x]` is the service whose channel thread `x` has pushed to and whose name
it has not yet queued: the gap between the two halves of `CChan::Send`.

| Code | Actions |
|---|---|
| `CChan::Send` | `SendPush` (by `SenderSend`, `RunnerSend`), `Notify` |
| `runTask` of a service | `RunRecv` (`CChan::Recv`), sends, `RunEnd` |
| `CWorker` | `WorkerTest`, `WorkerTake`, `WorkerSleep`, `WorkerWake`, `WorkerSubRef`, `WorkerFree`, `WorkerDrain`, `WorkerLeave` |
| `CWorkerDisp::Run`, loop | `DispStart`, `DispTest`, `DispPop`, `DispRef`, `DispRequeue`, `DispScan`, `DispAddRef`, `DispAddTask` |
| its stop | `DispStopNet`, `DispNetStopped`, `DispJoin`, `DispJoined`, `DispSurpNext`, `DispSurpSize`, `DispSurpPush`, `DispSurpPop`, `DispLeave` |
| network thread, `ORDER_RSTOP` | `NetReadyStop` |
| main thread | `Join` |

A worker's queue is used through `SerialExecutor`: accepting a task, taking it,
giving it up when stopped and draining are one action each.  That is justified by
the refinement proved for `RecvTask`, and by the fact that only the dispatcher
both feeds and stops a worker, so a push never races with a stop.

Abstractions.  A service receives at most one message in a run, as the scripts
of the repository do, and may send any number.  `initTask` and `destroyTask` of all services are the
program points `init` and `destroy` of the dispatcher.  The name of a service is
always found in `m_mapTask` (names only come from channels of registered
services).  The watchdog's fields are not read by any of this.  The set `Quiet`
has the threads the main thread joins before the dispatcher
(Humble/Humble.cpp:202-212); `Net` is the one it joins after.

### NetWorker
Four kinds of threads.  The event thread carries out callbacks one at a time;
a callback that other threads can see the middle of is several actions, with the
rest of it in `batch` (orders read and not carried out), `doomed` (sessions that
the handler still has to delete) and `closing` (its `onClose` has returned, its
descriptor is not closed yet).  The sender has a queue and a table of its own;
between the look into the table (`SenderFind`) and a `send` (`SenderWrite`)
anything can happen, and a write is as many calls of `send` as it takes.  The
linker connects one link at a time.  Scripts call from any thread.

`open` is the operating system: which connection a descriptor is now.  A closed
descriptor can be given out again in the next step, by `accept` or `socket`.
Connections are numbered in the order they are made, which no thread can see;
`born` and `written` are history.

| Code | Actions |
|---|---|
| calls of scripts | `addListener`, `delListener`, `addTcpLink`, `delTcpLink`, `closeSock`, `closeByType`, `Send` (one target or a broadcast) |
| `acceptCB`, `tcpEventCB`, `monitorCB` | `Accept`, `PeerClosed`, `Monitor` |
| `orderReadCB`, `onOrder` | `OrderRead`, then one `Exec...` for each order |
| `delSession` | `OnClose`, `FreeSession` |
| `CSender::runTask` | `SenderTake`, `SenderFind`, `SenderWrite` |
| `CLinker::runTask` | `LinkerSocket`, `LinkerConnected`, `LinkerRefused` |
| stop | `StopReady` (dispatcher), `StopSender`, `StopLoop`, `StopJoined` (main thread), `LoopEnd` |

Abstractions.  An order is written and read as a whole, and the queue of orders
has no limit.  The sender and the linker are queue threads, used as
`SerialExecutor` says.  The scripts are those of `Bin/script/start.lua`: `onStart`
adds one listener, `onStop` closes its type and then deletes it.  Sockets without
a session (UDP) and what is read from a connection are left out.  The five
seconds of the monitor are any time.

### Parsers, TcpRead
`Parsers` has one operator per parser: from the bytes that are there to what
`parsePack` returns (wait, fail, how much is used) and what it leaves in
`pBinary`.  A byte is a number below `Base`, which is 8 in the runs and 256 in
the code, so that the marks 126 and 127 of a longer length field are `Half - 2`
and `Half - 1`; what the code looks for as text (the end of a head, a head
line) is one element below zero.  The sizes of 126 and of 65536 bytes, at which
the heads grow, are 6 and 64 there.  A masked byte is the byte plus `Base`.  The
lengths of mqtt carry half a byte each, as in the code.

`TcpRead` is `onTcpRead`: `Arrive` is libevent with any number of bytes, `ReadOne`
one round of the loop, `ReadEnds` its end with the drain, `ReadFails` the return
that does not drain, `ExecClose` the order the parser has posted.  What the
peer sends (`Wire`) is written down separately, with the encoders of the
repository for the heads, and the properties compare the two.  `Ordinary` says
which peers they are true of.  `TcpPeers` has
the streams, `MCTcpRead` puts both together and has TLC evaluate that they are ordinary.

### RWLock, ReadersWriters
`CRWLock` of the Windows build.  `cs` are the two critical sections with owner
and depth; `Enter` lets the owner in again, and `Leave` lowers the depth whoever
calls it, which is what the last reader relies on.  An action is one system call
or one access to a shared word.  `ReadersWriters` is the lock it should be.

### NetParser
The registry on the lock of the POSIX build, with `rd` the read locks each thread
holds and `wr` the writer.  `NamFound` is the return of `getParserNam` that keeps
its lock; a thread makes `MaxLeft` such lookups at most.  `Kept(t)` is that
thread t has a lock of the types beyond those of the call it is in.  `Start` is `initParser`.
Windows, where the lock is recursive, is left out here.

### TimeWheel
`timewheel.lua` with `Counts` slots per wheel instead of 60, 60, 24, 30 and 12.
The scripts are one Lua state, so the only interleaving is that of the callbacks
with the loops of `onTime` and `cashData`: these are walked element by element,
and each call has one of the effects `Effects`.  `table.remove` past the end of a
slot fails, which ends `onTime` in the middle (`Removable`).  `Uses` says what
the scripts do beside adding: remove a waiting timer, remove one that was
called, remove in a callback, register again.  `CompTime` is the four functions
`getMinCompTime` to `getMonCompTime`, which differ in how many wheels are below:
the slots to go (`SlotsUntil`) less what those have counted (`Elapsed`).

### SnowFlake
Generators (objects, in one or more processes) on one clock, which `Clock` moves
forward and back.  `Construct` is the constructor, which reads the clock; `getID`
is one action but for its wait (`GetIDFull`, `TilNextMillis`), and `Abort` its
assertion that the clock has not gone back.  The numbers of worker and centre are constants,
different for two generators: nothing in the class makes them so, and both
setters must be called before the first identifier (`m_uiCenterid` is not initialised).

### Watchdog
Workers and the timer thread, an action for each access to the words they
share.  `looks` is history: how often the watchdog has read a worker's version
since the run was counted.

### Shutdown
`runSV` with one thread per service, of which `status` says how far it is, and
the workers, which exist before `runSV` and which the dispatcher joins
(`WorkerLeaves`).  A handler stops the thread it runs in.  It takes two mutexes,
neither of them recursive, and both are variables that say who holds them: `g_objExitMu`, which
the main thread has from `LockExit` to its wait (`Wait`) and again from `Woken`
to `UnlockExit`, and `m_quLock` of `CLog`, which every thread takes to write a line
(`TakesLog`, `GivesLog`; the main thread in `Log`, the handler in `HandlerLogs`),
and the log's own thread to take a line out and for its whole drain (`LogDrains`,
`LogEnds`).  A thread that is to log waits for the lock where it is, so a service takes
no other step while it holds it.  `CLog` accepts no line once it is being joined
(`Accepts`).  That each thread ends after its Join is what the other modules show
of it.  A second signal does not interrupt a handler, but it can start one in
another thread.

### CirQueue, BoundedFifo, ObjPool
The two containers, one call per action.  `BoundedFifo` is the queue the ring
should be; `Queue` reads the ring from `m_iNext` on.
Their formulas have names of their own (`QueueSpec`, `PoolSpec`; in `SnowFlake`
`IdsSpec`), so that `MCLibrary` can extend them all.

### MCLibrary
No part of the code: the parts that share no state with one another or
with the modules above (identifiers, ring, pool, Windows lock, watchdog, process,
connection) side by side; eight, as there are two of the lock, with threads
that read or write (`Lock`) and with a single reader that writes as well (`Alone`).  `part` says which one the behaviour is about, `In(p)`
that the others stay at their start.  A state of a part is therefore counted once,
not multiplied by the others, and the fairness of each is that of its module.

## 4. Runs

| Run | Instance | States | Shows |
|---|---|---|---|
| `recvtask` | 2 producers, 3 messages | 7,940 | the invariants, the two liveness properties and the refinement of `SerialExecutor` with its fairness |
| `recvtask_join` | 1 producer, 1 message | violation | finding 1 below |
| `workerdisp` | 2 services, 2 workers, 2 event threads, 3 messages | 313,636 | safety and liveness of the scheduler and the refinement of `ActorService` |
| `workerdisp_echo` | 1 service, 1 worker, 1 message | violation | finding 2 |
| `workerdisp_stop` | 1 service, 1 worker, 1 message | violation | finding 3 |
| `net_sessions` | 2 descriptors, 2 connections, any 2 calls of the interface, 2 types | 6,408,722 | the sender's table and late data, owners of descriptors, links, `onStop` |
| `net_live`, `NetWorker_live.cfg` | 1 descriptor, 2 connections, any 2 calls but those for links | 290,139 | liveness |
| `net_reuse` | 1 descriptor, 2 connections, 1 `Send` | violation | finding 4 |
| `netparser` | the event thread and 2 others, 2 parsers, 2 types of which 1 is set and both are asked for | 50,273 | who writes the types, what each call gives back, when `setParser` returns |
| `netparser_stuck` | the event thread and 1 other, 1 parser | violation | finding 5 |
| `timewheel` | wheels of 3, 2 and 2 slots, 2 timers of any delay, 16 ticks | 2.1 million | timers are called once, on time; removal |
| `library` | see below | 251,369 | the eight parts of `MCLibrary` |

In `library`: two generators of identifiers with sequences of 2 and 3
milliseconds; a ring of 4 places with 3 values; 4 objects, 2 made in advance; 3
readers and 2 writers, and 1 reader that is also one of 5 writers; 2 workers, 2
services, 2 runs each; the threads of the
process without a mail server, 1 worker and 2 signals (51,143 states); and connections of each protocol
with streams of 1 to 3 messages (`MCStreams` of `TcpPeers`), cut at any bytes, a
byte having 8 values.

`TypeOK` of `NetWorker`, `TimeWheel`, `TcpRead` and the parts of `MCLibrary` says what
values their variables have; no run lists it (those of `NetWorker` and `TcpRead` are proved).

Bounds of the network.  `MaxConn` bounds the connections made, `MaxCalls` the
calls of scripts, `MaxId` the listeners and links, `MaxTries` the queue the
monitor adds to.  Two connections are a reuse of one descriptor, or two targets
of a broadcast on two descriptors.  Two links on two descriptors, with a retry
queued behind a connect in progress, give a link two sessions, and two links
one descriptor in turn.  Two calls are a pair that race, or one that is followed by its undoing.

Bounds of the queue thread and the scheduler.  The only bound is the number of messages, and no guard
is added for it: the set `Messages` is finite and each message is sent once.  Three are enough to have one being handled,
one being handed over and one being sent at the same time, and, for
`RecvTask`, one running, one popped and one queued.  Two services and two
workers are the least that lets a busy service compete with a free one.

Bounds of the others.  Timing wheels of 3, 2 and 2 slots come round once in 12
ticks; with 16 ticks a timer of every delay up to the whole range is added with the wheels in
any position, also late enough to pass their end.  Two timers meet in a slot on
each wheel, one of them behind a removed one.  Identifiers: a
sequence of two values wraps with the third identifier of a millisecond, three
milliseconds let the clock go on and back.  Streams have at most three messages:
one cut, one partly there, one behind it; their sizes are on both sides of each
place where a length field grows.  Readers: three, so that the last one
to leave is neither the first that entered nor alone; two writers.  Watchdog: two
runs of each worker, so that a run follows another unseen.  Process: two signals,
so that the second meets what the first has left, wherever that one came; the mail server
only adds a thread between two others, and one worker is enough to be inside the log when the
dispatcher joins it (with a mail server too, `Shutdown` alone has 77,916 states
and the same results).  Parsers: two types of which one
is asked for and never set; two lookups that keep their lock.  The ring has four places and no bound on the
calls; the pool four addresses, two more than it starts with.

`CHECK_DEADLOCK FALSE` where the system stops or may be stuck: in the runs of
the queue thread, the scheduler and the network, which end, and in those of the
parser registry, where everyone may wait for a lock that no one gives back.  In `library` the process
ends and a connection falls silent by a step of their own, `MayStop`; in the other
parts a deadlock would be found.

Fairness.  Each thread that can go on does so in the end (`WF` of its next
action), the network thread answers the stop order, and a run of a service
ends: the program has no other way to make progress either.  In the network, the event
thread carries out what it has read, the sender works off its queue, and a write
ends: `H_SockWrite` gives up after three seconds in which the peer takes nothing,
on the sockets of accepted connections, which libevent makes non-blocking (the run
has no links: their sockets block).  Nothing makes a
thread send, a peer connect or close, a link succeed, the main thread call `Join`, or a wait return without a signal.  The polling loops
(`waitStart`, `DispTest`, `DispScan`, `JoinBroadcast`/`JoinCount`) are steps
that can repeat.

In `RWLock` a thread inside a call goes on and one that has the lock gives it
back; the waiters for a critical section are not served in order, and nothing
is assumed of them beyond what any scheduler gives: one that can enter and
goes on being able to does.  In `NetParser` the thread that waits for the
write lock gets it if it is free again and again (`SF`), since readers that
overlap can keep a writer out under the default preference of
`pthread_rwlock_t`.  In `Watchdog` only the timer thread is fair: the property
is about a worker that never goes on.  In `Shutdown` each thread goes on unless
it stands still under a handler or waits for a lock.  `Onward` are all steps that
lead on: creating, joining, ending, the handlers.  There are finitely many of them in
a behaviour, so the condition that one is taken if some are possible again and
again (`SF_vars(Onward)`) is as much as one for each thread, and strong since a
thread that needs the log's lock finds it taken now and then: with several
threads at a mutex each of them gets it in the end.  A thread inside the log leaves it
(`WF_vars(LogGiven)`).  Nobody has to log or to send a signal.

Properties.

* `NoLostWakeup`, `JoinedIsQuiet`, `JoinReturns` (queue thread): section 1.
* `OneRunnerPerTask`: at most one thread inside `runTask` of a service.
* `OneTaskPerWorker`: a worker never has a second task waiting.
* `NotificationsCoverMessages`: until the workers are joined, a channel
  holds exactly as many messages as there are notifications for it, wherever
  they are on their way (`EveryMessageNotified`); once `runSurpTask` has pushed
  its names there are at least as many, although joining a worker can lose one
  (`SurplusCoversChannels`).
* `WorkerRunFindsMessage`: a worker's run never receives `NULL`.
* `DestroyAfterLastRun`: the workers are gone when the dispatcher runs or
  destroys services.
* `MessagesAreReceived`, `JoinReturns` (scheduler): liveness.
* `SenderFollowsSessions`: the sender's table, after what is in its queue, is the
  event thread's table of sessions.
* `LateDataIsDropped`: what was sent to a session that was closed already
  is written to no one, even if its descriptor is another's by then.
* `SocketsAreOwned`: each open descriptor is held by exactly one of session,
  linker, and order from the linker, or is lost; no closed one is held.  The lost
  ones are those whose link was deleted during the connect
  (NetWorker.cpp:222 has no `else`): they stay open until the process ends.
* `LinksKnowTheirSession`: a link's descriptor is that of its own live session.
* `StopClosesClients`: after `onStop`, and the orders it gave, no client is left.
* `JoinReturns`, `ClosedIsForgotten` (network): liveness.
* `TypesAreGuarded`: who writes the map of types is alone with it;
  `LocksAreGivenBack`: a call gives back what it took, except `getParserNam`, once
  a type that is asked for has a parser; `LeftLockFreezesTypes`: from such a call on
  the lock stays, and no `setParser`, of that thread or another, changes the map, wherever
  all of them are; `SetParserReturnsUnlessRead`: `setParser` returns if no lock was left
  behind and readers do not overlap.
* `FiresOnTime`, `RemovedIsSilent`: section 1; `RegistrationIsExact`: between
  ticks, a waiting timer stands where its record says and nowhere else, which
  is what `Remove` relies on.
* `DeliveredIsPrefix`: the scripts have been given the first messages of the
  peer, as it sent them, wherever the segments end; `NothingHeldBack`: and
  when `onTcpRead` has returned, all that are complete.
* `LockIsReadersWriters`, `LockLetsWriterIn`: the Windows lock excludes as it
  should, and a writer that has closed the door to readers gets in.
* `Unique`: no identifier twice, also by two generators.
* `WatchdogReports`, `WatchdogHasSeen`: a stuck service is named; a run
  that is counted is only suspected when the look before was in the same run.
* `ProcessKeepsOrder`: the dispatcher and the timer thread start after the scripts
  of the network thread have registered the services, a map without a lock, and
  a thread is stopped after those that use it have ended, the workers before the
  dispatcher; `ProcessStops`: a signal that comes while the
  main thread waits ends the process, unless another follows, if it comes to a
  thread that is not inside the log and the handlers of earlier ones have
  returned, wherever these came.  What the conditions leave out is not true of the
  code: section 5 has a configuration for each.
* `ImplementsBoundedFifo`, `OneOwner`: the containers.

Each has a mutant, next to the definition it replaces, that breaks it.

## 5. Findings

1. `CRecvTask::Join` says it waits for the queue to complete, and a message that
   has been popped when `STOP` is set is never run (RecvTask.h:97).
2. `runSurpTask` queues a service once per message in its channel, on top of the
   names already queued; the surplus runs receive `NULL`, on which
   `echo.lua` asserts (WorkerDisp.cpp:121).  The worker pool never does this:
   `WorkerRunFindsMessage` holds in the same model.
3. "Stop the network, ..., execute the remaining tasks": the network thread goes
   on sending until it is joined, after the dispatcher has left, and what it
   sends then is never handled (WorkerDisp.cpp:225).
4. What is sent to a session can be written to the peer of another
   (Sender.cpp:45): the sender finds the session in its table, the event thread
   closes the descriptor and accepts the next connection on it, the sender writes.
   The number of the session protects against data that comes late, which is
   `LateDataIsDropped`, but not against this.
5. `getParserNam` keeps its read lock when it finds the name (NetParser.cpp:68);
   `start.lua` calls it for each message, and every later `setParser` waits for ever.

The runs of the five, in this order, are `recvtask_join` (`RecvTask_join.cfg`,
`JoinCompletesQueue`), `workerdisp_echo` (`WorkerDisp_echo.cfg`,
`EveryRunFindsMessage`), `workerdisp_stop` (`WorkerDisp_stop.cfg`,
`NothingLeftBehind`), `net_reuse` (`NetWorker_reuse.cfg`, `DataReachesItsPeer`)
and `netparser_stuck` (`NetParser_stuck.cfg`, `SetParserReturns`).

More disagreements of the code with what it says of itself are shown by
configurations that are kept beside the runs: each names one property, and TLC
finds it violated.

| Configuration, module | Property | What the counterexample shows |
|---|---|---|
| `TimeWheel_stale`, MCTimeWheel | `FiresOnTime` | a timer that has been called keeps its registration, and removing it removes another (timewheel.lua:450) |
| `TimeWheel_callback`, MCTimeWheel | `FiresOnTime` | a callback that removes an earlier timer of its slot is called twice (:451) |
| `TimeWheel_round`, MCTimeWheel | `RemovedIsSilent` | a timer of one whole round, added in a callback, goes into the slot that is being emptied and cannot be removed (:297) |
| `TimeWheel_again`, MCTimeWheel | `FiresOnTime` | a timer that moved down a wheel and is registered again is early: its `TimeOut` was cut (:372) |
| `TcpRead_refused`, MCTcpRead | `DeliveredIsPrefix` | after a refused frame the ones before it are delivered again, garbled, if bytes come before the close (LNetDisp.cpp:154) |
| `TcpRead_short`, MCTcpRead | `NothingHeldBack` | a two-byte mqtt packet waits for the next one (mqtt.cpp:40) |
| `TcpRead_pipelined`, MCTcpRead | `DeliveredIsPrefix` | the content length of a request is looked for beyond its head (Httpd.cpp:38) |
| `TcpRead_chunks`, MCTcpRead | `NothingHeldBack` | a chunked message without content is never complete (Httpd.cpp:61) |
| `TcpRead_link`, MCTcpRead | `NothingHeldBack` | a websock link refuses the frames of a server, which are not masked (WebSock.cpp:170) |
| `RWLock_mixed`, RWLock | `Exclusion` | the first reader of a Windows `CRWLock` who then writes gets in while another reads: a thread that does both must be the only reader (RWLock.cpp:52) |
| `Watchdog_alarm`, Watchdog | `AlarmIsJustified` | the watchdog warns of a service that has not begun (Tick.cpp:65) |
| `Shutdown_early`, Shutdown | `SignalStops` | a signal before the main thread waits is lost, although its handler has returned (Humble.cpp:198) |
| `Shutdown_logging`, Shutdown | `WaitingSignalStops` | the only signal, while the main thread waits, interrupts a thread inside the log: the handler waits for a mutex of its own thread, and the process never stops (Humble.cpp:97) |
| `Shutdown_again`, Shutdown | `WokenStops` | a second signal that interrupts the main thread while it has the mutex waits for its own thread (Humble.cpp:99) |

The runs of these modules leave out just these cases: `Uses` and `CbDelays` in
`timewheel`, the streams of `MCStreams`, a second reader beside one that
writes, signals that come too early, too late or into the log.  The theorems
have the same hypotheses.

Seen while modelling, and not findings because nothing in the repository says
otherwise: sockets are lost as described above; the monitor queues a link
again while it is still being connected, which gives it two sessions; a
broadcast has at most 65,535 targets (Sender.cpp:202); the Join of the sender can
give up an `AddSock` or a `DelSock`, after which the rest of its queue is
worked off with a table that is wrong; a spurious wakeup of the main thread stops
the process; overlapping readers can keep a `setParser` waiting; the second read
of a name by the watchdog (Tick.cpp:81) can give `NULL`; the close of a connection without a parser is
not reported (LNetDisp.cpp:103); `websock.Close`, `Ping` and `Pong` of websock.lua
take the length of a nil value; a zero byte in a chunked body ends the search
for its end.

## 6. Proofs

The proof modules have the same shape: an inductive invariant, the lemma that the
initial states satisfy it, one that each step keeps it (in the larger modules a
lemma per action), then the theorems.  `IInv`, `InitIInv` and `NextIInv` are the
usual names; `NetWorker_proofs` has `Initially` and `NextKeeps`, `TcpRead_proofs`
`Inductive`, and `Library_proofs`, which is about the parts of `MCLibrary` but the connection, an invariant for each.

| Module | Theorems | Properties of runs they state |
|---|---|---|
| RecvTask_proofs | `TypeCorrect`, `NeverLosesAWakeup`, `QuietAfterJoin`, `RefinesSerialExecutor` | `TypeOK`, `NoLostWakeup`, `JoinedIsQuiet`; the safety part of `ImplementsSerialExecutor` |
| WorkerDisp_proofs | `TypeCorrect`, `MutualExclusion`, `NeverQueuesBehindARun`, `WorkersLeaveFirst`, `RefinesActors`, `MessagesCovered`, `RunsFindMessages` | `TypeOK`, `OneRunnerPerTask`, `OneTaskPerWorker`, `DestroyAfterLastRun`, `ImplementsActors`, `NotificationsCoverMessages`, `WorkerRunFindsMessage` |
| NetWorker_proofs | `TypeCorrect`, `SenderFollows`, `LateDataDropped`, `SocketsOwned`, `LinksKnow`, `StopCloses` | `SenderFollowsSessions`, `LateDataIsDropped`, `SocketsAreOwned`, `LinksKnowTheirSession`, `StopClosesClients` |
| NetParser_proofs | `TypeCorrect`, `Guarded`, `Freezes`, `GivesBack` | `TypeOK`, `TypesAreGuarded`, `LeftLockFreezesTypes`, `LocksAreGivenBack` |
| TcpRead_proofs | `Placed`, `MessagesAsSent`, `NoneHeldBack` | `DeliveredIsPrefix`, `NothingHeldBack` |
| TimeWheel_proofs | `Inductive`, `CalledWhenDue`, `RemovedStaysSilent`, `RegistrationHolds` | `FiresOnTime`, `RemovedIsSilent`, `RegistrationIsExact` |
| Library_proofs | `LockCorrect`, `SuspectsSeenTwice`, `ThreadsKeepOrder`; `IdsTypeCorrect`, `NeverTwice`, `AlwaysGrows`; `QueueTypeCorrect`, `QueueImplements`, `OwnedOnce`, `CountsUsed` | `LockIsReadersWriters`, `WatchdogHasSeen`, `ProcessKeepsOrder`, `Unique`, `ImplementsBoundedFifo`, `OneOwner` |

`Induction` has three lemmas and no theorem about the code.  The library's
theorems on induction and recursion have an operator as a parameter and cannot
be instantiated here.  `Smallest` writes an induction as the absence of a
least counterexample, from the well-foundedness of the naturals; `UpTo` is the
induction up to n, with a set; `Recursion` builds the function whose every value follows
from the one before it, which is what a recursive function of the models is.

**RecvTask_proofs.**  Assumption: `NoMsg` is not a message.  `IInv` adds to
`TypeOK`: `SleepInv`, the consumer blocked in the wait has `uiWait = 1` and an
empty queue, which is what makes the conditional signal enough; `CountInv`,
`lCount` is 1 exactly between `RunStart` and `RunLeave`, and the owner has seen
it non-zero before it joins, which gives `JoinedIsQuiet`; `MsgInv`, where `pMsg`
can be a message.  `NoLostWakeup` is a part of it and not inductive alone: it
does not say that `uiWait` counts the sleeper.  `RefinesSerialExecutor` maps
every step to a step of `SerialExecutor` or to a stutter.

**WorkerDisp_proofs.**  Assumption: `ConstantsAssumption`.  `OneRunnerPerTask` is
not inductive: the dispatcher has read the reference count some steps before the
worker starts.  `RefInv` is the strengthening: a service that is in a worker's queue or taken by
it has count 1 and is with no other worker; the service the dispatcher is about
to reference has count 0, and after `DispAddRef` count 1 with no worker having it.  `QueueInv` says a worker that is free has nothing and a busy
one at most one task; `PcInv` where `task` and `got` can be set; `JoinInv` which
workers have left.  The theorems are for any set of services, any number of
workers, any senders and messages.  `RefinesActors` is the refinement of
`ActorService`, with `current[t]` read off the runner inside `runTask` of `t`,
unique by `OneRunnerPerTask`.

The balance of messages and notifications is a second invariant, on top of
`IInv`.  `Notifications(t)` counts positions of a name in four places; `PartsAt`
splits it into `Named`, `Sent`, `InHand` and `Started`, and the lemmas named
`...Counts` say what each kind of step adds to each.  `SendInv` makes the
cardinalities numbers: only finitely many threads are inside `Send`, however
many senders there are.  `BalAt` is the balance in each phase: messages equal
notifications while services are scheduled; a worker that is joined may give its
notification up, so there are no fewer messages; and once runSurpTask is done
with a service (`Reached`) no more, which is inductive only with the number of
names it still has to push (`surp`).  `RunsFindMessages` needs it: the worker
that runs is itself a notification, so the channel is not empty.

**NetWorker_proofs.**  Assumption: `ConstantsAssumption`.  Only
`LinksKnowTheirSession` and `SenderFollowsSessions` are kept by every step with
little help; the others rest on what is under way.  `OrdersInv` is about
`Pending`, the orders that were read followed by those that were not: an
`ADDLINKEV` names a descriptor and no two name the same (`Distinct`).  `ConnInv`:
connections have different numbers, sessions are of different connections, and a
descriptor without a session has a connection that never had one, so that there
are never more sessions than connections (`MoreConnections`, a pigeonhole).  `OwnInv`
is the partition behind `SocketsAreOwned`: an open descriptor has a session, or
is with the linker, or in one order, or is lost, and only one of these.
`DoomInv` says that what a loop of closes has still to close are sessions.  `LateInv`
relates the sender's queue to its table: a message for a session that was down
stands behind the message that says so, where `Believes(k, s, n)` is that the
sender, after the first k - 1 messages, takes descriptor s for session n.  `StopInv`: once
onStop has run, the order to close the clients is pending or every client that
is left is about to be closed.

**NetParser_proofs.**  Assumption: `NetParserAssumption`.  `IInv` adds to
`TypeOK` which read lock a thread at each point holds (`NamesHeld`,
`TypesHeld`: counts, since `getParserNam` leaves locks behind) and that a writer
is at the point where it writes (`WriterWrites`).  `TypesAreGuarded` follows from
the last and from the guard of the write lock.  `Freezes` is the action property:
`KeptStays` says that a lock once kept is kept by every step of every thread, its holder's
calls included; with it no thread is at the point where `setParser` writes, so
that no step changes the map.  `GivesBack`
adds `NothingLeft`: as long as no type that is asked for by name has a parser, a thread holds
exactly the lock of the call it is in, and a type that has a parser keeps one.

**TcpRead_proofs.**  Assumption: `BaseAssumption`, a byte has an even number of
values, more than six.  The theorems have a hypothesis, that every peer in `Streams`
is `Ordinary`: the size of a message is one that its length field holds (of mqtt, whose
length takes as many bytes as it needs, any), a packet of mqtt and a chunked
body have content, a client's frames have their mask, and a client of http
waits for its answer.  Each of the configurations `TcpRead_refused`, `_short`, `_pipelined`,
`_chunks` and `_link` of section 5 does without one of these, and in each TLC finds a
property violated.  The run `library` has an instance: `MCStreamsAssumption`.  A
stream has fewer messages than a byte has values, because a message's number is
its content in the model.

First what a length field is: `RoundTrip`, that the number written into n bytes
is read back if it fits; `MqttLengthIs` and `MqttDigits` are the same for half a byte
at a time, in as many bytes as it takes.  Then a
lemma for each parser and form of message (`Tcp1Cuts`, `Tcp2Cuts`, `MqttCuts`, `WebSockCuts`,
`PlainCuts`, `SizedCuts`, `ChunkedCuts`).  Each says: on the bytes there are, of which as many as
a message has agree with it, the parser waits if they are fewer, and otherwise uses exactly the message and leaves its
content.  More bytes may follow but in http, whose parser looks beyond the head.  `MessageCuts`
puts them together.  `Wire`, the bytes of the first n messages, and `Expected`, what the
scripts are to be told, are recursive functions; `WireIs` and `ExpectedIs` use
`Recursion`, `WireStarts` is that the shorter of two is the start of the longer.

`Inductive` says where in the stream the connection is.  `InPlace`: what is in the
buffer and not parsed, and what is on its way, are the bytes of the stream at their
places.  `Told(d)`: the scripts have been told the first d messages.
`Reading(d)`: what is parsed ends where message d does, or nothing is before
the handshake.  `Waiting(d)`: when onTcpRead has returned, message d + 1 is not
complete.  The properties are not inductive: they do not say what
is in the buffer.  What is parsed already is left out of `InPlace`, since the
parser of websock has taken the mask off it.  A handshake that is refused stays in
the buffer, and nothing is told after it.  The parser named "default" hands on
whatever there is, so that where messages end is lost; of it `Told` says that
the pieces, put together, are the bytes that have come.

**TimeWheel_proofs.**  Assumption: `TimeWheelAssumption`, two wheels or more.
The theorems have a hypothesis, `OrdinaryUse`: wheels of more than one slot, as
the code's are; delays of at most the whole range, which `Add` asserts; removal
between ticks, of timers that wait; and no callback that asks for exactly the range of a wheel.
The last two are what the configurations `TimeWheel_stale`, `_callback`, `_again` and
`_round` of section 5 do without: in each TLC finds a timer early, called twice,
lost, or called after its removal.  The run `timewheel` is an instance of `OrdinaryUse`.

The invariant is `Good(mgr, Tick, loop.wheel, 0, {})` with `LoopInv`, which says
that the index of a loop is the length of the slot walked.
`Turning`: no wheel stands past its last slot, nor on it unless it is the one being
walked, and the wheels below that one stand at 0.  `Registered`: what stands in a slot waits, and its record names
that slot and index.  `OnSchedule`: a timer that waits stands where its
record says, and is due when its slot is (`Ahead`) and what is left of its delay
then (`Rest`) has passed; the rest is less than two slots of the wheel.  `History`: a timer was called never, or once when due.
In the middle of a step of a loop two things are not as they should be, and the
invariant has parameters for them: element g of the slot walked, which
is a ghost, dealt with and not yet taken out, and a set X of timers being dealt with
that stand nowhere.  `AddNewKeeps`, `PlaceKeeps`, `CallKeeps` take a timer out of X,
`DropKeeps` takes the ghost out; `EffectsKeep` is what a callback does in between.

The arithmetic comes first.  `Param`, how long a slot of a wheel lasts, and
`Elapsed`, what the wheels below have counted, are recursive functions, which
`Recursion` builds for any number of wheels.
`ElapsedBound`, that what was counted is less than a slot unless a wheel is
about to come round, is one of them.  From it follow that no slot ahead is overdue (`NothingOverdue`),
that a timer is put in no slot being walked (`PlaceFits`), that one that moves down
always fits below (`MovesOut`), and that a tick or a carry brings every slot
nearer by exactly one or by nothing.

**Library_proofs.**  *The lock.*  Assumption: `AloneIfBoth`, finitely many threads, any
of which may read and write, but one that does both is the only reader.  So the
program uses its two locks: `m_objNameLck` is written before there are other
threads, and the reader of `m_objTypeLck` is the event thread, where `start.lua` also calls
`setParser`.  No weaker assumption on who reads and who writes will do: with a second reader beside such a
thread the lock breaks, which is `RWLock_mixed`.
`WriteInv`: `m_Write_Lock` is held once, by the thread whose label says so.
`CountInv`: the counter is the number of readers between its two updates, and
the first of them is alone while it waits for `m_Read_Lock`.  `ReadInv` is the
point: that section may be entered again by its owner, and left by another
thread than the one that entered.  Its depth is the number of readers about to
leave it, plus one if readers share it, plus one if a writer has it; a writer
has it only if no reader does, and while readers do, its owner is a reader, so
that a writer cannot slip in as the owner.  `FlagInv`: the flag is set while a
writer is inside, hence unLock takes the right branch.  Then leaving
`m_Write_Lock` is `AcquireRead`, setting the flag `AcquireWrite`, the test in unLock
`Release`, and every other step a stutter.
*The watchdog.*  Assumption: `WatchdogAssumption`.  `DogInv`: the version that was
kept is at most the worker's, and less while its run has not been looked at, so
equal versions mean a second look.
*The process.*  Any number of signals and workers, with and without a mail server.  `Turn`:
the place `next` in the sequence of threads says what every thread's status is,
while they are created (`Creating`), all run, and are joined (`Ending`);
`TurnsSuffice` reads the order of any two off it.  `ProcInv` adds that the dispatcher
has ended only when no worker is left.
*Identifiers.*  Assumption: `SnowFlakeAssumption`, positive field sizes and
different numbers for different generators.  `IssuedLiesBehind`: what a
generator has issued is before its time and sequence, lexicographically; it is
what makes the next identifier new, together with the fact, proved from
the field sizes, that two identifiers are equal only if their fields are.
`IssuedInOrder` is `Increasing` in fields rather than in the composed number.
*The containers.*  Assumptions: a positive capacity and a
`NULL` that is not a value; a finite set of addresses.  `QueueImplements` shows that
`Queue` of the next state is the queue with an element appended, or without its
first; the arithmetic of `Wrap` is a lemma of its own.  `OwnedOnce` and
`CountsUsed` have one invariant: addresses handed out and waiting are disjoint,
no address waits twice, and the count is the cardinality.

But for the hypotheses named above the constants of these theorems are arbitrary:
any number of threads, types, generators, wheels and timers, any field sizes, capacity and
addresses, any streams.

## 7. Only model-checked

The liveness properties and the fairness half of `ImplementsSerialExecutor`:
TLAPS does not do liveness.

These are `JoinReturns` (three times), `MessagesAreReceived`, `ClosedIsForgotten`,
`SetParserReturnsUnlessRead`, `LockLetsWriterIn`, `WatchdogReports` and `ProcessStops`.

## 8. Not modelled

Of the network: UDP sockets, which have no session, and the limit of the
socket pair of the orders.  Of the timer thread: `timeCB`, which counts a tick and calls a script.  Of
the process: reading `config.ini`, which is done before any thread exists, and
the console handler of Windows.

`CLog` and `CMail` are queue threads, as `RecvTask` models them, whose task is
I/O; `Shutdown` has the lock of `CLog`'s queue.  A handler also calls what the C library
locks (the heap, the time zone): those locks are not modelled, and interrupting a thread
inside one has the outcome of `Shutdown_logging`.  The Lua glue, file formats, string and platform helpers are sequential
code whose correctness is that of their text handling.  Digests and ciphers are
bit-level arithmetic on large words, out of TLC's reach.  The tool is a Windows
dialog.  By far the largest part of the tree is not Humble's: libevent, Lua with
its json and database modules, pugixml, the headers of MySQL, curl, zlib and
others are vendored in HBase/, and are used through the calls the models mark
external.  That is why the share of all lines that are modelled is
small; of the program's own stateful code what is missing is listed above.

`~CRecvTask` destroys the lock right after `Join`, when `Run` may still
hold it for one more step (RecvTask.h:130): the model has that step and not the
destructor.  Memory exhaustion, which the program answers with an
assertion, is not modelled.
