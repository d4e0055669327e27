------------------------------ MODULE TimeWheel ------------------------------
(* The timing wheels of src/Bin/script/public/timewheel.lua: seconds,         *)
(* minutes, hours, days and months, each a ring of slots; a timer far away    *)
(* moves down wheel by wheel as its time comes near.                          *)
(*                                                                            *)
(* The scripts are one Lua state, so nothing interleaves but the callbacks:   *)
(* a timer that is called may add and remove timers, while onTime is in the   *)
(* middle of a slot.  The loops of onTime and cashData are therefore walked   *)
(* element by element, and each call is given an effect.                      *)
EXTENDS Integers, Sequences, FiniteSetsExt, SequencesExt

CONSTANTS
    Counts,     \* slots of each wheel; the code has <<60, 60, 24, 30, 12>>
    Timers,
    Delays,     \* the delays the scripts ask for
    CbDelays,   \* the same, from within a callback
    Uses,       \* what else the scripts do, see Effects and Script
    MaxTick     \* bound: ticks of the clock

ASSUME TimeWheelAssumption ==
    /\ Counts \in Seq(Nat \ {0}) /\ Len(Counts) > 1
    /\ Uses \subseteq {"removeWaiting", "removeFired", "removeInCallback",
                       "addAgain"}

VARIABLES
    Tick,
    mgr,        \* the wheels and the timers, see Init
    loop        \* where onTime is: its phase, wheel, and index i

vars == <<Tick, mgr, loop>>

WheelCount == Len(Counts)

\* Wheel's iParam: how long one of its slots lasts.
Param[k \in 1 .. WheelCount] == IF k = 1 THEN 1 ELSE Counts[k - 1] * Param[k - 1]

WheelRange(k) == Counts[k] * Param[k]

Idle == [phase |-> "idle", wheel |-> 0, i |-> 0]

\* A timer's record is TvecBase and, for the properties, what the scripts have
\* done with it: status ("new", "added", or "removed" before its time), the
\* delay they asked for, the tick it is due, and the ticks it was called at.
Init ==
    /\ Tick = 0
    /\ mgr = [cur |-> [k \in 1 .. WheelCount |-> 0],
              slot |-> [k \in 1 .. WheelCount |-> [s \in 1 .. Counts[k] |-> <<>>]],
              tvec |-> [t \in Timers |->
                  [TimeOut |-> 0, CompTime |-> 0,
                   RegWheel |-> 0, RegSlot |-> 0, RegIndex |-> 0,
                   status |-> "new", delay |-> 0, due |-> 0, calls |-> <<>>]]]
    /\ loop = Idle

----------------------------------------------------------------------------
(* The operations, on a value st of mgr                                       *)

SlotsUntil(cur, k, s) ==
    IF s > cur[k] THEN s - cur[k] ELSE Counts[k] - (cur[k] - s)

\* What the wheels below k have counted of k's current slot.
Elapsed(cur, k) ==
    LET sum[j \in 0 .. WheelCount] ==
            IF j = 0 THEN 0 ELSE sum[j - 1] + cur[j] * Param[j]
    IN  sum[k - 1]

\* How long until wheel k gets to slot s.
CompTime(cur, k, s) == SlotsUntil(cur, k, s) * Param[k] - Elapsed(cur, k)

Call(st, t) == [st EXCEPT !.tvec[t].calls = Append(@, Tick)]

WheelFor(iTimeOut) ==
    CHOOSE k \in 1 .. WheelCount :
        /\ iTimeOut <= WheelRange(k)
        /\ \A j \in 1 .. k - 1 : iTimeOut > WheelRange(j)

\* Mutant: the index is taken before the timer's slot has grown.
RegisterShort(st, t, k, s) ==
    [st EXCEPT !.slot[k][s] = Append(@, t),
               !.tvec[t] = [@ EXCEPT !.RegWheel = k, !.RegSlot = s,
                                     !.RegIndex = Len(st.slot[k][s])]]

Register(st, t, k, s) ==
    [st EXCEPT !.slot[k][s] = Append(@, t),
               !.tvec[t] = [@ EXCEPT !.RegWheel = k, !.RegSlot = s,
                                     !.RegIndex = Len(st.slot[k][s]) + 1]]

Place(st, iTimeOut, t) ==
    LET k == WheelFor(iTimeOut)
        s == ((iTimeOut \div Param[k] + st.cur[k] - 1) % Counts[k]) + 1
        timed == IF k = 1 THEN st
                 ELSE [st EXCEPT !.tvec[t].CompTime = CompTime(st.cur, k, s)]
    IN  Register(timed, t, k, s)

Add(st, iTimeOut, t) ==
    IF iTimeOut <= 0 THEN Call(st, t) ELSE Place(st, iTimeOut, t)

\* table.remove: no effect one past the end; see Removable for the rest.
TableRemove(s, i) == IF i \in 1 .. Len(s) THEN RemoveAt(s, i) ELSE s

Removable(s, i) == i <= Len(s) + 1

NoReg(r) == [r EXCEPT !.RegWheel = 0, !.RegSlot = 0, !.RegIndex = 0]

\* Mutant: the timers behind the removed one keep their index.
RemoveOnly(st, t) ==
    LET r == st.tvec[t] IN
    IF r.RegWheel = 0 \/ r.RegIndex = 0 \/ ~Removable(st.slot[r.RegWheel][r.RegSlot], r.RegIndex)
    THEN st
    ELSE [st EXCEPT !.slot[r.RegWheel][r.RegSlot] = TableRemove(@, r.RegIndex),
                    !.tvec[t] = NoReg(r)]

\* An index too far out makes table.remove fail before anything is changed.
RemoveTimer(st, t) ==
    LET r == st.tvec[t]
        old == st.slot[r.RegWheel][r.RegSlot]
        new == TableRemove(old, r.RegIndex)
        behind(u) == {i \in r.RegIndex .. Len(new) : new[i] = u}
        moved(u, x) == IF behind(u) = {} THEN x
                       ELSE [x EXCEPT !.RegIndex = Max(behind(u))]
    IN  IF r.RegWheel = 0 \/ r.RegIndex = 0 \/ ~Removable(old, r.RegIndex) THEN st
        ELSE [st EXCEPT
                 !.slot[r.RegWheel][r.RegSlot] = new,
                 !.tvec = [u \in Timers |->
                     moved(u, IF u = t THEN NoReg(r) ELSE st.tvec[u])]]

----------------------------------------------------------------------------
(* What scripts do, outside of onTime and in callbacks: the values that mgr   *)
(* can have afterwards                                                        *)

AddTimer(st, t, iTimeOut) ==
    Add([st EXCEPT !.tvec[t] = [@ EXCEPT !.status = "added", !.delay = iTimeOut,
                                         !.due = Tick + iTimeOut,
                                         !.TimeOut = iTimeOut]], iTimeOut, t)

\* regDelayEventByBase of cbfuncs.lua: the same timer, once more.
AddAgain(st, t) ==
    Add([st EXCEPT !.tvec[t].due = Tick + st.tvec[t].delay, !.tvec[t].calls = <<>>],
        st.tvec[t].TimeOut, t)

Waiting(st) == {t \in Timers : st.tvec[t].status = "added" /\ st.tvec[t].calls = <<>>}
Fired(st) == {t \in Timers : st.tvec[t].status = "added" /\ st.tvec[t].calls # <<>>}

Adds(st, delays) ==
    {AddTimer(st, t, d) : t \in {u \in Timers : st.tvec[u].status = "new"}, d \in delays}

Removes(st) == {RemoveTimer([st EXCEPT !.tvec[t].status = "removed"], t) : t \in Waiting(st)}

If(use, set) == IF use \in Uses THEN set ELSE {}

Effects(st) ==
    {st} \cup Adds(st, CbDelays) \cup If("removeInCallback", Removes(st))

Script ==
    /\ loop = Idle
    /\ mgr' \in Adds(mgr, Delays)
                 \cup If("removeWaiting", Removes(mgr))
                 \cup If("removeFired", {RemoveTimer(mgr, t) : t \in Fired(mgr)})
                 \cup If("addAgain", {AddAgain(mgr, t) : t \in Fired(mgr)})
    /\ UNCHANGED <<Tick, loop>>

----------------------------------------------------------------------------
(* onTime                                                                     *)

Current(st, k) == st.slot[k][st.cur[k]]

Walk(phase, k, st) == [phase |-> phase, wheel |-> k, i |-> Len(Current(st, k))]

\* Past its last slot a wheel fails the assertion in Get: that is where an
\* onTime that broke off in the middle leaves it.
OnTime ==
    /\ loop = Idle
    /\ Tick < MaxTick
    /\ Tick' = Tick + 1
    /\ mgr' = [mgr EXCEPT !.cur[1] = @ + 1]
    /\ loop' = IF mgr'.cur[1] <= Counts[1] THEN Walk("run", 1, mgr') ELSE Idle

\* The end of both loop bodies: table.remove of element i, or its error.
RemoveAndGoOn(st) ==
    LET k == loop.wheel IN
    IF Removable(Current(st, k), loop.i)
    THEN /\ mgr' = [st EXCEPT !.slot[k][st.cur[k]] = TableRemove(@, loop.i)]
         /\ loop' = [loop EXCEPT !.i = @ - 1]
    ELSE /\ mgr' = st
         /\ loop' = Idle

RunTimer ==
    /\ loop.phase = "run" /\ loop.i > 0
    /\ IF loop.i <= Len(Current(mgr, 1))
       THEN \E st \in Effects(Call(mgr, Current(mgr, 1)[loop.i])) : RemoveAndGoOn(st)
       ELSE loop' = [loop EXCEPT !.i = @ - 1] /\ UNCHANGED mgr
    /\ UNCHANGED Tick

\* Mutant: a timer moves down without its time being cut.
MoveTimerWhole ==
    /\ loop.phase = "move" /\ loop.i > 0
    /\ LET s == Current(mgr, loop.wheel)
           t == s[loop.i]
       IN  IF loop.i <= Len(s)
           THEN RemoveAndGoOn(Add(mgr, mgr.tvec[t].TimeOut, t))
           ELSE loop' = Idle /\ UNCHANGED mgr
    /\ UNCHANGED Tick

MoveTimer ==
    /\ loop.phase = "move" /\ loop.i > 0
    /\ LET s == Current(mgr, loop.wheel)
           t == s[loop.i]
           rest == mgr.tvec[t].TimeOut - mgr.tvec[t].CompTime
           st == Add([mgr EXCEPT !.tvec[t].TimeOut = rest], rest, t)
       IN  IF loop.i <= Len(s)
           THEN \E after \in (IF rest <= 0 THEN Effects(st) ELSE {st}) :
                    RemoveAndGoOn(after)
           ELSE loop' = Idle /\ UNCHANGED mgr
    /\ UNCHANGED Tick

\* A wheel that has come round starts again and turns the next one by a slot.
Turn ==
    /\ loop.phase \in {"run", "move"} /\ loop.i = 0
    /\ LET k == loop.wheel
           full == mgr.cur[k] = Counts[k]
       IN  /\ mgr' = IF ~full THEN mgr
                     ELSE [mgr EXCEPT !.cur = [j \in 1 .. WheelCount |->
                              CASE j = k -> 0
                                [] j = k + 1 -> @[j] + 1
                                [] OTHER -> @[j]]]
           /\ loop' = IF full /\ k < WheelCount THEN Walk("move", k + 1, mgr') ELSE Idle
    /\ UNCHANGED Tick

Done == loop = Idle /\ Tick = MaxTick /\ UNCHANGED vars

Next == Script \/ OnTime \/ RunTimer \/ MoveTimer \/ Turn \/ Done

Spec == Init /\ [][Next]_vars

----------------------------------------------------------------------------
(* Properties                                                                 *)

TypeOK ==
    /\ Tick \in 0 .. MaxTick
    /\ \A k \in 1 .. WheelCount :
         /\ mgr.cur[k] \in 0 .. Counts[k]
         /\ \A s \in 1 .. Counts[k] : mgr.slot[k][s] \in Seq(Timers)
    /\ \A t \in Timers :
         /\ mgr.tvec[t].RegWheel \in 0 .. WheelCount
         /\ mgr.tvec[t].CompTime \in 0 .. WheelRange(WheelCount)
    /\ loop.phase \in {"idle", "run", "move"}

\* A timer is called once, at the tick it is due, whichever wheels it went
\* through and whatever was added or removed meanwhile.
FiresOnTime ==
    \A t \in Timers : LET r == mgr.tvec[t] IN
        r.status = "added" =>
            /\ r.calls \in {<<>>, <<r.due>>}
            /\ loop = Idle /\ Tick >= r.due => r.calls = <<r.due>>

\* A timer removed before its time is not called.
RemovedIsSilent ==
    \A t \in Timers : mgr.tvec[t].status = "removed" => mgr.tvec[t].calls = <<>>

\* Between ticks a timer that waits stands where its registration says, and
\* nowhere else; Remove relies on it.
RegistrationIsExact ==
    loop = Idle =>
        \A t \in Timers, k \in 1 .. WheelCount : \A s \in 1 .. Counts[k] :
            {i \in DOMAIN mgr.slot[k][s] : mgr.slot[k][s][i] = t} =
                IF t \in Waiting(mgr) /\ mgr.tvec[t].RegWheel = k /\ mgr.tvec[t].RegSlot = s
                THEN {mgr.tvec[t].RegIndex} ELSE {}

=============================================================================
