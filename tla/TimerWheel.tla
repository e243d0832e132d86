------------------------------ MODULE TimerWheel ------------------------------
(***************************************************************************)
(* The timers of nodes and agents in the hierarchical timer wheel: wheels  *)
(* of NumSlots slots each, of which the lowest turns with every tick and   *)
(* each other one by a slot when the one below has come round.             *)
(*                                                                         *)
(* A timer is in a slot, or being executed, or not set.  X_Y is X with the *)
(* mistake Y in it.                                                        *)
(***************************************************************************)
EXTENDS NodeLists, Integers

CONSTANTS
  NodeTimer, AgentTimer,
  NumSlots,    \* slots of a wheel, 256 in the code
  MaxLevel,    \* the highest wheel, 7 in the code
  Waits,       \* what Wait is called with, at least 1 (manager.cpp:463)
  Ticks,       \* tick intervals that objects are registered with
  DefaultTick, \* Manager::DEFAULT_AGENT_TICK
  DefaultStep, \* default_time_interval_
  StepTimes,   \* what Step is called with
  MaxNow,      \* bound: the time up to which timers run
  None

Timer == NodeTimer \cup AgentTimer
Level == 0..MaxLevel
SlotIndex == 0..(NumSlots - 1)
Delay == Waits \cup Ticks \cup {DefaultTick}

\* How far ahead a wheel and those above it have slots, in slots of the wheel.
Reach[l \in Level] == IF l = MaxLevel THEN NumSlots - 1 ELSE NumSlots * Reach[l + 1]

\* A delay must fit the wheels: the code's last one covers all of 64 bits.
ASSUME WheelAssumption ==
  /\ NumSlots \in Nat \ {0, 1} /\ MaxLevel \in Nat /\ MaxNow \in Nat
  /\ \A d \in Delay : d \in 1..Reach[0]
  /\ StepTimes \subseteq Nat \ {0}
  /\ NodeTimer \cap AgentTimer = {} /\ None \notin Timer \cup Int

VARIABLES
  now,         \* now_: how many slots each wheel has turned
  slots,       \* slots_[level][index].events_, the event set last first
  scheduledAt, \* TimerEventInterface::scheduled_at_, which is read while the timer is set
  left,        \* TimerWheel::advance: the ticks that are still to come
  level,       \* process_current_slot: the wheel whose slot is being emptied, or None
  executing,   \* the timer in whose execute() the program is, or None
  asked,       \* of each registered agent: the interval the game asked for; None for others
  interval     \* Agent::tick_interval_

vars == <<now, slots, scheduledAt, left, level, executing, asked, interval>>

Init ==
  /\ now = [l \in Level |-> 0]
  /\ slots = [l \in Level |-> [i \in SlotIndex |-> <<>>]]
  /\ scheduledAt = [t \in Timer |-> 0]
  /\ left = 0 /\ level = None /\ executing = None
  /\ asked = [a \in AgentTimer |-> None]
  /\ interval = [a \in AgentTimer |-> DefaultTick]

Active(t) == \E l \in Level : \E i \in SlotIndex : t \in Elements(slots[l][i])

\* Functions of nodes run in the events of a step and in the callbacks of node timers.
CanCall == (left = 0 /\ level = None /\ executing = None) \/ executing \in NodeTimer

-----------------------------------------------------------------------------
\* How many slots of each wheel lie before an event that is delta ticks away: what
\* each round of the loop of schedule makes of delta.
Distance_RoundsUp(delta) ==
  LET distance[l \in Level] ==
        IF l = 0 THEN delta ELSE (distance[l - 1] + NumSlots - 1) \div NumSlots
  IN  distance

Distance(delta) ==
  LET distance[l \in Level] ==
        IF l = 0 THEN delta
        ELSE (distance[l - 1] + (now[l - 1] % NumSlots)) \div NumSlots
  IN  distance

\* The wheel at which the loop ends, with distances d: the first one that has the slot.
FirstFit(d) == CHOOSE l \in Level : /\ d[l] < NumSlots
                                   /\ \A k \in Level : k < l => d[k] >= NumSlots

\* relink: the timer leaves the slot it is in, and comes first in the new one.
Relinked(s, t, l, i) ==
  IF t \in Elements(s[l][i]) THEN s
  ELSE [k \in Level |-> [j \in SlotIndex |->
         (IF k = l /\ j = i THEN <<t>> ELSE <<>>) \o Without(s[k][j], {t})]]
Cancelled(s, t) == [l \in Level |-> [i \in SlotIndex |-> Without(s[l][i], {t})]]

\* The timer is not set any more.
Unset(t) == scheduledAt' = [scheduledAt EXCEPT ![t] = 0]

\* TimerWheel::schedule over the slots s.
Schedule(s, t, delta) ==
  LET d == Distance(delta)
      l == FirstFit(d)
  IN
  /\ slots' = Relinked(s, t, l, (now[l] + d[l]) % NumSlots)
  /\ scheduledAt' = [scheduledAt EXCEPT ![t] = now[0] + delta]

-----------------------------------------------------------------------------
(* What the game and the functions of nodes do with timers.                *)

\* Manager::Wait: NodeTimer::Register.
Wait(t, ms) ==
  /\ CanCall /\ now[0] + ms <= MaxNow
  /\ Schedule(Cancelled(slots, t), t, ms)
  /\ UNCHANGED <<now, left, level, executing, asked, interval>>

\* NodeTimer::Stop.
StopTimer(t) ==
  /\ CanCall
  /\ slots' = Cancelled(slots, t) /\ Unset(t)
  /\ UNCHANGED <<now, left, level, executing, asked, interval>>

\* RegisterGameObject of the Python binding: the timer is started with the default
\* interval, and set again by SetTickInterval.
Register(a, tick) ==
  /\ CanCall /\ asked[a] = None
  /\ asked' = [asked EXCEPT ![a] = tick]
  /\ interval' = [interval EXCEPT ![a] = IF tick # DefaultStep THEN tick ELSE DefaultTick]
  /\ now[0] + interval'[a] <= MaxNow
  /\ Schedule(slots, a, interval'[a])
  /\ UNCHANGED <<now, left, level, executing>>

\* ~Agent, at the end of a step.
DeleteAgent(a) ==
  /\ left = 0 /\ level = None /\ executing = None
  /\ asked[a] # None
  /\ asked' = [asked EXCEPT ![a] = None]
  /\ slots' = Cancelled(slots, a) /\ Unset(a)
  /\ UNCHANGED <<now, left, level, executing, interval>>

-----------------------------------------------------------------------------
(* TimerManager::Step.                                                     *)

BeginStep(ms) ==
  /\ left = 0 /\ level = None /\ executing = None
  /\ now[0] + ms <= MaxNow
  /\ left' = ms
  /\ UNCHANGED <<now, slots, scheduledAt, level, executing, asked, interval>>

Turning_TickLate == {l \in Level : \A k \in 0..(l - 1) : now[k] % NumSlots = 0}

\* The wheels that turn with the next tick: those below have come round.
Turning == {l \in Level : \A k \in 0..(l - 1) : (now[k] + 1) % NumSlots = 0}

\* A tick of advance: the highest wheel that turns is emptied first.
Advance ==
  /\ left > 0 /\ level = None /\ executing = None
  /\ left' = left - 1
  /\ now' = [l \in Level |-> IF l \in Turning THEN now[l] + 1 ELSE now[l]]
  /\ level' = CHOOSE l \in Turning : \A k \in Turning : k <= l
  /\ UNCHANGED <<slots, scheduledAt, executing, asked, interval>>

CurrentSlot == slots[level][now[level] % NumSlots]
Popped == [slots EXCEPT ![level][now[level] % NumSlots] = Tail(@)]
Emptying == level # None /\ executing = None

Promote_StaysOnLevel ==
  /\ Emptying /\ CurrentSlot # <<>>
  /\ level > 0 /\ now[0] < scheduledAt[Head(CurrentSlot)]
  /\ slots' = Relinked(Popped, Head(CurrentSlot), level, now[level] % NumSlots)
  /\ UNCHANGED <<now, scheduledAt, left, level, executing, asked, interval>>

\* An event of a higher wheel that is not due yet moves down.
Promote ==
  /\ Emptying /\ CurrentSlot # <<>>
  /\ level > 0 /\ now[0] < scheduledAt[Head(CurrentSlot)]
  /\ Schedule(Popped, Head(CurrentSlot), scheduledAt[Head(CurrentSlot)] - now[0])
  /\ UNCHANGED <<now, left, level, executing, asked, interval>>

Execute ==
  /\ Emptying /\ CurrentSlot # <<>>
  /\ level = 0 \/ now[0] >= scheduledAt[Head(CurrentSlot)]
  /\ executing' = Head(CurrentSlot)
  /\ slots' = Popped /\ Unset(executing')
  /\ UNCHANGED <<now, left, level, asked, interval>>

NextLevel ==
  /\ Emptying /\ CurrentSlot = <<>>
  /\ level' = IF level = 0 THEN None ELSE level - 1
  /\ UNCHANGED <<now, slots, scheduledAt, left, executing, asked, interval>>

ExecuteReturns_Forgets ==
  /\ executing # None
  /\ executing' = None
  /\ UNCHANGED <<now, slots, scheduledAt, left, level, asked, interval>>

\* The flow of a node timer ends; AgentTimer::execute sets the timer again.
ExecuteReturns ==
  /\ executing # None
  /\ executing' = None
  /\ IF executing \in AgentTimer THEN Schedule(slots, executing, interval[executing])
     ELSE UNCHANGED <<slots, scheduledAt>>
  /\ UNCHANGED <<now, left, level, asked, interval>>

-----------------------------------------------------------------------------
Game ==
  \/ \E t \in NodeTimer : StopTimer(t) \/ \E ms \in Waits : Wait(t, ms)
  \/ \E a \in AgentTimer : DeleteAgent(a) \/ \E tick \in Ticks : Register(a, tick)

StepOn == Advance \/ Promote \/ Execute \/ NextLevel

Next == Game \/ (\E ms \in StepTimes : BeginStep(ms)) \/ StepOn \/ ExecuteReturns

\* A step goes on until it is over, and the flows of timers end.
Spec == Init /\ [][Next]_vars /\ WF_vars(StepOn) /\ WF_vars(ExecuteReturns)

-----------------------------------------------------------------------------
(* What the wheel is meant to guarantee.                                   *)

TypeOK ==
  /\ now \in [Level -> Nat]
  /\ slots \in [Level -> [SlotIndex -> Seq(Timer)]]
  /\ scheduledAt \in [Timer -> Nat]
  /\ left \in Nat /\ level \in Level \cup {None}
  /\ executing \in Timer \cup {None}
  /\ asked \in [AgentTimer -> Ticks \cup {None}]
  /\ interval \in [AgentTimer -> Delay]

\* Timers run on time, neither early nor late, and never before others that are due
\* earlier, whichever wheel they were in, and whatever the callbacks of others set
\* and cancel (ratas.h:231-241).
OnTime == INSTANCE TimerSet WITH
  time <- now[0],
  due <- [t \in Timer |-> IF Active(t) THEN scheduledAt[t] ELSE None]
RunsOnTime == OnTime!Spec

\* The timer of a registered agent is set, for no later than its interval, or its
\* callback is under way: objects do not stop ticking (timer_manager.cpp:23-32).
AgentsTick ==
  \A a \in AgentTimer : asked[a] # None =>
    executing = a \/ (Active(a) /\ scheduledAt[a] - now[0] <= interval[a])

\* The wheel comes to rest in each step, though its callbacks set timers again (ratas.h:388-435).
AdvanceEnds == left > 0 ~> left = 0 /\ level = None /\ executing = None

\* Each wheel has turned by a slot for each turn of the one below, and those below a
\* wheel that is being emptied have just come round (ratas.h:400, 409).
WheelsTurn ==
  /\ \A l \in Level : l < MaxLevel => now[l + 1] = now[l] \div NumSlots
  /\ level # None => \A l \in Level : l < level => now[l] % NumSlots = 0

\* A timer is in one slot, once.
OneSlot ==
  /\ \A l \in Level, i \in SlotIndex : NoRepeats(slots[l][i])
  /\ \A l, k \in Level : \A i, j \in SlotIndex :
       Elements(slots[l][i]) \cap Elements(slots[k][j]) # {} => l = k /\ i = j

\* The slot of each wheel that a tick belongs to: the tick, shifted once for each wheel below.
SlotsOf(tick) ==
  LET at[l \in Level] == IF l = 0 THEN tick ELSE at[l - 1] \div NumSlots IN at

\* It is in the slot for its tick, which comes within a turn of that wheel; and is not
\* behind unless that slot is still to be emptied.
InItsSlot(t, l, i) ==
  LET at == SlotsOf(scheduledAt[t])[l] IN
  /\ i = at % NumSlots /\ now[l] <= at /\ at < now[l] + NumSlots
  /\ at = now[l] => level # None /\ l <= level
  /\ scheduledAt[t] - now[0] <= Reach[0]

\* Every timer that is set is in one slot, the one for its tick on that wheel, and the
\* wheels turn together, so that the slot is emptied in time (ratas.h:398-436).
WheelInvariant ==
  /\ TypeOK /\ WheelsTurn /\ OneSlot
  /\ \A l \in Level, i \in SlotIndex : \A t \in Elements(slots[l][i]) : InItsSlot(t, l, i)

\* An object ticks in the interval it was registered with (doc/lua_api.md:129, 271).
TicksAsAsked == \A a \in AgentTimer : asked[a] # None => interval[a] = asked[a]
=============================================================================
