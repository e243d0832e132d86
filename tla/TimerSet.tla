------------------------------- MODULE TimerSet -------------------------------
(***************************************************************************)
(* What the timers of nodes and agents are to do, however they are kept: a *)
(* timer that is set for a tick executes at that tick, before time goes    *)
(* on, unless it is cancelled or set again.                                *)
(***************************************************************************)
EXTENDS Integers

CONSTANTS
  Timer,
  Delay,    \* how far ahead a timer may be set, in ticks
  None

VARIABLES
  time,
  due,       \* of each timer: the tick it is set for, or None
  executing  \* the timer whose callback is under way, or None

vars == <<time, due, executing>>

Init == time = 0 /\ due = [t \in Timer |-> None] /\ executing = None

\* Timers are set and cancelled between steps, and inside the callbacks of others.
Set(t, d) == due' = [due EXCEPT ![t] = time + d] /\ UNCHANGED <<time, executing>>
Cancel(t) == due' = [due EXCEPT ![t] = None] /\ UNCHANGED <<time, executing>>

Tick ==
  /\ executing = None
  /\ \A t \in Timer : due[t] # None => due[t] > time
  /\ time' = time + 1
  /\ UNCHANGED <<due, executing>>

Execute(t) ==
  /\ executing = None /\ due[t] = time
  /\ due' = [due EXCEPT ![t] = None]
  /\ executing' = t
  /\ UNCHANGED time

\* An agent's timer sets itself again when its callback returns.
Return ==
  /\ executing # None
  /\ \/ UNCHANGED due
     \/ \E d \in Delay : due' = [due EXCEPT ![executing] = time + d]
  /\ executing' = None
  /\ UNCHANGED time

Next ==
  \/ \E t \in Timer : Cancel(t) \/ Execute(t) \/ \E d \in Delay : Set(t, d)
  \/ Tick \/ Return

Spec == Init /\ [][Next]_vars
=============================================================================
