------------------------------- MODULE MCTimers -------------------------------
(***************************************************************************)
(* Instances of TimerWheel.                                                *)
(***************************************************************************)
EXTENDS TimerWheel

\* Delays that end in each of three wheels of two slots, and across two of them.
Near == {1, 3, 6}
Steps == {1, 5}
=============================================================================
