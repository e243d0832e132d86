--------------------------- MODULE SuspendedCalls ---------------------------
(***************************************************************************)
(* What suspending a node promises: a node that is suspended is answered   *)
(* at most once, is resumed only after that and with that answer, and can  *)
(* be given up at any moment.                                              *)
(***************************************************************************)
CONSTANTS Node, Answer, None

VARIABLES
  phase,     \* what each node's call has come to
  answer,    \* the answer a node has got
  resumed    \* the node being resumed and its answer, or <<>>

vars == <<phase, answer, resumed>>

Init ==
  /\ phase = [n \in Node |-> "none"]
  /\ answer = [n \in Node |-> None]
  /\ resumed = <<>>

\* A function suspends its node; in the flow of a resumed node, too.
Suspend(n) ==
  /\ phase[n] = "none"
  /\ phase' = [phase EXCEPT ![n] = "suspended"]
  /\ UNCHANGED <<answer, resumed>>

\* The debugger may answer several nodes at once.
Reply(S, a) ==
  /\ \A n \in S : phase[n] = "suspended"
  /\ phase' = [n \in Node |-> IF n \in S THEN "answered" ELSE phase[n]]
  /\ answer' = [n \in Node |-> IF n \in S THEN a ELSE answer[n]]
  /\ UNCHANGED resumed

Resume(n) ==
  /\ phase[n] = "answered" /\ resumed = <<>>
  /\ phase' = [phase EXCEPT ![n] = "none"]
  /\ answer' = [answer EXCEPT ![n] = None]
  /\ resumed' = <<n, answer[n]>>

\* The calls of S are given up, because their nodes are stopped.
GiveUp(S) ==
  /\ phase' = [n \in Node |-> IF n \in S THEN "none" ELSE phase[n]]
  /\ answer' = [n \in Node |-> IF n \in S THEN None ELSE answer[n]]
  /\ resumed' \in {resumed, <<>>}

Next ==
  \/ \E n \in Node : Suspend(n) \/ Resume(n)
  \/ \E S \in SUBSET Node : GiveUp(S) \/ \E a \in Answer : Reply(S, a)

Spec == Init /\ [][Next]_vars
=============================================================================
