--------------------------- MODULE AsyncProperties ---------------------------
(***************************************************************************)
(* What AsyncCalls is meant to guarantee.                                  *)
(***************************************************************************)
EXTENDS AsyncCalls

NodeState == [status : {"Idle", "Running", "EndRun"}, result : Result,
              runFlag : BOOLEAN, skip : BOOLEAN]
FlowState ==
  [pc : {"idle", "debug", "async", "events", "loop", "called"}, chart : Chart \cup {None},
   current : Node \cup {None}, hasRunning : BOOLEAN, history : SUBSET Node,
   caller : {"idle", "async", "events"}]

\* Every variable has its type; a container pointer names one of the lists a
\* node can be in (async_manager.h:32-34, node.h:62).
TypeOK ==
  /\ node \in [Node -> NodeState]
  /\ list \in [List -> Seq(Node)] /\ container \in [Node -> List \cup {None}]
  /\ nodesSet \subseteq Node /\ running \subseteq Chart /\ debugged \subseteq Chart
  /\ breakpoints \subseteq NodeData /\ continueFlag \subseteq NodeData
  /\ flow \in FlowState
  /\ held \in [Contexts -> Node \cup {None}] /\ call \in [Node -> Contexts \cup {None}]

In(n, w) == n \in Elements(list[w])

\* A node is in the list its container pointer names, once, and in no other but
\* the stack: RemoveNode clears the pointer whatever it says, so a callback to a
\* node that a second path has put on the stack leaves it there, and only there
\* (custom_struct.cpp:33, async_manager.cpp:37).
ContainersAgree ==
  /\ \A w \in List \ {"stack"} : NoRepeats(list[w])
  /\ \A n \in Node : \A w \in {"waiting", "active"} : In(n, w) <=> container[n] = w
  /\ \A n \in Node : container[n] = "stack" => In(n, "stack")
  /\ \A n \in Node : (In(n, "event") \/ In(n, "handling")) <=> container[n] = "event"
  /\ \A n \in Node : ~(In(n, "event") /\ In(n, "handling"))

\* However often and however late the game calls back, also from the function of
\* another node, a node is activated once, and one that waits in the list is in
\* the set (async_manager.cpp:25-49).
ActiveOnce == NoRepeats(list["active"]) /\ Elements(list["waiting"]) \subseteq nodesSet

\* The answer to a call that is pending is never refused: a node that waits for
\* it is in the set that is asked (async_manager.cpp:25-34, manager.cpp:667).
PendingIsAccepted == \A n \in Node : call[n] # None => IsNodeWaiting(n)

\* A chart that does not run has no node that runs, waits, or is about to be
\* resumed: a callback cannot wake a chart that was stopped (chart.cpp:76,
\* manager.cpp:664).
StoppedChartIsQuiet ==
  \A n \in Node : ChartOf[n] \notin running => node[n].status # "Running" /\ container[n] = None

\* What wakes node n: the callback of a pending call, the debugger, as long as the
\* breakpoint is set, an event, or that it has been activated.
CanWake(n) ==
  \/ call[n] # None
  \/ In(n, "waiting") /\ DataOf[n] \in breakpoints
  \/ In(n, "active") \/ In(n, "event") \/ In(n, "handling")

\* A node that begins to run can be woken, and stays so until it is resumed or
\* stopped, its call is cancelled with `stop', or a second path pushes it on the
\* stack, off the list it waits in (async_manager.cpp:11-23, 52-79,
\* executor.cpp:19).
NodesStayWakeable ==
  [][\A n \in Node :
       node'[n].status = "Running" /\ (node[n].status = "Running" => CanWake(n))
       => CanWake(n)' \/ In(n, "stack")' \/ \E x \in Contexts : held[x] = n /\ Cancel(x, TRUE)]_vars

\* A node whose answer has come leaves the active list to be resumed, or because
\* it is stopped.
AnsweredNodesResume ==
  [][\A n \in Node : In(n, "active") /\ ~In(n, "active")' =>
       node'[n].status # "Running" \/ (resumed' # <<>> /\ resumed'[1] = n)]_vars

\* A node that is stopped is not run by the flow that stops it.
StoppedNodesLeave ==
  [][\A n \in Node : node[n].status = "Running" /\ node'[n] = Stopped(node, {n})[n] => ~In(n, "stack")']_vars

\* What the game or the debugger has decided for a node it activates stays until
\* the node runs: its result and whether its function is skipped
\* (async_manager.h:33, node.cpp:68, async_manager.cpp:16-18).
AnswerIsKept ==
  [][\A n \in Node : In(n, "active") /\ In(n, "active")' =>
       node'[n].skip = node[n].skip /\ node'[n].result = node[n].result]_vars

\* A callback that is accepted answers the call whose context it was made with:
\* one that comes late, or twice, is refused (manager.cpp:664-677).
AnswersItsCall == [][\A x \in Contexts, r \in Results : Continue(x, r) => call[held[x]] = x]_vars

\* A node that is activated runs: AsyncManager::Step gets to it unless it is
\* stopped first (async_manager.cpp:11).
ActivatedNodesRun == \A n \in Node : In(n, "active") ~> ~In(n, "active")

-----------------------------------------------------------------------------
(* Breakpoints.                                                            *)

\* A node at a breakpoint of a chart that is debugged runs its function only if
\* it is the node the debugger has continued (node_func.cpp:20-39).
BreakpointHolds ==
  [][\A n \in Node :
       /\ Visit(n) /\ ~node[n].skip /\ DataOf[n] \in breakpoints /\ ChartOf[n] \in debugged
       /\ ~In(n, "waiting")'
       => resumed # <<>> /\ resumed[1] = n /\ ~resumed[2]]_vars

\* Continuing a chart continues every node of it that is held
\* (async_manager.cpp:52-68).
ContinueReachesAll ==
  [][\A c \in Chart : ContinueChart(c) =>
       \A n \in NodesOf(c) : DataOf[n] \in breakpoints => ~In(n, "waiting")']_vars

\* The debugger does not continue a node that waits for the game's answer
\* (async_manager.cpp:70-79).
SuspendedNodesStaySuspended == \A n \in Node : call[n] # None => ~In(n, "active")

-----------------------------------------------------------------------------
(* AsyncCalls implements SuspendedCalls.  A node in the waiting list is    *)
(* suspended, and one whose call is pending also when a second path to it  *)
(* has taken it out of the list (executor.cpp:19, 79).  One in the active  *)
(* list is answered; the answer is the result to go on with, or that the   *)
(* function is to be called.                                               *)

Suspended(n) == In(n, "waiting") \/ call[n] # None
Phase(n) == IF In(n, "active") THEN "answered" ELSE IF Suspended(n) THEN "suspended" ELSE "none"
Answers == {"rTRUE", "rFALSE", "call"}
AnswerOf(n) == IF ~In(n, "active") THEN None ELSE IF node[n].skip THEN node[n].result ELSE "call"
Resumed == IF resumed = <<>> THEN <<>>
           ELSE <<resumed[1], IF resumed[2] THEN resumed[3] ELSE "call">>

Promise == INSTANCE SuspendedCalls WITH
  Answer <- Answers,
  phase <- [n \in Node |-> Phase(n)],
  answer <- [n \in Node |-> AnswerOf(n)],
  resumed <- Resumed

\* Every suspended node is answered at most once, and resumed after that with
\* that answer, whatever is stopped meanwhile (manager.cpp:649-694,
\* async_manager.cpp:9-49).
KeepsPromise == Promise!Spec

-----------------------------------------------------------------------------
\* The functions the runtime has begun to call go on, and the game calls step again
\* and again, whatever else it does.
FairSpec == Spec /\ WF_vars(Runtime) /\ SF_vars(BeginStep)
=============================================================================
