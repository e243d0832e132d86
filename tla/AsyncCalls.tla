----------------------------- MODULE AsyncCalls -----------------------------
(***************************************************************************)
(* Asynchronous calls and breakpoints: a node whose function suspends it   *)
(* waits in AsyncManager until the game calls back, or until the debugger  *)
(* continues it, and the next step runs it.                                *)
(*                                                                         *)
(* What the game keeps to call back with is the address of the node, so    *)
(* nothing in it says which call it belongs to.  It does so between steps, *)
(* and from the function of any node.  Nested flows are the subject of     *)
(* FlowExecutor; here flows run one after the other, on one executor.  An  *)
(* operator named X_Y is X with the mistake Y in it.                       *)
(***************************************************************************)
EXTENDS NodeLists, Integers

CONSTANTS
  Node, Chart, NodeData, None,
  ChartOf,      \* [Node -> Chart]
  StartNode,    \* [Chart -> Node]
  DataOf,       \* [Node -> NodeData]  Node::data_: objects with the same chart share it
  Kind,         \* [Node -> Kinds]     what the node's function does
  Child,        \* [Node -> [BOOLEAN -> Seq(Node)]]
  Target,       \* [Node -> SUBSET Node] arguments of stop_node
  Results,      \* what a function that suspends nothing may return
  Careful,      \* the game uses a context only while its call is pending
  Cancels,      \* the values of `stop' with which the game cancels
  Breakable,    \* bound: the node data where the debugger sets breakpoints
  Contexts      \* bound: names of the contexts the game may hold at a time

\* A "game" function is one in which the game uses contexts and stops charts, an
\* "echo" one in which it does so after the function has suspended its node.
Kinds == {"func", "suspend", "event", "stop", "game", "echo"}
Result == {"rTRUE", "rFALSE", "rSTOP"}
List == {"waiting", "active", "event", "handling", "stack"}

ASSUME AsyncAssumption ==
  /\ ChartOf \in [Node -> Chart] /\ StartNode \in [Chart -> Node]
  /\ \A c \in Chart : ChartOf[StartNode[c]] = c
  /\ DataOf \in [Node -> NodeData]
  /\ Kind \in [Node -> Kinds] /\ Child \in [Node -> [BOOLEAN -> Seq(Node)]]
  /\ \A n \in Node, b \in BOOLEAN : \A m \in Elements(Child[n][b]) : ChartOf[m] = ChartOf[n]
  /\ Target \in [Node -> SUBSET Node] /\ Results \subseteq {"rTRUE", "rFALSE"}
  /\ Careful \in BOOLEAN /\ Cancels \subseteq BOOLEAN /\ Breakable \subseteq NodeData
  /\ None \notin Node \cup Contexts \cup List

VARIABLES
  node,         \* class Node: status_, result_, run_flag_, skip_
  list,         \* the lists a node can be linked into
  container,    \* Node::container_: the list a node believes it is in
  nodesSet,     \* AsyncManager::nodes_set_
  running,      \* the charts whose status is Running
  debugged,     \* the charts with Chart::debug_
  breakpoints,  \* the node data whose function is a BreakpointFunc
  continueFlag, \* those whose BreakpointFunc::continue_flag_ is set
  flow,         \* the executor: where it is, and its local state
  held,         \* the contexts the game holds, and the node each names
  call,         \* for the properties: the context of a node's pending call
  resumed       \* for the properties: the node whose flow AsyncManager::Step runs,
                \* and the skip_ and result_ it runs with

lists   == <<list, container>>
control == <<running, debugged, breakpoints, continueFlag>>
calls   == <<held, call>>
vars    == <<node, lists, nodesSet, control, flow, calls, resumed>>

FreshNode_NoResult == [status |-> "Idle", result |-> None, runFlag |-> FALSE, skip |-> FALSE]

FreshNode == [status |-> "Idle", result |-> "rTRUE", runFlag |-> FALSE, skip |-> FALSE]

\* chart: the chart whose flow it is; current: the node whose function is in the
\* game's code; history: DfsExecutor::history_nodes_;
\* caller: where RunFlow returns to
NoFlow == [pc |-> "idle", chart |-> None, current |-> None, hasRunning |-> FALSE, history |-> {}, caller |-> "idle"]

Init ==
  /\ node = [n \in Node |-> FreshNode]
  /\ list = [w \in List |-> <<>>] /\ container = [n \in Node |-> None]
  /\ nodesSet = {}
  /\ running = {} /\ debugged = {} /\ breakpoints = {} /\ continueFlag = {}
  /\ flow = NoFlow
  /\ held = [x \in Contexts |-> None] /\ call = [n \in Node |-> None]
  /\ resumed = <<>>

At(p) == flow.pc = p
NodesOf(c) == {n \in Node : ChartOf[n] = c}

-----------------------------------------------------------------------------
(* Lists and container pointers, as a pair so that calls can be composed.  *)

Home == [list |-> list, container |-> container]

InEventLists(w) == w \in {"event", "handling"}

\* container_->Remove of every node of S.  A link in an event list is unlinked by
\* its neighbours, also when the list has been moved to a dispatch.
Removed(h, S) ==
  LET leaves(n, w) == \/ h.container[n] = w
                      \/ InEventLists(w) /\ h.container[n] # None /\ InEventLists(h.container[n])
  IN  [list |-> [w \in List |-> Without(h.list[w], {n \in S : leaves(n, w)})],
       container |-> [n \in Node |-> IF n \in S THEN None ELSE h.container[n]]]

Pushed_StaysLinked(h, w, n) ==
  [list |-> [h.list EXCEPT ![w] = Append(@, n)], container |-> [h.container EXCEPT ![n] = w]]

\* INodeContainer::Push of list w.
Pushed(h, w, n) ==
  LET r == Removed(h, {n})
  IN  [list |-> [r.list EXCEPT ![w] = Append(@, n)],
       container |-> [r.container EXCEPT ![n] = w]]

PushedAll(h, w, s) ==
  LET after[i \in 0..Len(s)] == IF i = 0 THEN h ELSE Pushed(after[i - 1], w, s[i])
  IN  after[Len(s)]

\* The part of AsyncManager::RemoveNode that concerns lists: the node leaves
\* waiting_nodes_, and its container pointer is cleared wherever it is.
TakenOff(h, n) ==
  [list |-> [h.list EXCEPT !["waiting"] = Without(@, {n})],
   container |-> [h.container EXCEPT ![n] = None]]

Become(h) == list' = h.list /\ container' = h.container

-----------------------------------------------------------------------------
(* Nodes, charts and the calls the game has pending.                       *)

\* Node::Stop without its list: attachers are left to FlowExecutor.
Stopped(nodes, S) ==
  [n \in Node |-> IF n \in S
     THEN [status |-> "Idle", result |-> "rSTOP", runFlag |-> FALSE, skip |-> FALSE]
     ELSE nodes[n]]

\* The calls of the nodes of S end.  A careful game forgets their contexts.
CallsEnd(S) ==
  /\ call' = [n \in Node |-> IF n \in S THEN None ELSE call[n]]
  /\ held' = IF Careful
             THEN [x \in Contexts |-> IF \E n \in S : call[n] = x THEN None ELSE held[x]]
             ELSE held

\* What a context may be called; the game drops one whose call is over for it.
Unused == {x \in Contexts : \A n \in Node : call[n] # x}

Idle == At("idle")
InFunction == At("called")

\* StackExecutor::RunFlow(n) from lists h and nodes, which returns to p.
RunFlow(n, h, nodes, active, p) ==
  IF ChartOf[n] \in active
  THEN /\ node' = [nodes EXCEPT ![n].status = "Idle"]
       /\ Become(Pushed([h EXCEPT !.list["stack"] = <<>>], "stack", n))
       /\ flow' = [NoFlow EXCEPT !.pc = "loop", !.chart = ChartOf[n], !.caller = p]
  ELSE /\ node' = nodes
       /\ Become(h)
       /\ flow' = [NoFlow EXCEPT !.pc = p]

\* Agent::StartChart.
Start(c) ==
  /\ Idle
  /\ c \notin running
  /\ running' = running \cup {c}
  /\ LET s == StartNode[c] IN
       RunFlow(s, Home, [node EXCEPT ![s].skip = TRUE, ![s].result = "rTRUE"], running', "idle")
  /\ UNCHANGED <<nodesSet, debugged, breakpoints, continueFlag, calls, resumed>>

\* The game stops a chart between steps, or another one from a node's function.
MayStop(c) == c \in running /\ (Idle \/ (InFunction /\ flow.chart # c))

Stop_KeepsLinks(c) ==
  /\ MayStop(c)
  /\ node' = Stopped(node, NodesOf(c))
  /\ running' = running \ {c}
  /\ CallsEnd(NodesOf(c))
  /\ UNCHANGED <<lists, nodesSet, debugged, breakpoints, continueFlag, flow, resumed>>

\* Chart::Stop.  The nodes leave their lists, but not AsyncManager::nodes_set_.
Stop(c) ==
  /\ MayStop(c)
  /\ node' = Stopped(node, NodesOf(c))
  /\ Become(Removed(Home, NodesOf(c)))
  /\ running' = running \ {c}
  /\ CallsEnd(NodesOf(c))
  /\ UNCHANGED <<nodesSet, debugged, breakpoints, continueFlag, flow, resumed>>

-----------------------------------------------------------------------------
(* The game calls back.                                                    *)

IsNodeWaiting(n) == n \in nodesSet

\* AsyncManager::ActivateNode on lists h: a node that believes it is in the
\* active list stays as it is.
Activated(h, n) == IF h.container[n] = "active" THEN h ELSE Pushed(h, "active", n)

\* The call of n, if it is pending, has been answered.
Answered(n) == CallsEnd({n})

\* The game has a context to use, between steps or in a node's function; the
\* bindings let it use one as often as it likes.
Uses(x) == (Idle \/ InFunction) /\ held[x] # None /\ (Careful => call[held[x]] = x)

Continue_Unchecked(x, r) ==
  /\ Uses(x)
  /\ LET n == held[x] IN
       /\ nodesSet' = nodesSet \ {n}
       /\ Become(Activated(TakenOff(Home, n), n))
       /\ node' = [node EXCEPT ![n].skip = TRUE]
       /\ Answered(n)
  /\ UNCHANGED <<control, flow, resumed>>

Continue_ForgetsNode(x, r) ==
  /\ Uses(x)
  /\ LET n == held[x] IN
       /\ IsNodeWaiting(n)
       /\ nodesSet' = nodesSet \ {n}
       /\ Become(TakenOff(Home, n))
       /\ node' = [node EXCEPT ![n].skip = TRUE, ![n].result = r]
       /\ Answered(n)
  /\ UNCHANGED <<control, flow, resumed>>

\* Manager::ContinueAsyncNode, and the result the bindings set behind it.
Continue(x, r) ==
  /\ Uses(x)
  /\ LET n == held[x] IN
       /\ IsNodeWaiting(n)
       /\ nodesSet' = nodesSet \ {n}
       /\ Become(Activated(TakenOff(Home, n), n))
       /\ node' = [node EXCEPT ![n].skip = TRUE, ![n].result = r]
       /\ Answered(n)
  /\ UNCHANGED <<control, flow, resumed>>

\* Manager::CancelAsyncNode.
Cancel(x, stop) ==
  /\ Uses(x)
  /\ LET n == held[x] IN
       /\ IsNodeWaiting(n)
       /\ nodesSet' = nodesSet \ {n}
       /\ IF stop THEN Become(TakenOff(Home, n)) /\ UNCHANGED node
          ELSE /\ Become(Activated(TakenOff(Home, n), n))
               /\ node' = [node EXCEPT ![n].skip = TRUE, ![n].result = "rFALSE"]
       /\ Answered(n)
  /\ UNCHANGED <<control, flow, resumed>>

\* A callback or a cancellation that is refused; a context that is dropped.
Forget(x) ==
  /\ (Idle \/ InFunction) /\ held[x] # None
  /\ held' = [held EXCEPT ![x] = None]
  /\ UNCHANGED <<node, lists, nodesSet, control, flow, call, resumed>>

-----------------------------------------------------------------------------
(* Manager::Step: the debugger's messages, the activated nodes, the events.*)

BeginStep ==
  /\ Idle
  /\ flow' = [NoFlow EXCEPT !.pc = "debug"]
  /\ UNCHANGED <<node, lists, nodesSet, control, calls, resumed>>

InDebug == At("debug")

BreakableChart(c) == \E n \in NodesOf(c) : DataOf[n] \in Breakable

\* DebugChartHandler and StopChartHandler.
DebugChart(c) ==
  /\ InDebug /\ BreakableChart(c)
  /\ debugged' = IF c \in debugged THEN debugged \ {c} ELSE debugged \cup {c}
  /\ UNCHANGED <<node, lists, nodesSet, running, breakpoints, continueFlag, flow, calls, resumed>>

\* BreakPointHandler, command set; Manager::SetBreakpoint.
SetBreakpoint(d) ==
  /\ InDebug
  /\ d \in Breakable \ breakpoints
  /\ breakpoints' = breakpoints \cup {d}
  /\ UNCHANGED <<node, lists, nodesSet, running, debugged, continueFlag, flow, calls, resumed>>

\* The loops of ContinueBreakpoint walk waiting_nodes_ while Push takes the node
\* they stand on out of it: its link is freed and, one allocation later, part of
\* the active list.  The walk goes on along the old link or ends there.
Walked(S) ==
  LET found == Without(list["waiting"], Node \ S) IN
  IF found = <<>> THEN {<<>>} ELSE {found, <<Head(found)>>}

ActivateAll(s) ==
  /\ Become(PushedAll(Home, "active", s))
  /\ node' = [n \in Node |-> IF n \in Elements(s) THEN [node[n] EXCEPT !.skip = FALSE] ELSE node[n]]
  /\ UNCHANGED calls

\* ContinueHandler; AsyncManager::ContinueBreakpoint(Chart*).
ContinueChart(c) ==
  /\ InDebug
  /\ \E s \in Walked({n \in NodesOf(c) : DataOf[n] \in breakpoints}) :
       /\ s # <<>>
       /\ continueFlag' = continueFlag \cup {DataOf[n] : n \in Elements(s)}
       /\ ActivateAll(s)
  /\ UNCHANGED <<nodesSet, running, debugged, breakpoints, flow, resumed>>

\* BreakPointHandler, command delete; Manager::DeleteBreakpoint and
\* AsyncManager::ContinueBreakpoint(NodeData*).
DeleteBreakpoint(d) ==
  /\ InDebug
  /\ d \in breakpoints
  /\ breakpoints' = breakpoints \ {d}
  /\ continueFlag' = continueFlag \ {d}
  /\ \E s \in Walked({n \in Node : DataOf[n] = d}) : ActivateAll(s)
  /\ UNCHANGED <<nodesSet, running, debugged, flow, resumed>>

EndDebug ==
  /\ At("debug")
  /\ flow' = [flow EXCEPT !.pc = "async"]
  /\ UNCHANGED <<node, lists, nodesSet, control, calls, resumed>>

\* A round of AsyncManager::Step that resumes node n with skip and result, once the
\* nodes of S have been stopped, and takes the nodes of T out of nodes_set_.
Resumes(n, skip, result, S, T) ==
  LET popped == [list |-> [list EXCEPT !["active"] = Tail(@)],
                 container |-> [container EXCEPT ![n] = None]]
      kept == [Stopped(node, S) EXCEPT ![n].skip = skip, ![n].result = result]
  IN  /\ RunFlow(n, TakenOff(popped, n), kept, running, "async")
      /\ resumed' = IF ChartOf[n] \in running THEN <<n, skip, result>> ELSE <<>>
      /\ nodesSet' = nodesSet \ T
      /\ UNCHANGED <<control, calls>>

AsyncStep_LosesResult ==
  /\ At("async") /\ list["active"] # <<>>
  /\ LET n == Head(list["active"]) IN Resumes(n, node[n].skip, "rSTOP", {n}, {n})

AsyncStep_StopsAllFirst ==
  /\ At("async") /\ list["active"] # <<>>
  /\ LET n == Head(list["active"])
     IN  Resumes(n, node[n].skip, node[n].result, Elements(list["active"]), {n})

AsyncStep_ClearsSet ==
  /\ At("async") /\ list["active"] # <<>>
  /\ LET n == Head(list["active"]) IN Resumes(n, node[n].skip, node[n].result, {n}, Node)

\* One round of AsyncManager::Step: skip_ and result_ survive the Stop.
AsyncStep ==
  /\ At("async") /\ list["active"] # <<>>
  /\ LET n == Head(list["active"]) IN Resumes(n, node[n].skip, node[n].result, {n}, {n})

EndAsync_LeavesNodes ==
  /\ At("async")
  /\ flow' = [flow EXCEPT !.pc = "events"]
  /\ \/ list' = [list EXCEPT !["handling"] = list["event"], !["event"] = <<>>]
     \/ UNCHANGED list
  /\ UNCHANGED <<node, container, nodesSet, control, calls, resumed>>

\* The event that nodes wait for here, or the tick, may come in every step.
EndAsync ==
  /\ At("async")
  /\ list["active"] = <<>>
  /\ flow' = [flow EXCEPT !.pc = "events"]
  /\ \/ list' = [list EXCEPT !["handling"] = list["event"], !["event"] = <<>>]
     \/ UNCHANGED list
  /\ UNCHANGED <<node, container, nodesSet, control, calls, resumed>>

\* Manager::_handleEvent.
DispatchNode ==
  /\ At("events")
  /\ list["handling"] # <<>>
  /\ LET n == Head(list["handling"])
         popped == [list |-> [list EXCEPT !["handling"] = Tail(@)],
                    container |-> [container EXCEPT ![n] = None]]
     IN  RunFlow(n, popped, [node EXCEPT ![n].status = "Idle"], running, "events")
  /\ UNCHANGED <<nodesSet, control, calls, resumed>>

EndStep ==
  /\ At("events")
  /\ list["handling"] = <<>>
  /\ flow' = NoFlow
  /\ UNCHANGED <<node, lists, nodesSet, control, calls, resumed>>

-----------------------------------------------------------------------------
(* DfsExecutor::RunFlow.                                                   *)

Top == Last(list["stack"])
InLoop == At("loop") /\ list["stack"] # <<>> /\ flow.chart \in running

\* DfsExecutor::Pop: a node that believes it is elsewhere stays there.
PoppedOff(h) ==
  [list |-> [h.list EXCEPT !["stack"] = Front(@)],
   container |-> [h.container EXCEPT ![Last(h.list["stack"])] = IF @ = "stack" THEN None ELSE @]]

SkipRunning ==
  /\ InLoop
  /\ node[Top].status = "Running"
  /\ Become(PoppedOff(Home))
  /\ flow' = [flow EXCEPT !.hasRunning = TRUE, !.history = @ \cup {Top}]
  /\ UNCHANGED <<node, nodesSet, control, calls, resumed>>

WaitTick ==
  /\ InLoop
  /\ node[Top].status # "Running" /\ node[Top].runFlag
  /\ Become(Pushed(Home, "event", Top))
  /\ node' = [node EXCEPT ![Top].status = "Running"]
  /\ flow' = [flow EXCEPT !.hasRunning = TRUE]
  /\ UNCHANGED <<nodesSet, control, calls, resumed>>

\* What follows Node::Run of n, from lists h and nodes: the node is popped unless
\* it has left the stack, stays Running or ends, and its successors are pushed.
AfterRun(n, h, nodes) ==
  LET pops == h.container[n] = "stack"
      runs == nodes[n].status = "Running"
      next == IF runs \/ nodes[n].result = "rSTOP" THEN <<>> ELSE Child[n][nodes[n].result = "rTRUE"]
  IN  /\ Become(PushedAll(IF pops THEN PoppedOff(h) ELSE h, "stack", Reversed(next)))
      /\ node' = IF runs THEN [nodes EXCEPT ![n].runFlag = FALSE]
                         ELSE [nodes EXCEPT ![n].status = "EndRun"]
      /\ flow' = [flow EXCEPT !.pc = "loop", !.current = None, !.hasRunning = @ \/ runs,
                              !.history = IF pops THEN @ \cup {n} ELSE @]

Visit(n) == InLoop /\ n = Top /\ node[n].status # "Running" /\ ~node[n].runFlag

\* A resumed node: its function is not called.
RunSkipped ==
  \E n \in Node :
    /\ Visit(n) /\ node[n].skip
    /\ AfterRun(n, Home, [node EXCEPT ![n].skip = FALSE])
    /\ UNCHANGED <<nodesSet, control, calls, resumed>>

\* BreakpointFunc::call: the node is held at its breakpoint.
Breaks(n) == DataOf[n] \in breakpoints \ continueFlag /\ ChartOf[n] \in debugged

\* Node::Run sets these before the call.
Entered(n) == [node EXCEPT ![n].runFlag = TRUE, ![n].result = "rFALSE"]

HoldAtBreakpoint ==
  \E n \in Node :
    /\ Visit(n) /\ ~node[n].skip /\ Breaks(n)
    /\ AfterRun(n, Pushed(Home, "waiting", n),
                [Entered(n) EXCEPT ![n].status = "Running", ![n].result = "rTRUE"])
    /\ nodesSet' = nodesSet \cup {n}
    /\ UNCHANGED <<control, calls, resumed>>

CallsFunction_KeepsFlag(n, kind) ==
  /\ Visit(n) /\ ~node[n].skip /\ ~Breaks(n) /\ Kind[n] = kind
  /\ UNCHANGED control
  /\ UNCHANGED resumed

\* The function of n is called: kind says what it does.
CallsFunction(n, kind) ==
  /\ Visit(n) /\ ~node[n].skip /\ ~Breaks(n) /\ Kind[n] = kind
  /\ continueFlag' = continueFlag \ {DataOf[n]}
  /\ UNCHANGED <<running, debugged, breakpoints, resumed>>

CallFunc ==
  \E n \in Node, r \in Results :
    /\ CallsFunction(n, "func")
    /\ AfterRun(n, Home, [Entered(n) EXCEPT ![n].result = r])
    /\ UNCHANGED <<nodesSet, calls>>

\* Manager::CreateAsyncContext; the game gets a context.
CallSuspend ==
  \E n \in Node, r \in Results, x \in Unused :
    /\ CallsFunction(n, "suspend")
    /\ AfterRun(n, Pushed(Home, "waiting", n),
                [Entered(n) EXCEPT ![n].status = "Running", ![n].result = r])
    /\ nodesSet' = nodesSet \cup {n}
    /\ held' = [held EXCEPT ![x] = n] /\ call' = [call EXCEPT ![n] = x]

EntersGame(n) == flow' = [flow EXCEPT !.pc = "called", !.current = n]

\* The game's code runs in the function, with the context of its own call, ...
CallEcho ==
  \E n \in Node, x \in Unused :
    /\ CallsFunction(n, "echo")
    /\ Become(Pushed(Home, "waiting", n))
    /\ node' = [Entered(n) EXCEPT ![n].status = "Running"]
    /\ EntersGame(n)
    /\ nodesSet' = nodesSet \cup {n}
    /\ held' = [held EXCEPT ![x] = n] /\ call' = [call EXCEPT ![n] = x]

\* ... or without one.
CallGame ==
  \E n \in Node :
    /\ CallsFunction(n, "game")
    /\ node' = Entered(n)
    /\ EntersGame(n)
    /\ UNCHANGED <<lists, nodesSet, calls>>

\* What the function returns becomes the result, unless the node was stopped.
Returns(r) ==
  /\ InFunction
  /\ LET n == flow.current
     IN  AfterRun(n, Home, [node EXCEPT ![n].result = IF @ = "rSTOP" THEN @ ELSE r])
  /\ UNCHANGED <<nodesSet, control, calls, resumed>>

\* Manager::WaitEvent.
CallWaitEvent ==
  \E n \in Node :
    /\ CallsFunction(n, "event")
    /\ AfterRun(n, Pushed(Home, "event", n),
                [Entered(n) EXCEPT ![n].status = "Running", ![n].skip = TRUE, ![n].result = "rTRUE"])
    /\ UNCHANGED <<nodesSet, calls>>

\* Manager::StopNode.
CallStop ==
  \E n \in Node :
    /\ CallsFunction(n, "stop")
    /\ LET S == Target[n]
           nodes == Stopped(Entered(n), S)
       IN  AfterRun(n, Removed(Home, S), IF n \in S THEN nodes ELSE [nodes EXCEPT ![n].result = "rTRUE"])
    /\ CallsEnd(Target[n])
    /\ UNCHANGED nodesSet

CheckRunning(nodes, c) == \E n \in NodesOf(c) : nodes[n].status = "Running"

\* The end of RunFlow: nodes that ended are reset, and a chart of which nothing
\* runs returns, that is, stops; the debugger leaves it.
FlowEnd ==
  /\ At("loop")
  /\ list["stack"] = <<>> \/ flow.chart \notin running
  /\ LET c == flow.chart
         ended == {n \in flow.history : node[n].status = "EndRun"}
         restored == Stopped([n \in Node |-> IF n \in flow.history
                                             THEN [node[n] EXCEPT !.runFlag = FALSE] ELSE node[n]],
                             ended)
         over == ~flow.hasRunning /\ ~CheckRunning(restored, c)
         S == IF over /\ c \in running THEN NodesOf(c) ELSE {}
     IN  /\ node' = Stopped(restored, S)
         /\ Become(Removed(Home, ended \cup S))
         /\ running' = IF over THEN running \ {c} ELSE running
         /\ debugged' = IF over THEN debugged \ {c} ELSE debugged
         /\ CallsEnd(ended \cup S)
  /\ flow' = [NoFlow EXCEPT !.pc = flow.caller]
  /\ resumed' = <<>>
  /\ UNCHANGED <<nodesSet, breakpoints, continueFlag>>

-----------------------------------------------------------------------------
Game ==
  \/ \E c \in Chart : Start(c) \/ Stop(c)
  \/ \E x \in Contexts : \/ \E r \in Results : Continue(x, r)
                         \/ \E stop \in Cancels : Cancel(x, stop)
                         \/ Forget(x)
  \/ BeginStep

Debugger ==
  \/ \E c \in Chart : DebugChart(c) \/ ContinueChart(c)
  \/ \E d \in NodeData : SetBreakpoint(d) \/ DeleteBreakpoint(d)

Runtime ==
  \/ EndDebug \/ AsyncStep \/ EndAsync \/ DispatchNode \/ EndStep
  \/ SkipRunning \/ WaitTick \/ RunSkipped \/ HoldAtBreakpoint
  \/ CallFunc \/ CallSuspend \/ CallEcho \/ CallGame \/ (\E r \in Results : Returns(r))
  \/ CallWaitEvent \/ CallStop \/ FlowEnd

Next == Game \/ Debugger \/ Runtime

Spec == Init /\ [][Next]_vars
=============================================================================
