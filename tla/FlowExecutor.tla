---------------------------- MODULE FlowExecutor ----------------------------
(***************************************************************************)
(* The execution core of asyncflow: how Manager::Step, the event           *)
(* dispatcher, the stack of depth-first executors and the charts run the   *)
(* nodes of flowcharts.                                                    *)
(*                                                                         *)
(* The program is single-threaded.  Its difficulty is re-entrancy: the     *)
(* function of a node may start a subchart, return from its chart or       *)
(* trigger an event, and each of those runs another flow on the next       *)
(* executor of the stack before the function returns.  One step of the     *)
(* model is one iteration of a loop of the code or the part of a call that *)
(* runs up to the next nested flow; level[k].pc says where executor k is.  *)
(* Level 0 is the manager itself, between and inside its steps.            *)
(*                                                                         *)
(* An operator named X_Y is X with a plausible mistake Y in it: it is used *)
(* nowhere here, and shows that the properties notice the mistake.         *)
(***************************************************************************)
EXTENDS NodeLists, FiniteSets, Integers

CONSTANTS
  Node, Chart, Agent, Event,   \* all charts' nodes; the charts; the objects; event ids
  START, TICK,                 \* AsyncEventBase::START_EVENT, TICK_EVENT
  None,
  ChartOf,                     \* [Node -> Chart]         Node::chart_
  StartNode,                   \* [Chart -> Node]         Chart::GetNode(0)
  AgentOf,                     \* [Chart -> Agent]        Chart::agent_
  OwnerNode,                   \* [Chart -> Node or None] Chart::owner_node_
  Under,                       \* [Chart -> SUBSET Chart] the charts below a chart, itself included
  Kind,                        \* [Node -> Kinds]         what the node's function calls
  Child,                       \* [Node -> [BOOLEAN -> Seq(Node)]] NodeData::GetSubsequenceIds
  NoLoopCheck,                 \* nodes whose data has no_loop_check
  Target,                      \* [Node -> SUBSET Node]   arguments of stop_node, stop_flow, wait_all
  Names,                       \* [Node -> Agent \X Event] arguments of wait_event, event, trigger
  Results,                     \* results a node function may return
  MAX_STACK_SIZE, MAX_NODES_PER_EXECUTION, MAX_EVENT_FRAME,
  DeferEvent,                  \* Manager::defer_event_
  MaxQueue,                    \* bound: the game calls in while fewer events are queued
  Raised, Triggers,            \* the events the game raises, and triggers
  MayStop,                     \* the charts the game may stop by name
  MayStopAll                   \* the objects of which it may stop every chart

Kinds == {"func", "event", "wait", "sub", "ret", "trigger", "raise",
          "stop", "stopflow", "waitall"}
Result == {"rTRUE", "rFALSE", "rSTOP"}

Level == 0..(MAX_STACK_SIZE - 1)   \* the executors of the stack
Wait == Agent \X Event             \* what a node can wait for
NoEvent == <<None, None>>

ASSUME ConstantsAssumption ==
  /\ ChartOf \in [Node -> Chart] /\ StartNode \in [Chart -> Node]
  /\ AgentOf \in [Chart -> Agent] /\ OwnerNode \in [Chart -> Node \cup {None}]
  /\ \A c \in Chart : ChartOf[StartNode[c]] = c
  /\ Kind \in [Node -> Kinds] /\ Child \in [Node -> [BOOLEAN -> Seq(Node)]]
  /\ NoLoopCheck \subseteq Node /\ Target \in [Node -> SUBSET Node]
  /\ Names \in [Node -> Wait] /\ {START, TICK} \subseteq Event
  /\ None \notin Node \cup Chart \cup Agent
  /\ Results \subseteq Result
  /\ MAX_STACK_SIZE \in Nat \ {0} /\ MAX_NODES_PER_EXECUTION \in Nat
  /\ MAX_EVENT_FRAME \in Nat /\ MaxQueue \in Nat /\ DeferEvent \in BOOLEAN
  /\ Raised \subseteq Wait /\ Triggers \subseteq Wait
  /\ MayStop \subseteq Chart /\ MayStopAll \subseteq Agent

\* Connectors stay within a chart.  The charts below a chart are itself and
\* those below the subcharts of its nodes; a chart is not below its subcharts.
ASSUME ChartsAssumption ==
  /\ \A n \in Node : \A b \in BOOLEAN : \A i \in 1..Len(Child[n][b]) :
       ChartOf[Child[n][b][i]] = ChartOf[n]
  /\ Under \in [Chart -> SUBSET Chart]
  /\ \A c \in Chart : c \in Under[c]
  /\ \A c, d \in Chart : OwnerNode[d] \in Node =>
       /\ ChartOf[OwnerNode[d]] \notin Under[d]
       /\ ChartOf[OwnerNode[d]] \in Under[c] => d \in Under[c]

VARIABLES
  node,         \* class Node and its attacher: a record for each node
  container,    \* Node::container_, see Lists below
  running,      \* the charts whose status is Running
  created,      \* the charts that exist: roots, and subcharts once called
  index,        \* StackExecutor::current_index_
  level,        \* what executor k, and the call its current node makes, is doing
  stack,        \* DfsExecutor::node_list_
  waiting,      \* Agent::waiting_nodes_dict_
  handling,     \* the local list of the nodes a dispatch has still to run
  inQueue, outQueue,          \* EventQueue
  currentEvent, eventFrame    \* Manager::current_event_, current_event_frame_

lists  == <<container, stack, waiting, handling>>
charts == <<running, created>>
queues == <<inQueue, outQueue>>
events == <<currentEvent, eventFrame>>
vars   == <<node, charts, index, level, lists, queues, events>>

NodeState ==
  [status : {"Idle", "Running", "EndRun"}, result : Result,
   runFlag : BOOLEAN, skip : BOOLEAN, isWaitAll : BOOLEAN,
   pre : Node \cup {None},
   timer : {"off", "armed", "due"},  \* NodeTimer: "due" in the step under way
   arrived : SUBSET Node]            \* NodeWaitAll::node_ids_ that are true

FreshNode == [status |-> "Idle", result |-> "rTRUE", runFlag |-> FALSE, skip |-> FALSE,
              isWaitAll |-> FALSE, pre |-> None, timer |-> "off", arrived |-> {}]

\* returning: the chart whose Chart::Return is under way; caller: where that
\* return or the dispatch goes back to; event, prevEvent: the event dispatched
\* here, and the manager's current event before it.
FreshLevel == [pc |-> "idle", chart |-> None, current |-> None, history |-> {},
               hasRunning |-> FALSE, count |-> 0, returning |-> None, caller |-> "idle",
               event |-> NoEvent, prevEvent |-> NoEvent]

Root == {c \in Chart : OwnerNode[c] = None}

Init ==
  /\ node = [n \in Node |-> FreshNode]
  /\ container = [n \in Node |-> 0]
  /\ running = {} /\ created = Root
  /\ index = 0
  /\ level = [k \in Level |-> FreshLevel]
  /\ stack = [k \in Level |-> <<>>]
  /\ waiting = [w \in Wait |-> <<>>]
  /\ handling = [k \in Level |-> <<>>]
  /\ inQueue = <<>> /\ outQueue = <<>>
  /\ currentEvent = NoEvent /\ eventFrame = 0

Status(n)    == node[n].status
IsRunning(c) == c \in running
At(p)        == level[index].pc = p

-----------------------------------------------------------------------------
(* Lists.  container[n] is 0 for no container, EventList for an intrusive  *)
(* event list and k > 0 for the executor of level k.  Which event list it  *)
(* is does not matter to Remove: a link is unlinked by its neighbours      *)
(* (util/list.h:88), also after the list has been moved to a dispatch.     *)

EventList == -1

InEventList_KeepsLink(S) == {}

InEventList(S) == {n \in S : container[n] = EventList}
InStack(S, k)  == {n \in S : container[n] = k}

WaitingWithout(S)  == [w \in Wait |-> Without(waiting[w], InEventList(S))]
HandlingWithout(S) == [k \in Level |-> Without(handling[k], InEventList(S))]
StackWithout(S)    == [k \in Level |-> Without(stack[k], InStack(S, k))]
Contain(S, v)      == [n \in Node |-> IF n \in S THEN v ELSE container[n]]

\* The nodes of S leave their containers.
Unlink(S) ==
  /\ waiting' = WaitingWithout(S) /\ handling' = HandlingWithout(S)
  /\ stack' = StackWithout(S) /\ container' = Contain(S, 0)

\* They do; then n, whatever holds it, becomes the top of the stack of executor
\* k, which RunFlow has cleared and ContinueFlow has not.
UnlinkAndPush(S, n, k, clear) ==
  LET T == S \cup {n} IN
  /\ waiting' = WaitingWithout(T) /\ handling' = HandlingWithout(T)
  /\ stack' = [StackWithout(T) EXCEPT ![k] = Append(IF clear THEN <<>> ELSE @, n)]
  /\ container' = [Contain(S, 0) EXCEPT ![n] = k]

\* They do; then n, whatever holds it, waits for w (NodeLinkedList::Push).
UnlinkAndWait(S, n, w) ==
  LET T == S \cup {n} IN
  /\ waiting' = [WaitingWithout(T) EXCEPT ![w] = Append(@, n)]
  /\ handling' = HandlingWithout(T) /\ stack' = StackWithout(T)
  /\ container' = [Contain(S, 0) EXCEPT ![n] = EventList]

-----------------------------------------------------------------------------
(* Node::Stop and Chart::Stop.  Stopping a node stops what is attached to  *)
(* it: its timer, its subchart with all its nodes, its WaitAll marks.      *)

ChartNodes(C)  == {n \in Node : ChartOf[n] \in C}
ChartTree_OnlySelf(c) == {c}

ChartTree(c)   == created \cap Under[c]
SubchartsOf(S) == UNION {ChartTree(c) : c \in {d \in Chart : OwnerNode[d] \in S}}
WithSubcharts(S) == S \cup ChartNodes(SubchartsOf(S))

StoppedNodes_KeepsTimer(nodes, S) ==
  [n \in Node |-> IF n \in S
     THEN [nodes[n] EXCEPT !.status = "Idle", !.result = "rSTOP", !.runFlag = FALSE,
                           !.skip = FALSE, !.arrived = {}]
     ELSE nodes[n]]

StoppedNodes_KeepsStatus(nodes, S) ==
  [n \in Node |-> IF n \in S
     THEN [nodes[n] EXCEPT !.result = "rSTOP", !.runFlag = FALSE, !.skip = FALSE,
                           !.timer = "off", !.arrived = {}]
     ELSE nodes[n]]

\* The nodes after those of S, which WithSubcharts has closed, are stopped.
StoppedNodes(nodes, S) ==
  [n \in Node |-> IF n \in S
     THEN [nodes[n] EXCEPT !.status = "Idle", !.result = "rSTOP", !.runFlag = FALSE,
                           !.skip = FALSE, !.timer = "off", !.arrived = {}]
     ELSE nodes[n]]

StopNodes(S) ==
  /\ node' = StoppedNodes(node, WithSubcharts(S))
  /\ Unlink(WithSubcharts(S))
  /\ running' = running \ SubchartsOf(S)

StopChart_KeepsRunning(c) ==
  /\ node' = StoppedNodes(node, ChartNodes(ChartTree(c)))
  /\ Unlink(ChartNodes(ChartTree(c)))
  /\ running' = running \ (ChartTree(c) \ {c})

StopChart(c) ==
  /\ node' = StoppedNodes(node, ChartNodes(ChartTree(c)))
  /\ Unlink(ChartNodes(ChartTree(c)))
  /\ running' = running \ ChartTree(c)

-----------------------------------------------------------------------------
(* EventQueue::AddEvent.                                                   *)

Enqueue_DropsWhenBusy(ev) == inQueue' = IF inQueue = <<>> THEN <<ev>> ELSE inQueue

Enqueue(ev) == inQueue' = Append(inQueue, ev)

-----------------------------------------------------------------------------
(* Running a flow on the next executor (StackExecutor::RunFlow).           *)

StackFull_TooLate  == index + 1 > MAX_STACK_SIZE
StackFull_TooEarly == index + 2 >= MAX_STACK_SIZE

StackFull == index + 1 >= MAX_STACK_SIZE

\* The level that index is goes on at p.
Goto(p) == level' = [level EXCEPT ![index].pc = p] /\ UNCHANGED index

\* It calls RunFlow(n), which is going to return to p.
CallFlow(n, p) ==
  /\ index' = index + 1
  /\ level' = [level EXCEPT ![index].pc = p, ![index + 1].pc = "loop",
                            ![index + 1].chart = ChartOf[n]]

\* Agent::StartChart of chart c, which has no start function and whose caller has left the nodes as `nodes':
\* with sync and room on the stack its flow runs now, otherwise it waits for a
\* START event that is queued.
StartChart(c, sync, nodes, p) ==
  LET s == StartNode[c]
      now == sync /\ ~StackFull
  IN  /\ running' = running \cup {c}
      /\ node' = [nodes EXCEPT ![s].skip = TRUE, ![s].result = "rTRUE",
                               ![s].status = IF now THEN "Idle" ELSE "Running"]
      /\ IF now
         THEN /\ UnlinkAndPush({}, s, index + 1, TRUE)
              /\ CallFlow(s, p)
              /\ UNCHANGED inQueue
         ELSE /\ UnlinkAndWait({}, s, <<AgentOf[c], START>>)
              /\ Enqueue(<<AgentOf[c], START>>)
              /\ Goto(p)

-----------------------------------------------------------------------------
(* Dispatching an event: the nodes that wait for it move to a local list   *)
(* before the first of them runs (Manager::HandleEvent, TriggerEvent).     *)

StartDispatch_ForgetsEvent(ev, after, p) ==
  /\ handling' = [handling EXCEPT ![index] = waiting[ev]]
  /\ waiting' = [waiting EXCEPT ![ev] = <<>>]
  /\ currentEvent' = ev
  /\ level' = [level EXCEPT ![index].pc = "dispatch", ![index].caller = p,
                            ![index].event = ev, ![index].prevEvent = NoEvent]
  /\ UNCHANGED index

\* `after' is what the manager's current event becomes when the dispatch ends,
\* p where this level then goes on.
StartDispatch(ev, after, p) ==
  /\ handling' = [handling EXCEPT ![index] = waiting[ev]]
  /\ waiting' = [waiting EXCEPT ![ev] = <<>>]
  /\ currentEvent' = ev
  /\ level' = [level EXCEPT ![index].pc = "dispatch", ![index].caller = p,
                            ![index].event = ev, ![index].prevEvent = after]
  /\ UNCHANGED index

\* Manager::Event with trigger: nobody waits, the event is forgotten; too many
\* nested dispatches, it is queued.
TriggerEvent(ev, p) ==
  /\ \/ /\ waiting[ev] = <<>>
        /\ Goto(p)
        /\ UNCHANGED <<waiting, handling, inQueue, events>>
     \/ /\ waiting[ev] # <<>> /\ eventFrame >= MAX_EVENT_FRAME
        /\ Enqueue(ev)
        /\ Goto(p)
        /\ UNCHANGED <<waiting, handling, events>>
     \/ /\ waiting[ev] # <<>> /\ eventFrame < MAX_EVENT_FRAME
        /\ StartDispatch(ev, currentEvent, p)
        /\ eventFrame' = eventFrame + 1
        /\ UNCHANGED inQueue
  /\ UNCHANGED <<node, charts, container, stack, outQueue>>

DispatchNode_RefusesReentry ==
  /\ At("dispatch")
  /\ handling[index] # <<>>
  /\ LET n == Head(handling[index]) IN
       /\ node' = [node EXCEPT ![n].status = "Idle"]
       /\ IF ~StackFull /\ IsRunning(ChartOf[n]) /\ \A k \in Level : level[k].chart # ChartOf[n]
          THEN UnlinkAndPush({}, n, index + 1, TRUE) /\ CallFlow(n, "dispatch")
          ELSE Unlink({n}) /\ Goto("dispatch")
  /\ UNCHANGED <<charts, queues, events>>

\* Manager::_handleEvent: the first node left leaves the list and its flow is
\* run.  A flow that finds no room on the stack, or its chart stopped, is given
\* up: what RunFlow returns is ignored.
DispatchNode ==
  /\ At("dispatch")
  /\ handling[index] # <<>>
  /\ LET n == Head(handling[index]) IN
       /\ node' = [node EXCEPT ![n].status = "Idle"]
       /\ IF ~StackFull /\ IsRunning(ChartOf[n])
          THEN UnlinkAndPush({}, n, index + 1, TRUE) /\ CallFlow(n, "dispatch")
          ELSE Unlink({n}) /\ Goto("dispatch")
  /\ UNCHANGED <<charts, queues, events>>

DispatchEnd ==
  /\ At("dispatch")
  /\ handling[index] = <<>>
  /\ currentEvent' = level[index].prevEvent
  /\ eventFrame' = IF level[index].caller = "events" THEN eventFrame ELSE eventFrame - 1
  /\ level' = [level EXCEPT ![index].pc = level[index].caller, ![index].caller = "idle",
                            ![index].event = NoEvent, ![index].prevEvent = NoEvent]
  /\ UNCHANGED <<node, charts, index, lists, queues>>

-----------------------------------------------------------------------------
(* What the game calls between steps.                                      *)

AtRest == index = 0 /\ At("idle")
CallsIn == AtRest /\ Len(inQueue) < MaxQueue

\* asyncflow.start(object)
Start(c) ==
  /\ CallsIn
  /\ c \in Root /\ ~IsRunning(c)
  /\ StartChart(c, ~DeferEvent, node, "idle")
  /\ UNCHANGED <<created, outQueue, events>>

\* asyncflow.stop(object, names): Agent::StopChart
Stop(c) ==
  /\ AtRest
  /\ c \in Root
  /\ StopChart(c)
  /\ UNCHANGED <<created, index, level, queues, events>>

\* The charts an object hosts, the subcharts that nodes of others' charts have called on it
\* included, and those below them.
HostedTrees(a) == UNION {ChartTree(c) : c \in {d \in created : AgentOf[d] = a}}

\* asyncflow.stop(object): Agent::Stop
StopObject(a) ==
  /\ AtRest
  /\ node' = StoppedNodes(node, ChartNodes(HostedTrees(a)))
  /\ Unlink(ChartNodes(HostedTrees(a)))
  /\ running' = running \ HostedTrees(a)
  /\ UNCHANGED <<created, index, level, queues, events>>

\* asyncflow.event(object, id)
Raise(w) ==
  /\ CallsIn
  /\ Enqueue(w)
  /\ UNCHANGED <<node, charts, index, level, lists, outQueue, events>>

\* asyncflow.trigger(object, id)
Trigger(w) == CallsIn /\ TriggerEvent(w, "idle")

-----------------------------------------------------------------------------
(* Manager::Step: timers, then the events.                                 *)

Armed == {n \in Node : node[n].timer = "armed"}

\* How far the timing wheel advances decides which timers are due.
BeginStep(due) ==
  /\ AtRest
  /\ due \subseteq Armed
  /\ node' = [n \in Node |-> IF n \in due THEN [node[n] EXCEPT !.timer = "due"] ELSE node[n]]
  /\ Goto("timers")
  /\ UNCHANGED <<charts, lists, queues, events>>

\* NodeTimer::execute, which ignores what RunFlow returns.
FireNodeTimer(n) ==
  /\ index = 0 /\ At("timers")
  /\ node[n].timer = "due"
  /\ LET now == ~StackFull /\ IsRunning(ChartOf[n]) IN
       /\ node' = [node EXCEPT ![n].timer = "off", ![n].result = "rTRUE",
                               ![n].status = IF now THEN "Idle" ELSE @]
       /\ IF now THEN UnlinkAndPush({}, n, 1, TRUE) /\ CallFlow(n, "timers")
                 ELSE Goto("timers") /\ UNCHANGED lists
  /\ UNCHANGED <<charts, queues, events>>

\* AgentTimer::execute; bound: one tick of an agent in a step.
FireAgentTimer(a) ==
  /\ index = 0 /\ At("timers")
  /\ <<a, TICK>> \notin Elements(inQueue)
  /\ Enqueue(<<a, TICK>>)
  /\ UNCHANGED <<node, charts, index, level, lists, outQueue, events>>

\* The due timers have fired: EventQueue::Switch.
SwitchQueues ==
  /\ index = 0 /\ At("timers")
  /\ \A n \in Node : node[n].timer # "due"
  /\ inQueue' = outQueue /\ outQueue' = inQueue
  /\ Goto("events")
  /\ UNCHANGED <<node, charts, lists, events>>

\* NextEvent and Manager::HandleEvent.
HandleEvent ==
  /\ index = 0 /\ At("events")
  /\ outQueue # <<>>
  /\ outQueue' = Tail(outQueue)
  /\ LET ev == Head(outQueue) IN
       IF waiting[ev] = <<>>
       THEN UNCHANGED <<index, level, waiting, handling, currentEvent>>
       ELSE StartDispatch(ev, NoEvent, "events")
  /\ UNCHANGED <<node, charts, container, stack, inQueue, eventFrame>>

EndStep ==
  /\ index = 0 /\ At("events")
  /\ outQueue = <<>>
  /\ Goto("idle")
  /\ UNCHANGED <<node, charts, lists, queues, events>>

-----------------------------------------------------------------------------
(* DfsExecutor::RunFlow on the executor of level index.                    *)

Top == Last(stack[index])

LoopExit ==
  /\ At("loop")
  /\ stack[index] = <<>> \/ ~IsRunning(level[index].chart)
  /\ Goto("restore")
  /\ UNCHANGED <<node, charts, lists, queues, events>>

InLoop ==
  /\ At("loop")
  /\ stack[index] # <<>>
  /\ IsRunning(level[index].chart)

\* The flow has used up its nodes: what is left on the stack is given up.
Truncate ==
  /\ InLoop
  /\ level[index].count = MAX_NODES_PER_EXECUTION
  /\ LET S == Elements(stack[index]) IN
       /\ node' = [n \in Node |-> IF n \in S THEN [node[n] EXCEPT !.status = "EndRun"]
                                             ELSE node[n]]
       /\ level' = [level EXCEPT ![index].pc = "restore", ![index].history = @ \cup S]
       /\ container' = Contain(InStack(S, index), 0)
  /\ stack' = [stack EXCEPT ![index] = <<>>]
  /\ UNCHANGED <<charts, index, waiting, handling, queues, events>>

Visit(n) ==
  /\ InLoop
  /\ level[index].count < MAX_NODES_PER_EXECUTION
  /\ n = Top

\* A node that runs is left alone; a WaitAll node is not.
Skips(n) == Status(n) = "Running" /\ ~node[n].isWaitAll

SkipRunning ==
  \E n \in Node :
    /\ Visit(n) /\ Skips(n)
    /\ level' = [level EXCEPT ![index].count = @ + 1, ![index].hasRunning = TRUE,
                              ![index].history = @ \cup {n}]
    /\ stack' = [stack EXCEPT ![index] = Front(@)]
    /\ container' = Contain(InStack({n}, index), 0)
    /\ UNCHANGED <<node, charts, index, waiting, handling, queues, events>>

\* A node that has run in this flow already is put off to the next tick.
Loops(n) == node[n].runFlag /\ n \notin NoLoopCheck

WaitTick ==
  \E n \in Node :
    /\ Visit(n) /\ ~Skips(n) /\ Loops(n)
    /\ UnlinkAndWait({}, n, <<AgentOf[level[index].chart], TICK>>)
    /\ node' = [node EXCEPT ![n].status = "Running"]
    /\ level' = [level EXCEPT ![index].count = @ + 1, ![index].hasRunning = TRUE]
    /\ UNCHANGED <<charts, index, queues, events>>

\* Node::Run: the function is called, or skipped once by a resumed node.
RunNode ==
  \E n \in Node :
    /\ Visit(n) /\ ~Skips(n) /\ ~Loops(n)
    /\ level' = [level EXCEPT ![index].count = @ + 1, ![index].current = n,
                              ![index].pc = IF node[n].skip THEN "ran" ELSE "call"]
    /\ node' = IF node[n].skip THEN [node EXCEPT ![n].skip = FALSE]
               ELSE [node EXCEPT ![n].runFlag = TRUE, ![n].result = "rFALSE"]
    /\ UNCHANGED <<charts, index, lists, queues, events>>

\* What a function returns: the runtime's own functions say whether they have
\* done what they were called for.
ReturnValues(n) ==
  IF Kind[n] = "func" THEN Results
  ELSE IF Kind[n] = "waitall" /\ Status(n) = "Running" THEN {"rFALSE"}
  ELSE {"rTRUE"}

\* The function has returned r, which a stopped node keeps to itself.
CallEnd(r) ==
  /\ index > 0 /\ At("callEnd")
  /\ LET n == level[index].current IN
       /\ r \in ReturnValues(n)
       /\ node' = [node EXCEPT ![n].result = IF @ = "rSTOP" THEN @ ELSE r]
  /\ Goto("ran")
  /\ UNCHANGED <<charts, lists, queues, events>>

\* The node is popped unless it has been stopped or waits.  It stays Running,
\* or ends and its successors go on the stack, the first of them on top; one that
\* is connected twice is pushed twice, and the second push takes it out again.
Successors(n) ==
  IF Status(n) = "Running" \/ node[n].result = "rSTOP" THEN <<>>
  ELSE Child[n][node[n].result = "rTRUE"]

AfterRun ==
  /\ index > 0 /\ At("ran")
  /\ LET n == level[index].current
         runs == Status(n) = "Running"
         pops == container[n] = index
         P == IF pops THEN {Top} ELSE {}
         next == Successors(n)
         E == Elements(next)
         rest == IF pops THEN Front(stack[index]) ELSE stack[index]
     IN  /\ level' = [level EXCEPT ![index].pc = "loop", ![index].history = @ \cup P,
                                   ![index].hasRunning = @ \/ runs]
         /\ node' = [m \in Node |->
              [node[m] EXCEPT !.status = IF m = n /\ ~runs THEN "EndRun" ELSE @,
                              !.runFlag = IF m = n /\ runs THEN FALSE ELSE @,
                              !.pre = IF m \in E THEN n ELSE @]]
         /\ waiting' = WaitingWithout(E) /\ handling' = HandlingWithout(E)
         /\ stack' = [StackWithout(E) EXCEPT ![index] = Without(rest, E) \o Reversed(Firsts(next))]
         /\ container' = [m \in Node |-> IF m \in E THEN index
                                         ELSE IF m \in InStack(P, index) THEN 0
                                         ELSE container[m]]
  /\ UNCHANGED <<charts, index, queues, events>>

Unflagged_Never(h) == node

Unflagged(h) == [n \in Node |-> IF n \in h THEN [node[n] EXCEPT !.runFlag = FALSE] ELSE node[n]]

CheckRunning_OnlyThisFlow(c, S) == FALSE

\* Chart::CheckRunning, once the nodes of S have been stopped.
CheckRunning(c, S) == \E n \in ChartNodes({c}) \ S : Status(n) = "Running"

\* The nodes that have ended are reset; then, if nothing of the chart runs and
\* it has not returned by itself, it returns now.
Restore ==
  /\ At("restore")
  /\ LET h == level[index].history
         c == level[index].chart
         ended == {n \in h : Status(n) = "EndRun"}
         S == WithSubcharts(ended)
         finished == /\ ~level[index].hasRunning
                     /\ ~CheckRunning(c, S)
                     /\ IsRunning(c)
     IN  /\ node' = StoppedNodes(Unflagged(h), S)
         /\ Unlink(S)
         /\ running' = running \ SubchartsOf(ended)
         /\ level' = [level EXCEPT ![index].history = {},
                                   ![index].pc = IF finished THEN "return" ELSE "end",
                                   ![index].returning = IF finished THEN c ELSE None,
                                   ![index].caller = IF finished THEN "end" ELSE "idle"]
  /\ UNCHANGED <<created, index, queues, events>>

\* RunFlow returns; StackExecutor goes back to the executor below.
FlowEnd ==
  /\ index > 0 /\ At("end")
  /\ index' = index - 1
  /\ level' = [level EXCEPT ![index] = FreshLevel]
  /\ UNCHANGED <<node, charts, lists, queues, events>>

-----------------------------------------------------------------------------
(* Chart::Return: the owner node of a subchart is resumed in a flow of its *)
(* own, or by the flow that is calling it, and the chart stops after that. *)

ReturnOfRoot ==
  /\ At("return")
  /\ level[index].returning \in Root
  /\ Goto("returned")
  /\ UNCHANGED <<node, charts, lists, queues, events>>

CalledBelow_SameChart(o) == level[index - 1].chart = ChartOf[o]

\* The flow below this one is calling o (StackExecutor::ContinueFlow).
CalledBelow(o) == level[index - 1].current = o

ReturnToOwner(r) ==
  /\ index > 0 /\ At("return")
  /\ level[index].returning \notin Root
  /\ r \in IF level[index].caller = "end" THEN {"rTRUE"} ELSE {"rTRUE", "rFALSE"}
  /\ LET o == OwnerNode[level[index].returning]
         S == WithSubcharts({o})
         home == <<AgentOf[ChartOf[o]], START>>
         queued == ~CalledBelow(o) /\ StackFull
     IN  /\ node' = [StoppedNodes(node, S) EXCEPT ![o].result = r, ![o].skip = TRUE,
                                                  ![o].runFlag = CalledBelow(o),
                                                  ![o].status = IF queued THEN "Running" ELSE @]
         /\ running' = running \ SubchartsOf({o})
         /\ \/ CalledBelow(o) /\ UnlinkAndPush(S, o, index - 1, FALSE) /\ Goto("returned")
            \/ queued /\ UnlinkAndWait(S, o, home) /\ Goto("returned")
            \/ /\ ~CalledBelow(o) /\ ~StackFull
               /\ IF IsRunning(ChartOf[o])
                  THEN UnlinkAndPush(S, o, index + 1, TRUE) /\ CallFlow(o, "returned")
                  ELSE Unlink(S) /\ Goto("returned")
         /\ outQueue' = IF queued THEN <<home>> \o outQueue ELSE outQueue
  /\ UNCHANGED <<created, inQueue, events>>

\* The Stop that ends Chart::Return, whatever has happened to the chart since.
ReturnStop ==
  /\ At("returned")
  /\ StopChart(level[index].returning)
  /\ level' = [level EXCEPT ![index].pc = level[index].caller, ![index].caller = "idle",
                            ![index].returning = None]
  /\ UNCHANGED <<created, index, queues, events>>

-----------------------------------------------------------------------------
(* What the function of a node calls.  The node is the current node of the *)
(* executor of level index.                                                *)

Calls(n, kind) == index > 0 /\ At("call") /\ n = level[index].current /\ Kind[n] = kind

\* A function that calls nothing of the runtime.
CallFunc ==
  /\ \E n \in Node : Calls(n, "func")
  /\ Goto("callEnd")
  /\ UNCHANGED <<node, charts, lists, queues, events>>

\* Manager::Wait.
CallWait ==
  \E n \in Node :
    /\ Calls(n, "wait")
    /\ node' = [node EXCEPT ![n].timer = "armed", ![n].skip = TRUE, ![n].result = "rTRUE",
                            ![n].status = "Running"]
    /\ Goto("callEnd")
    /\ UNCHANGED <<charts, lists, queues, events>>

\* Manager::WaitEvent.
CallWaitEvent ==
  \E n \in Node :
    /\ Calls(n, "event")
    /\ node' = [node EXCEPT ![n].skip = TRUE, ![n].result = "rTRUE", ![n].status = "Running"]
    /\ UnlinkAndWait({}, n, Names[n])
    /\ Goto("callEnd")
    /\ UNCHANGED <<charts, queues, events>>

\* Manager::Subchart, which creates the subchart at the first call.
CallSubchart ==
  \E n \in Node, c \in Chart :
    /\ Calls(n, "sub") /\ OwnerNode[c] = n
    /\ created' = created \cup {c}
    /\ LET nodes == [node EXCEPT ![n].status = "Running"] IN
       IF IsRunning(c)
       THEN node' = nodes /\ Goto("callEnd") /\ UNCHANGED <<running, lists, inQueue>>
       ELSE StartChart(c, TRUE, nodes, "callEnd")
    /\ UNCHANGED <<outQueue, events>>

\* asyncflow.ret: PyChart::Return and LuaChart::Return do nothing for a chart
\* that has stopped.
CallReturn ==
  \E n \in Node :
    /\ Calls(n, "ret")
    /\ level' = IF IsRunning(ChartOf[n])
                THEN [level EXCEPT ![index].pc = "return", ![index].returning = ChartOf[n],
                                   ![index].caller = "callEnd"]
                ELSE [level EXCEPT ![index].pc = "callEnd"]
    /\ UNCHANGED <<node, charts, index, lists, queues, events>>

\* asyncflow.trigger in a node: the event is handled before it returns.
CallTrigger == \E n \in Node : Calls(n, "trigger") /\ TriggerEvent(Names[n], "callEnd")

CallRaise_AtOnce ==
  \E n \in Node :
    /\ Calls(n, "raise")
    /\ outQueue' = <<Names[n]>> \o outQueue
    /\ Goto("callEnd")
    /\ UNCHANGED <<node, charts, lists, inQueue, events>>

\* asyncflow.event in a node.
CallRaise ==
  \E n \in Node :
    /\ Calls(n, "raise")
    /\ Enqueue(Names[n])
    /\ Goto("callEnd")
    /\ UNCHANGED <<node, charts, lists, outQueue, events>>

\* The nodes StopFlow finds from those of S along the connectors.
After(S) == S \cup UNION {Elements(Child[n][b]) : n \in S, b \in BOOLEAN}
FlowFrom(S) ==
  LET reach[i \in Nat] == IF i = 0 THEN S ELSE After(reach[i - 1])
  IN  reach[Cardinality(Node)]

\* Manager::StopNode and Manager::StopFlow.
CallStop ==
  /\ \E n \in Node :
       \/ Calls(n, "stop") /\ StopNodes(Target[n])
       \/ Calls(n, "stopflow") /\ StopNodes(FlowFrom(Target[n]))
  /\ Goto("callEnd")
  /\ UNCHANGED <<created, queues, events>>

\* Manager::WaitAll and NodeWaitAll::Run.
CallWaitAll ==
  \E n \in Node :
    /\ Calls(n, "waitall")
    /\ LET seen == (node[n].arrived \cup {node[n].pre}) \cap Target[n]
           all == node[n].pre \in Target[n] /\ seen = Target[n]
       IN  node' = [node EXCEPT ![n].isWaitAll = TRUE,
                                ![n].arrived = IF all THEN {} ELSE seen,
                                ![n].status = IF all THEN "EndRun" ELSE "Running",
                                ![n].result = IF all THEN "rTRUE" ELSE @]
    /\ Goto("callEnd")
    /\ UNCHANGED <<charts, lists, queues, events>>

-----------------------------------------------------------------------------
Game ==
  \/ \E c \in Chart : Start(c)
  \/ \E c \in MayStop : Stop(c)
  \/ \E a \in MayStopAll : StopObject(a)
  \/ \E w \in Raised : Raise(w)
  \/ \E w \in Triggers : Trigger(w)
  \/ \E due \in SUBSET Armed : BeginStep(due)

\* What the runtime does by itself once a step or a call has begun.
Timers == (\E n \in Node : FireNodeTimer(n)) \/ (\E a \in Agent : FireAgentTimer(a))

Events == SwitchQueues \/ HandleEvent \/ EndStep \/ DispatchNode \/ DispatchEnd

Executor ==
  \/ LoopExit \/ Truncate \/ SkipRunning \/ WaitTick \/ RunNode
  \/ (\E r \in Result : CallEnd(r))
  \/ AfterRun \/ Restore \/ FlowEnd

Returning == (\E r \in Result : ReturnToOwner(r)) \/ ReturnOfRoot \/ ReturnStop

Calling ==
  \/ CallFunc \/ CallWait \/ CallWaitEvent \/ CallSubchart \/ CallReturn
  \/ CallTrigger \/ CallRaise \/ CallStop \/ CallWaitAll

Runtime == Timers \/ Events \/ Executor \/ Returning \/ Calling

Next == Game \/ Runtime

Spec == Init /\ [][Next]_vars
=============================================================================
