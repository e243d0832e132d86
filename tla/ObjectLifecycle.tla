--------------------------- MODULE ObjectLifecycle ---------------------------
(***************************************************************************)
(* Objects that are registered, unregistered and destroyed while flows of  *)
(* their own charts and of others run.                                     *)
(*                                                                         *)
(* An agent is created when a game object is registered, unregistered from *)
(* the maps at once, and deleted at the end of a step.  Its charts may own *)
(* subcharts that live on other agents, and its nodes wait in the lists of *)
(* other agents, so that a deletion reaches far.  A chart has one node     *)
(* here, and an object one kind of event: what flows do in detail is       *)
(* FlowExecutor's.  X_Y is X with the mistake Y in it.                     *)
(***************************************************************************)
EXTENDS NodeLists, FiniteSets, Integers

CONSTANTS
  Object,
  MaxId,      \* bound: agents that are created
  MaxCalls,   \* bound: calls of the runtime a function and the flows in it make
  MaxEvents,  \* bound: events queued by the game and by functions
  MaxTicks,   \* bound: timers that come due in a step
  InUseToo    \* the game stops and removes charts that are in use, though not its own

Id == 1..MaxId
\* The agent a chart lives on, and the agent whose attached chart owns it, or 0.
Chart == Id \X (Id \cup {0})
Host(c) == c[1]
Owner(c) == c[2]
Attached(a) == <<a, 0>>

ASSUME LifecycleAssumption ==
  /\ MaxId \in Nat /\ MaxCalls \in Nat /\ MaxEvents \in Nat /\ MaxTicks \in Nat /\ InUseToo \in BOOLEAN

VARIABLES
  registered,   \* agent_map_ and gameobject_map_: the agent of an object, or 0
  status,       \* of each agent
  lastId,       \* AGENT_ID_COUNT
  armed,        \* the agents whose timer is in the timer wheel
  chart,        \* of each chart: it does not exist, or its status
  running,      \* the charts whose node is Running
  container,    \* the agent in whose waiting list a chart's node is, or 0
  waiting,      \* Agent::waiting_nodes_dict_
  dying,        \* DyingAgents: destroying_agents_, next_destroying_agents_
  stepping,     \* Manager::Step is under way
  inStep,       \* Manager::in_step_
  inQueue, outQueue,   \* EventQueue: the agent ids in the events
  frames        \* the dispatches, node functions and returns under way

agents == <<registered, status, lastId, armed, dying>>
nodes  == <<chart, running, container, waiting>>
queues == <<inQueue, outQueue>>
step   == <<stepping, inStep>>
vars   == <<agents, nodes, step, queues, frames>>

Init ==
  /\ registered = [o \in Object |-> 0]
  /\ status = [a \in Id |-> "none"]
  /\ lastId = 0 /\ armed = {}
  /\ chart = [c \in Chart |-> "none"]
  /\ running = {}
  /\ container = [c \in Chart |-> 0] /\ waiting = [a \in Id |-> <<>>]
  /\ dying = [now |-> {}, next |-> {}]
  /\ stepping = FALSE
  /\ inStep \in BOOLEAN      \* no constructor sets it
  /\ inQueue = <<>> /\ outQueue = <<>>
  /\ frames = <<>>

Deleted == <<0, 0>>

\* A frame is a dispatch with the nodes it has still to run, the function of a
\* chart's node, or the return of a subchart below the flow of the owner it has
\* resumed; left bounds the calls in it.
Dispatch(list, left) == [kind |-> "dispatch", list |-> list, chart |-> Deleted, left |-> left]
Function(c, left) == [kind |-> "function", list |-> <<>>, chart |-> c, left |-> left]
\* The function of the node has made its last call: it has called a subchart.
Called(f) == [f EXCEPT !.kind = "called"]
Return(c) == [kind |-> "return", list |-> <<>>, chart |-> c, left |-> 0]

Top == Last(frames)
Push(f) == frames' = Append(frames, f)
Replace(f) == frames' = Append(Front(frames), f)

AtRest == frames = <<>> /\ ~stepping
InFunction == frames # <<>> /\ Top.kind = "function"

\* The game calls between steps, or the function of a node does.
CanCall == IF frames = <<>> THEN AtRest ELSE InFunction /\ Top.left > 0
Left == IF frames = <<>> THEN MaxCalls ELSE Top.left - 1
Spent == IF frames = <<>> THEN frames ELSE Append(Front(frames), [Top EXCEPT !.left = @ - 1])
Calls == CanCall /\ frames' = Spent

-----------------------------------------------------------------------------
(* Charts and lists.                                                       *)

Charts(A) == {c \in Chart : chart[c] # "none" /\ Host(c) \in A}
\* The charts of C and the subcharts of their nodes: attachers.
WithSubcharts(C) == C \cup {c \in Chart : chart[c] # "none" /\ Owner(c) # 0 /\ Attached(Owner(c)) \in C}

\* The nodes of C leave the lists they are linked into, also those a dispatch has taken.
Unlinked(C) == [a \in Id |-> Without(waiting[a], C)]
UnlinkedFrames_ForgetsTaken(f, C) == f
UnlinkedFrames(f, C) == [i \in DOMAIN f |-> [f[i] EXCEPT !.list = Without(@, C)]]
Homeless(C) == [c \in Chart |-> IF c \in C THEN 0 ELSE container[c]]
\* The nodes of C do not run any more.
Rest(C) == running' = running \ C
\* A return goes on with its chart, a pointer, although that has been deleted.
Dangling(f, C) ==
  [i \in DOMAIN f |-> IF f[i].kind = "return" /\ f[i].chart \in C THEN Return(Deleted) ELSE f[i]]

\* Chart::Stop of the charts of C, over the frames f.
StopCharts(C, f) ==
  LET S == WithSubcharts(C) IN
  /\ chart' = [c \in Chart |-> IF c \in S THEN "idle" ELSE chart[c]]
  /\ Rest(S)
  /\ waiting' = Unlinked(S) /\ container' = Homeless(S)
  /\ frames' = UnlinkedFrames(f, S)

\* ~Chart of the charts of C: their nodes are stopped and their subcharts deleted.
DeleteCharts(C, f) ==
  LET S == WithSubcharts(C) IN
  /\ chart' = [c \in Chart |-> IF c \in S THEN "none" ELSE chart[c]]
  /\ Rest(S)
  /\ waiting' = Unlinked(S) /\ container' = Homeless(S)
  /\ frames' = Dangling(UnlinkedFrames(f, S), S)

-----------------------------------------------------------------------------
(* What the game, or the function of a node, may call.                     *)

\* AgentManager::Register.
Register(o) ==
  /\ Calls
  /\ registered[o] = 0 /\ lastId < MaxId
  /\ lastId' = lastId + 1
  /\ registered' = [registered EXCEPT ![o] = lastId']
  /\ status' = [status EXCEPT ![lastId'] = "running"]
  /\ armed' = armed \cup {lastId'}
  /\ UNCHANGED <<dying, nodes, step, queues>>

\* DyingAgents::AddDyingAgent.
AddDyingAgent(a) ==
  dying' = IF inStep THEN [dying EXCEPT !.next = @ \cup {a}] ELSE [dying EXCEPT !.now = @ \cup {a}]

Unregister_DeletesAtOnce(o) ==
  /\ CanCall /\ registered[o] # 0
  /\ LET a == registered[o] IN
       /\ DeleteCharts(Charts({a}), Spent)
       /\ status' = [status EXCEPT ![a] = "deleted"]
  /\ registered' = [registered EXCEPT ![o] = 0]
  /\ UNCHANGED <<lastId, armed, dying, step, queues>>

Unregister_ForgetsWhenOutside(o) ==
  /\ CanCall /\ registered[o] # 0
  /\ LET a == registered[o] IN
       /\ StopCharts(Charts({a}), Spent)
       /\ status' = [status EXCEPT ![a] = "destroying"]
       /\ dying' = IF inStep THEN [dying EXCEPT !.next = @ \cup {a}] ELSE dying
  /\ registered' = [registered EXCEPT ![o] = 0]
  /\ UNCHANGED <<lastId, armed, step, queues>>

\* Manager::UnregisterGameObject.
Unregister(o) ==
  /\ CanCall /\ registered[o] # 0
  /\ LET a == registered[o] IN
       /\ StopCharts(Charts({a}), Spent)
       /\ status' = [status EXCEPT ![a] = "destroying"]
       /\ AddDyingAgent(a)
  /\ registered' = [registered EXCEPT ![o] = 0]
  /\ UNCHANGED <<lastId, armed, step, queues>>

\* Agent::AttachChart.
Attach(o) ==
  /\ Calls
  /\ registered[o] # 0 /\ chart[Attached(registered[o])] = "none"
  /\ chart' = [chart EXCEPT ![Attached(registered[o])] = "idle"]
  /\ UNCHANGED <<agents, running, container, waiting, step, queues>>

\* Push of the node of c on the waiting list of agent a: WaitEvent.
WaitIn(c, a) ==
  /\ waiting' = [Unlinked({c}) EXCEPT ![a] = Append(@, c)]
  /\ container' = [container EXCEPT ![c] = a]
  /\ running' = running \cup {c}

\* Agent::StartChart, deferred: the node waits for START, which is raised.
StartChart(o) ==
  /\ Calls
  /\ registered[o] # 0 /\ Len(outQueue) < MaxEvents
  /\ LET a == registered[o] IN
       /\ chart[Attached(a)] = "idle"
       /\ chart' = [chart EXCEPT ![Attached(a)] = "running"]
       /\ WaitIn(Attached(a), a)
       /\ outQueue' = Append(outQueue, a)
  /\ UNCHANGED <<agents, step, inQueue>>

Raise_Unchecked(o) ==
  /\ Calls
  /\ Len(outQueue) < MaxEvents
  /\ outQueue' = Append(outQueue, registered[o])
  /\ UNCHANGED <<agents, nodes, step, inQueue>>

\* Manager::Event.
Raise(o) ==
  /\ Calls
  /\ registered[o] # 0 /\ Len(outQueue) < MaxEvents
  /\ outQueue' = Append(outQueue, registered[o])
  /\ UNCHANGED <<agents, nodes, step, inQueue>>

\* Manager::TriggerEvent: a dispatch inside the function.
Trigger(o) ==
  /\ CanCall
  /\ registered[o] # 0
  /\ LET a == registered[o] IN
       /\ waiting[a] # <<>>
       /\ waiting' = [waiting EXCEPT ![a] = <<>>]
       /\ frames' = Append(Spent, Dispatch(waiting[a], Left))
  /\ UNCHANGED <<agents, chart, running, container, step, queues>>

\* The charts whose functions are under way, and those that own them.
WithOwners(C) == C \cup {Attached(Owner(c)) : c \in {c \in C : Owner(c) # 0}}
InUse == WithOwners({frames[i].chart : i \in {i \in DOMAIN frames : frames[i].kind \in {"function", "called"}}})
InTop == IF frames = <<>> THEN {} ELSE WithOwners({Top.chart})
\* No function may stop or remove its own chart or one that owns it.
MayStop(C) == C # {} /\ WithSubcharts(C) \cap (IF InUseToo THEN InTop ELSE InUse) = {}

AttachedTo(o) == Charts({registered[o]}) \cap {Attached(registered[o])}

\* Agent::RemoveChart.
Remove(o) ==
  /\ CanCall
  /\ registered[o] # 0 /\ MayStop(AttachedTo(o))
  /\ DeleteCharts(AttachedTo(o), Spent)
  /\ UNCHANGED <<agents, step, queues>>

\* Agent::StopChart.
StopChart(o) ==
  /\ CanCall
  /\ registered[o] # 0 /\ MayStop(AttachedTo(o))
  /\ StopCharts(AttachedTo(o), Spent)
  /\ UNCHANGED <<agents, step, queues>>

\* Agent::Stop: also the subcharts on the object that other objects' charts own.
Stop(o) ==
  /\ CanCall
  /\ registered[o] # 0 /\ MayStop(Charts({registered[o]}))
  /\ StopCharts(Charts({registered[o]}), Spent)
  /\ UNCHANGED <<agents, step, queues>>

-----------------------------------------------------------------------------
(* How the function of a node ends.                                        *)

Me == Top.chart

\* It waits for an event of an object, and the flow ends.
FunctionWaits(o) ==
  /\ InFunction
  /\ registered[o] # 0 /\ chart[Me] # "none"
  /\ frames' = Front(frames)
  /\ WaitIn(Me, registered[o])
  /\ UNCHANGED <<agents, chart, step, queues>>

\* Manager::Subchart: a subchart on another object replaces the one there was.
FunctionCallsSubchart(o) ==
  /\ InFunction /\ Top.left > 0
  /\ Owner(Me) = 0 /\ registered[o] # 0 /\ chart[Me] # "none"
  /\ LET sub == <<registered[o], Host(Me)>>
         old == {c \in Chart : chart[c] # "none" /\ Owner(c) = Host(Me)} \ {sub}
     IN  /\ chart[sub] # "running"
         /\ chart' = [c \in Chart |-> IF c = sub THEN "running" ELSE IF c \in old THEN "none" ELSE chart[c]]
         /\ running' = (running \cup {Me}) \ old
         /\ waiting' = Unlinked(old) /\ container' = Homeless(old)
         /\ frames' = Dangling(UnlinkedFrames(Append(Front(frames), Called(Top)), old), old)
                      \o <<Function(sub, Left)>>
  /\ UNCHANGED <<agents, step, queues>>

FunctionEnds_ForgetsOwner ==
  /\ InFunction
  /\ LET over == chart[Me] = "running" /\ Me \notin running
         S == IF over THEN WithSubcharts({Me}) ELSE {}
     IN  /\ chart' = [c \in Chart |-> IF c \in S THEN "idle" ELSE chart[c]]
         /\ Rest(S)
         /\ waiting' = Unlinked(S) /\ container' = Homeless(S)
         /\ frames' = UnlinkedFrames(Front(frames), S)
  /\ UNCHANGED <<agents, step, queues>>

\* It returns, and nothing follows it: the chart ends.  A subchart is stopped with
\* its owner, and resumes it: in the flow that has called it, once its own flow is
\* over, or in a flow of its own, which runs before Chart::Return goes on.
FunctionEnds ==
  /\ InFunction
  /\ LET over == chart[Me] = "running" /\ Me \notin running
         owner == Attached(Owner(Me))
         below == Front(frames)
         resumes == over /\ Owner(Me) # 0 /\ chart[owner] = "running"
         called == below # <<>> /\ Last(below).kind = "called" /\ Last(below).chart = owner
         S == (IF over THEN WithSubcharts({Me}) ELSE {})
              \cup (IF over /\ Owner(Me) # 0 THEN {owner} ELSE {})
     IN  /\ chart' = [c \in Chart |-> IF over /\ c \in WithSubcharts({Me}) THEN "idle" ELSE chart[c]]
         /\ Rest(S)
         /\ waiting' = Unlinked(S) /\ container' = Homeless(S)
         /\ frames' = UnlinkedFrames(IF ~resumes THEN below
                                     ELSE Append(IF called THEN Front(below) ELSE Append(below, Return(Me)),
                                                 Function(owner, Top.left)), S)
  /\ UNCHANGED <<agents, step, queues>>

\* Chart::Return stops the subchart again, whatever the owner has done with it, and
\* the flow of the subchart ends.
ReturnEnds ==
  /\ frames # <<>> /\ Top.kind = "return"
  /\ StopCharts(Charts(Id) \cap {Me}, Front(frames))
  /\ UNCHANGED <<agents, step, queues>>

\* The function that has called a subchart returns.
CalledReturns ==
  /\ frames # <<>> /\ Top.kind = "called"
  /\ frames' = Front(frames)
  /\ UNCHANGED <<agents, nodes, step, queues>>

-----------------------------------------------------------------------------
(* Dispatches and steps.                                                   *)

DispatchNode_WithoutCheck ==
  /\ frames # <<>> /\ Top.kind = "dispatch" /\ Top.list # <<>>
  /\ LET c == Head(Top.list)
         rest == Append(Front(frames), [Top EXCEPT !.list = Tail(@)])
     IN  /\ Rest({c})
         /\ container' = Homeless({c})
         /\ frames' = Append(rest, Function(c, Top.left))
  /\ UNCHANGED <<agents, chart, waiting, step, queues>>

\* One round of Manager::_handleEvent.
DispatchNode ==
  /\ frames # <<>> /\ Top.kind = "dispatch" /\ Top.list # <<>>
  /\ LET c == Head(Top.list)
         rest == Append(Front(frames), [Top EXCEPT !.list = Tail(@)])
     IN  /\ Rest({c})
         /\ container' = Homeless({c})
         /\ frames' = IF chart[c] = "running" THEN Append(rest, Function(c, Top.left)) ELSE rest
  /\ UNCHANGED <<agents, chart, waiting, step, queues>>

DispatchEnd ==
  /\ frames # <<>> /\ Top.kind = "dispatch" /\ Top.list = <<>>
  /\ frames' = Front(frames)
  /\ UNCHANGED <<agents, nodes, step, queues>>

Ascending(S) == Without([i \in Id |-> i], Id \ S)

\* Manager::Step up to the events: the timers of the agents of S come due, and are
\* set again.  One that is being destroyed raises nothing.
BeginStep(S) ==
  /\ AtRest /\ S \subseteq armed
  /\ stepping' = TRUE /\ inStep' = TRUE
  /\ inQueue' = inQueue \o outQueue \o Ascending({a \in S : status[a] = "running"})
  /\ outQueue' = <<>>
  /\ UNCHANGED <<agents, nodes, frames>>

\* AsyncEventBase::GetWaitingNodes.
GetAgentById(a) == IF a \in {registered[o] : o \in Object} THEN {a} ELSE {}

\* Manager::HandleEvent.
HandleEvent ==
  /\ frames = <<>> /\ stepping /\ inQueue # <<>>
  /\ inQueue' = Tail(inQueue)
  /\ \/ \E a \in GetAgentById(Head(inQueue)) :
          /\ waiting' = [waiting EXCEPT ![a] = <<>>]
          /\ Push(Dispatch(waiting[a], MaxCalls))
     \/ /\ GetAgentById(Head(inQueue)) = {}
        /\ UNCHANGED <<waiting, frames>>
  /\ UNCHANGED <<agents, chart, running, container, step, outQueue>>

\* ~Agent of the agents of D: the nodes that wait for them are left where they are,
\* in no list; their charts go, and the subcharts on them of other agents' charts.
DeleteAgents(D) ==
  LET S == WithSubcharts(Charts(D)) IN
  /\ status' = [a \in Id |-> IF a \in D THEN "deleted" ELSE status[a]]
  /\ armed' = armed \ D
  /\ chart' = [c \in Chart |-> IF c \in S THEN "none" ELSE chart[c]]
  /\ Rest(S)
  /\ waiting' = [a \in Id |-> IF a \in D THEN <<>> ELSE Without(waiting[a], S)]
  /\ container' = Homeless(S \cup {c \in Chart : container[c] \in D})

\* The end of Manager::Step; DyingAgents::Step.
EndStep ==
  /\ frames = <<>> /\ stepping /\ inQueue = <<>>
  /\ DeleteAgents(dying.now)
  /\ dying' = [now |-> dying.next, next |-> {}]
  /\ stepping' = FALSE /\ inStep' = FALSE
  /\ UNCHANGED <<registered, lastId, queues, frames>>

-----------------------------------------------------------------------------
Game == \E o \in Object :
  \/ Register(o) \/ Unregister(o) \/ Attach(o) \/ StartChart(o) \/ Raise(o) \/ Trigger(o)
  \/ Remove(o) \/ StopChart(o) \/ Stop(o)

Functions == \/ \E o \in Object : FunctionWaits(o) \/ FunctionCallsSubchart(o)
             \/ FunctionEnds \/ ReturnEnds \/ CalledReturns

Runtime == Functions \/ DispatchNode \/ DispatchEnd \/ HandleEvent \/ EndStep

Step == \E S \in SUBSET Id : Cardinality(S) <= MaxTicks /\ BeginStep(S)

Next == Game \/ Step \/ Runtime

Spec == Init /\ [][Next]_vars
=============================================================================
