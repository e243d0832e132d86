--------------------------- MODULE FlowProperties ---------------------------
(***************************************************************************)
(* What FlowExecutor is meant to guarantee.                                *)
(***************************************************************************)
EXTENDS FlowExecutor

Pcs == {"idle", "timers", "events", "dispatch", "loop", "call", "callEnd", "ran",
        "restore", "return", "returned", "end"}

LevelState ==
  [pc : Pcs, chart : Chart \cup {None}, current : Node \cup {None},
   history : SUBSET Node, hasRunning : BOOLEAN, count : Nat,
   returning : Chart \cup {None}, caller : {"idle", "events", "callEnd", "end"},
   event : Wait \cup {NoEvent}, prevEvent : Wait \cup {NoEvent}]

NodesTyped  == node \in [Node -> NodeState]
ChartsTyped == running \subseteq Chart /\ created \subseteq Chart
LevelsTyped == index \in Level /\ level \in [Level -> LevelState]
ListsTyped ==
  /\ container \in [Node -> Level \cup {EventList}]
  /\ stack \in [Level -> Seq(Node)]
  /\ waiting \in [Wait -> Seq(Node)]
  /\ handling \in [Level -> Seq(Node)]
QueuesTyped ==
  /\ inQueue \in Seq(Wait) /\ outQueue \in Seq(Wait)
  /\ currentEvent \in Wait \cup {NoEvent}
  /\ eventFrame \in Int

\* Every variable has its type: in particular the stack index stays on the
\* stack, and container pointers name an executor of it (executor.h:80-111).
TypeOK == NodesTyped /\ ChartsTyped /\ LevelsTyped /\ ListsTyped /\ QueuesTyped

-----------------------------------------------------------------------------
(* Lists and container pointers.                                           *)

Holds(n, s) == n \in Elements(s)

\* A node is in the list its container pointer says it is in, once, and in no
\* other: what every Push relies on when it removes a node from its container
\* before linking it elsewhere (executor.cpp:17, custom_struct.cpp:64).
ContainersAgree ==
  /\ \A k \in Level : NoRepeats(stack[k]) /\ NoRepeats(handling[k])
  /\ \A w \in Wait : NoRepeats(waiting[w])
  /\ \A n \in Node :
       /\ \A k \in Level : Holds(n, stack[k]) <=> k > 0 /\ container[n] = k
       /\ container[n] = EventList <=> \/ \E w \in Wait : Holds(n, waiting[w])
                                       \/ \E k \in Level : Holds(n, handling[k])
       /\ \A w, v \in Wait : Holds(n, waiting[w]) /\ Holds(n, waiting[v]) => w = v
       /\ \A j, k \in Level : Holds(n, handling[j]) /\ Holds(n, handling[k]) => j = k
       /\ \A w \in Wait, k \in Level : ~(Holds(n, waiting[w]) /\ Holds(n, handling[k]))

\* The node an executor pops after a run is the node that has run: nothing the
\* function did, nested flows included, left another one on top of it
\* (executor.cpp:111-112).
PopsWhatItRan ==
  \A k \in Level \ {0} :
    level[k].pc = "ran" /\ container[level[k].current] = k
      => Last(stack[k]) = level[k].current

\* It finds that node: an executor never pops an empty vector (executor.cpp:31).
PopFindsNode ==
  index > 0 /\ At("ran") /\ container[level[index].current] = index
    => stack[index] # <<>> /\ level[index].current \in Elements(stack[index])

-----------------------------------------------------------------------------
(* Charts.                                                                 *)

\* Nothing of a chart that does not run can be woken: no node of it runs, waits
\* for an event or has a timer, at any moment of any step (Chart::Stop,
\* chart.cpp:76; "the node waiting for an event must be Running", agent.cpp:235).
StoppedChartIsQuiet ==
  \A n \in Node : ~IsRunning(ChartOf[n]) =>
    Status(n) # "Running" /\ container[n] # EventList /\ node[n].timer = "off"

\* The flow that is over has given n up and is about to stop it: no flow can reach it.
GivenUp(n) == At("restore") /\ Status(n) = "EndRun" /\ n \in level[index].history

\* A node that waits for an event or a timer is in Running status, so that no
\* flow that reaches it calls its function again (executor.cpp:79).
WaitingNodesRun ==
  \A n \in Node : /\ container[n] = EventList => Status(n) = "Running"
                  /\ node[n].timer # "off" => Status(n) = "Running" \/ GivenUp(n)

\* Between steps a node that runs has something that will wake it: an event
\* list, a timer, its subchart, or a predecessor a WaitAll node still misses.
Wakeable(n) ==
  \/ container[n] = EventList
  \/ node[n].timer = "armed"
  \/ \E c \in running : OwnerNode[c] = n
  \/ node[n].isWaitAll /\ node[n].arrived # Target[n]
RunningNodesCanWake == AtRest => \A n \in Node : Status(n) = "Running" => Wakeable(n)

\* Between steps a chart of which no node runs is not running, so that it can be
\* started again (executor.cpp:140-147, agent.cpp:98).
FinishedChartIsIdle ==
  AtRest => \A c \in running : \E n \in ChartNodes({c}) : Status(n) = "Running"

\* Between steps no flow has left a trace: the stacks are empty, and no node that
\* does not run carries a run flag or a skip flag, which would keep its function
\* from being called the next time (executor.cpp:66-74, 130-138).
NodesAreRestored ==
  AtRest => /\ \A k \in Level : stack[k] = <<>> /\ level[k].history = {}
            /\ \A n \in Node : /\ ~node[n].runFlag
                               /\ node[n].skip => Status(n) = "Running"

\* A node of a loop that is put off to a tick is called when the tick comes:
\* its function is not skipped (executor.cpp:93-97, doc/lua_api.md:62).
LoopedNodeIsCalled ==
  \A a \in Agent : \A n \in Elements(waiting[<<a, TICK>>]) : ~node[n].skip

\* Between steps a subchart runs only while its owner node waits for it, in a
\* chart that runs (manager.cpp:642, chart.cpp:91).
SubchartHasWaitingOwner ==
  AtRest => \A c \in running \ Root :
    Status(OwnerNode[c]) = "Running" /\ IsRunning(ChartOf[OwnerNode[c]])

\* A subchart runs only while the chart of its owner node runs, at any moment of
\* any step: stopping or ending the one stops the other (node.cpp:90).
SubchartNeedsOwner ==
  /\ Root \subseteq created /\ running \subseteq created
  /\ \A c \in running \ Root : IsRunning(ChartOf[OwnerNode[c]])

\* A node that waits for START, because its flow could not run at once, has the
\* event coming, at any moment of any step (agent.cpp:136-137, chart.cpp:103-105).
StartEventComing ==
  \A a \in Agent : waiting[<<a, START>>] # <<>>
                     => <<a, START>> \in Elements(inQueue) \cup Elements(outQueue)

\* While events are dispatched the manager's current event, whose arguments the
\* nodes read, is the event of the innermost dispatch, whatever was triggered
\* and handled meanwhile (manager.cpp:447-457).
CurrentEventIsInnermost ==
  \A k \in Level :
    level[k].event # NoEvent /\ (\A j \in Level : j > k => level[j].event = NoEvent)
      => currentEvent = level[k].event

-----------------------------------------------------------------------------
(* Steps.                                                                  *)

\* A chart that ends because nothing of it runs is not being run by a flow
\* further down the stack, which may have nodes left to run (executor.cpp:141).
EndsOutermost ==
  [][\A k \in Level \ {0} : level[k].pc = "restore" /\ level'[k].pc = "return"
       => \A j \in Level : j < k => level[j].chart # level[k].chart]_vars

\* The dispatch takes n from the list of the nodes it wakes when the stack of executors is
\* full: RunFlow refuses it, and what it returns is ignored.
FindsNoExecutor(n) == At("dispatch") /\ StackFull /\ n = Head(handling[index])

\* A node leaves an event list only to go on a stack of nodes to run, because it is
\* stopped, or because its event comes when the stack of executors is full, which
\* takes it, and no other, out of all lists (manager.cpp:409-419, node.cpp:95).
EventWakesNode ==
  [][\A n \in Node : container[n] = EventList /\ container'[n] # EventList
       => container'[n] # 0 \/ node'[n].result = "rSTOP" \/ FindsNoExecutor(n)]_vars

\* A dispatch loses the next node: it has left the list, and does not run.
LosesNode == DispatchNode /\ StackFull

\* No dispatch ever does: false, for the stack has as many executors as triggers may
\* nest, and they are not all that nests (manager.cpp:23, executor.h:124).
DispatchesHaveRoom == [][~LosesNode]_vars

\* Stopping an object stops no subchart that the node of a chart that runs on has called
\* (doc/lua_api.md:203: stop has no effect on subcharts that nodes have started).
SubchartsOutliveStop ==
  [][\A a \in Agent : StopObject(a) => \A c \in running \ Root :
       IsRunning(ChartOf[OwnerNode[c]])' => IsRunning(c)']_vars

-----------------------------------------------------------------------------
(* Liveness.  The runtime is a sequence of function calls that never block, *)
(* so what it has begun goes on: weak fairness of Runtime.  The game calls  *)
(* step again and again, and time passes until every timer is due: strong   *)
(* fairness, since other calls of the game may come between.                *)

FairSpec == Spec /\ WF_vars(Runtime)
SteppingSpec == FairSpec /\ SF_vars(BeginStep(Armed))

\* Every step, and every call of the game, returns (manager.cpp:119: the loop
\* over the events ends though handling them raises others).
StepEnds == []<>AtRest

\* A chart that waits for nothing but timers and subcharts finishes, however
\* often its flow finds the stack of executors full (chart.cpp:97-107).
ChartsFinish == \A c \in Chart : []<>(~IsRunning(c))
=============================================================================
