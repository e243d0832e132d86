---------------------------- MODULE WaitingProofs -----------------------------
(***************************************************************************)
(* Who waits in FlowExecutor: the owner of a subchart that runs waits for  *)
(* it; a node that waits for an event or a timer is Running; and whoever   *)
(* waits for START has the event coming.  What a flow leaves behind, and   *)
(* the only two ways in which a node that runs loses what wakes it.        *)
(***************************************************************************)
EXTENDS HomeProofs

-----------------------------------------------------------------------------
(* The inductive invariants behind SubchartHasWaitingOwner and             *)
(* WaitingNodesRun.                                                        *)

\* A timer is a wait node's, and only nodes that wait for all of others are marked so.
MarksByKind ==
  \A n \in Node : /\ node[n].timer # "off" => Kind[n] = "wait"
                  /\ node[n].isWaitAll => Kind[n] = "waitall"

\* The owner of a subchart that runs waits for it, and for nothing else, unless the
\* flow that is ending has given it up and is about to stop it.
OwnerWaits(c) ==
  LET o == OwnerNode[c] IN
  /\ Kind[o] = "sub" /\ container[o] # EventList
  /\ Status(o) = "Running" \/ GivenUp(o)

\* The node whose function is called has not left the stack.
OwnersInvariant ==
  /\ HomeInvariant /\ MarksByKind
  /\ At("call") => container[level[index].current] = index
  /\ \A c \in running \ Root : OwnerWaits(c)

\* A node that a timer wakes waits for no event.
WaitsInvariant ==
  /\ OwnersInvariant /\ WaitingNodesRun
  /\ \A n \in Node : node[n].timer # "off" => container[n] # EventList

-----------------------------------------------------------------------------
(* The owners of subcharts.                                                *)

\* What an owner is while its subchart runs, and no flow is ending.
IsWaitingOwner(n) ==
  /\ Kind[n] = "sub" /\ Status(n) = "Running" /\ ~node[n].isWaitAll /\ node[n].timer = "off"
  /\ container[n] # EventList /\ IsRunning(ChartOf[n])

StillWaits(n) == node'[n].status = "Running" /\ container'[n] # EventList

\* No node gets a mark that is not for its kind.
MarksStay(n) ==
  /\ node'[n].timer # "off" => node[n].timer # "off" \/ Kind[n] = "wait"
  /\ node'[n].isWaitAll => node[n].isWaitAll \/ Kind[n] = "waitall"

LEMMA OwnersParts ==
  ASSUME OwnersInvariant
  PROVE  /\ HomeInvariant /\ QuietInvariant /\ ContainersAgree /\ MarksByKind
         /\ node \in [Node -> NodeState] /\ ListsTyped /\ LevelsTyped /\ index \in Level
         /\ running \subseteq created /\ created \subseteq Chart
         /\ \A c \in running \ Root : OwnerNode[c] \in Node /\ OwnerWaits(c)
<1>1. HomeInvariant /\ QuietInvariant /\ ContainersAgree /\ MarksByKind
  BY HomeParts DEF OwnersInvariant
<1>2. node \in [Node -> NodeState] /\ ListsTyped /\ LevelsTyped /\ index \in Level
  BY <1>1 DEF QuietInvariant, TypeOK, NodesTyped, LevelsTyped
<1>3. running \subseteq created /\ created \subseteq Chart
  BY <1>1 DEF QuietInvariant, TypeOK, ChartsTyped, SubchartNeedsOwner
<1>4. \A c \in Chart : OwnerNode[c] \in Node \cup {None}
  BY ConstantsAssumption
<1>5. \A c \in running \ Root : OwnerNode[c] \in Node /\ OwnerWaits(c)
  BY <1>3, <1>4 DEF OwnersInvariant, Root
<1> QED BY <1>1, <1>2, <1>3, <1>5

LEMMA OwnersWait ==
  ASSUME OwnersInvariant, ~At("restore"), NEW c \in running \ Root
  PROVE  OwnerNode[c] \in Node /\ IsWaitingOwner(OwnerNode[c])
<1> DEFINE o == OwnerNode[c]
<1>1. o \in Node /\ OwnerWaits(c) /\ MarksByKind /\ IsRunning(ChartOf[o])
  BY OwnersParts DEF QuietInvariant, SubchartNeedsOwner
<1>2. Kind[o] = "sub" /\ container[o] # EventList /\ Status(o) = "Running"
  BY <1>1 DEF OwnerWaits, GivenUp
<1>3. ~node[o].isWaitAll /\ node[o].timer = "off"
  BY <1>1, <1>2 DEF MarksByKind
<1> QED BY <1>1, <1>2, <1>3 DEF IsWaitingOwner

\* A step that leaves the owners of the charts that go on keeps the invariant.
LEMMA OwnersStay ==
  ASSUME OwnersInvariant, HomeInvariant', ~At("restore"),
         level'[index'].pc = "call" => container'[level'[index'].current] = index',
         \A n \in Node : MarksStay(n),
         \A c \in running' \ Root :
           OwnerNode[c] \in Node /\ (IsWaitingOwner(OwnerNode[c]) => StillWaits(OwnerNode[c]))
             /\ (c \in running \/ (Kind[OwnerNode[c]] = "sub" /\ StillWaits(OwnerNode[c])))
  PROVE  OwnersInvariant'
<1>1. MarksByKind'
  BY OwnersParts DEF MarksByKind, MarksStay
<1>2. ASSUME NEW c \in running' \ Root PROVE OwnerWaits(c)'
  <2>1. CASE c \in running
    <3>1. IsWaitingOwner(OwnerNode[c])
      BY <1>2, <2>1, OwnersWait
    <3>2. Kind[OwnerNode[c]] = "sub" /\ StillWaits(OwnerNode[c])
      BY <1>2, <3>1 DEF IsWaitingOwner
    <3> QED BY <3>2 DEF StillWaits, OwnerWaits, GivenUp, Status
  <2>2. CASE c \notin running
    BY <1>2, <2>2 DEF StillWaits, OwnerWaits, GivenUp, Status
  <2> QED BY <2>1, <2>2
<1> QED BY <1>1, <1>2 DEF OwnersInvariant, At

\* No chart begins to run, and every owner of one that runs is left.
LEMMA OwnersLeft ==
  ASSUME OwnersInvariant, HomeInvariant', ~At("restore"), level'[index'].pc # "call",
         \A n \in Node : MarksStay(n), running' \subseteq running,
         \A n \in Node : IsWaitingOwner(n) => StillWaits(n)
  PROVE  OwnersInvariant'
<1>1. \A c \in running' \ Root : OwnerNode[c] \in Node /\ c \in running
  BY OwnersParts
<1> QED BY <1>1, OwnersStay

\* Nodes and containers stay.
LEMMA OwnersUntouched ==
  ASSUME OwnersInvariant, HomeInvariant', ~At("restore"), level'[index'].pc # "call",
         node' = node, running' = running,
         \A n \in Node : container'[n] = EventList => container[n] = EventList
  PROVE  OwnersInvariant'
<1>1. \A n \in Node : MarksStay(n)
  BY DEF MarksStay
<1>2. \A n \in Node : IsWaitingOwner(n) => StillWaits(n)
  BY DEF IsWaitingOwner, StillWaits, Status
<1> QED BY <1>1, <1>2, OwnersLeft

\* One node changes, that is not such an owner.
LEMMA OwnersButOne ==
  ASSUME OwnersInvariant, HomeInvariant', ~At("restore"), level'[index'].pc # "call",
         running' = running, NEW n \in Node, ~IsWaitingOwner(n),
         \A m \in Node : m # n => node'[m] = node[m],
         MarksStay(n),
         \A m \in Node : container'[m] = EventList => m = n \/ container[m] = EventList
  PROVE  OwnersInvariant'
<1>1. \A m \in Node : MarksStay(m)
  BY DEF MarksStay
<1>2. \A m \in Node : IsWaitingOwner(m) => StillWaits(m)
  BY DEF IsWaitingOwner, StillWaits, Status
<1> QED BY <1>1, <1>2, OwnersLeft

\* Where the top goes on.
LEMMA GoesOnAt ==
  ASSUME OwnersInvariant, NEW p
  PROVE  /\ Goto(p) => level'[index'].pc = p
         /\ \A n \in Node : CallFlow(n, p) /\ index + 1 \in Level => level'[index'].pc = "loop"
<1>1. index \in Level /\ level \in [Level -> LevelState]
  BY OwnersParts DEF LevelsTyped
<1>2. Goto(p) => level'[index'].pc = p
  BY <1>1 DEF Goto, LevelState
<1>3. ASSUME NEW n \in Node, CallFlow(n, p), index + 1 \in Level PROVE level'[index'].pc = "loop"
  <2>1. index' = index + 1 /\ index + 1 # index
    BY <1>1, <1>3, LevelFacts DEF CallFlow
  <2>2. level'[index + 1] = [level[index + 1] EXCEPT !.pc = "loop", !.chart = ChartOf[n]]
    BY <1>1, <1>3, <2>1 DEF CallFlow
  <2> QED BY <1>1, <1>3, <2>1, <2>2 DEF LevelState
<1> QED BY <1>2, <1>3

LEMMA OwnersQuietSteps ==
  ASSUME OwnersInvariant, HomeInvariant',
         \/ \E w \in Wait : Raise(w)
         \/ \E a \in Agent : FireAgentTimer(a)
         \/ SwitchQueues \/ EndStep \/ LoopExit \/ ReturnOfRoot \/ CallFunc \/ CallRaise
  PROVE  OwnersInvariant'
<1> DEFINE Untouched == /\ node' = node /\ running' = running /\ container' = container
<1>1. ASSUME (\E w \in Wait : Raise(w)) \/ (\E a \in Agent : FireAgentTimer(a)) PROVE OwnersInvariant'
  <2>1. Untouched /\ level' = level /\ index' = index /\ (At("idle") \/ At("timers"))
    BY <1>1 DEF Raise, FireAgentTimer, CallsIn, AtRest, charts, lists
  <2>2. level'[index'].pc # "call" /\ ~At("restore")
    BY <2>1 DEF At
  <2> QED BY <2>1, <2>2, OwnersUntouched
<1>2. ASSUME SwitchQueues \/ EndStep \/ LoopExit \/ ReturnOfRoot \/ CallFunc \/ CallRaise
      PROVE  OwnersInvariant'
  <2>1. Untouched /\ ~At("restore")
    BY <1>2 DEF SwitchQueues, EndStep, LoopExit, ReturnOfRoot, CallFunc, CallRaise, Calls, charts, lists, At
  <2>2. \E p \in {"events", "idle", "restore", "returned", "callEnd"} : Goto(p)
    BY <1>2 DEF SwitchQueues, EndStep, LoopExit, ReturnOfRoot, CallFunc, CallRaise
  <2>3. level'[index'].pc # "call"
    BY <2>2, GoesOnAt
  <2> QED BY <2>1, <2>3, OwnersUntouched
<1> QED BY <1>1, <1>2

LEMMA OwnersCallReturn ==
  ASSUME OwnersInvariant, HomeInvariant', CallReturn
  PROVE  OwnersInvariant'
<1>1. /\ node' = node /\ running' = running /\ container' = container /\ index' = index
      /\ ~At("restore") /\ index \in Level
  BY OwnersParts DEF CallReturn, Calls, charts, lists, At
<1>2. level'[index].pc \in {"return", "callEnd"}
  <2>1. level \in [Level -> LevelState]
    BY OwnersParts DEF LevelsTyped
  <2> QED BY <1>1, <2>1 DEF CallReturn, LevelState
<1> QED BY <1>1, <1>2, OwnersUntouched

LEMMA OwnersFlowEnd ==
  ASSUME OwnersInvariant, HomeInvariant', FlowEnd
  PROVE  OwnersInvariant'
<1>1. /\ node' = node /\ running' = running /\ container' = container /\ index' = index - 1
      /\ ~At("restore") /\ index \in Level /\ index > 0
  BY OwnersParts DEF FlowEnd, charts, lists, At
<1>2. level'[index - 1].pc # "call"
  <2>1. index - 1 \in Level /\ index - 1 < index /\ index - 1 # index
    BY <1>1, LevelFacts
  <2>2. level[index - 1].pc # "call"
    BY <2>1, OwnersParts DEF QuietInvariant, LevelsNest
  <2>3. level' = [level EXCEPT ![index] = FreshLevel] /\ level \in [Level -> LevelState]
    BY OwnersParts DEF LevelsTyped, FlowEnd
  <2>4. level'[index - 1] = level[index - 1]
    BY <2>1, <2>3
  <2> QED BY <2>2, <2>4
<1> QED BY <1>1, <1>2, OwnersUntouched

LEMMA OwnersBeginStep ==
  ASSUME OwnersInvariant, HomeInvariant', NEW due \in SUBSET Armed, BeginStep(due)
  PROVE  OwnersInvariant'
<1>1. /\ running' = running /\ container' = container /\ ~At("restore") /\ level'[index'].pc # "call"
  BY GoesOnAt DEF BeginStep, charts, lists, At, AtRest
<1>2. \A n \in Node : /\ node'[n].status = node[n].status /\ node'[n].isWaitAll = node[n].isWaitAll
                      /\ node'[n].timer # "off" => node[n].timer # "off"
  BY OwnersParts DEF BeginStep, Armed, NodeState
<1>3. \A n \in Node : MarksStay(n) /\ (IsWaitingOwner(n) => StillWaits(n))
  BY <1>1, <1>2 DEF MarksStay, IsWaitingOwner, StillWaits, Status
<1> QED BY <1>1, <1>3, OwnersLeft

LEMMA OwnersCallEnd ==
  ASSUME OwnersInvariant, HomeInvariant', NEW r \in Result, CallEnd(r)
  PROVE  OwnersInvariant'
<1>1. /\ running' = running /\ container' = container /\ ~At("restore") /\ level'[index'].pc # "call"
  BY GoesOnAt DEF CallEnd, charts, lists, At
<1>2. \A n \in Node : /\ node'[n].status = node[n].status /\ node'[n].isWaitAll = node[n].isWaitAll
                      /\ node'[n].timer = node[n].timer
  BY OwnersParts DEF CallEnd, NodeState
<1>3. \A n \in Node : MarksStay(n) /\ (IsWaitingOwner(n) => StillWaits(n))
  BY <1>1, <1>2 DEF MarksStay, IsWaitingOwner, StillWaits, Status
<1> QED BY <1>1, <1>3, OwnersLeft

\* The node on top of a stack is on no other list.
LEMMA OwnersVisit ==
  ASSUME OwnersInvariant, NEW n, Visit(n)
  PROVE  /\ n \in Node /\ container[n] = index /\ index # 0 /\ index \in Level /\ ~At("restore")
         /\ level \in [Level -> LevelState]
<1>1. /\ index # 0 /\ index \in 1..index /\ At("loop") /\ n = Last(stack[index]) /\ stack[index] # <<>>
      /\ n \in Node /\ index \in Level /\ level \in [Level -> LevelState]
      /\ stack[index] \in Seq(Node) /\ ContainersAgree
  BY OwnersParts, VisitFacts DEF LevelsTyped, ListsTyped
<1>2. n \in Elements(stack[index])
  BY <1>1, LastType
<1>3. container[n] = index
  BY <1>1, <1>2 DEF ContainersAgree, Holds
<1> QED BY <1>1, <1>3 DEF At

LEMMA OwnersRunNode ==
  ASSUME OwnersInvariant, HomeInvariant', RunNode
  PROVE  OwnersInvariant'
<1>1. PICK n \in Node : Visit(n) /\ RunNode
                        /\ level' = [level EXCEPT ![index].count = @ + 1, ![index].current = n,
                                        ![index].pc = IF node[n].skip THEN "ran" ELSE "call"]
  BY DEF RunNode
<1>2. /\ container[n] = index /\ index \in Level /\ ~At("restore") /\ level \in [Level -> LevelState]
  BY <1>1, OwnersVisit
<1>3. running' = running /\ container' = container /\ index' = index
  BY <1>1 DEF RunNode, charts, lists
<1>4. level'[index'].current = n
  BY <1>1, <1>2, <1>3 DEF LevelState
<1>5. \A m \in Node : /\ node'[m].status = node[m].status /\ node'[m].isWaitAll = node[m].isWaitAll
                      /\ node'[m].timer = node[m].timer
  BY <1>1, OwnersParts DEF RunNode, NodeState
<1>6. \A m \in Node : MarksStay(m) /\ (IsWaitingOwner(m) => StillWaits(m))
  BY <1>3, <1>5 DEF MarksStay, IsWaitingOwner, StillWaits, Status
<1> QED BY <1>2, <1>3, <1>4, <1>6, OwnersParts, OwnersStay

LEMMA OwnersSkipRunning ==
  ASSUME OwnersInvariant, HomeInvariant', SkipRunning
  PROVE  OwnersInvariant'
<1>1. PICK n \in Node : Visit(n) /\ node' = node /\ running' = running /\ index' = index
                        /\ container' = Contain(InStack({n}, index), 0)
                        /\ level' = [level EXCEPT ![index].count = @ + 1, ![index].hasRunning = TRUE,
                                                  ![index].history = @ \cup {n}]
  BY DEF SkipRunning, charts
<1>2. index \in Level /\ At("loop") /\ ~At("restore") /\ level \in [Level -> LevelState]
  BY <1>1, OwnersVisit DEF Visit, InLoop
<1>3. level'[index'].pc = "loop"
  BY <1>1, <1>2 DEF At, LevelState
<1>4. \A m \in Node : container'[m] = EventList => container[m] = EventList
  BY <1>1 DEF Contain, EventList
<1> QED BY <1>1, <1>2, <1>3, <1>4, OwnersUntouched

LEMMA OwnersTruncate ==
  ASSUME OwnersInvariant, HomeInvariant', Truncate
  PROVE  OwnersInvariant'
<1> DEFINE S == Elements(stack[index])
<1>1. /\ running' = running /\ index' = index /\ index \in Level /\ level \in [Level -> LevelState]
      /\ node \in [Node -> NodeState] /\ ~At("restore")
      /\ node' = [n \in Node |-> IF n \in S THEN [node[n] EXCEPT !.status = "EndRun"] ELSE node[n]]
      /\ level' = [level EXCEPT ![index].pc = "restore", ![index].history = @ \cup S]
      /\ container' = Contain(InStack(S, index), 0)
  BY OwnersParts DEF Truncate, InLoop, At, charts, LevelsTyped
<1> HIDE DEF S
<1>2. At("restore")' /\ level'[index].history = level[index].history \cup S
  BY <1>1 DEF At, LevelState
<1>3. \A n \in Node : /\ node'[n].isWaitAll = node[n].isWaitAll /\ node'[n].timer = node[n].timer
                      /\ n \in S => node'[n].status = "EndRun"
                      /\ n \notin S => node'[n].status = node[n].status
  BY <1>1 DEF NodeState
<1>4. \A n \in Node : container'[n] = EventList => container[n] = EventList
  BY <1>1 DEF Contain, EventList
<1>5. MarksByKind'
  BY <1>3, OwnersParts DEF MarksByKind
<1>6. ASSUME NEW c \in running \ Root PROVE OwnerWaits(c)'
  <2> DEFINE o == OwnerNode[c]
  <2>1. o \in Node /\ Kind[o] = "sub" /\ Status(o) = "Running" /\ container[o] # EventList
    BY <1>1, OwnersWait DEF IsWaitingOwner
  <2>2. Status(o)' = "Running" \/ (Status(o)' = "EndRun" /\ o \in level'[index].history)
    BY <1>2, <1>3, <2>1 DEF Status
  <2> QED BY <1>1, <1>2, <1>4, <2>1, <2>2 DEF OwnerWaits, GivenUp
<1>7. ~At("call")'
  BY <1>2 DEF At
<1> QED BY <1>1, <1>5, <1>6, <1>7 DEF OwnersInvariant

LEMMA OwnersWaitTick ==
  ASSUME OwnersInvariant, HomeInvariant', WaitTick
  PROVE  OwnersInvariant'
<1>1. PICK n \in Node : /\ Visit(n) /\ ~Skips(n) /\ running' = running /\ index' = index
                        /\ UnlinkAndWait({}, n, <<AgentOf[level[index].chart], TICK>>)
                        /\ node' = [node EXCEPT ![n].status = "Running"]
                        /\ level' = [level EXCEPT ![index].count = @ + 1, ![index].hasRunning = TRUE]
  BY DEF WaitTick, charts
<1>2. index \in Level /\ At("loop") /\ ~At("restore") /\ level \in [Level -> LevelState]
  BY <1>1, OwnersVisit DEF Visit, InLoop
<1>3. level'[index'].pc = "loop"
  BY <1>1, <1>2 DEF At, LevelState
<1>4. ~IsWaitingOwner(n)
  BY <1>1 DEF Skips, IsWaitingOwner
<1>5. \A m \in Node : container'[m] = EventList => m = n \/ container[m] = EventList
  <2>1. <<AgentOf[level[index].chart], TICK>> \in Wait
    BY <1>1, OwnersParts, VisitFacts, ConstantsAssumption DEF Wait
  <2> QED BY <1>1, <2>1, OwnersParts, WaitEffect
<1>6. MarksStay(n) /\ \A m \in Node : m # n => node'[m] = node[m]
  BY <1>1, OwnersParts DEF MarksStay, NodeState
<1> QED BY <1>1, <1>2, <1>3, <1>4, <1>5, <1>6, OwnersButOne

\* A node whose function is not of a subchart is no owner.
LEMMA OwnersCallWaits ==
  ASSUME OwnersInvariant, HomeInvariant', CallWait \/ CallWaitAll \/ CallWaitEvent
  PROVE  OwnersInvariant'
<1>1. PICK n \in Node : /\ Calls(n, "wait") \/ Calls(n, "waitall") \/ Calls(n, "event")
                        /\ Goto("callEnd") /\ running' = running
                        /\ MarksStay(n) /\ \A m \in Node : m # n => node'[m] = node[m]
                        /\ container' = container \/ UnlinkAndWait({}, n, Names[n])
  <2>1. CASE CallWait
    <3>1. PICK n \in Node : /\ Calls(n, "wait") /\ Goto("callEnd") /\ running' = running
                            /\ container' = container
                            /\ node' = [node EXCEPT ![n].timer = "armed", ![n].skip = TRUE,
                                          ![n].result = "rTRUE", ![n].status = "Running"]
      BY <2>1 DEF CallWait, charts, lists
    <3>2. MarksStay(n) /\ \A m \in Node : m # n => node'[m] = node[m]
      BY <3>1, OwnersParts DEF MarksStay, Calls, NodeState
    <3> QED BY <3>1, <3>2
  <2>2. CASE CallWaitAll
    <3>1. PICK n \in Node : /\ Calls(n, "waitall") /\ Goto("callEnd") /\ running' = running
                            /\ container' = container
                            /\ \E x, s, r : node' = [node EXCEPT ![n].isWaitAll = TRUE, ![n].arrived = x,
                                                       ![n].status = s, ![n].result = r]
      <4>1. PICK n \in Node : /\ Calls(n, "waitall") /\ Goto("callEnd") /\ UNCHANGED <<charts, lists>>
              /\ LET seen == (node[n].arrived \cup {node[n].pre}) \cap Target[n]
                     all == node[n].pre \in Target[n] /\ seen = Target[n]
                 IN  node' = [node EXCEPT ![n].isWaitAll = TRUE,
                                ![n].arrived = IF all THEN {} ELSE seen,
                                ![n].status = IF all THEN "EndRun" ELSE "Running",
                                ![n].result = IF all THEN "rTRUE" ELSE node[n].result]
        BY <2>2, OwnersParts DEF CallWaitAll
      <4> QED BY <4>1 DEF charts, lists
    <3>2. MarksStay(n) /\ \A m \in Node : m # n => node'[m] = node[m]
      BY <3>1, OwnersParts DEF MarksStay, Calls, NodeState
    <3> QED BY <3>1, <3>2
  <2>3. CASE CallWaitEvent
    <3>1. PICK n \in Node : /\ Calls(n, "event") /\ Goto("callEnd") /\ running' = running
                            /\ UnlinkAndWait({}, n, Names[n])
                            /\ node' = [node EXCEPT ![n].skip = TRUE, ![n].result = "rTRUE",
                                                    ![n].status = "Running"]
      BY <2>3 DEF CallWaitEvent, charts
    <3>2. MarksStay(n) /\ \A m \in Node : m # n => node'[m] = node[m]
      BY <3>1, OwnersParts DEF MarksStay, Calls, NodeState
    <3> QED BY <3>1, <3>2
  <2> QED BY <2>1, <2>2, <2>3
<1>2. ~IsWaitingOwner(n) /\ ~At("restore")
  BY <1>1 DEF Calls, IsWaitingOwner, At
<1>3. level'[index'].pc # "call"
  BY <1>1, GoesOnAt
<1>4. \A m \in Node : container'[m] = EventList => m = n \/ container[m] = EventList
  <2>1. Names[n] \in Wait
    BY ConstantsAssumption
  <2> QED BY <1>1, <2>1, OwnersParts, WaitEffect
<1> QED BY <1>1, <1>2, <1>3, <1>4, OwnersButOne

\* Dispatching moves no node between containers,
LEMMA OwnersDispatch ==
  ASSUME OwnersInvariant, HomeInvariant',
         HandleEvent \/ DispatchEnd \/ CallTrigger \/ \E w \in Wait : Trigger(w)
  PROVE  OwnersInvariant'
<1>1. index \in Level /\ level \in [Level -> LevelState]
  BY OwnersParts DEF LevelsTyped
<1>2. CASE HandleEvent
  <2>1. /\ node' = node /\ running' = running /\ container' = container /\ At("events") /\ index' = index
        /\ level' = level \/ \E ev : StartDispatch(ev, NoEvent, "events")
    BY <1>2 DEF HandleEvent, charts, StartDispatch
  <2>2. level'[index'].pc # "call"
    <3>1. CASE level' = level
      BY <2>1, <3>1 DEF At
    <3>2. ASSUME NEW ev, StartDispatch(ev, NoEvent, "events") PROVE level'[index'].pc = "dispatch"
      <4>1. /\ level' = [level EXCEPT ![index].pc = "dispatch", ![index].caller = "events",
                                       ![index].event = ev, ![index].prevEvent = NoEvent]
            /\ index' = index
        BY <3>2 DEF StartDispatch
      <4> QED BY <1>1, <4>1 DEF LevelState
    <3> QED BY <2>1, <3>1, <3>2
  <2>3. ~At("restore")
    BY <2>1 DEF At
  <2> QED BY <2>1, <2>2, <2>3, OwnersUntouched
<1>3. CASE DispatchEnd
  <2>1. /\ node' = node /\ running' = running /\ container' = container /\ index' = index
        /\ ~At("restore")
    BY <1>3 DEF DispatchEnd, charts, lists, At
  <2>2. level'[index'].pc = level[index].caller /\ level[index].caller # "call"
    BY <1>1, <1>3, <2>1 DEF DispatchEnd, LevelState
  <2> QED BY <2>1, <2>2, OwnersUntouched
<1>4. ASSUME NEW ev, NEW p \in {"idle", "callEnd"}, TriggerEvent(ev, p), ~At("restore")
      PROVE  OwnersInvariant'
  <2>1. node' = node /\ running' = running /\ container' = container
    BY <1>4 DEF TriggerEvent, charts
  <2>2. Goto(p) \/ StartDispatch(ev, currentEvent, p)
    BY <1>4 DEF TriggerEvent
  <2>3. StartDispatch(ev, currentEvent, p) => level'[index'].pc # "call"
    BY <1>1 DEF StartDispatch, LevelState
  <2>4. level'[index'].pc # "call"
    BY <1>4, <2>2, <2>3, GoesOnAt
  <2> QED BY <1>4, <2>1, <2>4, OwnersUntouched
<1>5. CASE CallTrigger
  <2>1. PICK n \in Node : Calls(n, "trigger") /\ TriggerEvent(Names[n], "callEnd")
    BY <1>5 DEF CallTrigger
  <2>2. ~At("restore")
    BY <2>1 DEF Calls, At
  <2> QED BY <1>4, <2>1, <2>2
<1>6. ASSUME NEW w \in Wait, Trigger(w) PROVE OwnersInvariant'
  <2>1. TriggerEvent(w, "idle") /\ ~At("restore")
    BY <1>6 DEF Trigger, CallsIn, AtRest, At
  <2> QED BY <1>4, <2>1
<1> QED BY <1>2, <1>3, <1>5, <1>6

\* and what it runs waits for an event.
LEMMA OwnersDispatchNode ==
  ASSUME OwnersInvariant, HomeInvariant', DispatchNode
  PROVE  OwnersInvariant'
<1>1. PICK n : n = Head(handling[index])
  OBVIOUS
<1>2. /\ handling[index] # <<>> /\ handling[index] \in Seq(Node) /\ index \in Level /\ ListsTyped
      /\ ContainersAgree /\ ~At("restore") /\ running' = running
  BY OwnersParts DEF DispatchNode, ListsTyped, At, charts
<1>3. n \in Node /\ n \in Elements(handling[index])
  BY <1>1, <1>2, TailElements
<1>4. container[n] = EventList
  BY <1>2, <1>3 DEF ContainersAgree, Holds
<1>5. /\ node' = [node EXCEPT ![n].status = "Idle"]
      /\ \/ ~StackFull /\ UnlinkAndPush({}, n, index + 1, TRUE) /\ CallFlow(n, "dispatch")
         \/ Unlink({n}) /\ Goto("dispatch")
  BY <1>1 DEF DispatchNode
<1>6. ~StackFull => index + 1 \in Level
  BY <1>2, LevelFacts DEF StackFull
<1>7. \A m \in Node : container'[m] = EventList => container[m] = EventList
  BY <1>2, <1>3, <1>5, <1>6, PushOnNext, UnlinkEffect
<1>8. level'[index'].pc # "call"
  BY <1>3, <1>5, <1>6, GoesOnAt
<1>9. ~IsWaitingOwner(n)
  BY <1>4 DEF IsWaitingOwner
<1>10. MarksStay(n) /\ \A m \in Node : m # n => node'[m] = node[m]
  BY <1>3, <1>5, OwnersParts DEF MarksStay, NodeState
<1> QED BY <1>2, <1>3, <1>7, <1>8, <1>9, <1>10, OwnersButOne

LEMMA OwnersFireTimer ==
  ASSUME OwnersInvariant, HomeInvariant', NEW n \in Node, FireNodeTimer(n)
  PROVE  OwnersInvariant'
<1>1. /\ index = 0 /\ node[n].timer = "due" /\ ListsTyped /\ running' = running /\ ~At("restore")
      /\ \/ ~StackFull /\ UnlinkAndPush({}, n, 1, TRUE) /\ CallFlow(n, "timers")
         \/ Goto("timers") /\ UNCHANGED lists
  BY OwnersParts DEF FireNodeTimer, charts, At
<1>2. ~StackFull => index + 1 \in Level /\ index + 1 = 1
  BY <1>1, LevelFacts DEF StackFull
<1>3. ASSUME ~StackFull, UnlinkAndPush({}, n, 1, TRUE)
      PROVE  \A m \in Node : container'[m] = EventList => container[m] = EventList
  BY <1>1, <1>2, <1>3, PushOnNext
<1>4. \A m \in Node : container'[m] = EventList => container[m] = EventList
  BY <1>1, <1>3 DEF lists
<1>5. level'[index'].pc # "call"
  BY <1>1, <1>2, GoesOnAt
<1>6. ~IsWaitingOwner(n)
  BY <1>1 DEF IsWaitingOwner
<1>7. MarksStay(n) /\ \A m \in Node : m # n => node'[m] = node[m]
  BY <1>1, OwnersParts DEF MarksStay, NodeState, FireNodeTimer
<1> QED BY <1>1, <1>4, <1>5, <1>6, <1>7, OwnersButOne

\* A node that has run and waits stays as it is; what is pushed waits for nothing.
LEMMA OwnersAfterRun ==
  ASSUME OwnersInvariant, HomeInvariant', AfterRun
  PROVE  OwnersInvariant'
<1>1. PICK n : n = level[index].current
  OBVIOUS
<1>2. PICK E, P : /\ \A m \in Node : container'[m] = IF m \in E THEN index
                                         ELSE IF m \in InStack(P, index) THEN 0
                                         ELSE container[m]
                  /\ node' = [m \in Node |->
                       [node[m] EXCEPT !.status = IF m = n /\ ~(Status(n) = "Running") THEN "EndRun" ELSE @,
                                       !.runFlag = IF m = n /\ Status(n) = "Running" THEN FALSE ELSE @,
                                       !.pre = IF m \in E THEN n ELSE @]]
  BY <1>1 DEF AfterRun
<1>3. /\ index \in Level /\ level \in [Level -> LevelState] /\ running' = running /\ index' = index
      /\ ~At("restore") /\ index > 0 /\ node \in [Node -> NodeState]
  BY OwnersParts DEF AfterRun, charts, At, LevelsTyped
<1>4. level'[index'].pc = "loop"
  BY <1>3 DEF AfterRun, LevelState
<1>5. \A m \in Node : /\ node'[m].isWaitAll = node[m].isWaitAll /\ node'[m].timer = node[m].timer
                      /\ Status(m) = "Running" => node'[m].status = "Running"
  <2> TAKE m \in Node
  <2>1. PICK s, f, p : /\ node'[m] = [node[m] EXCEPT !.status = s, !.runFlag = f, !.pre = p]
                       /\ Status(m) = "Running" => s = "Running"
    BY <1>2 DEF Status
  <2>2. node[m] \in NodeState
    BY <1>3
  <2> QED BY <2>1, <2>2 DEF NodeState
<1>6. \A m \in Node : container'[m] = EventList => container[m] = EventList
  <2> TAKE m \in Node
  <2>1. container'[m] = index \/ container'[m] = 0 \/ container'[m] = container[m]
    BY <1>2
  <2>2. index # EventList /\ 0 # EventList
    BY <1>3, LevelFacts DEF EventList
  <2> QED BY <2>1, <2>2
<1>7. \A m \in Node : MarksStay(m) /\ (IsWaitingOwner(m) => StillWaits(m))
  BY <1>5, <1>6 DEF MarksStay, IsWaitingOwner, StillWaits
<1> QED BY <1>3, <1>4, <1>7, OwnersLeft

-----------------------------------------------------------------------------
(* Owners that are stopped, with their subcharts.                          *)

\* The nodes of S are stopped, and no subchart goes on whose owner is among them.
LEMMA OwnersStop ==
  ASSUME OwnersInvariant, HomeInvariant', NEW S, level'[index'].pc # "call",
         \A m \in Node : MarksStay(m),
         \A m \in Node \ S : /\ node'[m].status = node[m].status
                             /\ container'[m] = EventList => container[m] = EventList,
         \A m \in Node : At("restore") /\ Status(m) = "EndRun" /\ m \in level[index].history => m \in S,
         \A c \in running' \ Root : c \in running /\ OwnerNode[c] \notin S
  PROVE  OwnersInvariant'
<1>1. MarksByKind'
  BY OwnersParts DEF MarksByKind, MarksStay
<1>2. ASSUME NEW c \in running' \ Root PROVE OwnerWaits(c)'
  <2> DEFINE o == OwnerNode[c]
  <2>1. o \in Node /\ OwnerWaits(c) /\ o \notin S
    BY <1>2, OwnersParts
  <2>2. Kind[o] = "sub" /\ Status(o) = "Running" /\ container[o] # EventList
    BY <2>1 DEF OwnerWaits, GivenUp
  <2>3. node'[o].status = "Running" /\ container'[o] # EventList
    BY <2>1, <2>2 DEF Status
  <2> QED BY <2>2, <2>3 DEF OwnerWaits, GivenUp, Status
<1> QED BY <1>1, <1>2 DEF OwnersInvariant, At

\* What is left alone of the nodes when those of S are stopped.
LEMMA StoppedMarks ==
  ASSUME NEW nodes \in [Node -> NodeState], NEW S, NEW m \in Node
  PROVE  LET x == StoppedNodes(nodes, S)[m]
         IN  /\ x.isWaitAll = nodes[m].isWaitAll /\ (x.timer = nodes[m].timer \/ x.timer = "off")
             /\ m \notin S => x = nodes[m]
<1>1. nodes[m] \in NodeState
  OBVIOUS
<1> QED BY <1>1 DEF StoppedNodes, NodeState

\* No subchart goes on whose owner is a node of a chart that stops with those below it,
LEMMA OwnersInTree ==
  ASSUME OwnersInvariant, NEW c \in Chart, running' = running \ ChartTree(c)
  PROVE  \A d \in running' \ Root : d \in running /\ OwnerNode[d] \notin ChartNodes(ChartTree(c))
<1>1. IsClosed(ChartTree(c))
  BY OwnersParts, ChartTreeIsClosed
<1> QED BY <1>1, OwnersParts DEF IsClosed, ChartNodes

\* or a node that is stopped with its subcharts.
LEMMA OwnersAmong ==
  ASSUME OwnersInvariant, NEW T, running' = running \ SubchartsOf(T)
  PROVE  \A d \in running' \ Root : d \in running /\ OwnerNode[d] \notin WithSubcharts(T)
<1>1. IsClosed(SubchartsOf(T))
  BY OwnersParts, SubchartsAreClosed
<1>2. \A d \in created : OwnerNode[d] \in T => d \in SubchartsOf(T)
  BY OwnersParts, ChartsAssumption DEF SubchartsOf, ChartTree
<1> QED BY <1>1, <1>2, OwnersParts DEF IsClosed, ChartNodes, WithSubcharts

LEMMA OwnersUnlinked ==
  ASSUME NEW S, Unlink(S)
  PROVE  \A m \in Node : container'[m] = EventList => container[m] = EventList
BY DEF Unlink, Contain, EventList

LEMMA OwnersChartStop ==
  ASSUME OwnersInvariant, HomeInvariant', NEW c \in Chart, StopChart(c), ~At("restore"),
         level'[index'].pc # "call"
  PROVE  OwnersInvariant'
<1> DEFINE S == ChartNodes(ChartTree(c))
<1>1. node' = StoppedNodes(node, S) /\ Unlink(S) /\ running' = running \ ChartTree(c)
  BY DEF StopChart
<1>2. \A d \in running' \ Root : d \in running /\ OwnerNode[d] \notin S
  BY <1>1, OwnersInTree
<1> HIDE DEF S
<1>3. \A m \in Node : MarksStay(m) /\ (m \notin S => node'[m].status = node[m].status)
  BY <1>1, OwnersParts, StoppedMarks DEF MarksStay
<1>4. \A m \in Node : container'[m] = EventList => container[m] = EventList
  BY <1>1, OwnersUnlinked
<1> QED BY <1>2, <1>3, <1>4, OwnersStop

LEMMA OwnersStopStep ==
  ASSUME OwnersInvariant, HomeInvariant', NEW c \in Chart, Stop(c)
  PROVE  OwnersInvariant'
<1>1. StopChart(c) /\ At("idle") /\ level' = level /\ index' = index
  BY DEF Stop, AtRest
<1> QED BY <1>1, OwnersChartStop DEF At

\* Neither does one whose owner is a node of a chart that the object hosts.
LEMMA OwnersStopObject ==
  ASSUME OwnersInvariant, HomeInvariant', NEW a, StopObject(a)
  PROVE  OwnersInvariant'
<1> DEFINE C == HostedTrees(a)
           S == ChartNodes(C)
<1>1. /\ node' = StoppedNodes(node, S) /\ Unlink(S) /\ running' = running \ C
      /\ At("idle") /\ level' = level /\ index' = index
  BY DEF StopObject, AtRest
<1>2. \A d \in running' \ Root : d \in running /\ OwnerNode[d] \notin S
  BY <1>1, HostedTreesAreClosed, OwnersParts DEF IsClosed, ChartNodes
<1> HIDE DEF C, S
<1>3. \A m \in Node : MarksStay(m) /\ (m \notin S => node'[m].status = node[m].status)
  BY <1>1, OwnersParts, StoppedMarks DEF MarksStay
<1>4. \A m \in Node : container'[m] = EventList => container[m] = EventList
  BY <1>1, OwnersUnlinked
<1> QED BY <1>1, <1>2, <1>3, <1>4, OwnersStop DEF At

LEMMA OwnersReturnStop ==
  ASSUME OwnersInvariant, HomeInvariant', ReturnStop
  PROVE  OwnersInvariant'
<1> DEFINE c == level[index].returning
<1>1. /\ At("returned") /\ StopChart(c) /\ index' = index
      /\ level' = [level EXCEPT ![index].pc = level[index].caller, ![index].caller = "idle",
                                ![index].returning = None]
  BY DEF ReturnStop
<1>2. /\ index \in Level /\ level \in [Level -> LevelState] /\ level[0].pc # "returned"
      /\ FlowsStayInChart
  BY OwnersParts DEF LevelsTyped, QuietInvariant, LevelsNest
<1>3. level'[index].pc = level[index].caller /\ level[index].caller # "call"
  BY <1>1, <1>2 DEF LevelState
<1>4. c \in Chart
  <2>1. index \in 1..index
    BY <1>1, <1>2, LevelFacts DEF At
  <2> QED BY <1>1, <1>2, <2>1 DEF FlowsStayInChart, FlowOf, At
<1>5. ~At("restore")
  BY <1>1 DEF At
<1> QED BY <1>1, <1>3, <1>4, <1>5, OwnersChartStop

LEMMA OwnersCallStop ==
  ASSUME OwnersInvariant, HomeInvariant', CallStop
  PROVE  OwnersInvariant'
<1>1. PICK kind, T : (\E n \in Node : Calls(n, kind)) /\ StopNodes(T)
  BY DEF CallStop
<1>2. ~At("restore") /\ Goto("callEnd")
  BY <1>1 DEF CallStop, Calls, At
<1>3. level'[index'].pc # "call"
  BY <1>2, GoesOnAt
<1> DEFINE S == WithSubcharts(T)
<1>4. node' = StoppedNodes(node, S) /\ Unlink(S) /\ running' = running \ SubchartsOf(T)
  BY <1>1 DEF StopNodes
<1>5. \A d \in running' \ Root : d \in running /\ OwnerNode[d] \notin S
  BY <1>4, OwnersAmong
<1> HIDE DEF S
<1>6. \A m \in Node : MarksStay(m) /\ (m \notin S => node'[m].status = node[m].status)
  BY <1>4, OwnersParts, StoppedMarks DEF MarksStay
<1>7. \A m \in Node : container'[m] = EventList => container[m] = EventList
  BY <1>4, OwnersUnlinked
<1> QED BY <1>2, <1>3, <1>5, <1>6, <1>7, OwnersStop

\* The owners that the flow has given up are stopped when it ends.
LEMMA OwnersRestore ==
  ASSUME OwnersInvariant, HomeInvariant', Restore
  PROVE  OwnersInvariant'
<1>1. PICK h, ended, finished, c :
        /\ h = level[index].history /\ ended = {n \in h : Status(n) = "EndRun"}
        /\ node' = StoppedNodes(Unflagged(h), WithSubcharts(ended)) /\ Unlink(WithSubcharts(ended))
        /\ running' = running \ SubchartsOf(ended) /\ index' = index
        /\ level' = [level EXCEPT ![index].history = {},
                                  ![index].pc = IF finished THEN "return" ELSE "end",
                                  ![index].returning = IF finished THEN c ELSE None,
                                  ![index].caller = IF finished THEN "end" ELSE "idle"]
  BY DEF Restore
<1> DEFINE S == WithSubcharts(ended)
<1>2. \A d \in running' \ Root : d \in running /\ OwnerNode[d] \notin S
  BY <1>1, OwnersAmong
<1>3. \A m \in Node : At("restore") /\ Status(m) = "EndRun" /\ m \in level[index].history => m \in S
  BY <1>1 DEF WithSubcharts
<1>4. /\ index \in Level /\ level \in [Level -> LevelState] /\ node \in [Node -> NodeState]
  BY OwnersParts DEF LevelsTyped
<1>5. level'[index'].pc # "call"
  BY <1>1, <1>4 DEF LevelState
<1> HIDE DEF S
<1>6. /\ Unflagged(h) \in [Node -> NodeState]
      /\ \A m \in Node : LET x == Unflagged(h)[m]
                         IN  x.status = node[m].status /\ x.timer = node[m].timer
                               /\ x.isWaitAll = node[m].isWaitAll
  <2>1. \A y \in NodeState : LET z == [y EXCEPT !.runFlag = FALSE]
                             IN  z \in NodeState /\ z.status = y.status /\ z.timer = y.timer
                                   /\ z.isWaitAll = y.isWaitAll
    BY DEF NodeState
  <2> QED BY <1>4, <2>1 DEF Unflagged
<1>7. node' = StoppedNodes(Unflagged(h), S) /\ Unlink(S)
  BY <1>1 DEF S
<1>8. \A m \in Node : MarksStay(m) /\ (m \notin S => node'[m].status = node[m].status)
  BY <1>6, <1>7, StoppedMarks DEF MarksStay
<1>9. \A m \in Node : container'[m] = EventList => container[m] = EventList
  BY <1>7, OwnersUnlinked
<1> QED BY <1>2, <1>3, <1>5, <1>8, <1>9, OwnersStop

\* An owner that is resumed is stopped first, and so are its subcharts.
LEMMA OwnersReturnToOwner ==
  ASSUME OwnersInvariant, HomeInvariant', NEW r \in Result, ReturnToOwner(r)
  PROVE  OwnersInvariant'
<1>1. PICK o, S, w, f :
        /\ o = OwnerNode[level[index].returning] /\ S = WithSubcharts({o})
        /\ w = <<AgentOf[ChartOf[o]], START>>
        /\ f \in [Node -> NodeState] /\ f = StoppedNodes(node, S)
        /\ \E b, s : node' = [f EXCEPT ![o].result = r, ![o].skip = TRUE, ![o].runFlag = b, ![o].status = s]
        /\ running' = running \ SubchartsOf({o})
        /\ \/ UnlinkAndPush(S, o, index - 1, FALSE) /\ Goto("returned")
           \/ UnlinkAndWait(S, o, w) /\ Goto("returned")
           \/ ~StackFull /\ UnlinkAndPush(S, o, index + 1, TRUE) /\ CallFlow(o, "returned")
           \/ Unlink(S) /\ Goto("returned")
  <2>1. StoppedNodes(node, WithSubcharts({OwnerNode[level[index].returning]})) \in [Node -> NodeState]
    BY OwnersParts, StoppedNodesType
  <2> QED BY <2>1 DEF ReturnToOwner
<1>2. /\ index \in Level /\ level \in [Level -> LevelState] /\ level[0].pc # "return"
      /\ FlowsStayInChart /\ ListsTyped /\ node \in [Node -> NodeState]
  BY OwnersParts DEF LevelsTyped, QuietInvariant, LevelsNest
<1>3. At("return") /\ level[index].returning \notin Root /\ index # 0
  BY <1>2 DEF ReturnToOwner, At
<1>4. o \in Node /\ w \in Wait
  <2>1. index \in 1..index
    BY <1>2, <1>3, LevelFacts
  <2>2. level[index].returning \in Chart
    BY <1>2, <1>3, <2>1 DEF FlowsStayInChart, FlowOf, At
  <2>3. o = OwnerNode[level[index].returning] /\ w = <<AgentOf[ChartOf[o]], START>>
    BY <1>1
  <2>4. o \in Node
    BY <1>3, <2>2, <2>3, ConstantsAssumption DEF Root
  <2> QED BY <2>3, <2>4, ConstantsAssumption DEF Wait
<1>5. index - 1 \in Level /\ (~StackFull => index + 1 \in Level)
  BY <1>2, <1>3, LevelFacts DEF StackFull
<1>6. o \in S
  BY <1>1 DEF WithSubcharts
<1>7. \A d \in running' \ Root : d \in running /\ OwnerNode[d] \notin S
  BY <1>1, OwnersAmong
<1>8. \A m \in Node \ S : container'[m] = EventList => container[m] = EventList
  <2>1. CASE UnlinkAndPush(S, o, index - 1, FALSE)
    BY <1>2, <1>4, <1>5, <2>1, PushEffect
  <2>2. CASE UnlinkAndWait(S, o, w)
    BY <1>2, <1>4, <1>6, <2>2, WaitEffect
  <2>3. CASE ~StackFull /\ UnlinkAndPush(S, o, index + 1, TRUE)
    BY <1>2, <1>4, <1>5, <2>3, PushEffect
  <2>4. CASE Unlink(S)
    BY <2>4, OwnersUnlinked
  <2> QED BY <1>1, <2>1, <2>2, <2>3, <2>4
<1>9. level'[index'].pc # "call"
  BY <1>1, <1>4, <1>5, GoesOnAt
<1>10. \A m \in Node : MarksStay(m) /\ (m \notin S => node'[m].status = node[m].status)
  <2> TAKE m \in Node
  <2>1. PICK b, s : node' = [f EXCEPT ![o].result = r, ![o].skip = TRUE, ![o].runFlag = b, ![o].status = s]
    BY <1>1
  <2>2. f[m] \in NodeState
    BY <1>1
  <2>3. node'[m] = IF m = o THEN [f[o] EXCEPT !.result = r, !.skip = TRUE, !.runFlag = b, !.status = s]
                   ELSE f[m]
    BY <1>1, <1>4, <2>1
  <2>4. node'[m].timer = f[m].timer /\ node'[m].isWaitAll = f[m].isWaitAll
    BY <2>2, <2>3 DEF NodeState
  <2>5. m \notin S => node'[m] = f[m]
    BY <1>6, <2>3
  <2>6. /\ f[m].isWaitAll = node[m].isWaitAll /\ (f[m].timer = node[m].timer \/ f[m].timer = "off")
        /\ m \notin S => f[m] = node[m]
    <3>1. f[m] = StoppedNodes(node, S)[m]
      BY <1>1
    <3>2. node \in [Node -> NodeState]
      BY <1>2
    <3> QED BY <3>1, <3>2, StoppedMarks
  <2> QED BY <2>4, <2>5, <2>6 DEF MarksStay
<1>11. ~At("restore")
  BY <1>3 DEF At
<1> QED BY <1>7, <1>8, <1>9, <1>10, <1>11, OwnersStop

-----------------------------------------------------------------------------
(* Charts that start.                                                      *)

\* The start node of a chart that does not run is no owner that waits.
LEMMA OwnersChartStarts ==
  ASSUME OwnersInvariant, HomeInvariant', ~At("restore"), NEW c \in Chart, ~IsRunning(c),
         NEW sync, NEW nodes \in [Node -> NodeState], NEW p, p # "call", StartChart(c, sync, nodes, p),
         \A m \in Node : /\ nodes[m].timer = node[m].timer /\ nodes[m].isWaitAll = node[m].isWaitAll
                         /\ Status(m) = "Running" => nodes[m].status = "Running",
         c \in Root \/ LET o == OwnerNode[c]
                       IN  /\ o \in Node /\ Kind[o] = "sub" /\ ChartOf[o] # c
                           /\ nodes[o].status = "Running" /\ container[o] # EventList
  PROVE  OwnersInvariant'
<1>1. PICK s, now, v, w :
        /\ s = StartNode[c] /\ w = <<AgentOf[c], START>> /\ running' = running \cup {c}
        /\ node' = [nodes EXCEPT ![s].skip = TRUE, ![s].result = "rTRUE", ![s].status = v]
        /\ now => ~StackFull
        /\ \/ now /\ UnlinkAndPush({}, s, index + 1, TRUE) /\ CallFlow(s, p)
           \/ UnlinkAndWait({}, s, w) /\ Goto(p)
  BY DEF StartChart
<1>2. s \in Node /\ ChartOf[s] = c /\ w \in Wait
  BY <1>1, ConstantsAssumption DEF Wait
<1>3. now => index + 1 \in Level
  BY <1>1, OwnersParts, LevelFacts DEF StackFull
<1>4. level'[index'].pc # "call"
  BY <1>1, <1>2, <1>3, GoesOnAt
<1>5. \A m \in Node : container'[m] = EventList => m = s \/ container[m] = EventList
  <2>1. ListsTyped
    BY OwnersParts
  <2>2. CASE now /\ UnlinkAndPush({}, s, index + 1, TRUE)
    BY <1>2, <1>3, <2>1, <2>2, PushOnNext
  <2>3. CASE UnlinkAndWait({}, s, w)
    BY <1>2, <2>1, <2>3, WaitEffect
  <2> QED BY <1>1, <2>2, <2>3
<1>6. \A m \in Node : /\ node'[m].timer = nodes[m].timer /\ node'[m].isWaitAll = nodes[m].isWaitAll
                      /\ m # s => node'[m].status = nodes[m].status
  <2> TAKE m \in Node
  <2>1. node'[m] = IF m = s THEN [nodes[s] EXCEPT !.skip = TRUE, !.result = "rTRUE", !.status = v]
                   ELSE nodes[m]
    BY <1>1, <1>2
  <2>2. nodes[m] \in NodeState
    OBVIOUS
  <2> QED BY <2>1, <2>2 DEF NodeState
<1>7. \A m \in Node : MarksStay(m)
  BY <1>6 DEF MarksStay
<1>8. ASSUME NEW m \in Node, IsWaitingOwner(m) PROVE StillWaits(m)
  <2>1. m # s
    BY <1>2, <1>8 DEF IsWaitingOwner
  <2> QED BY <1>5, <1>6, <1>8, <2>1 DEF IsWaitingOwner, StillWaits
<1>9. ASSUME NEW d \in running' \ Root
      PROVE  /\ OwnerNode[d] \in Node
             /\ d \in running \/ (Kind[OwnerNode[d]] = "sub" /\ StillWaits(OwnerNode[d]))
  <2>1. CASE d \in running
    BY <1>9, <2>1, OwnersParts
  <2>2. CASE d = c
    <3> DEFINE o == OwnerNode[c]
    <3>1. o \in Node /\ Kind[o] = "sub" /\ o # s /\ nodes[o].status = "Running" /\ container[o] # EventList
      BY <1>2, <1>9, <2>2
    <3> QED BY <1>5, <1>6, <2>2, <3>1 DEF StillWaits
  <2> QED BY <1>1, <1>9, <2>1, <2>2
<1> QED BY <1>4, <1>7, <1>8, <1>9, OwnersStay

LEMMA OwnersStart ==
  ASSUME OwnersInvariant, HomeInvariant', NEW c \in Chart, Start(c)
  PROVE  OwnersInvariant'
<1>1. c \in Root /\ ~IsRunning(c) /\ ~At("restore") /\ StartChart(c, ~DeferEvent, node, "idle")
  BY DEF Start, CallsIn, AtRest, At
<1>2. node \in [Node -> NodeState]
  BY OwnersParts
<1> QED BY <1>1, <1>2, OwnersChartStarts DEF Status

\* The owner, whose function is being called, runs and is on the stack.
LEMMA OwnersCallSubchart ==
  ASSUME OwnersInvariant, HomeInvariant', CallSubchart
  PROVE  OwnersInvariant'
<1>1. PICK n, c, nodes :
        /\ n \in Node /\ c \in Chart
        /\ Calls(n, "sub") /\ OwnerNode[c] = n
        /\ nodes = [node EXCEPT ![n].status = "Running"]
        /\ \/ IsRunning(c) /\ node' = nodes /\ Goto("callEnd") /\ UNCHANGED <<running, lists>>
           \/ ~IsRunning(c) /\ StartChart(c, TRUE, nodes, "callEnd")
  BY DEF CallSubchart
<1>2. node \in [Node -> NodeState] /\ index \in Level
  BY OwnersParts
<1>3. /\ nodes \in [Node -> NodeState]
      /\ \A m \in Node : /\ nodes[m].timer = node[m].timer /\ nodes[m].isWaitAll = node[m].isWaitAll
                         /\ m = n \/ Status(m) = "Running" => nodes[m].status = "Running"
  BY <1>1, <1>2 DEF NodeState, Status
<1>4. ~At("restore") /\ Kind[n] = "sub" /\ container[n] # EventList
  <2>1. At("call") /\ n = level[index].current /\ Kind[n] = "sub"
    BY <1>1 DEF Calls
  <2>2. container[n] = index
    BY <2>1 DEF OwnersInvariant
  <2> QED BY <1>2, <2>1, <2>2, LevelFacts DEF At, EventList
<1>5. CASE IsRunning(c) /\ node' = nodes /\ Goto("callEnd") /\ UNCHANGED <<running, lists>>
  <2>1. level'[index'].pc # "call"
    BY <1>5, GoesOnAt
  <2>2. \A m \in Node : MarksStay(m) /\ (IsWaitingOwner(m) => StillWaits(m))
    BY <1>3, <1>5 DEF MarksStay, IsWaitingOwner, StillWaits, lists
  <2> QED BY <1>4, <1>5, <2>1, <2>2, OwnersLeft
<1>6. CASE ~IsRunning(c) /\ StartChart(c, TRUE, nodes, "callEnd")
  <2>1. ChartOf[n] # c
    BY <1>1, ChartsAssumption
  <2> QED BY <1>1, <1>3, <1>4, <1>6, <2>1, OwnersChartStarts
<1> QED BY <1>1, <1>5, <1>6

-----------------------------------------------------------------------------
(* The theorem about owners.                                               *)

LEMMA OwnersBeginning ==
  ASSUME Init
  PROVE  OwnersInvariant
<1>1. HomeInvariant /\ index = 0 /\ running = {} /\ ~At("call")
  BY HomeBeginning, LevelFacts DEF Init, At, FreshLevel
<1>2. MarksByKind
  BY DEF Init, MarksByKind, FreshNode
<1> QED BY <1>1, <1>2 DEF OwnersInvariant

LEMMA OwnersStuttering ==
  ASSUME OwnersInvariant, HomeInvariant', UNCHANGED vars
  PROVE  OwnersInvariant'
BY DEF vars, charts, lists, OwnersInvariant, MarksByKind, OwnerWaits, GivenUp, At, Status, Root

LEMMA EveryOwnersStep ==
  ASSUME OwnersInvariant, [Next]_vars
  PROVE  OwnersInvariant'
<1>1. HomeInvariant'
  BY OwnersParts, EveryHomeStep
<1>2. CASE Game
  <2>1. MayStop \subseteq Chart /\ MayStopAll \subseteq Agent /\ Raised \subseteq Wait /\ Triggers \subseteq Wait
    BY ConstantsAssumption
  <2> QED BY <1>1, <1>2, <2>1, OwnersStart, OwnersStopStep, OwnersStopObject, OwnersQuietSteps, OwnersDispatch,
             OwnersBeginStep DEF Game
<1>3. CASE Timers
  BY <1>1, <1>3, OwnersFireTimer, OwnersQuietSteps DEF Timers
<1>4. CASE Events
  BY <1>1, <1>4, OwnersQuietSteps, OwnersDispatch, OwnersDispatchNode DEF Events
<1>5. CASE Executor
  BY <1>1, <1>5, OwnersQuietSteps, OwnersTruncate, OwnersSkipRunning, OwnersWaitTick, OwnersRunNode,
     OwnersCallEnd, OwnersAfterRun, OwnersRestore, OwnersFlowEnd DEF Executor
<1>6. CASE Returning
  BY <1>1, <1>6, OwnersReturnToOwner, OwnersQuietSteps, OwnersReturnStop DEF Returning
<1>7. CASE Calling
  BY <1>1, <1>7, OwnersQuietSteps, OwnersCallWaits, OwnersCallSubchart, OwnersCallReturn, OwnersDispatch,
     OwnersCallStop DEF Calling
<1>8. CASE UNCHANGED vars
  BY <1>1, <1>8, OwnersStuttering
<1> QED BY <1>2, <1>3, <1>4, <1>5, <1>6, <1>7, <1>8 DEF Next, Runtime

\* The invariant of the owners holds in every state the runtime reaches.
THEOREM OwnersInvariantHolds == Spec => []OwnersInvariant
<1>1. Init => OwnersInvariant
  BY OwnersBeginning
<1>2. OwnersInvariant /\ [Next]_vars => OwnersInvariant'
  BY EveryOwnersStep
<1> QED BY <1>1, <1>2, PTL DEF Spec

\* Between steps a subchart runs only while its owner node waits for it, in a chart that
\* runs: whatever stops, ends or resumes the owner has stopped the subchart, however deep in
\* nested flows, events and returns that happened (manager.cpp:642, chart.cpp:91).
THEOREM SubchartsHaveWaitingOwners == Spec => []SubchartHasWaitingOwner
<1>1. OwnersInvariant => SubchartHasWaitingOwner
  <2> SUFFICES ASSUME OwnersInvariant, AtRest, NEW c \in running \ Root
               PROVE  Status(OwnerNode[c]) = "Running" /\ IsRunning(ChartOf[OwnerNode[c]])
    BY DEF SubchartHasWaitingOwner
  <2>1. ~At("restore")
    BY DEF AtRest, At
  <2> QED BY <2>1, OwnersWait DEF IsWaitingOwner
<1> QED BY <1>1, OwnersInvariantHolds, PTL

-----------------------------------------------------------------------------
(* The nodes that wait.                                                    *)

\* What WaitsInvariant says of one node.
NodeWaits(n) ==
  /\ container[n] = EventList => Status(n) = "Running"
  /\ node[n].timer # "off" => (Status(n) = "Running" \/ GivenUp(n)) /\ container[n] # EventList

\* A step leaves what a node waits for, or takes its timer, or makes it run.
WaitsOn(n) ==
  /\ ~GivenUp(n)
  /\ Status(n) = "Running" => node'[n].status = "Running"
  /\ node'[n].timer # "off" => node[n].timer # "off"
  /\ container'[n] = EventList => container[n] = EventList

WaitsAnew(n) ==
  \/ node'[n].timer = "off" /\ (container'[n] # EventList \/ node'[n].status = "Running")
  \/ node'[n].status = "Running" /\ container'[n] # EventList

LEMMA WaitsParts ==
  /\ WaitsInvariant <=> OwnersInvariant /\ \A n \in Node : NodeWaits(n)
  /\ ~At("restore") => \A n \in Node : ~GivenUp(n)
BY DEF WaitsInvariant, WaitingNodesRun, NodeWaits, GivenUp

LEMMA WaitsStay ==
  ASSUME WaitsInvariant, OwnersInvariant', \A n \in Node : WaitsOn(n) \/ WaitsAnew(n)
  PROVE  WaitsInvariant'
<1>1. ASSUME NEW n \in Node PROVE NodeWaits(n)'
  <2>1. NodeWaits(n)
    BY <1>1, WaitsParts
  <2> QED BY <1>1, <2>1 DEF WaitsOn, WaitsAnew, NodeWaits, Status, GivenUp
<1> QED BY <1>1 DEF WaitsInvariant, WaitingNodesRun, NodeWaits

\* Nodes and containers stay.
LEMMA WaitsUntouched ==
  ASSUME WaitsInvariant, OwnersInvariant', ~At("restore"), node' = node,
         \A n \in Node : container'[n] = EventList => container[n] = EventList
  PROVE  WaitsInvariant'
<1>1. \A n \in Node : WaitsOn(n)
  BY WaitsParts DEF WaitsOn, Status
<1> QED BY <1>1, WaitsStay

\* One node changes.
LEMMA WaitsButOne ==
  ASSUME WaitsInvariant, OwnersInvariant', ~At("restore"), NEW n \in Node,
         WaitsOn(n) \/ WaitsAnew(n), \A m \in Node : m # n => node'[m] = node[m],
         \A m \in Node : container'[m] = EventList => m = n \/ container[m] = EventList
  PROVE  WaitsInvariant'
<1>1. \A m \in Node : m # n => WaitsOn(m)
  BY WaitsParts DEF WaitsOn, Status
<1> QED BY <1>1, WaitsStay

LEMMA WaitsQuietSteps ==
  ASSUME WaitsInvariant, OwnersInvariant',
         \/ \E w \in Wait : Raise(w)
         \/ \E a \in Agent : FireAgentTimer(a)
         \/ SwitchQueues \/ EndStep \/ LoopExit \/ ReturnOfRoot \/ CallFunc \/ CallRaise
         \/ CallReturn \/ FlowEnd \/ HandleEvent \/ DispatchEnd \/ CallTrigger
         \/ \E w \in Wait : Trigger(w)
  PROVE  WaitsInvariant'
<1>1. node' = node /\ container' = container /\ ~At("restore")
  <2>1. CASE (\E w \in Wait : Raise(w)) \/ (\E a \in Agent : FireAgentTimer(a)) \/ SwitchQueues \/ EndStep
             \/ LoopExit \/ ReturnOfRoot \/ CallFunc \/ CallRaise
    BY <2>1 DEF Raise, FireAgentTimer, CallsIn, AtRest, lists, At, SwitchQueues, EndStep, LoopExit,
                ReturnOfRoot, CallFunc, CallRaise, Calls
  <2>2. CASE CallReturn \/ FlowEnd \/ HandleEvent \/ DispatchEnd
    BY <2>2 DEF lists, At, CallReturn, FlowEnd, HandleEvent, DispatchEnd, Calls
  <2>3. CASE CallTrigger \/ \E w \in Wait : Trigger(w)
    BY <2>3 DEF At, CallTrigger, Trigger, TriggerEvent, Calls, CallsIn, AtRest
  <2> QED BY <2>1, <2>2, <2>3
<1> QED BY <1>1, WaitsUntouched

\* Steps that change marks of nodes only.
LEMMA WaitsMarks ==
  ASSUME WaitsInvariant, OwnersInvariant',
         RunNode \/ (\E r \in Result : CallEnd(r)) \/ \E due \in SUBSET Armed : BeginStep(due)
  PROVE  WaitsInvariant'
<1>1. node \in [Node -> NodeState]
  BY OwnersParts, WaitsParts
<1>2. CASE RunNode
  <2>1. ~At("restore") /\ container' = container
    BY <1>2 DEF RunNode, Visit, InLoop, At, lists
  <2>2. \A m \in Node : node'[m].status = node[m].status /\ node'[m].timer = node[m].timer
    <3>1. PICK n \in Node : node' = IF node[n].skip THEN [node EXCEPT ![n].skip = FALSE]
                             ELSE [node EXCEPT ![n].runFlag = TRUE, ![n].result = "rFALSE"]
      BY <1>2 DEF RunNode
    <3>2. CASE node' = [node EXCEPT ![n].skip = FALSE]
      BY <1>1, <3>2 DEF NodeState
    <3>3. CASE node' = [node EXCEPT ![n].runFlag = TRUE, ![n].result = "rFALSE"]
      BY <1>1, <3>3 DEF NodeState
    <3> QED BY <3>1, <3>2, <3>3
  <2> QED BY <2>1, <2>2, WaitsParts, WaitsStay DEF WaitsOn, Status
<1>3. CASE \E r \in Result : CallEnd(r)
  <2>1. ~At("restore") /\ container' = container
    BY <1>3 DEF CallEnd, At, lists
  <2>2. \A m \in Node : node'[m].status = node[m].status /\ node'[m].timer = node[m].timer
    BY <1>1, <1>3 DEF CallEnd, NodeState
  <2> QED BY <2>1, <2>2, WaitsParts, WaitsStay DEF WaitsOn, Status
<1>4. CASE \E due \in SUBSET Armed : BeginStep(due)
  <2>1. ~At("restore") /\ container' = container
    BY <1>4 DEF BeginStep, AtRest, At, lists
  <2>2. \A m \in Node : /\ node'[m].status = node[m].status
                        /\ node'[m].timer # "off" => node[m].timer # "off"
    BY <1>1, <1>4 DEF BeginStep, Armed, NodeState
  <2> QED BY <2>1, <2>2, WaitsParts, WaitsStay DEF WaitsOn, Status
<1> QED BY <1>2, <1>3, <1>4

LEMMA WaitsSkipRunning ==
  ASSUME WaitsInvariant, OwnersInvariant', SkipRunning
  PROVE  WaitsInvariant'
<1>1. PICK n \in Node : Visit(n) /\ node' = node /\ container' = Contain(InStack({n}, index), 0)
  BY DEF SkipRunning
<1>2. ~At("restore")
  BY <1>1 DEF Visit, InLoop, At
<1>3. \A m \in Node : container'[m] = EventList => container[m] = EventList
  BY <1>1 DEF Contain, EventList
<1> QED BY <1>1, <1>2, <1>3, WaitsUntouched

\* What the flow gives up was on its stack.
LEMMA WaitsTruncate ==
  ASSUME WaitsInvariant, OwnersInvariant', Truncate
  PROVE  WaitsInvariant'
<1> DEFINE S == Elements(stack[index])
<1>1. /\ index' = index /\ index \in Level /\ level \in [Level -> LevelState]
      /\ node \in [Node -> NodeState] /\ ~At("restore")
      /\ node' = [n \in Node |-> IF n \in S THEN [node[n] EXCEPT !.status = "EndRun"] ELSE node[n]]
      /\ level' = [level EXCEPT ![index].pc = "restore", ![index].history = @ \cup S]
      /\ container' = Contain(InStack(S, index), 0)
  BY OwnersParts, WaitsParts DEF Truncate, InLoop, At, LevelsTyped
<1>2. \A m \in Node : m \in S => container[m] # EventList
  <2>1. ContainersAgree
    BY OwnersParts, WaitsParts
  <2>2. \A m \in Node : m \in S => container[m] = index
    BY <1>1, <2>1 DEF ContainersAgree, Holds
  <2> QED BY <1>1, <2>2, LevelFacts DEF EventList
<1> HIDE DEF S
<1>3. At("restore")' /\ S \subseteq level'[index].history
  BY <1>1 DEF At, LevelState
<1>4. \A n \in Node : /\ node'[n].timer = node[n].timer
                      /\ n \in S => node'[n].status = "EndRun"
                      /\ n \notin S => node'[n].status = node[n].status
  BY <1>1 DEF NodeState
<1>5. \A n \in Node : container'[n] = EventList => container[n] = EventList
  BY <1>1 DEF Contain, EventList
<1>6. ASSUME NEW n \in Node PROVE NodeWaits(n)'
  <2>1. NodeWaits(n) /\ ~GivenUp(n)
    BY <1>1, WaitsParts
  <2>2. CASE n \in S
    BY <1>1, <1>2, <1>3, <1>4, <1>5, <2>1, <2>2 DEF NodeWaits, GivenUp, Status
  <2>3. CASE n \notin S
    BY <1>1, <1>4, <1>5, <2>1, <2>3 DEF NodeWaits, Status
  <2> QED BY <2>2, <2>3
<1> QED BY <1>6 DEF WaitsInvariant, WaitingNodesRun, NodeWaits

\* A node that is put off to a tick has no timer.
LEMMA WaitsWaitTick ==
  ASSUME WaitsInvariant, OwnersInvariant', WaitTick
  PROVE  WaitsInvariant'
<1>1. PICK n \in Node : /\ Visit(n) /\ ~Skips(n)
                        /\ UnlinkAndWait({}, n, <<AgentOf[level[index].chart], TICK>>)
                        /\ node' = [node EXCEPT ![n].status = "Running"]
  BY DEF WaitTick
<1>2. QuietInvariant /\ node \in [Node -> NodeState] /\ ListsTyped /\ MarksByKind
  BY OwnersParts, WaitsParts
<1>3. ~At("restore")
  BY <1>1 DEF Visit, InLoop, At
<1>4. node[n].timer = "off"
  <2>1. NodeWaits(n) /\ ~GivenUp(n)
    BY <1>3, WaitsParts
  <2> QED BY <1>1, <1>2, <2>1 DEF Skips, MarksByKind, NodeWaits
<1>5. \A m \in Node : container'[m] = EventList => m = n \/ container[m] = EventList
  <2>1. <<AgentOf[level[index].chart], TICK>> \in Wait
    BY <1>1, <1>2, VisitFacts, ConstantsAssumption DEF Wait
  <2> QED BY <1>1, <1>2, <2>1, JustWaits
<1>6. WaitsAnew(n) /\ \A m \in Node : m # n => node'[m] = node[m]
  BY <1>1, <1>2, <1>4 DEF WaitsAnew, NodeState
<1> QED BY <1>3, <1>5, <1>6, WaitsButOne

\* What a node whose function is called begins to wait for is all it waits for.
LEMMA WaitsCall ==
  ASSUME WaitsInvariant, OwnersInvariant', CallWait \/ CallWaitAll \/ CallWaitEvent
  PROVE  WaitsInvariant'
<1>1. node \in [Node -> NodeState] /\ ListsTyped /\ MarksByKind /\ index \in Level
  BY OwnersParts, WaitsParts
<1>2. ASSUME NEW n, At("call"), n = level[index].current
      PROVE  container[n] # EventList /\ ~At("restore")
  <2>1. container[n] = index
    BY <1>2 DEF OwnersInvariant, WaitsInvariant
  <2> QED BY <1>1, <1>2, <2>1, LevelFacts DEF EventList, At
<1>3. CASE CallWait
  <2>1. PICK n \in Node : /\ Calls(n, "wait") /\ container' = container
                          /\ node' = [node EXCEPT ![n].timer = "armed", ![n].skip = TRUE,
                                        ![n].result = "rTRUE", ![n].status = "Running"]
    BY <1>3 DEF CallWait, lists
  <2>2. container[n] # EventList /\ ~At("restore")
    BY <1>2, <2>1 DEF Calls
  <2>3. WaitsAnew(n) /\ \A m \in Node : m # n => node'[m] = node[m]
    BY <1>1, <2>1, <2>2 DEF WaitsAnew, NodeState
  <2> QED BY <2>1, <2>2, <2>3, WaitsButOne
<1>4. CASE CallWaitAll
  <2>1. PICK n \in Node : /\ Calls(n, "waitall") /\ container' = container
                          /\ \E x, s, r : node' = [node EXCEPT ![n].isWaitAll = TRUE, ![n].arrived = x,
                                                     ![n].status = s, ![n].result = r]
    <3>1. PICK n \in Node : /\ Calls(n, "waitall") /\ UNCHANGED lists
            /\ LET seen == (node[n].arrived \cup {node[n].pre}) \cap Target[n]
                   all == node[n].pre \in Target[n] /\ seen = Target[n]
               IN  node' = [node EXCEPT ![n].isWaitAll = TRUE,
                              ![n].arrived = IF all THEN {} ELSE seen,
                              ![n].status = IF all THEN "EndRun" ELSE "Running",
                              ![n].result = IF all THEN "rTRUE" ELSE node[n].result]
      BY <1>1, <1>4 DEF CallWaitAll
    <3> QED BY <3>1 DEF lists
  <2>2. container[n] # EventList /\ ~At("restore") /\ node[n].timer = "off"
    BY <1>1, <1>2, <2>1 DEF Calls, MarksByKind
  <2>3. WaitsAnew(n) /\ \A m \in Node : m # n => node'[m] = node[m]
    BY <1>1, <2>1, <2>2 DEF WaitsAnew, NodeState
  <2> QED BY <2>1, <2>2, <2>3, WaitsButOne
<1>5. CASE CallWaitEvent
  <2>1. PICK n \in Node : /\ Calls(n, "event") /\ UnlinkAndWait({}, n, Names[n])
                          /\ node' = [node EXCEPT ![n].skip = TRUE, ![n].result = "rTRUE",
                                                  ![n].status = "Running"]
    BY <1>5 DEF CallWaitEvent
  <2>2. ~At("restore") /\ node[n].timer = "off"
    BY <1>1, <1>2, <2>1 DEF Calls, MarksByKind
  <2>3. \A m \in Node : container'[m] = EventList => m = n \/ container[m] = EventList
    <3>1. Names[n] \in Wait
      BY ConstantsAssumption
    <3> QED BY <1>1, <2>1, <3>1, JustWaits
  <2>4. WaitsAnew(n) /\ \A m \in Node : m # n => node'[m] = node[m]
    BY <1>1, <2>1, <2>2 DEF WaitsAnew, NodeState
  <2> QED BY <2>2, <2>3, <2>4, WaitsButOne
<1> QED BY <1>3, <1>4, <1>5

\* A node that is pushed is in no event list.
LEMMA PushedOut ==
  ASSUME ListsTyped, NEW S, NEW n \in Node, NEW k \in Level, NEW clear, UnlinkAndPush(S, n, k, clear)
  PROVE  \A m \in Node : container'[m] = EventList => container[m] = EventList /\ m \notin S \cup {n}
<1>1. container' = [Contain(S, 0) EXCEPT ![n] = k] /\ k # EventList
  BY LevelFacts DEF UnlinkAndPush, EventList
<1> QED BY <1>1 DEF Contain, EventList

LEMMA WaitsDispatchNode ==
  ASSUME WaitsInvariant, OwnersInvariant', DispatchNode
  PROVE  WaitsInvariant'
<1>1. PICK n : n = Head(handling[index])
  OBVIOUS
<1>2. /\ handling[index] # <<>> /\ handling[index] \in Seq(Node) /\ index \in Level /\ ListsTyped
      /\ ContainersAgree /\ ~At("restore") /\ node \in [Node -> NodeState]
  BY OwnersParts, WaitsParts DEF DispatchNode, ListsTyped, At
<1>3. n \in Node /\ n \in Elements(handling[index])
  BY <1>1, <1>2, TailElements
<1>4. container[n] = EventList
  BY <1>2, <1>3 DEF ContainersAgree, Holds
<1>5. /\ node' = [node EXCEPT ![n].status = "Idle"]
      /\ \/ ~StackFull /\ UnlinkAndPush({}, n, index + 1, TRUE)
         \/ Unlink({n})
  BY <1>1 DEF DispatchNode
<1>6. \A m \in Node : container'[m] = EventList => container[m] = EventList /\ m # n
  <2>1. CASE ~StackFull /\ UnlinkAndPush({}, n, index + 1, TRUE)
    <3>1. index + 1 \in Level
      BY <1>2, <2>1, LevelFacts DEF StackFull
    <3> QED BY <1>2, <1>3, <2>1, <3>1, PushedOut
  <2>2. CASE Unlink({n})
    BY <1>2, <2>2, UnlinkEffect
  <2> QED BY <1>5, <2>1, <2>2
<1>7. node[n].timer = "off"
  BY <1>3, <1>4, WaitsParts DEF NodeWaits
<1>8. WaitsAnew(n) /\ \A m \in Node : m # n => node'[m] = node[m]
  BY <1>2, <1>3, <1>5, <1>6, <1>7 DEF WaitsAnew, NodeState
<1> QED BY <1>2, <1>3, <1>6, <1>8, WaitsButOne

LEMMA WaitsFireTimer ==
  ASSUME WaitsInvariant, OwnersInvariant', NEW n \in Node, FireNodeTimer(n)
  PROVE  WaitsInvariant'
<1>1. /\ index = 0 /\ node[n].timer = "due" /\ ListsTyped /\ ~At("restore") /\ node \in [Node -> NodeState]
      /\ \/ ~StackFull /\ UnlinkAndPush({}, n, 1, TRUE)
         \/ container' = container
      /\ \E s : node' = [node EXCEPT ![n].timer = "off", ![n].result = "rTRUE", ![n].status = s]
  BY OwnersParts, WaitsParts DEF FireNodeTimer, At, lists
<1>2. container[n] # EventList
  BY <1>1, WaitsParts DEF NodeWaits
<1>3. \A m \in Node : container'[m] = EventList => container[m] = EventList
  <2>1. ASSUME ~StackFull, UnlinkAndPush({}, n, 1, TRUE)
        PROVE  \A m \in Node : container'[m] = EventList => container[m] = EventList
    <3>1. 1 \in Level
      BY <1>1, <2>1, LevelFacts DEF StackFull
    <3> QED BY <1>1, <2>1, <3>1, PushedOut
  <2> QED BY <1>1, <2>1
<1>4. WaitsAnew(n) /\ \A m \in Node : m # n => node'[m] = node[m]
  BY <1>1, <1>2, <1>3 DEF WaitsAnew, NodeState
<1> QED BY <1>1, <1>3, <1>4, WaitsButOne

LEMMA WaitsAfterRun ==
  ASSUME WaitsInvariant, OwnersInvariant', AfterRun
  PROVE  WaitsInvariant'
<1>1. PICK n, E, P :
        /\ \A m \in Node : container'[m] = IF m \in E THEN index
                             ELSE IF m \in InStack(P, index) THEN 0 ELSE container[m]
        /\ node' = [m \in Node |->
             [node[m] EXCEPT !.status = IF m = n /\ ~(Status(n) = "Running") THEN "EndRun" ELSE @,
                             !.runFlag = IF m = n /\ Status(n) = "Running" THEN FALSE ELSE @,
                             !.pre = IF m \in E THEN n ELSE @]]
  BY DEF AfterRun
<1>2. index \in Level /\ ~At("restore") /\ node \in [Node -> NodeState]
  BY OwnersParts, WaitsParts DEF AfterRun, At
<1>3. \A m \in Node : /\ node'[m].timer = node[m].timer
                      /\ Status(m) = "Running" => node'[m].status = "Running"
  <2> TAKE m \in Node
  <2>1. PICK s, f, p : /\ node'[m] = [node[m] EXCEPT !.status = s, !.runFlag = f, !.pre = p]
                       /\ Status(m) = "Running" => s = "Running"
    BY <1>1 DEF Status
  <2>2. node[m] \in NodeState
    BY <1>2
  <2> QED BY <2>1, <2>2 DEF NodeState
<1>4. \A m \in Node : container'[m] = EventList => container[m] = EventList
  <2> TAKE m \in Node
  <2>1. container'[m] = index \/ container'[m] = 0 \/ container'[m] = container[m]
    BY <1>1
  <2>2. index # EventList /\ 0 # EventList
    BY <1>2, LevelFacts DEF EventList
  <2> QED BY <2>1, <2>2
<1>5. \A m \in Node : WaitsOn(m)
  BY <1>2, <1>3, <1>4, WaitsParts DEF WaitsOn
<1> QED BY <1>5, WaitsStay

\* Stopped nodes wait for nothing.
LEMMA StoppedWaits ==
  ASSUME NEW nodes \in [Node -> NodeState], NEW S, NEW m \in Node, m \in S
  PROVE  StoppedNodes(nodes, S)[m].timer = "off"
<1>1. nodes[m] \in NodeState
  OBVIOUS
<1> QED BY <1>1 DEF StoppedNodes, NodeState

\* The nodes of S are stopped, among them those the flow has given up.
LEMMA WaitsStop ==
  ASSUME WaitsInvariant, OwnersInvariant', NEW S, NEW nodes \in [Node -> NodeState],
         node' = StoppedNodes(nodes, S), Unlink(S),
         \A m \in Node : nodes[m].status = node[m].status /\ nodes[m].timer = node[m].timer,
         \A m \in Node : GivenUp(m) => m \in S
  PROVE  WaitsInvariant'
<1>1. \A m \in Node : container'[m] = EventList => container[m] = EventList /\ m \notin S
  BY DEF Unlink, Contain, EventList
<1>2. \A m \in Node : m \in S => WaitsAnew(m)
  BY <1>1, StoppedWaits DEF WaitsAnew
<1>3. \A m \in Node : m \notin S => WaitsOn(m)
  <2>1. \A m \in Node : m \notin S => node'[m] = nodes[m]
    BY DEF StoppedNodes
  <2> QED BY <1>1, <2>1 DEF WaitsOn, Status
<1> QED BY <1>2, <1>3, WaitsStay

LEMMA WaitsStops ==
  ASSUME WaitsInvariant, OwnersInvariant',
         (\E c \in Chart : Stop(c)) \/ (\E a \in Agent : StopObject(a)) \/ ReturnStop \/ CallStop
  PROVE  WaitsInvariant'
<1>1. PICK S : node' = StoppedNodes(node, S) /\ Unlink(S)
  BY DEF Stop, StopObject, ReturnStop, CallStop, StopChart, StopNodes
<1>2. ~At("restore")
  BY DEF Stop, StopObject, ReturnStop, CallStop, Calls, AtRest, At
<1>3. node \in [Node -> NodeState] /\ \A m \in Node : ~GivenUp(m)
  BY <1>2, OwnersParts, WaitsParts
<1> QED BY <1>1, <1>3, WaitsStop

LEMMA WaitsRestore ==
  ASSUME WaitsInvariant, OwnersInvariant', Restore
  PROVE  WaitsInvariant'
<1>1. PICK h, ended : /\ h = level[index].history /\ ended = {n \in h : Status(n) = "EndRun"}
                      /\ node' = StoppedNodes(Unflagged(h), WithSubcharts(ended))
                      /\ Unlink(WithSubcharts(ended))
  BY DEF Restore
<1>2. \A m \in Node : GivenUp(m) => m \in WithSubcharts(ended)
  BY <1>1 DEF GivenUp, WithSubcharts
<1>3. /\ Unflagged(h) \in [Node -> NodeState]
      /\ \A m \in Node : /\ Unflagged(h)[m].status = node[m].status
                         /\ Unflagged(h)[m].timer = node[m].timer
  <2>1. \A y \in NodeState : LET z == [y EXCEPT !.runFlag = FALSE]
                             IN  z \in NodeState /\ z.status = y.status /\ z.timer = y.timer
    BY DEF NodeState
  <2>2. node \in [Node -> NodeState]
    BY OwnersParts, WaitsParts
  <2> QED BY <2>1, <2>2 DEF Unflagged
<1> QED BY <1>1, <1>2, <1>3, WaitsStop

\* The owner is stopped, and waits for START if its flow cannot run now.
LEMMA WaitsReturnToOwner ==
  ASSUME WaitsInvariant, OwnersInvariant', NEW r \in Result, ReturnToOwner(r)
  PROVE  WaitsInvariant'
<1>1. PICK o, S, w, f, queued :
        /\ o = OwnerNode[level[index].returning] /\ S = WithSubcharts({o})
        /\ w = <<AgentOf[ChartOf[o]], START>>
        /\ f \in [Node -> NodeState] /\ f = StoppedNodes(node, S)
        /\ \E b, s : /\ node' = [f EXCEPT ![o].result = r, ![o].skip = TRUE, ![o].runFlag = b, ![o].status = s]
                     /\ queued => s = "Running"
        /\ \/ UnlinkAndPush(S, o, index - 1, FALSE)
           \/ queued /\ UnlinkAndWait(S, o, w)
           \/ ~StackFull /\ UnlinkAndPush(S, o, index + 1, TRUE)
           \/ Unlink(S)
  <2>1. StoppedNodes(node, WithSubcharts({OwnerNode[level[index].returning]})) \in [Node -> NodeState]
    BY OwnersParts, WaitsParts, StoppedNodesType
  <2> QED BY <2>1 DEF ReturnToOwner
<1>2. /\ index \in Level /\ level \in [Level -> LevelState] /\ level[0].pc # "return"
      /\ FlowsStayInChart /\ ListsTyped /\ node \in [Node -> NodeState]
  BY OwnersParts, WaitsParts DEF LevelsTyped, QuietInvariant, LevelsNest
<1>3. At("return") /\ level[index].returning \notin Root /\ index # 0
  BY <1>2 DEF ReturnToOwner, At
<1>4. o \in Node /\ w \in Wait
  <2>1. index \in 1..index
    BY <1>2, <1>3, LevelFacts
  <2>2. level[index].returning \in Chart
    BY <1>2, <1>3, <2>1 DEF FlowsStayInChart, FlowOf, At
  <2>3. o = OwnerNode[level[index].returning] /\ w = <<AgentOf[ChartOf[o]], START>>
    BY <1>1
  <2>4. o \in Node
    BY <1>3, <2>2, <2>3, ConstantsAssumption DEF Root
  <2> QED BY <2>3, <2>4, ConstantsAssumption DEF Wait
<1>5. index - 1 \in Level /\ (~StackFull => index + 1 \in Level)
  BY <1>2, <1>3, LevelFacts DEF StackFull
<1>6. o \in S
  BY <1>1 DEF WithSubcharts
<1>7. \A m \in Node : container'[m] = EventList
        => (m = o /\ queued) \/ (container[m] = EventList /\ m \notin S)
  <2>1. CASE UnlinkAndPush(S, o, index - 1, FALSE)
    BY <1>2, <1>4, <1>5, <2>1, PushedOut
  <2>2. CASE queued /\ UnlinkAndWait(S, o, w)
    BY <1>2, <1>4, <2>2, WaitEffect
  <2>3. CASE ~StackFull /\ UnlinkAndPush(S, o, index + 1, TRUE)
    BY <1>2, <1>4, <1>5, <2>3, PushedOut
  <2>4. CASE Unlink(S)
    BY <2>4 DEF Unlink, Contain, EventList
  <2> QED BY <1>1, <2>1, <2>2, <2>3, <2>4
<1>8. ASSUME NEW m \in Node PROVE WaitsOn(m) \/ WaitsAnew(m)
  <2>1. PICK b, s : /\ node' = [f EXCEPT ![o].result = r, ![o].skip = TRUE, ![o].runFlag = b, ![o].status = s]
                    /\ queued => s = "Running"
    BY <1>1
  <2>2. node'[m] = IF m = o THEN [f[o] EXCEPT !.result = r, !.skip = TRUE, !.runFlag = b, !.status = s]
                   ELSE f[m]
    BY <1>1, <1>4, <2>1
  <2>3. /\ f[m] \in NodeState /\ f[o] \in NodeState
        /\ m \in S => f[m].timer = "off"
        /\ m \notin S => f[m] = node[m]
    <3>1. f \in [Node -> NodeState] /\ f = StoppedNodes(node, S)
      BY <1>1
    <3>2. m \in S => StoppedNodes(node, S)[m].timer = "off"
      BY <1>2, <1>8, StoppedWaits
    <3>3. m \notin S => StoppedNodes(node, S)[m] = node[m]
      BY <1>8 DEF StoppedNodes
    <3> QED BY <1>4, <1>8, <3>1, <3>2, <3>3
  <2>4. CASE m = o
    <3>1. node'[m] = [f[o] EXCEPT !.result = r, !.skip = TRUE, !.runFlag = b, !.status = s]
      BY <2>2, <2>4
    <3>2. f[o].timer = "off" /\ (queued => s = "Running")
      BY <1>6, <2>1, <2>3, <2>4
    <3>3. node'[m].timer = f[o].timer /\ node'[m].status = s
      BY <2>3, <3>1 DEF NodeState
    <3> QED BY <1>6, <1>7, <2>4, <3>2, <3>3 DEF WaitsAnew
  <2>5. CASE m # o /\ m \in S
    BY <1>7, <2>2, <2>3, <2>5 DEF WaitsAnew
  <2>6. CASE m \notin S
    <3>1. node'[m] = node[m]
      BY <1>6, <2>2, <2>3, <2>6
    <3>2. ~GivenUp(m)
      BY <1>3 DEF GivenUp, At
    <3> QED BY <1>6, <1>7, <2>6, <3>1, <3>2 DEF WaitsOn, Status
  <2> QED BY <2>4, <2>5, <2>6
<1> QED BY <1>8, WaitsStay

\* The start node of a chart that starts waits for START or runs.
LEMMA WaitsChartStarts ==
  ASSUME WaitsInvariant, OwnersInvariant', ~At("restore"), NEW c \in Chart, ~IsRunning(c),
         NEW sync, NEW nodes \in [Node -> NodeState], NEW p, StartChart(c, sync, nodes, p),
         \A m \in Node : /\ nodes[m].timer = node[m].timer
                         /\ Status(m) = "Running" => nodes[m].status = "Running"
  PROVE  WaitsInvariant'
<1>1. PICK s, now, v, w :
        /\ s = StartNode[c] /\ w = <<AgentOf[c], START>>
        /\ node' = [nodes EXCEPT ![s].skip = TRUE, ![s].result = "rTRUE", ![s].status = v]
        /\ \/ ~StackFull /\ UnlinkAndPush({}, s, index + 1, TRUE)
           \/ v = "Running" /\ UnlinkAndWait({}, s, w)
  BY DEF StartChart
<1>2. s \in Node /\ ChartOf[s] = c /\ w \in Wait
  BY <1>1, ConstantsAssumption DEF Wait
<1>3. QuietInvariant /\ ListsTyped /\ index \in Level
  BY OwnersParts, WaitsParts
<1>4. \A m \in Node : container'[m] = EventList
        => (m = s /\ v = "Running") \/ (m # s /\ container[m] = EventList)
  <2>1. CASE ~StackFull /\ UnlinkAndPush({}, s, index + 1, TRUE)
    <3>1. index + 1 \in Level
      BY <1>3, <2>1, LevelFacts DEF StackFull
    <3>2. \A m \in Node : container'[m] = EventList => container[m] = EventList /\ m \notin {} \cup {s}
      BY <1>2, <1>3, <2>1, <3>1, PushedOut
    <3> QED BY <3>2
  <2>2. CASE v = "Running" /\ UnlinkAndWait({}, s, w)
    BY <1>2, <1>3, <2>2, JustWaits
  <2> QED BY <1>1, <2>1, <2>2
<1>5. node[s].timer = "off"
  BY <1>2, <1>3 DEF QuietInvariant, StoppedChartIsQuiet
<1>6. \A m \in Node : /\ node'[m].timer = nodes[m].timer
                      /\ node'[m].status = IF m = s THEN v ELSE nodes[m].status
  <2> TAKE m \in Node
  <2>1. node'[m] = IF m = s THEN [nodes[s] EXCEPT !.skip = TRUE, !.result = "rTRUE", !.status = v]
                   ELSE nodes[m]
    BY <1>1, <1>2
  <2>2. nodes[m] \in NodeState
    OBVIOUS
  <2> QED BY <2>1, <2>2 DEF NodeState
<1>7. WaitsAnew(s)
  BY <1>2, <1>4, <1>5, <1>6 DEF WaitsAnew
<1>8. \A m \in Node : m # s => WaitsOn(m)
  BY <1>4, <1>6, WaitsParts DEF WaitsOn
<1> QED BY <1>7, <1>8, WaitsStay

LEMMA WaitsStarts ==
  ASSUME WaitsInvariant, OwnersInvariant', (\E c \in Chart : Start(c)) \/ CallSubchart
  PROVE  WaitsInvariant'
<1>1. node \in [Node -> NodeState]
  BY OwnersParts, WaitsParts
<1>2. ASSUME NEW c \in Chart, Start(c) PROVE WaitsInvariant'
  <2>1. ~IsRunning(c) /\ ~At("restore") /\ StartChart(c, ~DeferEvent, node, "idle")
    BY <1>2 DEF Start, CallsIn, AtRest, At
  <2> QED BY <1>1, <2>1, WaitsChartStarts DEF Status
<1>3. CASE CallSubchart
  <2>1. PICK n, c, nodes :
          /\ n \in Node /\ c \in Chart
          /\ Calls(n, "sub") /\ nodes = [node EXCEPT ![n].status = "Running"]
          /\ \/ node' = nodes /\ UNCHANGED lists
             \/ ~IsRunning(c) /\ StartChart(c, TRUE, nodes, "callEnd")
    BY <1>3 DEF CallSubchart
  <2>2. /\ nodes \in [Node -> NodeState]
        /\ \A m \in Node : /\ nodes[m].timer = node[m].timer
                           /\ Status(m) = "Running" => nodes[m].status = "Running"
    BY <1>1, <2>1 DEF NodeState, Status
  <2>3. ~At("restore")
    BY <2>1 DEF Calls, At
  <2>4. CASE node' = nodes /\ UNCHANGED lists
    BY <2>2, <2>3, <2>4, WaitsParts, WaitsStay DEF WaitsOn, lists
  <2> QED BY <2>1, <2>2, <2>3, <2>4, WaitsChartStarts
<1> QED BY <1>2, <1>3

LEMMA WaitsBeginning ==
  ASSUME Init
  PROVE  WaitsInvariant
<1>1. \A n \in Node : container[n] = 0 /\ node[n].timer = "off"
  BY DEF Init, FreshNode
<1> QED BY <1>1, OwnersBeginning, WaitsParts DEF NodeWaits, EventList

LEMMA WaitsStuttering ==
  ASSUME WaitsInvariant, OwnersInvariant', UNCHANGED vars
  PROVE  WaitsInvariant'
BY DEF vars, lists, WaitsInvariant, WaitingNodesRun, GivenUp, At, Status

LEMMA EveryWaitsStep ==
  ASSUME WaitsInvariant, [Next]_vars
  PROVE  WaitsInvariant'
<1>1. OwnersInvariant'
  BY WaitsParts, EveryOwnersStep
<1>2. CASE Game
  <2>1. MayStop \subseteq Chart /\ MayStopAll \subseteq Agent /\ Raised \subseteq Wait /\ Triggers \subseteq Wait
    BY ConstantsAssumption
  <2> QED BY <1>1, <1>2, <2>1, WaitsStarts, WaitsStops, WaitsQuietSteps, WaitsMarks DEF Game
<1>3. CASE Timers
  BY <1>1, <1>3, WaitsFireTimer, WaitsQuietSteps DEF Timers
<1>4. CASE Events
  BY <1>1, <1>4, WaitsQuietSteps, WaitsDispatchNode DEF Events
<1>5. CASE Executor
  BY <1>1, <1>5, WaitsQuietSteps, WaitsTruncate, WaitsSkipRunning, WaitsWaitTick, WaitsMarks,
     WaitsAfterRun, WaitsRestore DEF Executor
<1>6. CASE Returning
  BY <1>1, <1>6, WaitsReturnToOwner, WaitsQuietSteps, WaitsStops DEF Returning
<1>7. CASE Calling
  BY <1>1, <1>7, WaitsQuietSteps, WaitsCall, WaitsStarts, WaitsStops DEF Calling
<1>8. CASE UNCHANGED vars
  BY <1>1, <1>8, WaitsStuttering
<1> QED BY <1>2, <1>3, <1>4, <1>5, <1>6, <1>7, <1>8 DEF Next, Runtime

\* A node that waits for an event or a timer is Running, at any moment of any step but
\* when the flow that has given it up is about to stop it: no flow that reaches it calls
\* its function again (executor.cpp:79).
THEOREM WaitingNodesAreRunning == Spec => []WaitingNodesRun
<1>1. Init => WaitsInvariant
  BY WaitsBeginning
<1>2. WaitsInvariant /\ [Next]_vars => WaitsInvariant'
  BY EveryWaitsStep
<1>3. WaitsInvariant => WaitingNodesRun
  BY DEF WaitsInvariant
<1> QED BY <1>1, <1>2, <1>3, PTL DEF Spec

-----------------------------------------------------------------------------
(* START events.                                                           *)

\* START is for start nodes and owners that could not run at once: no function waits
\* for it, and it is not the event of the tick (event_manager.cpp:8-9).
StartIsReserved ==
  /\ START # TICK
  /\ \A n \in Node : Kind[n] = "event" => \A a \in Agent : Names[n] # <<a, START>>

Coming(w) == w \in Elements(inQueue) \cup Elements(outQueue)

\* Nothing begins to wait for w, and w stays in a queue.
NoneWaits(w) == waiting'[w] # <<>> => waiting[w] # <<>>
StaysComing(w) == Coming(w) => Coming(w)'

LEMMA StartsParts ==
  ASSUME QuietInvariant
  PROVE  /\ ListsTyped /\ waiting \in [Wait -> Seq(Node)] /\ inQueue \in Seq(Wait) /\ outQueue \in Seq(Wait)
         /\ index \in Level /\ level \in [Level -> LevelState] /\ handling \in [Level -> Seq(Node)]
         /\ \A a \in Agent : <<a, START>> \in Wait
BY ConstantsAssumption DEF QuietInvariant, TypeOK, ListsTyped, QueuesTyped, LevelsTyped, Wait

LEMMA StartsStay ==
  ASSUME StartEventComing,
         \A a \in Agent : \/ NoneWaits(<<a, START>>) /\ StaysComing(<<a, START>>)
                          \/ waiting'[<<a, START>>] = <<>> \/ Coming(<<a, START>>)'
  PROVE  StartEventComing'
BY DEF StartEventComing, NoneWaits, StaysComing, Coming

\* Taking nodes off lists leaves no longer ones.
LEMMA WithoutWaits ==
  ASSUME QuietInvariant, NEW S
  PROVE  /\ WaitingWithout(S) \in [Wait -> Seq(Node)]
         /\ \A w \in Wait : WaitingWithout(S)[w] # <<>> => waiting[w] # <<>>
<1>1. WaitingWithout(S) \in [Wait -> Seq(Node)]
  BY StartsParts, WithoutTypes
<1>2. ASSUME NEW w \in Wait, waiting[w] = <<>> PROVE WaitingWithout(S)[w] = <<>>
  <2>1. Elements(<<>>) = {} /\ <<>> \in Seq(Node)
    BY DEF Elements
  <2>2. Without(<<>>, InEventList(S)) = <<>>
    BY <2>1, WithoutNone
  <2> QED BY <1>2, <2>2 DEF WaitingWithout
<1> QED BY <1>1, <1>2

LEMMA NoneWaitsFor ==
  ASSUME QuietInvariant, NEW S, NEW n, NEW k, NEW clear, NEW v \in Wait
  PROVE  /\ Unlink(S) => \A w \in Wait : NoneWaits(w)
         /\ UnlinkAndPush(S, n, k, clear) => \A w \in Wait : NoneWaits(w)
         /\ UnlinkAndWait(S, n, v) => \A w \in Wait : w # v => NoneWaits(w)
<1>1. Unlink(S) => \A w \in Wait : NoneWaits(w)
  BY WithoutWaits DEF Unlink, NoneWaits
<1>2. UnlinkAndPush(S, n, k, clear) => \A w \in Wait : NoneWaits(w)
  BY WithoutWaits DEF UnlinkAndPush, NoneWaits
<1>3. UnlinkAndWait(S, n, v) => \A w \in Wait : w # v => NoneWaits(w)
  <2> SUFFICES ASSUME UnlinkAndWait(S, n, v), NEW w \in Wait, w # v PROVE NoneWaits(w)
    OBVIOUS
  <2> DEFINE A == WaitingWithout(S \cup {n})
  <2>1. waiting' = [A EXCEPT ![v] = Append(A[v], n)]
    BY DEF UnlinkAndWait
  <2>2. A \in [Wait -> Seq(Node)] /\ (A[w] # <<>> => waiting[w] # <<>>)
    BY WithoutWaits
  <2> HIDE DEF A
  <2> QED BY <2>1, <2>2 DEF NoneWaits
<1> QED BY <1>1, <1>2, <1>3

\* An event that is queued is coming, and those before it too.
LEMMA EnqueuedComing ==
  ASSUME QuietInvariant, NEW ev \in Wait, Enqueue(ev), outQueue' = outQueue
  PROVE  Coming(ev)' /\ \A w \in Wait : StaysComing(w)
<1>1. Elements(inQueue') = Elements(inQueue) \cup {ev}
  BY StartsParts, AppendElements DEF Enqueue
<1> QED BY <1>1 DEF Coming, StaysComing

\* Also at the front of the queue that is being emptied.
LEMMA FrontComing ==
  ASSUME QuietInvariant, NEW ev \in Wait, outQueue' = <<ev>> \o outQueue, inQueue' = inQueue
  PROVE  Coming(ev)' /\ \A w \in Wait : StaysComing(w)
<1>1. Elements(outQueue') = Elements(outQueue) \cup {ev}
  <2>1. outQueue \in Seq(Wait) /\ Len(outQueue) \in Nat
    BY StartsParts
  <2>2. Len(outQueue') = Len(outQueue) + 1 /\ outQueue'[1] = ev
        /\ \A i \in 1..Len(outQueue) : outQueue'[i + 1] = outQueue[i]
    BY <2>1
  <2>3. \A i \in 2..(Len(outQueue) + 1) : i - 1 \in 1..Len(outQueue) /\ outQueue'[i] = outQueue[i - 1]
    BY <2>1
  <2>4. \A i \in 1..Len(outQueue) : i + 1 \in 1..Len(outQueue')
    BY <2>1, <2>2
  <2>5. 1 \in 1..Len(outQueue') /\ \A i \in 1..Len(outQueue') : i = 1 \/ i \in 2..(Len(outQueue) + 1)
    BY <2>1, <2>2
  <2> QED BY <2>2, <2>3, <2>4, <2>5 DEF Elements
<1> QED BY <1>1 DEF Coming, StaysComing

LEMMA SameComing ==
  ASSUME inQueue' = inQueue, outQueue' = outQueue
  PROVE  \A w : StaysComing(w)
BY DEF Coming, StaysComing

\* Steps that leave the nodes that wait.
LEMMA StartsQuietSteps ==
  ASSUME QuietInvariant, StartEventComing,
         \/ \E w \in Wait : Raise(w)
         \/ \E a \in Agent : FireAgentTimer(a)
         \/ \E due \in SUBSET Armed : BeginStep(due)
         \/ \E r \in Result : CallEnd(r)
         \/ SwitchQueues \/ EndStep \/ LoopExit \/ ReturnOfRoot \/ CallFunc \/ CallRaise
         \/ CallReturn \/ FlowEnd \/ DispatchEnd \/ RunNode \/ CallWait \/ CallWaitAll
         \/ Truncate \/ SkipRunning
  PROVE  StartEventComing'
<1>1. waiting' = waiting
  <2>1. CASE \/ \E w \in Wait : Raise(w)
             \/ \E a \in Agent : FireAgentTimer(a)
             \/ \E due \in SUBSET Armed : BeginStep(due)
             \/ \E r \in Result : CallEnd(r)
    BY <2>1 DEF lists, Raise, FireAgentTimer, BeginStep, CallEnd
  <2>2. CASE SwitchQueues \/ EndStep \/ LoopExit \/ ReturnOfRoot \/ CallFunc \/ CallRaise
    BY <2>2 DEF lists, SwitchQueues, EndStep, LoopExit, ReturnOfRoot, CallFunc, CallRaise
  <2>3. CASE CallReturn \/ FlowEnd \/ DispatchEnd \/ RunNode \/ CallWait \/ CallWaitAll
             \/ Truncate \/ SkipRunning
    BY <2>3 DEF lists, CallReturn, FlowEnd, DispatchEnd, RunNode, CallWait, CallWaitAll, Truncate,
                SkipRunning
  <2> QED BY <2>1, <2>2, <2>3
<1>2. \A w \in Wait : StaysComing(w)
  <2>1. CASE (\E w \in Wait : Raise(w)) \/ (\E a \in Agent : FireAgentTimer(a)) \/ CallRaise
    <3>1. PICK ev \in Wait : Enqueue(ev) /\ outQueue' = outQueue
      <4>1. \A a \in Agent : <<a, TICK>> \in Wait
        BY ConstantsAssumption DEF Wait
      <4>2. \A n \in Node : Names[n] \in Wait
        BY ConstantsAssumption
      <4> QED BY <2>1, <4>1, <4>2 DEF Raise, FireAgentTimer, CallRaise
    <3> QED BY <3>1, EnqueuedComing
  <2>2. CASE SwitchQueues
    BY <2>2 DEF SwitchQueues, StaysComing, Coming
  <2>3. CASE \/ (\E due \in SUBSET Armed : BeginStep(due)) \/ (\E r \in Result : CallEnd(r))
             \/ EndStep \/ LoopExit \/ ReturnOfRoot \/ CallFunc \/ CallReturn \/ FlowEnd
    <3>1. queues' = queues
      BY <2>3 DEF BeginStep, CallEnd, EndStep, LoopExit, ReturnOfRoot, CallFunc, CallReturn, FlowEnd, queues
    <3> QED BY <3>1, SameComing DEF queues
  <2>4. CASE DispatchEnd \/ RunNode \/ CallWait \/ CallWaitAll \/ Truncate \/ SkipRunning
    <3>1. queues' = queues
      BY <2>4 DEF DispatchEnd, RunNode, CallWait, CallWaitAll, Truncate, SkipRunning, queues
    <3> QED BY <3>1, SameComing DEF queues
  <2> QED BY <2>1, <2>2, <2>3, <2>4
<1> QED BY <1>1, <1>2, StartsParts, StartsStay DEF NoneWaits

\* Steps that take nodes off lists.
LEMMA StartsShrink ==
  ASSUME QuietInvariant, StartEventComing,
         \/ \E c \in Chart : Stop(c)
         \/ \E a \in Agent : StopObject(a)
         \/ \E n \in Node : FireNodeTimer(n)
         \/ DispatchNode \/ AfterRun \/ Restore \/ ReturnStop \/ CallStop
  PROVE  StartEventComing'
<1>1. queues' = queues
  BY DEF Stop, StopObject, FireNodeTimer, DispatchNode, AfterRun, Restore, ReturnStop, CallStop, queues
<1>2. \A w \in Wait : NoneWaits(w)
  <2>1. CASE AfterRun
    <3>1. \E E : waiting' = WaitingWithout(E)
      BY <2>1 DEF AfterRun
    <3> QED BY <3>1, WithoutWaits DEF NoneWaits
  <2>2. CASE (\E c \in Chart : Stop(c)) \/ (\E a \in Agent : StopObject(a)) \/ Restore \/ ReturnStop \/ CallStop
    <3>1. \E S : Unlink(S)
      BY <2>2 DEF Stop, StopObject, Restore, ReturnStop, CallStop, StopChart, StopNodes
    <3> QED BY <3>1, WithoutWaits DEF Unlink, NoneWaits
  <2>3. CASE (\E n \in Node : FireNodeTimer(n)) \/ DispatchNode
    <3>1. waiting' = waiting \/ \E S : waiting' = WaitingWithout(S)
      BY <2>3 DEF FireNodeTimer, DispatchNode, lists, Unlink, UnlinkAndPush
    <3> QED BY <3>1, WithoutWaits DEF NoneWaits
  <2> QED BY <2>1, <2>2, <2>3
<1> QED BY <1>1, <1>2, SameComing, StartsParts, StartsStay DEF queues

\* Nodes that begin to wait for something else.
LEMMA StartsOthers ==
  ASSUME StartIsReserved, QuietInvariant, StartEventComing, WaitTick \/ CallWaitEvent
  PROVE  StartEventComing'
<1>1. queues' = queues
  BY DEF WaitTick, CallWaitEvent, queues
<1>2. PICK n, v : UnlinkAndWait({}, n, v) /\ v \in Wait /\ \A a \in Agent : v # <<a, START>>
  <2>1. CASE WaitTick
    <3>1. PICK n \in Node : Visit(n) /\ UnlinkAndWait({}, n, <<AgentOf[level[index].chart], TICK>>)
      BY <2>1 DEF WaitTick
    <3>2. <<AgentOf[level[index].chart], TICK>> \in Wait
      BY <3>1, VisitFacts, ConstantsAssumption DEF Wait
    <3> QED BY <3>1, <3>2 DEF StartIsReserved
  <2>2. CASE CallWaitEvent
    <3>1. PICK n \in Node : Calls(n, "event") /\ UnlinkAndWait({}, n, Names[n])
      BY <2>2 DEF CallWaitEvent
    <3>2. Names[n] \in Wait /\ Kind[n] = "event"
      BY <3>1, ConstantsAssumption DEF Calls
    <3> QED BY <3>1, <3>2 DEF StartIsReserved
  <2> QED BY <2>1, <2>2
<1>3. \A a \in Agent : NoneWaits(<<a, START>>)
  BY <1>2, NoneWaitsFor, StartsParts
<1> QED BY <1>1, <1>3, SameComing, StartsStay DEF queues

\* Those that wait for the event that is dispatched leave its list.
LEMMA StartsDispatch ==
  ASSUME QuietInvariant, NEW ev, NEW after, NEW p, StartDispatch(ev, after, p)
  PROVE  \A w \in Wait : NoneWaits(w) /\ (w = ev => waiting'[w] = <<>>)
BY StartsParts DEF StartDispatch, NoneWaits

LEMMA StartsHandle ==
  ASSUME QuietInvariant, StartEventComing, HandleEvent
  PROVE  StartEventComing'
<1> DEFINE ev == Head(outQueue)
<1>1. /\ outQueue # <<>> /\ outQueue' = Tail(outQueue) /\ inQueue' = inQueue
      /\ \/ waiting[ev] = <<>> /\ waiting' = waiting
         \/ StartDispatch(ev, NoEvent, "events")
  BY DEF HandleEvent
<1>2. Elements(outQueue) = Elements(outQueue') \cup {ev}
  BY <1>1, StartsParts, TailElements
<1>3. \A w \in Wait : w # ev => StaysComing(w)
  BY <1>1, <1>2 DEF StaysComing, Coming
<1>4. \A w \in Wait : NoneWaits(w) /\ (w = ev => waiting'[w] = <<>>)
  BY <1>1, StartsDispatch DEF NoneWaits
<1> HIDE DEF ev
<1> QED BY <1>3, <1>4, StartsParts, StartsStay

LEMMA StartsTrigger ==
  ASSUME QuietInvariant, StartEventComing, CallTrigger \/ \E w \in Wait : Trigger(w)
  PROVE  StartEventComing'
<1>1. PICK ev \in Wait : TriggerEvent(ev, "idle") \/ TriggerEvent(ev, "callEnd")
  <2>1. \A n \in Node : Names[n] \in Wait
    BY ConstantsAssumption
  <2> QED BY <2>1 DEF CallTrigger, Trigger
<1>2. outQueue' = outQueue
  BY <1>1 DEF TriggerEvent
<1>3. CASE waiting' = waiting /\ inQueue' = inQueue
  BY <1>2, <1>3, SameComing, StartsParts, StartsStay DEF NoneWaits
<1>4. CASE waiting' = waiting /\ Enqueue(ev)
  BY <1>2, <1>4, EnqueuedComing, StartsParts, StartsStay DEF NoneWaits
<1>5. CASE (\E p : StartDispatch(ev, currentEvent, p)) /\ inQueue' = inQueue
  BY <1>2, <1>5, SameComing, StartsDispatch, StartsParts, StartsStay
<1> QED BY <1>1, <1>3, <1>4, <1>5 DEF TriggerEvent

\* A start node that waits has queued its event,
LEMMA StartsStart ==
  ASSUME QuietInvariant, StartEventComing, (\E c \in Chart : Start(c)) \/ CallSubchart
  PROVE  StartEventComing'
<1>1. outQueue' = outQueue
  BY DEF Start, CallSubchart
<1>2. ASSUME NEW c \in Chart, NEW sync, NEW nodes, NEW p, StartChart(c, sync, nodes, p)
      PROVE  StartEventComing'
  <2>1. PICK s, v : /\ v = <<AgentOf[c], START>>
                    /\ \/ (\E k : UnlinkAndPush({}, s, k, TRUE)) /\ inQueue' = inQueue
                       \/ UnlinkAndWait({}, s, v) /\ Enqueue(v)
    BY <1>2 DEF StartChart
  <2>2. v \in Wait
    BY <2>1, ConstantsAssumption DEF Wait
  <2>3. CASE (\E k : UnlinkAndPush({}, s, k, TRUE)) /\ inQueue' = inQueue
    BY <1>1, <2>2, <2>3, NoneWaitsFor, SameComing, StartsParts, StartsStay
  <2>4. CASE UnlinkAndWait({}, s, v) /\ Enqueue(v)
    <3>1. Coming(v)' /\ \A w \in Wait : StaysComing(w)
      BY <1>1, <2>2, <2>4, EnqueuedComing
    <3>2. \A w \in Wait : w # v => NoneWaits(w)
      BY <2>2, <2>4, NoneWaitsFor
    <3> QED BY <3>1, <3>2, StartsParts, StartsStay
  <2> QED BY <2>1, <2>3, <2>4
<1>3. CASE \E c \in Chart : Start(c)
  BY <1>2, <1>3 DEF Start
<1>4. CASE CallSubchart
  <2>1. \/ waiting' = waiting /\ inQueue' = inQueue
        \/ \E c \in Chart : \E nodes : StartChart(c, TRUE, nodes, "callEnd")
    BY <1>4 DEF CallSubchart, lists
  <2>2. CASE waiting' = waiting /\ inQueue' = inQueue
    BY <1>1, <2>2, SameComing, StartsStay DEF NoneWaits
  <2> QED BY <1>2, <2>1, <2>2
<1> QED BY <1>3, <1>4

\* and so has an owner.
LEMMA StartsReturn ==
  ASSUME QuietInvariant, StartEventComing, NEW r \in Result, ReturnToOwner(r)
  PROVE  StartEventComing'
<1>1. PICK o, S, v, queued :
        /\ o = OwnerNode[level[index].returning] /\ v = <<AgentOf[ChartOf[o]], START>> /\ inQueue' = inQueue
        /\ outQueue' = IF queued THEN <<v>> \o outQueue ELSE outQueue
        /\ \/ \E k, clear : UnlinkAndPush(S, o, k, clear)
           \/ queued /\ UnlinkAndWait(S, o, v)
           \/ Unlink(S)
  BY DEF ReturnToOwner
<1>2. v \in Wait
  <2>1. At("return") /\ level[index].returning \notin Root
    BY DEF ReturnToOwner
  <2>2. index \in Level /\ level[0].pc # "return" /\ FlowsStayInChart
    BY StartsParts DEF QuietInvariant, LevelsNest
  <2>3. index \in 1..index
    BY <2>1, <2>2, LevelFacts DEF At
  <2>4. level[index].returning \in Chart
    BY <2>1, <2>2, <2>3 DEF FlowsStayInChart, FlowOf, At
  <2>5. o = OwnerNode[level[index].returning] /\ v = <<AgentOf[ChartOf[o]], START>>
    BY <1>1
  <2>6. o \in Node
    BY <2>1, <2>4, <2>5, ConstantsAssumption DEF Root
  <2> QED BY <2>5, <2>6, ConstantsAssumption DEF Wait
<1>3. (queued => Coming(v)') /\ \A w \in Wait : StaysComing(w)
  BY <1>1, <1>2, FrontComing, SameComing
<1>4. \A w \in Wait : NoneWaits(w) \/ (queued /\ w = v)
  <2>1. CASE \E k, clear : UnlinkAndPush(S, o, k, clear)
    BY <1>2, <2>1, NoneWaitsFor
  <2>2. CASE queued /\ UnlinkAndWait(S, o, v)
    BY <1>2, <2>2, NoneWaitsFor
  <2>3. CASE Unlink(S)
    BY <1>2, <2>3, NoneWaitsFor
  <2> QED BY <1>1, <2>1, <2>2, <2>3
<1> QED BY <1>3, <1>4, StartsParts, StartsStay

LEMMA EveryStartsStep ==
  ASSUME StartIsReserved, QuietInvariant, StartEventComing, [Next]_vars
  PROVE  StartEventComing'
<1>1. CASE Game
  <2>1. MayStop \subseteq Chart /\ MayStopAll \subseteq Agent /\ Raised \subseteq Wait /\ Triggers \subseteq Wait
    BY ConstantsAssumption
  <2> QED BY <1>1, <2>1, StartsStart, StartsShrink, StartsQuietSteps, StartsTrigger DEF Game
<1>2. CASE Timers
  BY <1>2, StartsQuietSteps, StartsShrink DEF Timers
<1>3. CASE Events
  BY <1>3, StartsQuietSteps, StartsShrink, StartsHandle DEF Events
<1>4. CASE Executor
  BY <1>4, StartsQuietSteps, StartsShrink, StartsOthers DEF Executor
<1>5. CASE Returning
  BY <1>5, StartsReturn, StartsQuietSteps, StartsShrink DEF Returning
<1>6. CASE Calling
  BY <1>6, StartsQuietSteps, StartsOthers, StartsStart, StartsTrigger, StartsShrink DEF Calling
<1>7. CASE UNCHANGED vars
  BY <1>7 DEF vars, lists, queues, StartEventComing
<1> QED BY <1>1, <1>2, <1>3, <1>4, <1>5, <1>6, <1>7 DEF Next, Runtime

\* Whoever waits for START has the event coming, in one queue or the other, through
\* starts, returns that find the stack full, triggers and stops (agent.cpp:136-137,
\* chart.cpp:103-105); as long as no function waits for START itself.
THEOREM StartsAreComing ==
  ASSUME StartIsReserved
  PROVE  Spec => []StartEventComing
<1>1. Init => QuietInvariant /\ StartEventComing
  <2> SUFFICES ASSUME Init PROVE QuietInvariant /\ StartEventComing
    OBVIOUS
  <2>1. \A w \in Wait : waiting[w] = <<>>
    BY DEF Init
  <2> QED BY <2>1, Beginning, StartsParts DEF StartEventComing
<1>2. QuietInvariant /\ StartEventComing /\ [Next]_vars => (QuietInvariant /\ StartEventComing)'
  BY EveryStep, EveryStartsStep
<1> QED BY <1>1, <1>2, PTL DEF Spec

-----------------------------------------------------------------------------
(* What a flow leaves behind.                                              *)

\* Who has flagged n as having run takes the flag back: a flow that has n in its history,
\* or the one that runs it and is going to pop it or to find it Running.
RunFlagHeld(n) ==
  \E k \in 1..index :
    \/ n \in level[k].history
    \/ InCall(k) /\ level[k].current = n /\ (container[n] # 0 \/ Status(n) = "Running")

\* A node that is to be skipped once runs, is going to be run, or is going to be stopped.
SkipHeld(n) ==
  \/ Status(n) = "Running"
  \/ container[n] > 0
  \/ Status(n) = "EndRun" /\ \E k \in 1..index : n \in level[k].history

Rested(n) == (node[n].runFlag => RunFlagHeld(n)) /\ (node[n].skip => SkipHeld(n))

\* Where level 0 may be, besides in a dispatch.
ManagersOwn == {"idle", "timers", "events"}

\* A flow that has restored its nodes has no history; the node that it is running is on no
\* stack below its own.
FlowTrace(k) ==
  /\ level[k].pc \notin ManagersOwn
  /\ level[k].pc = "end" \/ level[k].caller = "end" => level[k].history = {}
  /\ level[k].pc \in {"dispatch", "return", "returned"} => level[k].caller \in {"callEnd", "end"}
  /\ InCall(k) /\ container[level[k].current] > 0 => container[level[k].current] >= k

RestInvariant ==
  /\ WaitsInvariant
  /\ level[0].history = {}
  /\ At("call") => ~node[level[index].current].skip
  /\ \A k \in 1..index : FlowTrace(k)
  /\ \A n \in Node : Rested(n)

\* The flows that are going to take n's flag back go on.
HoldsOn(n) == \A k \in 1..index :
  /\ n \in level[k].history => k \in 1..index' /\ n \in level'[k].history
  /\ InCall(k) /\ level[k].current = n => k \in 1..index' /\ InCall(k)' /\ level'[k].current = n

NoNewFlag(n) == node'[n].runFlag => node[n].runFlag

Undisturbed(n) ==
  /\ NoNewFlag(n) /\ (node'[n].skip => node[n].skip)
  /\ node'[n].status = node[n].status /\ container'[n] = container[n]

\* n has a place, or waits.
Placed(n) ==
  /\ container'[n] # 0 \/ node'[n].status = "Running"
  /\ node'[n].skip => node'[n].status = "Running" \/ container'[n] > 0

Cleared(n) == ~node'[n].runFlag /\ ~node'[n].skip

TracesKept == level'[0].history = {} /\ \A k \in 1..index' : FlowTrace(k)'

\* What goes on a stack goes on one above those of the flows that wait.
ContainersRise ==
  \A n \in Node : container'[n] > 0 => container'[n] = container[n] \/ container'[n] >= index

\* What the flows' own nodes need of that.
StacksRise ==
  \A k \in 1..index : LET c == container'[level[k].current]
                      IN  InCall(k) /\ c > 0 => c = container[level[k].current] \/ c >= k

LEMMA RestParts ==
  ASSUME RestInvariant
  PROVE  /\ WaitsInvariant /\ OwnersInvariant /\ HomeInvariant /\ QuietInvariant /\ ContainersAgree
         /\ ListsTyped /\ node \in [Node -> NodeState] /\ index \in Level /\ level \in [Level -> LevelState]
         /\ index \in Int /\ index >= 0 /\ 0 \in Level
         /\ container \in [Node -> Level \cup {EventList}] /\ \A n \in Node : container[n] \in Int
         /\ \A k \in 1..index : k \in Level /\ FlowTrace(k) /\ FlowOf(k)
         /\ level[0].history = {}
<1>1. WaitsInvariant /\ OwnersInvariant /\ level[0].history = {} /\ \A k \in 1..index : FlowTrace(k)
  BY WaitsParts DEF RestInvariant
<1>2. /\ HomeInvariant /\ QuietInvariant /\ ContainersAgree /\ ListsTyped /\ node \in [Node -> NodeState]
      /\ index \in Level /\ level \in [Level -> LevelState]
  BY <1>1, OwnersParts DEF LevelsTyped
<1>3. container \in [Node -> Level \cup {EventList}] /\ index \in Int /\ index >= 0 /\ 0 \in Level
  BY <1>2, LevelFacts DEF ListsTyped
<1>4. \A k \in 1..index : k \in Level
  BY <1>2, <1>3, LevelFacts DEF Level
<1>5. \A n \in Node : container[n] \in Int
  BY <1>3, LevelFacts
<1>6. \A k \in 1..index : FlowOf(k)
  BY <1>2 DEF QuietInvariant, FlowsStayInChart
<1> QED BY <1>1, <1>2, <1>3, <1>4, <1>5, <1>6

LEMMA NextParts ==
  ASSUME WaitsInvariant'
  PROVE  /\ HomeInvariant' /\ QuietInvariant' /\ ContainersAgree' /\ index' \in Level /\ index' \in Int
         /\ level' \in [Level -> LevelState] /\ \A n \in Node : container'[n] \in Int
<1>1. HomeInvariant' /\ QuietInvariant' /\ ContainersAgree'
  BY HomeParts DEF WaitsInvariant, OwnersInvariant, HomeInvariant
<1>2. index' \in Level /\ level' \in [Level -> LevelState] /\ container' \in [Node -> Level \cup {EventList}]
  BY <1>1 DEF QuietInvariant, TypeOK, LevelsTyped, ListsTyped
<1> QED BY <1>1, <1>2, LevelFacts

LEMMA UndisturbedRests ==
  ASSUME RestInvariant, NEW n \in Node, HoldsOn(n), Undisturbed(n)
  PROVE  Rested(n)'
<1>1. Rested(n) /\ \A k \in 1..index : n \in level[k].history => k \in 1..index' /\ n \in level'[k].history
  BY DEF RestInvariant, HoldsOn
<1>2. node'[n].runFlag => RunFlagHeld(n)'
  BY <1>1 DEF Rested, RunFlagHeld, Undisturbed, NoNewFlag, HoldsOn, Status
<1>3. node'[n].skip => SkipHeld(n)'
  BY <1>1 DEF Rested, SkipHeld, Undisturbed, Status
<1> QED BY <1>2, <1>3 DEF Rested

LEMMA PlacedRests ==
  ASSUME RestInvariant, NEW n \in Node, HoldsOn(n), NoNewFlag(n), Placed(n)
  PROVE  Rested(n)'
<1>1. Rested(n)
  BY DEF RestInvariant
<1>2. node'[n].runFlag => RunFlagHeld(n)'
  BY <1>1 DEF Rested, RunFlagHeld, Placed, NoNewFlag, HoldsOn, Status
<1>3. node'[n].skip => SkipHeld(n)'
  BY DEF SkipHeld, Placed, Status
<1> QED BY <1>2, <1>3 DEF Rested

LEMMA ClearedRests ==
  ASSUME NEW n \in Node, Cleared(n)
  PROVE  Rested(n)'
BY DEF Rested, Cleared

LEMMA RestStays ==
  ASSUME RestInvariant, WaitsInvariant', TracesKept, level'[index'].pc # "call",
         \A n \in Node : Rested(n)' \/ Cleared(n) \/ (HoldsOn(n) /\ (Undisturbed(n) \/ (NoNewFlag(n) /\ Placed(n))))
  PROVE  RestInvariant'
<1>1. \A n \in Node : Rested(n)'
  BY UndisturbedRests, PlacedRests, ClearedRests
<1> QED BY <1>1 DEF RestInvariant, TracesKept, At

LEMMA RestRises ==
  ASSUME RestInvariant, WaitsInvariant', ContainersRise
  PROVE  StacksRise
<1>1. ASSUME NEW k \in 1..index, InCall(k), container'[level[k].current] > 0
      PROVE  container'[level[k].current] = container[level[k].current] \/ container'[level[k].current] >= k
  <2> DEFINE n == level[k].current
  <2>1. FlowOf(k) /\ index \in Int
    BY RestParts
  <2>2. n \in Node
    BY <1>1, <2>1 DEF FlowOf, ChartNodes
  <2>3. container'[n] \in Int
    BY <2>2, NextParts
  <2>4. container'[n] = container[n] \/ container'[n] >= index
    BY <1>1, <2>2 DEF ContainersRise
  <2> HIDE DEF n
  <2>5. container'[n] = container[n] \/ container'[n] >= k
    BY <2>1, <2>3, <2>4
  <2> QED BY <2>5 DEF n
<1> QED BY <1>1 DEF StacksRise

\* A level that has the same node, and no less history, to take flags back from.
LEMMA TraceStays ==
  ASSUME RestInvariant, WaitsInvariant', StacksRise, NEW k \in 1..index,
         level'[k].pc \in ManagersOwn => level[k].pc \in ManagersOwn,
         level'[k].history = level[k].history \/ (level'[k].pc # "end" /\ level'[k].caller # "end"),
         level'[k].pc = "end" \/ level'[k].caller = "end" => level[k].caller = "end" \/ level[k].pc = "end",
         level'[k].pc \in {"dispatch", "return", "returned"} => level'[k].caller \in {"callEnd", "end"},
         InCall(k)' => InCall(k) /\ level'[k].current = level[k].current
  PROVE  FlowTrace(k)'
<1>1. FlowTrace(k) /\ FlowOf(k) /\ index \in Int
  BY RestParts
<1>2. InCall(k) => level[k].current \in Node
  BY <1>1 DEF FlowOf, ChartNodes
<1>3. ASSUME InCall(k)', container'[level'[k].current] > 0
      PROVE  container'[level'[k].current] >= k
  <2> DEFINE n == level[k].current
  <2>1. n \in Node /\ level'[k].current = n
    BY <1>2, <1>3
  <2>2. container'[n] = container[n] \/ container'[n] >= k
    BY <1>3, <2>1 DEF StacksRise
  <2> QED BY <1>1, <1>3, <2>1, <2>2 DEF FlowTrace
<1> QED BY <1>1, <1>3 DEF FlowTrace
\* Where the level on top may go on, so that what it holds stays.
GoesOn(p) ==
  /\ p # "end" /\ (p \in ManagersOwn => level[index].pc \in ManagersOwn)
  /\ p \in {"dispatch", "return", "returned"} => level[index].pc \in {"dispatch", "return", "returned"}
  /\ p \in {"call", "callEnd", "ran"} => InCall(index)
  /\ level[index].pc \in {"call", "callEnd", "ran"} => p \in {"call", "callEnd", "ran"}

LEMMA RestGoes ==
  ASSUME RestInvariant, WaitsInvariant', StacksRise, NEW p, GoesOn(p), index' \in {index, index + 1},
         \A k \in Level : k < index => level'[k] = level[k],
         level'[index].pc = p, level'[index].history = level[index].history,
         level'[index].caller = level[index].caller, level'[index].current = level[index].current,
         index' = index + 1 => /\ level'[index + 1].history = {} /\ level'[index + 1].pc = "loop"
                               /\ level'[index + 1].caller = "idle"
  PROVE  TracesKept /\ \A n \in Node : HoldsOn(n)
<1>1. index \in Int /\ index >= 0 /\ 0 \in Level /\ level[0].history = {} /\ \A k \in 1..index : k \in Level
  BY RestParts
<1>2. ASSUME NEW k \in 1..index, k = index PROVE InCall(k)' <=> InCall(k)
  <2>1. InCall(index) <=> level'[index].pc \in {"call", "callEnd", "ran"} \/ level'[index].caller = "callEnd"
    BY DEF InCall, GoesOn
  <2> QED BY <1>2, <2>1 DEF InCall
<1>3. level'[0].history = {}
  BY <1>1
<1>4. ASSUME NEW k \in 1..index PROVE FlowTrace(k)'
  <2>1. CASE k < index
    <3>1. level'[k] = level[k] /\ FlowTrace(k)
      BY <1>1, <2>1, RestParts
    <3> QED BY <3>1, TraceStays, RestRises DEF InCall, FlowTrace
  <2>2. CASE k = index
    <3>1. FlowTrace(k)
      BY RestParts
    <3>2. level'[k].pc \in {"dispatch", "return", "returned"} => level'[k].caller \in {"callEnd", "end"}
      BY <2>2, <3>1 DEF FlowTrace, GoesOn
    <3>3. level'[k].pc # "end"
      BY <2>2 DEF GoesOn
    <3>4. InCall(k)' => InCall(k)
      BY <1>2, <2>2
    <3>5. level'[k].pc \in ManagersOwn => level[k].pc \in ManagersOwn
      BY <2>2 DEF GoesOn
    <3> QED BY <2>2, <3>2, <3>3, <3>4, <3>5, TraceStays, RestRises
  <2> QED BY <1>1, <2>1, <2>2
<1>5. ASSUME index' = index + 1, NEW k, k = index + 1 PROVE FlowTrace(k)'
  BY <1>5 DEF FlowTrace, InCall, ManagersOwn
<1>6. TracesKept
  BY <1>1, <1>3, <1>4, <1>5 DEF TracesKept
<1>7. ASSUME NEW n \in Node PROVE HoldsOn(n)
  <2> SUFFICES ASSUME NEW k \in 1..index
               PROVE  /\ n \in level[k].history => k \in 1..index' /\ n \in level'[k].history
                      /\ InCall(k) /\ level[k].current = n
                           => k \in 1..index' /\ InCall(k)' /\ level'[k].current = n
    BY DEF HoldsOn
  <2>1. k \in 1..index' /\ k \in Level
    BY <1>1
  <2>2. CASE k = index
    BY <1>2, <2>1, <2>2
  <2>3. CASE k < index
    BY <2>1, <2>3 DEF InCall
  <2> QED BY <1>1, <2>2, <2>3
<1> QED BY <1>6, <1>7

LEMMA GotoRests ==
  ASSUME RestInvariant, WaitsInvariant', StacksRise, NEW p, GoesOn(p), Goto(p)
  PROVE  TracesKept /\ (\A n \in Node : HoldsOn(n)) /\ index' = index /\ level'[index'].pc = p
<1> DEFINE x == [level[index] EXCEPT !.pc = p]
<1>1. index \in Int /\ index \in Level /\ level \in [Level -> LevelState]
  BY RestParts
<1>2. level' = [level EXCEPT ![index] = x] /\ index' = index
  BY <1>1 DEF Goto
<1>3. x.pc = p /\ x.history = level[index].history /\ x.caller = level[index].caller
      /\ x.current = level[index].current
  BY <1>1 DEF LevelState
<1> HIDE DEF x
<1>4. level'[index] = x /\ \A k \in Level : k < index => level'[k] = level[k]
  BY <1>1, <1>2
<1>5. index' # index + 1
  BY <1>1, <1>2
<1> QED BY <1>2, <1>3, <1>4, <1>5, RestGoes

LEMMA CallRests ==
  ASSUME RestInvariant, WaitsInvariant', ContainersRise, NEW p, GoesOn(p), NEW n \in Node, CallFlow(n, p)
  PROVE  TracesKept /\ (\A m \in Node : HoldsOn(m)) /\ index' = index + 1 /\ level'[index'].pc = "loop"
<1> DEFINE x == [level[index] EXCEPT !.pc = p]
           y == [level[index + 1] EXCEPT !.pc = "loop", !.chart = ChartOf[n]]
<1>1. index \in Int /\ index \in Level /\ level \in [Level -> LevelState]
  BY RestParts
<1>2. index' = index + 1 /\ index + 1 \in Level
  BY NextParts DEF CallFlow
<1>3. level[index + 1] = FreshLevel
  BY <1>1, <1>2, RestParts DEF QuietInvariant, LevelsNest
<1>4. level' = [level EXCEPT ![index] = x, ![index + 1] = y]
  BY <1>1, <1>2 DEF CallFlow
<1>5. /\ x.pc = p /\ x.history = level[index].history /\ x.caller = level[index].caller
      /\ x.current = level[index].current
      /\ y.pc = "loop" /\ y.history = {} /\ y.caller = "idle"
  BY <1>1, <1>3 DEF LevelState, FreshLevel
<1> HIDE DEF x, y
<1>6. level'[index] = x /\ level'[index + 1] = y /\ \A k \in Level : k < index => level'[k] = level[k]
  BY <1>1, <1>2, <1>4
<1> QED BY <1>2, <1>5, <1>6, RestGoes, RestRises
-----------------------------------------------------------------------------
(* Steps that move no node.                                                *)

LEMMA RestQuietGoto ==
  ASSUME RestInvariant, WaitsInvariant', NEW p, GoesOn(p), p # "call", Goto(p), container' = container,
         \A n \in Node : Undisturbed(n)
  PROVE  RestInvariant'
<1>1. ContainersRise
  BY DEF ContainersRise
<1> QED BY <1>1, GotoRests, RestRises, RestStays

LEMMA RestQuietSteps ==
  ASSUME RestInvariant, WaitsInvariant',
         \/ SwitchQueues \/ EndStep \/ LoopExit \/ ReturnOfRoot \/ CallFunc \/ CallRaise
         \/ (\E r \in Result : CallEnd(r)) \/ \E due \in SUBSET Armed : BeginStep(due)
  PROVE  RestInvariant'
<1>1. node \in [Node -> NodeState] /\ container' = container
  BY RestParts DEF SwitchQueues, EndStep, LoopExit, ReturnOfRoot, CallFunc, CallRaise, CallEnd, BeginStep, lists
<1>2. ASSUME node' = node PROVE \A n \in Node : Undisturbed(n)
  BY <1>1, <1>2 DEF Undisturbed, NoNewFlag
<1>3. CASE SwitchQueues \/ EndStep \/ LoopExit \/ ReturnOfRoot \/ CallFunc \/ CallRaise
  <2>1. node' = node
    BY <1>3 DEF SwitchQueues, EndStep, LoopExit, ReturnOfRoot, CallFunc, CallRaise
  <2>2. \E p \in {"events", "idle", "restore", "returned", "callEnd"} : Goto(p) /\ GoesOn(p)
    BY <1>3 DEF SwitchQueues, EndStep, LoopExit, ReturnOfRoot, CallFunc, CallRaise, GoesOn, At, Calls, InCall, ManagersOwn
  <2> QED BY <1>1, <1>2, <2>1, <2>2, RestQuietGoto
<1>4. CASE \E r \in Result : CallEnd(r)
  <2>1. Goto("ran") /\ GoesOn("ran")
    BY <1>4 DEF CallEnd, GoesOn, At, InCall, ManagersOwn
  <2>2. \A n \in Node : Undisturbed(n)
    BY <1>1, <1>4 DEF CallEnd, NodeState, Undisturbed, NoNewFlag
  <2> QED BY <1>1, <2>1, <2>2, RestQuietGoto
<1>5. CASE \E due \in SUBSET Armed : BeginStep(due)
  <2>1. Goto("timers") /\ GoesOn("timers")
    BY <1>5 DEF BeginStep, AtRest, GoesOn, At, InCall, ManagersOwn
  <2>2. \A n \in Node : Undisturbed(n)
    BY <1>1, <1>5 DEF BeginStep, NodeState, Undisturbed, NoNewFlag
  <2> QED BY <1>1, <2>1, <2>2, RestQuietGoto
<1> QED BY <1>3, <1>4, <1>5

\* Nothing but queues changes.
LEMMA RestUntouched ==
  ASSUME RestInvariant, WaitsInvariant', UNCHANGED <<node, container, index, level>>
  PROVE  RestInvariant'
<1>1. \A n \in Node : Rested(n)'
  BY DEF RestInvariant, Rested, RunFlagHeld, SkipHeld, InCall, Status
<1> QED BY <1>1 DEF RestInvariant, FlowTrace, InCall, At

\* A level that changes in place, and nothing else, with what it holds.
LEMMA RestTop ==
  ASSUME RestInvariant, WaitsInvariant', UNCHANGED <<node, container, index>>, NEW x,
         level' = [level EXCEPT ![index] = x], x.history = level[index].history,
         x.current = level[index].current, x.pc # "call",
         x.pc = "end" \/ x.caller = "end" => level[index].pc = "end" \/ level[index].caller = "end",
         index = 0 \/ x.pc \notin ManagersOwn,
         index = 0 \/ (x.pc \in {"dispatch", "return", "returned"} => x.caller \in {"callEnd", "end"}),
         x.pc \in {"call", "callEnd", "ran"} \/ x.caller = "callEnd" <=> InCall(index)
  PROVE  RestInvariant'
<1>1. index \in Int /\ index >= 0 /\ index \in Level /\ 0 \in Level /\ level \in [Level -> LevelState]
      /\ level[0].history = {} /\ \A k \in 1..index : k \in Level
  BY RestParts
<1>2. level'[index] = x /\ \A k \in Level : k # index => level'[k] = level[k]
  BY <1>1
<1>3. ContainersRise
  BY DEF ContainersRise
<1>4. ASSUME NEW k \in 1..index
      PROVE  /\ level'[k].history = level[k].history /\ level'[k].current = level[k].current
             /\ InCall(k)' <=> InCall(k)
             /\ k # index => level'[k] = level[k]
  <2>1. CASE k = index
    BY <1>2, <2>1 DEF InCall
  <2>2. CASE k # index
    BY <1>1, <1>2, <2>2 DEF InCall
  <2> QED BY <2>1, <2>2
<1>5. ASSUME NEW k \in 1..index PROVE FlowTrace(k)'
  <2>1. level'[k].pc = "end" \/ level'[k].caller = "end" => level[k].pc = "end" \/ level[k].caller = "end"
    BY <1>2, <1>4
  <2>2. FlowTrace(k)
    BY RestParts
  <2>3. level'[k].pc \in {"dispatch", "return", "returned"} => level'[k].caller \in {"callEnd", "end"}
    BY <1>2, <1>4, <2>2 DEF FlowTrace
  <2> QED BY <1>3, <1>4, <2>1, <2>3, TraceStays, RestRises
<1>6. TracesKept
  BY <1>1, <1>2, <1>5 DEF TracesKept
<1>7. \A n \in Node : HoldsOn(n) /\ Undisturbed(n)
  BY <1>4 DEF HoldsOn, Undisturbed, NoNewFlag
<1> QED BY <1>2, <1>6, <1>7, RestStays

LEMMA RestTriggers ==
  ASSUME RestInvariant, WaitsInvariant', NEW ev, NEW p \in {"idle", "callEnd"}, TriggerEvent(ev, p),
         IF p = "idle" THEN index = 0 /\ At("idle") ELSE At("call")
  PROVE  RestInvariant'
<1>1. node' = node /\ container' = container /\ (Goto(p) \/ StartDispatch(ev, currentEvent, p))
  BY DEF TriggerEvent
<1>2. CASE Goto(p)
  <2>1. GoesOn(p)
    BY DEF GoesOn, At, InCall, ManagersOwn
  <2>2. \A n \in Node : Undisturbed(n)
    BY <1>1 DEF Undisturbed, NoNewFlag
  <2> QED BY <1>1, <1>2, <2>1, <2>2, RestQuietGoto
<1>3. CASE StartDispatch(ev, currentEvent, p)
  <2> DEFINE x == [level[index] EXCEPT !.pc = "dispatch", !.caller = p, !.event = ev,
                                       !.prevEvent = currentEvent]
  <2>1. level' = [level EXCEPT ![index] = x] /\ index' = index /\ level[index] \in LevelState
    BY <1>3, RestParts DEF StartDispatch
  <2>2. x.pc = "dispatch" /\ x.caller = p /\ x.history = level[index].history
        /\ x.current = level[index].current
    BY <2>1 DEF LevelState
  <2>3. p = "callEnd" <=> InCall(index)
    <3>1. index = 0 => ~InCall(index)
      BY RestParts DEF QuietInvariant, LevelsNest, InCall
    <3> QED BY <3>1 DEF InCall, At
  <2> HIDE DEF x
  <2> QED BY <1>1, <2>1, <2>2, <2>3, RestTop DEF ManagersOwn
<1> QED BY <1>1, <1>2, <1>3

LEMMA RestDispatches ==
  ASSUME RestInvariant, WaitsInvariant',
         HandleEvent \/ DispatchEnd \/ CallTrigger \/ \E w \in Wait : Trigger(w)
  PROVE  RestInvariant'
<1>1. index \in Level /\ level \in [Level -> LevelState]
  BY RestParts
<1>2. CASE HandleEvent
  <2>1. /\ node' = node /\ container' = container /\ index = 0 /\ index' = index
        /\ level' = level \/ \E ev : StartDispatch(ev, NoEvent, "events")
    BY <1>2 DEF HandleEvent, StartDispatch
  <2>2. ASSUME NEW ev, StartDispatch(ev, NoEvent, "events") PROVE RestInvariant'
    <3> DEFINE x == [level[index] EXCEPT !.pc = "dispatch", !.caller = "events", !.event = ev,
                                         !.prevEvent = NoEvent]
    <3>1. level' = [level EXCEPT ![index] = x]
      BY <1>1, <2>2 DEF StartDispatch
    <3>2. x.pc = "dispatch" /\ x.caller = "events" /\ x.history = level[index].history
          /\ x.current = level[index].current
      BY <1>1 DEF LevelState
    <3>3. ~InCall(index)
      BY <2>1, RestParts DEF QuietInvariant, LevelsNest, InCall
    <3> HIDE DEF x
    <3> QED BY <2>1, <3>1, <3>2, <3>3, RestTop
  <2> QED BY <2>1, <2>2, RestUntouched
<1>3. CASE DispatchEnd
  <2> DEFINE x == [level[index] EXCEPT !.pc = level[index].caller, !.caller = "idle", !.event = NoEvent,
                                       !.prevEvent = NoEvent]
  <2>1. /\ level' = [level EXCEPT ![index] = x] /\ index' = index /\ node' = node /\ container' = container
        /\ At("dispatch")
    BY <1>1, <1>3 DEF DispatchEnd, lists
  <2>2. x.pc = level[index].caller /\ x.caller = "idle" /\ x.history = level[index].history
        /\ x.current = level[index].current /\ x.pc \in {"idle", "events", "callEnd", "end"}
    BY <1>1 DEF LevelState
  <2>3. level[index].caller # "end"
    BY <1>1, <2>1, RestParts DEF HomeInvariant, Tidy, At
  <2>4. InCall(index) <=> level[index].caller = "callEnd"
    BY <2>1 DEF InCall, At
  <2>5. index = 0 \/ x.pc \notin ManagersOwn
    <3>1. index # 0 => FlowTrace(index)
      BY RestParts
    <3> QED BY <2>1, <2>2, <3>1 DEF FlowTrace, At, ManagersOwn
  <2> HIDE DEF x
  <2> QED BY <2>1, <2>2, <2>3, <2>4, <2>5, RestTop
<1>4. CASE CallTrigger
  <2>1. At("call") /\ \E w : TriggerEvent(w, "callEnd")
    BY <1>4 DEF CallTrigger, Calls
  <2> QED BY <2>1, RestTriggers
<1>5. ASSUME NEW w \in Wait, Trigger(w) PROVE RestInvariant'
  <2>1. index = 0 /\ At("idle") /\ TriggerEvent(w, "idle")
    BY <1>5 DEF Trigger, CallsIn, AtRest
  <2> QED BY <2>1, RestTriggers
<1> QED BY <1>2, <1>3, <1>4, <1>5
LEMMA RestCallReturn ==
  ASSUME RestInvariant, WaitsInvariant', CallReturn
  PROVE  RestInvariant'
<1> DEFINE l == level[index]
           x(c) == IF IsRunning(c) THEN [l EXCEPT !.pc = "return", !.returning = c, !.caller = "callEnd"]
                                   ELSE [l EXCEPT !.pc = "callEnd"]
<1>1. PICK n \in Node :
        /\ Calls(n, "ret") /\ UNCHANGED <<node, container, index>>
        /\ level' = IF IsRunning(ChartOf[n])
                THEN [level EXCEPT ![index].pc = "return", ![index].returning = ChartOf[n],
                                   ![index].caller = "callEnd"]
                ELSE [level EXCEPT ![index].pc = "callEnd"]
  BY DEF CallReturn, lists
<1>2. /\ l \in LevelState /\ At("call") /\ l.pc = "call"
      /\ l.caller \in {"idle", "callEnd"}
  BY <1>1, RestParts DEF Calls, At, HomeInvariant, Tidy
<1>3. level' = [level EXCEPT ![index] = x(ChartOf[n])]
  BY <1>1, RestParts
<1>4. LET y == x(ChartOf[n])
      IN  /\ y.history = l.history /\ y.current = l.current /\ y.pc \in {"return", "callEnd"}
          /\ y.pc = "return" => y.caller = "callEnd"
          /\ y.caller \in {"idle", "callEnd"}
  BY <1>2 DEF LevelState
<1>5. InCall(index)
  BY <1>2 DEF InCall
<1> DEFINE y == x(ChartOf[n])
<1>6. level' = [level EXCEPT ![index] = y] /\ y.history = l.history /\ y.current = l.current
      /\ y.pc \in {"return", "callEnd"} /\ (y.pc = "return" => y.caller = "callEnd")
      /\ y.caller \in {"idle", "callEnd"}
  BY <1>3, <1>4
<1> HIDE DEF x, y
<1> QED BY <1>1, <1>5, <1>6, RestTop DEF ManagersOwn

\* The flow that ends holds nothing.
LEMMA RestFlowEnd ==
  ASSUME RestInvariant, WaitsInvariant', FlowEnd
  PROVE  RestInvariant'
<1>1. /\ index > 0 /\ At("end") /\ index' = index - 1 /\ level' = [level EXCEPT ![index] = FreshLevel]
      /\ UNCHANGED <<node, container>>
  BY DEF FlowEnd, lists
<1>2. /\ index \in Int /\ index \in Level /\ level \in [Level -> LevelState] /\ 0 \in Level
      /\ level[0].history = {} /\ \A k \in 1..index : k \in Level /\ FlowTrace(k)
  BY RestParts
<1>3. \A k \in Level : k # index => level'[k] = level[k]
  BY <1>1, <1>2
<1>4. level[index].history = {} /\ ~InCall(index)
  <2>1. index \in 1..index
    BY <1>1, <1>2
  <2>2. level[index].caller = "idle"
    BY <1>1, <1>2, RestParts DEF HomeInvariant, Tidy, At
  <2> QED BY <1>1, <1>2, <2>1, <2>2 DEF FlowTrace, At, InCall
<1>5. ContainersRise
  BY <1>1 DEF ContainersRise
<1>6. ASSUME NEW k \in 1..index' PROVE FlowTrace(k)'
  <2>1. k \in 1..index /\ k # index /\ k \in Level
    BY <1>1, <1>2
  <2>2. level'[k] = level[k] /\ FlowTrace(k)
    BY <1>2, <1>3, <2>1
  <2> QED BY <1>5, <2>1, <2>2, TraceStays, RestRises DEF InCall, FlowTrace
<1>7. TracesKept
  BY <1>1, <1>2, <1>3, <1>6 DEF TracesKept
<1>8. \A n \in Node : HoldsOn(n) /\ Undisturbed(n)
  <2> TAKE n \in Node
  <2>1. ASSUME NEW k \in 1..index, n \in level[k].history \/ InCall(k)
        PROVE  k \in 1..index' /\ level'[k] = level[k] /\ (InCall(k) => InCall(k)')
    <3>1. k # index
      BY <1>4, <2>1
    <3> QED BY <1>1, <1>2, <1>3, <2>1, <3>1 DEF InCall
  <2> QED BY <1>1, <2>1 DEF HoldsOn, Undisturbed, NoNewFlag
<1>9. level'[index'].pc # "call"
  <2>1. index' \in Level /\ index' # index /\ index' < index
    BY <1>1, <1>2, NextParts
  <2> QED BY <1>3, <2>1, RestParts DEF QuietInvariant, LevelsNest
<1> QED BY <1>7, <1>8, <1>9, RestStays

-----------------------------------------------------------------------------
(* Nodes that are stopped.                                                 *)

LEMMA StoppedCleared ==
  ASSUME NEW nodes \in [Node -> NodeState], NEW S, node' = StoppedNodes(nodes, S), Unlink(S),
         \A n \in Node : /\ nodes[n].status = node[n].status /\ nodes[n].skip = node[n].skip
                         /\ nodes[n].runFlag => node[n].runFlag
  PROVE  /\ \A n \in Node : Cleared(n) \/ Undisturbed(n)
         /\ \A n \in Node : n \in S => Cleared(n)
<1>1. ASSUME NEW n \in Node, n \in S PROVE Cleared(n)
  <2>1. nodes[n] \in NodeState
    OBVIOUS
  <2> QED BY <1>1, <2>1 DEF Cleared, StoppedNodes, NodeState
<1>2. ASSUME NEW n \in Node, n \notin S PROVE Undisturbed(n)
  BY <1>2 DEF Undisturbed, NoNewFlag, StoppedNodes, Unlink, Contain
<1> QED BY <1>1, <1>2

LEMMA UnlinkRises ==
  ASSUME NEW S, Unlink(S)
  PROVE  ContainersRise
BY DEF Unlink, Contain, ContainersRise

LEMMA RestStop ==
  ASSUME RestInvariant, WaitsInvariant', NEW c \in Chart, Stop(c)
  PROVE  RestInvariant'
<1>1. /\ StopChart(c) /\ level' = level /\ index' = index /\ AtRest /\ node \in [Node -> NodeState]
  BY RestParts DEF Stop
<1>2. \A n \in Node : Cleared(n) \/ Undisturbed(n)
  BY <1>1, StoppedCleared DEF StopChart
<1>3. TracesKept /\ level'[index'].pc # "call"
  BY <1>1, RestParts DEF TracesKept, AtRest, At
<1>4. \A n \in Node : HoldsOn(n)
  BY <1>1 DEF HoldsOn, AtRest
<1> QED BY <1>2, <1>3, <1>4, RestStays

LEMMA RestStopObject ==
  ASSUME RestInvariant, WaitsInvariant', NEW a, StopObject(a)
  PROVE  RestInvariant'
<1>1. /\ level' = level /\ index' = index /\ AtRest /\ node \in [Node -> NodeState]
      /\ \E S : node' = StoppedNodes(node, S) /\ Unlink(S)
  BY RestParts DEF StopObject
<1>2. \A n \in Node : Cleared(n) \/ Undisturbed(n)
  BY <1>1, StoppedCleared
<1>3. TracesKept /\ level'[index'].pc # "call"
  BY <1>1, RestParts DEF TracesKept, AtRest, At
<1>4. \A n \in Node : HoldsOn(n)
  BY <1>1 DEF HoldsOn, AtRest
<1> QED BY <1>2, <1>3, <1>4, RestStays

LEMMA RestCallStop ==
  ASSUME RestInvariant, WaitsInvariant', CallStop
  PROVE  RestInvariant'
<1>1. PICK S : node' = StoppedNodes(node, S) /\ Unlink(S)
  BY DEF CallStop, StopNodes
<1>2. Goto("callEnd") /\ GoesOn("callEnd") /\ node \in [Node -> NodeState]
  BY RestParts DEF CallStop, Calls, At, GoesOn, InCall, ManagersOwn
<1>3. \A n \in Node : Cleared(n) \/ Undisturbed(n)
  BY <1>1, <1>2, StoppedCleared
<1>4. ContainersRise
  BY <1>1, UnlinkRises
<1> QED BY <1>2, <1>3, <1>4, GotoRests, RestRises, RestStays

LEMMA RestReturnStop ==
  ASSUME RestInvariant, WaitsInvariant', ReturnStop
  PROVE  RestInvariant'
<1> DEFINE x == [level[index] EXCEPT !.pc = level[index].caller, !.caller = "idle", !.returning = None]
<1>1. /\ At("returned") /\ StopChart(level[index].returning) /\ index' = index
      /\ level' = [level EXCEPT ![index] = x]
  BY RestParts DEF ReturnStop
<1>2. /\ index \in Level /\ level[index] \in LevelState /\ index \in Int /\ index >= 0 /\ 0 \in Level
      /\ level \in [Level -> LevelState] /\ node \in [Node -> NodeState] /\ level[0].history = {}
      /\ \A k \in 1..index : k \in Level /\ FlowTrace(k)
  BY RestParts
<1>3. index # 0
  BY <1>1, RestParts DEF QuietInvariant, LevelsNest, At
<1>4. level[index].caller \in {"callEnd", "end"} /\ (level[index].caller = "end" => level[index].history = {})
  <2>1. index \in 1..index
    BY <1>2, <1>3
  <2> QED BY <1>1, <1>2, <2>1 DEF FlowTrace, At
<1>5. x.pc = level[index].caller /\ x.caller = "idle" /\ x.history = level[index].history
      /\ x.current = level[index].current
  BY <1>2 DEF LevelState
<1> HIDE DEF x
<1>6. level'[index] = x /\ \A k \in Level : k # index => level'[k] = level[k]
  BY <1>1, <1>2
<1>7. \A n \in Node : Cleared(n) \/ Undisturbed(n)
  BY <1>1, <1>2, StoppedCleared DEF StopChart
<1>8. ContainersRise
  BY <1>1, UnlinkRises DEF StopChart
<1>9. ASSUME NEW k \in 1..index
      PROVE  /\ level'[k].history = level[k].history /\ level'[k].current = level[k].current
             /\ InCall(k)' <=> InCall(k)
             /\ k # index => level'[k] = level[k]
  <2>1. CASE k = index
    BY <1>1, <1>4, <1>5, <1>6, <2>1 DEF InCall, At
  <2>2. CASE k # index
    BY <1>2, <1>6, <2>2 DEF InCall
  <2> QED BY <2>1, <2>2
<1>10. ASSUME NEW k \in 1..index PROVE FlowTrace(k)'
  <2>1. level'[k].pc = "end" \/ level'[k].caller = "end" => level[k].pc = "end" \/ level[k].caller = "end"
    BY <1>5, <1>6, <1>9
  <2>2. level'[k].pc \in {"dispatch", "return", "returned"} => level'[k].caller \in {"callEnd", "end"}
    BY <1>2, <1>4, <1>5, <1>6, <1>9 DEF FlowTrace
  <2>3. level'[k].pc \notin ManagersOwn
    <3>1. FlowTrace(k)
      BY RestParts
    <3>2. CASE k = index
      BY <1>4, <1>5, <1>6, <3>1, <3>2 DEF FlowTrace, At, ManagersOwn
    <3>3. CASE k # index
      BY <1>9, <3>1, <3>3 DEF FlowTrace
    <3> QED BY <3>2, <3>3
  <2> QED BY <1>8, <1>9, <2>1, <2>2, <2>3, TraceStays, RestRises
<1>11. TracesKept /\ level'[index'].pc # "call"
  BY <1>1, <1>2, <1>3, <1>4, <1>5, <1>6, <1>10 DEF TracesKept
<1>12. \A n \in Node : HoldsOn(n)
  BY <1>1, <1>9 DEF HoldsOn
<1> QED BY <1>7, <1>11, <1>12, RestStays

\* The flow takes its flags back, and stops what it has ended.
LEMMA RestRestore ==
  ASSUME RestInvariant, WaitsInvariant', Restore
  PROVE  RestInvariant'
<1>1. PICK h, ended, finished, c :
        /\ h = level[index].history /\ ended = {n \in h : Status(n) = "EndRun"}
        /\ node' = StoppedNodes(Unflagged(h), WithSubcharts(ended)) /\ Unlink(WithSubcharts(ended))
        /\ index' = index
        /\ level' = [level EXCEPT ![index].history = {},
                                  ![index].pc = IF finished THEN "return" ELSE "end",
                                  ![index].returning = IF finished THEN c ELSE None,
                                  ![index].caller = IF finished THEN "end" ELSE "idle"]
        /\ At("restore")
  BY DEF Restore
<1> DEFINE S == WithSubcharts(ended)
           x == [level[index] EXCEPT !.history = {}, !.pc = IF finished THEN "return" ELSE "end",
                   !.returning = IF finished THEN c ELSE None, !.caller = IF finished THEN "end" ELSE "idle"]
<1>2. /\ index \in Level /\ level[index] \in LevelState /\ index \in Int /\ index >= 0 /\ 0 \in Level
      /\ level \in [Level -> LevelState] /\ node \in [Node -> NodeState] /\ level[0].history = {}
      /\ \A k \in 1..index : k \in Level /\ FlowTrace(k)
  BY RestParts
<1>3. level' = [level EXCEPT ![index] = x]
  BY <1>1, <1>2
<1>4. x.history = {} /\ x.pc \in {"return", "end"} /\ x.caller \in {"end", "idle"}
      /\ (x.pc = "return" => x.caller = "end") /\ x.current = level[index].current
  BY <1>2 DEF LevelState
<1> HIDE DEF x
<1>5. level'[index] = x /\ \A k \in Level : k # index => level'[k] = level[k]
  BY <1>2, <1>3
<1>6. ~InCall(index) /\ \A k \in 1..index : InCall(k) => k # index
  BY <1>1, <1>2, RestParts DEF HomeInvariant, Tidy, At, InCall
<1>7. ended \subseteq S
  BY DEF WithSubcharts
<1> HIDE DEF S
<1>8. /\ Unflagged(h) \in [Node -> NodeState]
      /\ \A n \in Node : LET y == Unflagged(h)[n]
                         IN  /\ y.status = node[n].status /\ y.skip = node[n].skip
                             /\ y.runFlag => node[n].runFlag /\ n \notin h
  <2>1. \A y \in NodeState : LET z == [y EXCEPT !.runFlag = FALSE]
                             IN  z \in NodeState /\ z.status = y.status /\ z.skip = y.skip /\ ~z.runFlag
    BY DEF NodeState
  <2> QED BY <1>2, <2>1 DEF Unflagged
<1>9. node' = StoppedNodes(Unflagged(h), S) /\ Unlink(S)
  BY <1>1 DEF S
<1>10. (\A n \in Node : Cleared(n) \/ Undisturbed(n)) /\ \A n \in Node : n \in S => Cleared(n)
  BY <1>8, <1>9, StoppedCleared
<1>11. ContainersRise
  BY <1>9, UnlinkRises
<1>12. ASSUME NEW k \in 1..index PROVE FlowTrace(k)'
  <2>1. CASE k = index
    BY <1>4, <1>5, <2>1 DEF FlowTrace, InCall, ManagersOwn
  <2>2. CASE k # index
    <3>1. level'[k] = level[k] /\ FlowTrace(k)
      BY <1>2, <1>5, <2>2
    <3> QED BY <1>11, <3>1, TraceStays, RestRises DEF InCall, FlowTrace
  <2> QED BY <2>1, <2>2
<1>13. TracesKept /\ level'[index'].pc # "call"
  BY <1>1, <1>2, <1>4, <1>5, <1>12 DEF TracesKept
<1>14. ASSUME NEW n \in Node PROVE Rested(n)'
  <2>1. CASE n \in S
    BY <1>10, <2>1, ClearedRests
  <2>2. CASE n \notin S /\ n \notin h
    <3>1. \A k \in 1..index : n \in level[k].history \/ InCall(k) => k # index
      BY <1>1, <1>6, <2>2
    <3>2. HoldsOn(n)
      BY <1>1, <1>2, <1>5, <3>1 DEF HoldsOn, InCall
    <3> QED BY <1>10, <3>2, UndisturbedRests, ClearedRests
  <2>3. CASE n \notin S /\ n \in h
    <3>1. ~node'[n].runFlag /\ node'[n].skip = node[n].skip /\ node'[n].status = node[n].status
          /\ container'[n] = container[n]
      BY <1>8, <1>9, <2>3 DEF StoppedNodes, Unlink, Contain
    <3>2. Status(n) # "EndRun"
      BY <1>1, <1>7, <2>3
    <3>3. Rested(n)
      BY DEF RestInvariant
    <3>4. node'[n].skip => SkipHeld(n)'
      BY <3>1, <3>2, <3>3 DEF Rested, SkipHeld, Status
    <3> QED BY <3>1, <3>4 DEF Rested
  <2> QED BY <2>1, <2>2, <2>3
<1> QED BY <1>13, <1>14, RestStays
-----------------------------------------------------------------------------
(* Nodes that a flow visits.                                               *)

\* A flow in its loop goes on; its history grows.
LEMMA LoopRests ==
  ASSUME RestInvariant, WaitsInvariant', ContainersRise, At("loop"), index' = index, NEW x,
         level' = [level EXCEPT ![index] = x], level[index].history \subseteq x.history,
         x.pc \in {"loop", "restore", "call", "ran"}, x.caller = level[index].caller,
         x.pc \in {"call", "ran"} => container'[x.current] = index
  PROVE  TracesKept /\ (\A n \in Node : HoldsOn(n)) /\ level'[index] = x /\ index \in 1..index
<1>1. /\ index \in Level /\ index \in Int /\ index >= 0 /\ 0 \in Level
      /\ level \in [Level -> LevelState] /\ level[0].history = {}
      /\ \A k \in 1..index : k \in Level /\ FlowTrace(k)
  BY RestParts
<1>2. level'[index] = x /\ \A k \in Level : k # index => level'[k] = level[k]
  BY <1>1
<1>3. index # 0 /\ level[index].caller = "idle" /\ ~InCall(index)
  BY <1>1, RestParts DEF QuietInvariant, LevelsNest, HomeInvariant, Tidy, At, InCall
<1>4. ASSUME NEW k \in 1..index PROVE FlowTrace(k)'
  <2>1. CASE k = index
    BY <1>1, <1>2, <1>3, <2>1 DEF FlowTrace, InCall, ManagersOwn
  <2>2. CASE k # index
    <3>1. level'[k] = level[k] /\ FlowTrace(k)
      BY <1>1, <1>2, <2>2
    <3> QED BY <3>1, TraceStays, RestRises DEF InCall, FlowTrace
  <2> QED BY <2>1, <2>2
<1>5. TracesKept
  BY <1>1, <1>2, <1>3, <1>4 DEF TracesKept
<1>6. ASSUME NEW n \in Node PROVE HoldsOn(n)
  <2>1. ASSUME NEW k \in 1..index
        PROVE  level[k].history \subseteq level'[k].history /\ (InCall(k) => level'[k] = level[k])
    <3>1. CASE k = index
      BY <1>2, <1>3, <3>1
    <3>2. CASE k # index
      BY <1>1, <1>2, <3>2
    <3> QED BY <3>1, <3>2
  <2> QED BY <2>1 DEF HoldsOn, InCall
<1> QED BY <1>1, <1>2, <1>3, <1>5, <1>6

LEMMA RestTruncate ==
  ASSUME RestInvariant, WaitsInvariant', Truncate
  PROVE  RestInvariant'
<1> DEFINE S == Elements(stack[index])
           x == [level[index] EXCEPT !.pc = "restore", !.history = @ \cup S]
<1>1. /\ At("loop") /\ index' = index
      /\ node' = [n \in Node |-> IF n \in S THEN [node[n] EXCEPT !.status = "EndRun"] ELSE node[n]]
      /\ level' = [level EXCEPT ![index].pc = "restore", ![index].history = @ \cup S]
      /\ container' = Contain(InStack(S, index), 0)
  BY DEF Truncate, InLoop
<1>2. level[index] \in LevelState /\ level \in [Level -> LevelState] /\ node \in [Node -> NodeState]
  BY RestParts
<1> HIDE DEF S
<1>3. /\ level' = [level EXCEPT ![index] = x] /\ level[index].history \subseteq x.history /\ S \subseteq x.history
      /\ x.pc = "restore" /\ x.caller = level[index].caller
  BY <1>1, <1>2 DEF LevelState
<1> HIDE DEF x
<1>4. ContainersRise
  BY <1>1 DEF ContainersRise, Contain
<1>5. TracesKept /\ (\A n \in Node : HoldsOn(n)) /\ level'[index] = x /\ index \in 1..index
  BY <1>1, <1>3, <1>4, LoopRests
<1>6. ASSUME NEW n \in Node, n \in S PROVE Rested(n)'
  <2>1. node'[n].status = "EndRun"
    BY <1>1, <1>2, <1>6 DEF NodeState
  <2>2. \E k \in 1..index' : n \in level'[k].history
    BY <1>1, <1>3, <1>5, <1>6
  <2> QED BY <2>1, <2>2 DEF Rested, RunFlagHeld, SkipHeld, Status
<1>7. ASSUME NEW n \in Node, n \notin S PROVE Undisturbed(n)
  BY <1>1, <1>7 DEF Undisturbed, NoNewFlag, Contain, InStack
<1> QED BY <1>1, <1>3, <1>5, <1>6, <1>7, RestStays

LEMMA RestSkipRunning ==
  ASSUME RestInvariant, WaitsInvariant', SkipRunning
  PROVE  RestInvariant'
<1>1. PICK n \in Node :
        /\ Visit(n) /\ Skips(n) /\ node' = node /\ index' = index
        /\ level' = [level EXCEPT ![index].count = @ + 1, ![index].hasRunning = TRUE,
                                  ![index].history = @ \cup {n}]
        /\ container' = Contain(InStack({n}, index), 0)
  BY DEF SkipRunning
<1> DEFINE x == [level[index] EXCEPT !.count = @ + 1, !.hasRunning = TRUE, !.history = @ \cup {n}]
<1>2. level[index] \in LevelState /\ level \in [Level -> LevelState] /\ At("loop")
  BY <1>1, RestParts DEF Visit, InLoop
<1>3. /\ level' = [level EXCEPT ![index] = x] /\ level[index].history \subseteq x.history /\ n \in x.history
      /\ x.pc = "loop" /\ x.caller = level[index].caller
  BY <1>1, <1>2 DEF LevelState, At
<1> HIDE DEF x
<1>4. ContainersRise
  BY <1>1 DEF ContainersRise, Contain
<1>5. TracesKept /\ (\A m \in Node : HoldsOn(m)) /\ level'[index] = x
  BY <1>1, <1>2, <1>3, <1>4, LoopRests
<1>6. Placed(n) /\ NoNewFlag(n)
  BY <1>1 DEF Placed, NoNewFlag, Skips, Status
<1>7. \A m \in Node : m # n => Undisturbed(m)
  BY <1>1 DEF Undisturbed, NoNewFlag, Contain, InStack
<1> QED BY <1>1, <1>3, <1>5, <1>6, <1>7, RestStays

LEMMA RestWaitTick ==
  ASSUME RestInvariant, WaitsInvariant', WaitTick
  PROVE  RestInvariant'
<1>1. PICK n \in Node :
        /\ Visit(n) /\ UnlinkAndWait({}, n, <<AgentOf[level[index].chart], TICK>>)
        /\ node' = [node EXCEPT ![n].status = "Running"] /\ index' = index
        /\ level' = [level EXCEPT ![index].count = @ + 1, ![index].hasRunning = TRUE]
  BY DEF WaitTick
<1> DEFINE x == [level[index] EXCEPT !.count = @ + 1, !.hasRunning = TRUE]
<1>2. level[index] \in LevelState /\ level \in [Level -> LevelState] /\ At("loop") /\ node \in [Node -> NodeState]
  BY <1>1, RestParts DEF Visit, InLoop
<1>3. /\ level' = [level EXCEPT ![index] = x] /\ level[index].history \subseteq x.history
      /\ x.pc = "loop" /\ x.caller = level[index].caller
  BY <1>1, <1>2 DEF LevelState, At
<1> HIDE DEF x
<1>4. \A m \in Node : container'[m] = IF m = n THEN EventList ELSE container[m]
  BY <1>1 DEF UnlinkAndWait, Contain
<1>5. ContainersRise
  BY <1>4 DEF ContainersRise, EventList
<1>6. TracesKept /\ (\A m \in Node : HoldsOn(m)) /\ level'[index] = x
  BY <1>1, <1>2, <1>3, <1>5, LoopRests
<1>7. Placed(n) /\ NoNewFlag(n)
  BY <1>1, <1>2 DEF Placed, NoNewFlag, NodeState
<1>8. \A m \in Node : m # n => Undisturbed(m)
  BY <1>1, <1>2, <1>4 DEF Undisturbed, NoNewFlag
<1> QED BY <1>1, <1>3, <1>6, <1>7, <1>8, RestStays

\* A node is flagged by the flow that runs it.
LEMMA RestRunNode ==
  ASSUME RestInvariant, WaitsInvariant', RunNode
  PROVE  RestInvariant'
<1>1. PICK n \in Node :
        /\ Visit(n) /\ index' = index /\ container' = container
        /\ level' = [level EXCEPT ![index].count = @ + 1, ![index].current = n,
                                  ![index].pc = IF node[n].skip THEN "ran" ELSE "call"]
        /\ node' = IF node[n].skip THEN [node EXCEPT ![n].skip = FALSE]
                   ELSE [node EXCEPT ![n].runFlag = TRUE, ![n].result = "rFALSE"]
  BY DEF RunNode, lists
<1> DEFINE x == [level[index] EXCEPT !.count = @ + 1, !.current = n,
                                     !.pc = IF node[n].skip THEN "ran" ELSE "call"]
<1>2. /\ level[index] \in LevelState /\ level \in [Level -> LevelState] /\ At("loop")
      /\ node \in [Node -> NodeState] /\ container[n] = index /\ index # 0
  BY <1>1, RestParts, OwnersVisit DEF Visit, InLoop
<1>3. /\ level' = [level EXCEPT ![index] = x] /\ level[index].history \subseteq x.history
      /\ x.pc \in {"ran", "call"} /\ x.caller = level[index].caller /\ x.current = n
      /\ x.pc = "call" => ~node[n].skip
  BY <1>1, <1>2 DEF LevelState
<1> HIDE DEF x
<1>4. ContainersRise
  BY <1>1 DEF ContainersRise
<1>5. TracesKept /\ (\A m \in Node : HoldsOn(m)) /\ level'[index] = x /\ index \in 1..index
  BY <1>1, <1>2, <1>3, <1>4, LoopRests
<1>6. ASSUME NEW m \in Node PROVE Rested(m)'
  <2>1. CASE m = n
    <3>1. node'[n].skip = FALSE
      BY <1>1, <1>2 DEF NodeState
    <3>2. RunFlagHeld(n)'
      BY <1>1, <1>2, <1>3, <1>5 DEF RunFlagHeld, InCall
    <3> QED BY <2>1, <3>1, <3>2 DEF Rested
  <2>2. CASE m # n
    <3>1. Undisturbed(m)
      BY <1>1, <1>2, <2>2 DEF Undisturbed, NoNewFlag
    <3> QED BY <1>5, <3>1, UndisturbedRests
  <2> QED BY <2>1, <2>2
<1>7. level'[index].pc = "call" => ~node'[level'[index].current].skip
  <2>1. ~node[n].skip => ~node'[n].skip
    BY <1>1, <1>2 DEF NodeState
  <2> QED BY <1>3, <1>5, <2>1
<1> QED BY <1>1, <1>5, <1>6, <1>7 DEF RestInvariant, TracesKept, At
-----------------------------------------------------------------------------
(* Nodes that wait, and nodes that get a flow.                             *)

LEMMA WaitPlaces ==
  ASSUME NEW n \in Node, NEW w, UnlinkAndWait({}, n, w)
  PROVE  ContainersRise /\ \A m \in Node : container'[m] = IF m = n THEN EventList ELSE container[m]
<1>1. \A m \in Node : container'[m] = IF m = n THEN EventList ELSE container[m]
  BY DEF UnlinkAndWait, Contain
<1> QED BY <1>1 DEF ContainersRise, EventList

LEMMA PushPlaces ==
  ASSUME RestInvariant, NEW n \in Node, NEW k, k = index + 1, NEW clear, UnlinkAndPush({}, n, k, clear)
  PROVE  /\ ContainersRise /\ container'[n] > 0 /\ container'[n] # 0
         /\ \A m \in Node : m # n => container'[m] = container[m]
<1>1. \A m \in Node : container'[m] = IF m = n THEN k ELSE container[m]
  BY DEF UnlinkAndPush, Contain
<1>2. index \in Int /\ index >= 0
  BY RestParts
<1> QED BY <1>1, <1>2 DEF ContainersRise

LEMMA RestCalls ==
  ASSUME RestInvariant, WaitsInvariant', CallWait \/ CallWaitEvent \/ CallWaitAll
  PROVE  RestInvariant'
<1>1. PICK n \in Node :
        /\ At("call") /\ n = level[index].current /\ Goto("callEnd") /\ index > 0
        /\ \A m \in Node : m # n => node'[m] = node[m]
        /\ node'[n].runFlag = node[n].runFlag
        /\ \/ container' = container /\ node'[n].status = "Running"
           \/ UnlinkAndWait({}, n, Names[n]) /\ node'[n].status = "Running"
           \/ container' = container /\ node'[n].skip = node[n].skip
  <2>1. node \in [Node -> NodeState]
    BY RestParts
  <2>2. CASE CallWait
    <3>1. PICK n \in Node :
            /\ Calls(n, "wait") /\ container' = container /\ Goto("callEnd")
            /\ node' = [node EXCEPT ![n].timer = "armed", ![n].skip = TRUE, ![n].result = "rTRUE",
                                    ![n].status = "Running"]
      BY <2>2 DEF CallWait, lists
    <3>2. node'[n].runFlag = node[n].runFlag /\ node'[n].status = "Running"
      BY <2>1, <3>1 DEF NodeState
    <3>3. \A m \in Node : m # n => node'[m] = node[m]
      BY <2>1, <3>1
    <3> QED BY <3>1, <3>2, <3>3 DEF Calls
  <2>3. CASE CallWaitEvent
    <3>1. PICK n \in Node :
            /\ Calls(n, "event") /\ UnlinkAndWait({}, n, Names[n]) /\ Goto("callEnd")
            /\ node' = [node EXCEPT ![n].skip = TRUE, ![n].result = "rTRUE", ![n].status = "Running"]
      BY <2>3 DEF CallWaitEvent
    <3>2. node'[n].runFlag = node[n].runFlag /\ node'[n].status = "Running"
      BY <2>1, <3>1 DEF NodeState
    <3>3. \A m \in Node : m # n => node'[m] = node[m]
      BY <2>1, <3>1
    <3> QED BY <3>1, <3>2, <3>3 DEF Calls
  <2>4. CASE CallWaitAll
    <3>1. PICK n, x, s, r :
            /\ n \in Node /\ Calls(n, "waitall") /\ container' = container /\ Goto("callEnd")
            /\ node' = [node EXCEPT ![n].isWaitAll = TRUE, ![n].arrived = x, ![n].status = s, ![n].result = r]
      <4>1. PICK n \in Node :
              /\ Calls(n, "waitall") /\ UNCHANGED lists /\ Goto("callEnd")
              /\ LET seen == (node[n].arrived \cup {node[n].pre}) \cap Target[n]
                     all == node[n].pre \in Target[n] /\ seen = Target[n]
                 IN  node' = [node EXCEPT ![n].isWaitAll = TRUE,
                                ![n].arrived = IF all THEN {} ELSE seen,
                                ![n].status = IF all THEN "EndRun" ELSE "Running",
                                ![n].result = IF all THEN "rTRUE" ELSE node[n].result]
        BY <2>1, <2>4 DEF CallWaitAll
      <4> QED BY <4>1 DEF lists
    <3>2. node'[n].runFlag = node[n].runFlag /\ node'[n].skip = node[n].skip
      BY <2>1, <3>1 DEF NodeState
    <3>3. \A m \in Node : m # n => node'[m] = node[m]
      BY <2>1, <3>1
    <3> QED BY <3>1, <3>2, <3>3 DEF Calls
  <2> QED BY <2>2, <2>3, <2>4
<1>2. container[n] = index /\ index \in Int
  BY <1>1, RestParts DEF OwnersInvariant, At
<1>3. ContainersRise /\ \A m \in Node : m # n => container'[m] = container[m]
  BY <1>1, WaitPlaces DEF ContainersRise
<1>4. NoNewFlag(n) /\ Placed(n)
  BY <1>1, <1>2 DEF NoNewFlag, Placed
<1>5. \A m \in Node : m # n => Undisturbed(m)
  BY <1>1, <1>3 DEF Undisturbed, NoNewFlag
<1>6. GoesOn("callEnd")
  BY <1>1 DEF GoesOn, InCall, At, ManagersOwn
<1> QED BY <1>1, <1>3, <1>4, <1>5, <1>6, GotoRests, RestRises, RestStays

LEMMA RestChartStarts ==
  ASSUME RestInvariant, WaitsInvariant', NEW c \in Chart, NEW sync, NEW nodes \in [Node -> NodeState],
         NEW p, GoesOn(p), p # "call", StartChart(c, sync, nodes, p),
         \A m \in Node : /\ nodes[m].runFlag = node[m].runFlag /\ nodes[m].skip = node[m].skip
                         /\ nodes[m].status \in {"Running", node[m].status}
  PROVE  RestInvariant'
<1>1. PICK s, now, v, w :
        /\ s = StartNode[c]
        /\ node' = [nodes EXCEPT ![s].skip = TRUE, ![s].result = "rTRUE", ![s].status = v]
        /\ \/ UnlinkAndPush({}, s, index + 1, TRUE) /\ CallFlow(s, p)
           \/ UnlinkAndWait({}, s, w) /\ v = "Running" /\ Goto(p)
  BY DEF StartChart
<1>2. s \in Node
  BY <1>1, ConstantsAssumption
<1>3. /\ ContainersRise /\ \A m \in Node : m # s => container'[m] = container[m]
      /\ container'[s] > 0 \/ v = "Running"
  BY <1>1, <1>2, PushPlaces, WaitPlaces
<1>4. TracesKept /\ (\A m \in Node : HoldsOn(m)) /\ level'[index'].pc # "call"
  BY <1>1, <1>2, <1>3, CallRests, GotoRests, RestRises
<1>5. /\ \A m \in Node : m # s => node'[m] = nodes[m]
      /\ node'[s].runFlag = nodes[s].runFlag /\ node'[s].status = v
  BY <1>1, <1>2 DEF NodeState
<1>6. NoNewFlag(s) /\ Placed(s)
  BY <1>2, <1>3, <1>5 DEF NoNewFlag, Placed
<1>7. ASSUME NEW m \in Node, m # s PROVE Undisturbed(m) \/ (NoNewFlag(m) /\ Placed(m))
  BY <1>3, <1>5, <1>7 DEF Undisturbed, NoNewFlag, Placed
<1> QED BY <1>4, <1>6, <1>7, RestStays

LEMMA RestStarts ==
  ASSUME RestInvariant, WaitsInvariant', (\E c \in Chart : Start(c)) \/ CallSubchart
  PROVE  RestInvariant'
<1>1. node \in [Node -> NodeState]
  BY RestParts
<1>2. ASSUME NEW c \in Chart, Start(c) PROVE RestInvariant'
  <2>1. GoesOn("idle") /\ StartChart(c, ~DeferEvent, node, "idle")
    BY <1>2 DEF Start, CallsIn, AtRest, At, GoesOn
  <2> QED BY <1>1, <2>1, RestChartStarts
<1>3. CASE CallSubchart
  <2>1. PICK n, c, nodes :
          /\ n \in Node /\ c \in Chart
          /\ Calls(n, "sub") /\ nodes = [node EXCEPT ![n].status = "Running"]
          /\ \/ node' = nodes /\ container' = container /\ Goto("callEnd")
             \/ StartChart(c, TRUE, nodes, "callEnd")
    BY <1>3 DEF CallSubchart, lists
  <2>2. /\ nodes \in [Node -> NodeState]
        /\ \A m \in Node : /\ nodes[m].runFlag = node[m].runFlag /\ nodes[m].skip = node[m].skip
                           /\ nodes[m].status \in {"Running", node[m].status}
    BY <1>1, <2>1 DEF NodeState
  <2>3. GoesOn("callEnd")
    BY <2>1 DEF Calls, At, GoesOn, InCall, ManagersOwn
  <2>4. ASSUME node' = nodes, container' = container, Goto("callEnd") PROVE RestInvariant'
    <3>1. ContainersRise
      BY <2>4 DEF ContainersRise
    <3>2. \A m \in Node : Undisturbed(m) \/ (NoNewFlag(m) /\ Placed(m))
      BY <2>2, <2>4 DEF Undisturbed, NoNewFlag, Placed
    <3> QED BY <2>3, <2>4, <3>1, <3>2, GotoRests, RestRises, RestStays
  <2> QED BY <2>1, <2>2, <2>3, <2>4, RestChartStarts
<1> QED BY <1>2, <1>3

\* A node that an event or a timer wakes goes on the stack of a flow.
LEMMA RestDispatchNode ==
  ASSUME RestInvariant, WaitsInvariant', DispatchNode, ~StackFull
  PROVE  RestInvariant'
<1> DEFINE n == Head(handling[index])
<1>1. /\ handling[index] \in Seq(Node) /\ handling[index] # <<>> /\ index \in Level
      /\ node \in [Node -> NodeState]
  BY RestParts DEF DispatchNode, ListsTyped
<1>2. n \in Node /\ n \in Elements(handling[index])
  BY <1>1, TailElements
<1>3. IsRunning(ChartOf[n])
  <2>1. container[n] = EventList
    BY <1>1, <1>2, RestParts DEF ContainersAgree, Holds
  <2> QED BY <1>2, <2>1, RestParts, WokenParts DEF HomeInvariant, StoppedNodesAreOut
<1>4. /\ UnlinkAndPush({}, n, index + 1, TRUE) /\ CallFlow(n, "dispatch") /\ At("dispatch")
      /\ node' = [node EXCEPT ![n].status = "Idle"]
  BY <1>3 DEF DispatchNode
<1> HIDE DEF n
<1>5. /\ ContainersRise /\ container'[n] > 0 /\ container'[n] # 0
      /\ \A m \in Node : m # n => container'[m] = container[m]
  BY <1>2, <1>4, PushPlaces
<1>6. NoNewFlag(n) /\ Placed(n) /\ \A m \in Node : m # n => Undisturbed(m)
  BY <1>1, <1>2, <1>4, <1>5 DEF NoNewFlag, Placed, Undisturbed, NodeState
<1>7. GoesOn("dispatch")
  BY <1>4 DEF GoesOn, At
<1> QED BY <1>2, <1>4, <1>5, <1>6, <1>7, CallRests, RestStays

LEMMA RestFireTimer ==
  ASSUME RestInvariant, WaitsInvariant', NEW n \in Node, FireNodeTimer(n)
  PROVE  RestInvariant'
<1>1. node \in [Node -> NodeState]
  BY RestParts
<1>2. PICK now, v :
        /\ index = 0 /\ At("timers")
        /\ node' = [node EXCEPT ![n].timer = "off", ![n].result = "rTRUE", ![n].status = v]
        /\ IF now THEN UnlinkAndPush({}, n, 1, TRUE) /\ CallFlow(n, "timers")
                  ELSE Goto("timers") /\ container' = container /\ v = node[n].status
  BY DEF FireNodeTimer, lists
<1>3. GoesOn("timers")
  BY <1>2 DEF GoesOn, At
<1>4. \A m \in Node : m # n => node'[m] = node[m]
  BY <1>1, <1>2
<1>5. node'[n].runFlag = node[n].runFlag /\ node'[n].skip = node[n].skip /\ node'[n].status = v
  BY <1>1, <1>2 DEF NodeState
<1>6. CASE now
  <2>1. /\ ContainersRise /\ container'[n] > 0 /\ container'[n] # 0
        /\ \A m \in Node : m # n => container'[m] = container[m]
    <3>1. UnlinkAndPush({}, n, 1, TRUE)
      BY <1>2, <1>6
    <3>2. 1 = index + 1
      BY <1>2
    <3>3. UnlinkAndPush({}, n, index + 1, TRUE)
      BY <3>1, <3>2
    <3> QED BY <3>3, PushPlaces
  <2>2. NoNewFlag(n) /\ Placed(n) /\ \A m \in Node : m # n => Undisturbed(m)
    BY <1>4, <1>5, <2>1 DEF NoNewFlag, Placed, Undisturbed
  <2> QED BY <1>2, <1>3, <1>6, <2>1, <2>2, CallRests, RestStays
<1>7. CASE ~now
  <2>1. \A m \in Node : Undisturbed(m)
    <3>1. container' = container /\ v = node[n].status
      BY <1>2, <1>7
    <3>2. Undisturbed(n)
      BY <1>5, <3>1 DEF NoNewFlag, Undisturbed
    <3>3. \A m \in Node : m # n => Undisturbed(m)
      BY <1>4, <3>1 DEF NoNewFlag, Undisturbed
    <3> QED BY <3>2, <3>3
  <2>2. container' = container /\ Goto("timers")
    BY <1>2, <1>7
  <2> QED BY <1>3, <2>1, <2>2, RestQuietGoto
<1> QED BY <1>6, <1>7
-----------------------------------------------------------------------------
(* The node that has run.                                                  *)

\* A node of which the flow on top has been told, and that does not run, has no place but
\* on the stack of that flow.
LEMMA NoOtherPlace ==
  ASSUME RestInvariant, index # 0, InCall(index), Status(level[index].current) # "Running"
  PROVE  container[level[index].current] \in {0, index}
<1> DEFINE n == level[index].current
<1>1. index \in 1..index /\ index \in Int /\ FlowTrace(index) /\ FlowOf(index)
  BY RestParts
<1>2. n \in Node
  BY <1>1 DEF FlowOf, ChartNodes
<1>3. container[n] # EventList /\ container[n] \in Level \cup {EventList}
  BY <1>2, RestParts DEF WaitsInvariant, WaitingNodesRun
<1>4. container[n] \in Level /\ container[n] \in Int /\ container[n] >= 0
  BY <1>3, LevelFacts
<1>5. CASE container[n] > index
  <2>1. stack[container[n]] = <<>>
    BY <1>4, <1>5, RestParts DEF HomeInvariant, Tidy
  <2>2. Holds(n, stack[container[n]])
    BY <1>1, <1>2, <1>3, <1>4, <1>5, RestParts DEF ContainersAgree
  <2> QED BY <2>1, <2>2 DEF Holds, Elements
<1>6. CASE container[n] > 0
  BY <1>1, <1>2, <1>4, <1>5, <1>6 DEF FlowTrace
<1> QED BY <1>4, <1>6

LEMMA RestAfterRun ==
  ASSUME RestInvariant, WaitsInvariant', AfterRun
  PROVE  RestInvariant'
<1> DEFINE n == level[index].current
           runs == Status(n) = "Running"
           P == IF container[n] = index THEN {Top} ELSE {}
           E == Elements(Successors(n))
           x == [level[index] EXCEPT !.pc = "loop", !.history = @ \cup P, !.hasRunning = @ \/ runs]
<1>1. index > 0 /\ At("ran") /\ index' = index
  BY DEF AfterRun
<1>2. level' = [level EXCEPT ![index].pc = "loop", ![index].history = @ \cup P,
                             ![index].hasRunning = @ \/ runs]
  BY DEF AfterRun
<1>3. node' = [m \in Node |->
         [node[m] EXCEPT !.status = IF m = n /\ ~runs THEN "EndRun" ELSE @,
                         !.runFlag = IF m = n /\ runs THEN FALSE ELSE @,
                         !.pre = IF m \in E THEN n ELSE @]]
  BY DEF AfterRun
<1>4. container' = [m \in Node |-> IF m \in E THEN index
                                   ELSE IF m \in InStack(P, index) THEN 0
                                   ELSE container[m]]
  BY DEF AfterRun
<1>5. /\ index \in Level /\ index \in Int /\ index \in 1..index /\ 0 \in Level /\ index # 0
      /\ level \in [Level -> LevelState] /\ node \in [Node -> NodeState]
      /\ level[0].history = {} /\ \A k \in 1..index : k \in Level /\ FlowTrace(k)
  <2>1. index > 0
    BY <1>1
  <2> QED BY <2>1, RestParts
<1>6. InCall(index) /\ n \in Node
  <2>1. InCall(index) /\ FlowOf(index)
    BY <1>1, <1>5, RestParts DEF InCall, At
  <2> QED BY <2>1 DEF FlowOf, ChartNodes
<1>7. P = IF container[n] = index THEN {n} ELSE {}
  BY <1>5, <1>6, RestParts DEF HomeInvariant, CurrentOnTop, Top
<1>8. /\ level' = [level EXCEPT ![index] = x]
      /\ x.pc = "loop" /\ x.history = level[index].history \cup P /\ x.caller = level[index].caller
  <2>1. level[index] \in LevelState
    BY <1>5
  <2> QED BY <1>2, <1>5, <2>1 DEF LevelState
<1>9. \A m \in Node : /\ node'[m].skip = node[m].skip
                      /\ node'[m].status = IF m = n /\ ~runs THEN "EndRun" ELSE node[m].status
                      /\ node'[m].runFlag = IF m = n /\ runs THEN FALSE ELSE node[m].runFlag
  BY <1>3, <1>5 DEF NodeState
<1>10. \A m \in Node : container'[m] = IF m \in E THEN index
                                      ELSE IF m = n /\ container[n] = index THEN 0
                                      ELSE container[m]
  BY <1>4, <1>7 DEF InStack
<1>11. E # {} => ~runs /\ node[n].result # "rSTOP"
  <2>1. runs \/ node[n].result = "rSTOP" => Successors(n) = <<>>
    BY DEF Successors
  <2>2. Elements(<<>>) = {}
    BY DEF Elements
  <2> QED BY <2>1, <2>2
<1>12. runs <=> Status(n) = "Running"
  OBVIOUS
<1> HIDE DEF n, runs, P, E, x
<1>13. level'[index] = x /\ \A k \in Level : k # index => level'[k] = level[k]
  BY <1>5, <1>8
<1>14. level[index].caller = "idle"
  BY <1>1, <1>5, RestParts DEF HomeInvariant, Tidy, At
<1>15. ContainersRise
  BY <1>5, <1>10 DEF ContainersRise
<1>16. TracesKept
  <2>1. level'[0].history = {}
    BY <1>5, <1>13
  <2>2. ASSUME NEW k \in 1..index PROVE FlowTrace(k)'
    <3>1. CASE k = index
      BY <1>8, <1>13, <1>14, <3>1 DEF FlowTrace, InCall, ManagersOwn
    <3>2. CASE k # index
      <4>1. level'[k] = level[k] /\ FlowTrace(k)
        BY <1>5, <1>13, <3>2
      <4> QED BY <4>1, <1>15, TraceStays, RestRises DEF InCall, FlowTrace
    <3> QED BY <3>1, <3>2
  <2> QED BY <1>1, <2>1, <2>2 DEF TracesKept
<1>17. \A k \in 1..index : \A m \in Node :
         /\ m \in level[k].history => m \in level'[k].history
         /\ InCall(k) /\ level[k].current = m /\ m # n => InCall(k)' /\ level'[k].current = m
  <2> TAKE k \in 1..index
  <2>1. CASE k = index
    <3>1. level[k].history \subseteq level'[k].history
      BY <1>8, <1>13, <2>1
    <3>2. level[k].current = n
      BY <2>1 DEF n
    <3> QED BY <3>1, <3>2
  <2>2. CASE k # index
    BY <1>5, <1>13, <2>2 DEF InCall
  <2> QED BY <2>1, <2>2
<1>18. ASSUME NEW m \in Node, m # n PROVE HoldsOn(m) /\ (Undisturbed(m) \/ (NoNewFlag(m) /\ Placed(m)))
  <2>1. HoldsOn(m)
    <3>1. \A k \in 1..index : k \in 1..index'
      BY <1>1
    <3>2. \A k \in 1..index :
            /\ m \in level[k].history => m \in level'[k].history
            /\ InCall(k) /\ level[k].current = m => InCall(k)' /\ level'[k].current = m
      BY <1>17, <1>18
    <3> QED BY <3>1, <3>2 DEF HoldsOn
  <2>2. node'[m].skip = node[m].skip /\ node'[m].status = node[m].status
        /\ node'[m].runFlag = node[m].runFlag
    BY <1>9, <1>18
  <2>3. CASE m \in E
    <3>1. container'[m] > 0 /\ container'[m] # 0
      BY <1>1, <1>5, <1>10, <2>3
    <3> QED BY <2>1, <2>2, <3>1 DEF NoNewFlag, Placed
  <2>4. CASE m \notin E
    <3>1. container'[m] = container[m]
      BY <1>10, <1>18, <2>4
    <3> QED BY <2>1, <2>2, <3>1 DEF NoNewFlag, Undisturbed
  <2> QED BY <2>3, <2>4
<1>19. ASSUME NEW m \in Node, m = n PROVE Rested(m)'
  <2>1. Rested(m)
    BY DEF RestInvariant
  <2>2. CASE runs
    <3>1. node'[m].status = "Running" /\ ~node'[m].runFlag
      BY <1>12, <1>19, <1>9, <2>2 DEF Status
    <3> QED BY <3>1 DEF Rested, SkipHeld, Status
  <2>3. CASE ~runs /\ container[m] = index
    <3>1. m \in level'[index].history /\ node'[m].status = "EndRun"
      BY <1>19, <1>7, <1>8, <1>9, <1>13, <2>3
    <3> QED BY <1>1, <1>5, <3>1 DEF Rested, SkipHeld, RunFlagHeld, Status
  <2>4. CASE ~runs /\ container[m] # index
    <3>1. container[m] = 0
      BY <1>12, <1>19, <1>5, <1>6, <2>4, NoOtherPlace DEF n
    <3>2. node'[m].status = "EndRun"
      BY <1>19, <1>9, <2>4
    <3>3. node[m].runFlag => \E k \in 1..index : m \in level[k].history
      BY <1>12, <1>19, <2>1, <2>4, <3>1 DEF Rested, RunFlagHeld
    <3>4. node[m].skip => \E k \in 1..index : m \in level[k].history
      BY <1>12, <1>19, <2>1, <2>4, <3>1 DEF Rested, SkipHeld
    <3>5. node'[m].runFlag = node[m].runFlag
      BY <1>19, <1>9, <2>4
    <3>6. (\E k \in 1..index : m \in level[k].history) => \E k \in 1..index' : m \in level'[k].history
      BY <1>1, <1>17
    <3> QED BY <1>9, <3>6, <3>2, <3>3, <3>4, <3>5 DEF Rested, RunFlagHeld, SkipHeld, Status
  <2> QED BY <2>2, <2>3, <2>4
<1>20. \A m \in Node : Rested(m)'
  <2> TAKE m \in Node
  <2>1. CASE m = n
    BY <1>19, <2>1
  <2>2. CASE m # n
    BY <1>18, <2>2, UndisturbedRests, PlacedRests
  <2> QED BY <2>1, <2>2
<1> QED BY <1>1, <1>8, <1>13, <1>16, <1>20 DEF RestInvariant, TracesKept, At
-----------------------------------------------------------------------------
(* The owner of a chart that returns.                                      *)

\* The flow below, which is calling the owner, is going on.
LEMMA CallerInCall ==
  ASSUME RestInvariant, index # 0, At("return"), NEW o \in Node, OwnerNode[level[index].returning] = o,
         CalledBelow(o)
  PROVE  index - 1 \in 1..index /\ InCall(index - 1) /\ level[index].current # o
<1> DEFINE k == index - 1
<1>1. /\ index \in 1..index /\ index \in Level /\ index \in Int /\ k \in Level /\ k + 1 = index
      /\ FlowOf(index) /\ QuietInvariant /\ HomeInvariant
  BY RestParts, LevelFacts DEF Level
<1>2. level[index].returning = level[index].chart /\ OwnerNode[level[index].chart] = o
  BY <1>1 DEF HomeInvariant, ReturnsOwnChart, At
<1>3. level[k].current = o
  BY DEF CalledBelow
<1>4. k # 0
  <2>1. level[0].current = None /\ None \notin Node
    BY <1>1, ConstantsAssumption DEF QuietInvariant, LevelsNest
  <2> QED BY <1>3, <2>1
<1>5. k \in 1..index /\ k < index
  BY <1>1, <1>4, LevelFacts DEF Level
<1>6. Home(k)
  BY <1>1, <1>5 DEF HomeInvariant, Home
<1> HIDE DEF k
<1>7. ~Done(k)
  BY <1>1, <1>2, <1>3, <1>4, <1>6, CallerGoesOn
<1>8. level[k].pc \in {"idle", "timers", "dispatch", "callEnd", "returned"} /\ FlowTrace(k)
  BY <1>1, <1>5, RestParts DEF QuietInvariant, LevelsNest
<1>9. InCall(k)
  BY <1>7, <1>8 DEF FlowTrace, InCall, Done, ManagersOwn
<1>10. level[index].current # o
  <2>1. level[index].current \in Node => ChartOf[level[index].current] = level[index].chart
    BY <1>1, ConstantsAssumption DEF FlowOf, ChartNodes
  <2>2. level[index].chart \in Chart /\ level[index].chart \in Under[level[index].chart]
        /\ ChartOf[OwnerNode[level[index].chart]] \notin Under[level[index].chart]
    BY <1>1, <1>2, ChartsAssumption DEF FlowOf
  <2> QED BY <1>2, <2>1, <2>2
<1> QED BY <1>5, <1>9, <1>10 DEF k

LEMMA RestReturnToOwner ==
  ASSUME RestInvariant, WaitsInvariant', NEW r, ReturnToOwner(r)
  PROVE  RestInvariant'
<1>1. PICK o, S, w, f, b, s :
        /\ o = OwnerNode[level[index].returning] /\ S = WithSubcharts({o})
        /\ f \in [Node -> NodeState] /\ f = StoppedNodes(node, S)
        /\ node' = [f EXCEPT ![o].result = r, ![o].skip = TRUE, ![o].runFlag = b, ![o].status = s]
        /\ b = CalledBelow(o)
        /\ ~CalledBelow(o) /\ StackFull => s = "Running"
        /\ \/ CalledBelow(o) /\ UnlinkAndPush(S, o, index - 1, FALSE) /\ Goto("returned")
           \/ ~CalledBelow(o) /\ StackFull /\ UnlinkAndWait(S, o, w) /\ Goto("returned")
           \/ ~CalledBelow(o) /\ UnlinkAndPush(S, o, index + 1, TRUE) /\ CallFlow(o, "returned")
           \/ ~IsRunning(ChartOf[o])
  <2>1. StoppedNodes(node, WithSubcharts({OwnerNode[level[index].returning]})) \in [Node -> NodeState]
    BY RestParts, StoppedNodesType
  <2> QED BY <2>1 DEF ReturnToOwner
<1>2. /\ At("return") /\ index # 0 /\ index \in 1..index /\ index \in Int /\ index >= 0 /\ index \in Level
      /\ node \in [Node -> NodeState] /\ level[index].returning \notin Root
  <2>1. index > 0 /\ At("return") /\ level[index].returning \notin Root
    BY DEF ReturnToOwner
  <2> QED BY <2>1, RestParts
<1>3. level[index].returning \in Chart /\ IsRunning(level[index].returning)
  BY <1>2, RestParts DEF FlowOf, QuietInvariant, CallsInRunningChart, At
<1>4. o \in Node /\ IsRunning(ChartOf[o])
  BY <1>1, <1>2, <1>3, RestParts, ConstantsAssumption
     DEF Root, QuietInvariant, SubchartNeedsOwner, IsRunning
<1>5. \/ CalledBelow(o) /\ UnlinkAndPush(S, o, index - 1, FALSE) /\ Goto("returned")
      \/ ~CalledBelow(o) /\ StackFull /\ UnlinkAndWait(S, o, w) /\ Goto("returned")
      \/ ~CalledBelow(o) /\ UnlinkAndPush(S, o, index + 1, TRUE) /\ CallFlow(o, "returned")
  BY <1>1, <1>4
<1>6. PICK k : /\ \A m \in Node : container'[m] = IF m = o THEN k ELSE IF m \in S THEN 0 ELSE container[m]
               /\ CalledBelow(o) => k = index - 1
               /\ ~CalledBelow(o) => k = index + 1 \/ (k = EventList /\ s = "Running")
  <2>1. CASE CalledBelow(o)
    BY <1>5, <2>1 DEF UnlinkAndPush, Contain
  <2>2. CASE ~CalledBelow(o) /\ StackFull /\ UnlinkAndWait(S, o, w)
    BY <1>1, <2>2 DEF UnlinkAndWait, Contain
  <2>3. CASE ~CalledBelow(o) /\ UnlinkAndPush(S, o, index + 1, TRUE)
    BY <2>3 DEF UnlinkAndPush, Contain
  <2> QED BY <1>5, <2>1, <2>2, <2>3
<1>7. node'[o].skip = TRUE /\ node'[o].runFlag = b /\ node'[o].status = s
  <2>1. f[o] \in NodeState /\ node'[o] = [f[o] EXCEPT !.result = r, !.skip = TRUE, !.runFlag = b, !.status = s]
    BY <1>1, <1>4
  <2> QED BY <2>1 DEF NodeState
<1>8. \A m \in Node : m # o => Cleared(m) \/ Undisturbed(m)
  <2> SUFFICES ASSUME NEW m \in Node, m # o PROVE Cleared(m) \/ Undisturbed(m)
    OBVIOUS
  <2>1. node'[m] = f[m]
    BY <1>1, <1>4
  <2>2. CASE m \in S
    <3>1. f[m] = [node[m] EXCEPT !.status = "Idle", !.result = "rSTOP", !.runFlag = FALSE,
                                 !.skip = FALSE, !.timer = "off", !.arrived = {}]
      BY <1>1, <2>2 DEF StoppedNodes
    <3> QED BY <1>2, <2>1, <3>1 DEF Cleared, NodeState
  <2>3. CASE m \notin S
    <3>1. f[m] = node[m]
      BY <1>1, <2>3 DEF StoppedNodes
    <3> QED BY <1>6, <2>1, <2>3, <3>1 DEF Undisturbed, NoNewFlag
  <2> QED BY <2>2, <2>3
<1>9. CalledBelow(o) => index - 1 \in 1..index /\ InCall(index - 1) /\ level[index].current # o
                        /\ level[index - 1].current = o
  BY <1>1, <1>2, <1>4, CallerInCall DEF CalledBelow
<1>10. StacksRise
  <2> SUFFICES ASSUME NEW j \in 1..index, InCall(j), container'[level[j].current] > 0
               PROVE  \/ container'[level[j].current] = container[level[j].current]
                      \/ container'[level[j].current] >= j
    BY DEF StacksRise
  <2> DEFINE m == level[j].current
  <2>1. m \in Node
    BY RestParts DEF FlowOf, ChartNodes
  <2>2. CASE m # o
    BY <1>6, <2>1, <2>2
  <2>3. CASE m = o /\ CalledBelow(o)
    <3>1. j # index
      BY <1>9, <2>3
    <3> QED BY <1>2, <1>6, <2>1, <2>3, <3>1
  <2>4. CASE m = o /\ ~CalledBelow(o)
    <3>1. container'[m] = k /\ k > 0 /\ (k = index + 1 \/ k = EventList)
      BY <1>6, <2>1, <2>4
    <3> HIDE DEF m
    <3>2. container'[m] >= j
      BY <1>2, <3>1 DEF EventList
    <3> QED BY <3>2 DEF m
  <2> QED BY <2>2, <2>3, <2>4
<1>11. GoesOn("returned")
  BY <1>2 DEF GoesOn, At, ManagersOwn
<1>12. TracesKept /\ (\A m \in Node : HoldsOn(m)) /\ level'[index'].pc # "call"
  <2>1. CASE Goto("returned")
    BY <1>10, <1>11, <2>1, GotoRests
  <2>2. CASE ~CalledBelow(o) /\ CallFlow(o, "returned")
    <3>1. ContainersRise
      BY <1>2, <1>6, <2>2 DEF ContainersRise, EventList
    <3> QED BY <1>4, <1>11, <2>2, <3>1, CallRests
  <2> QED BY <1>5, <2>1, <2>2
<1>13. Rested(o)'
  <2>1. CASE CalledBelow(o)
    <3>1. HoldsOn(o) /\ container'[o] = index - 1 /\ index - 1 > 0 /\ index - 1 # 0
      BY <1>2, <1>4, <1>6, <1>9, <1>12, <2>1
    <3>2. RunFlagHeld(o)'
      BY <1>9, <2>1, <3>1 DEF HoldsOn, RunFlagHeld
    <3> QED BY <3>1, <3>2 DEF Rested, SkipHeld
  <2>2. CASE ~CalledBelow(o)
    <3>1. ~node'[o].runFlag
      BY <1>1, <1>7, <2>2
    <3>2. SkipHeld(o)'
      BY <1>2, <1>4, <1>6, <1>7, <2>2 DEF SkipHeld, Status
    <3> QED BY <3>1, <3>2 DEF Rested
  <2> QED BY <2>1, <2>2
<1>14. \A m \in Node : Rested(m)' \/ Cleared(m)
                       \/ (HoldsOn(m) /\ (Undisturbed(m) \/ (NoNewFlag(m) /\ Placed(m))))
  BY <1>8, <1>12, <1>13
<1> QED BY <1>12, <1>14, RestStays
-----------------------------------------------------------------------------
(* The theorem about what flows leave behind.                              *)

LEMMA RestBeginning ==
  ASSUME Init
  PROVE  RestInvariant
<1>1. WaitsInvariant
  <2>1. \A n \in Node : container[n] = 0 /\ node[n].timer = "off"
    BY DEF Init, FreshNode
  <2> QED BY <2>1, OwnersBeginning, WaitsParts DEF NodeWaits, EventList
<1>2. index = 0 /\ level[0] = FreshLevel
  BY LevelFacts DEF Init
<1>3. \A n \in Node : ~node[n].runFlag /\ ~node[n].skip
  BY DEF Init, FreshNode
<1>4. \A n \in Node : Rested(n)
  BY <1>3 DEF Rested
<1>5. level[0].history = {} /\ level[index].pc # "call" /\ \A k \in 1..index : FALSE
  BY <1>2 DEF FreshLevel
<1> QED BY <1>1, <1>4, <1>5 DEF RestInvariant, At

LEMMA EveryRestStep ==
  ASSUME RestInvariant, [Next]_vars, [~LosesNode]_vars
  PROVE  RestInvariant'
<1>1. WaitsInvariant'
  BY EveryWaitsStep DEF RestInvariant
<1>2. CASE UNCHANGED vars
  BY <1>1, <1>2, RestUntouched DEF vars, lists
<1>3. CASE Game
  <2>1. MayStop \subseteq Chart /\ MayStopAll \subseteq Agent /\ Raised \subseteq Wait /\ Triggers \subseteq Wait
    BY ConstantsAssumption
  <2>2. ASSUME NEW w, Raise(w) PROVE RestInvariant'
    BY <1>1, <2>2, RestUntouched DEF Raise, lists
  <2> QED BY <1>1, <1>3, <2>1, <2>2, RestStarts, RestStop, RestStopObject, RestDispatches, RestQuietSteps
         DEF Game
<1>4. CASE Timers
  <2>1. ASSUME NEW a, FireAgentTimer(a) PROVE RestInvariant'
    BY <1>1, <2>1, RestUntouched DEF FireAgentTimer, lists
  <2> QED BY <1>1, <1>4, <2>1, RestFireTimer DEF Timers
<1>5. CASE Events
  <2>1. CASE DispatchNode /\ ~StackFull
    BY <1>1, <2>1, RestDispatchNode
  <2>2. DispatchNode => ~StackFull \/ UNCHANGED vars
    BY DEF LosesNode
  <2> QED BY <1>1, <1>2, <1>5, <2>1, <2>2, RestQuietSteps, RestDispatches DEF Events
<1>6. CASE Executor
  BY <1>1, <1>6, RestQuietSteps, RestTruncate, RestSkipRunning, RestWaitTick, RestRunNode, RestAfterRun,
     RestRestore, RestFlowEnd DEF Executor
<1>7. CASE Returning
  BY <1>1, <1>7, RestReturnToOwner, RestQuietSteps, RestReturnStop DEF Returning
<1>8. CASE Calling
  BY <1>1, <1>8, RestQuietSteps, RestCalls, RestStarts, RestCallReturn, RestDispatches, RestCallStop
     DEF Calling
<1> QED BY <1>2, <1>3, <1>4, <1>5, <1>6, <1>7, <1>8 DEF Next, Runtime

\* At rest there is no flow that holds a node, and none that is going to take a flag back.
LEMMA RestedAtRest ==
  ASSUME RestInvariant, AtRest
  PROVE  /\ \A k \in Level : stack[k] = <<>> /\ level[k].history = {}
         /\ \A n \in Node : ~node[n].runFlag /\ (node[n].skip => Status(n) = "Running")
<1>1. /\ HomeInvariant /\ ContainersAgree /\ index = 0 /\ level[0].history = {}
      /\ container \in [Node -> Level \cup {EventList}] /\ \A k \in Level : k > index => level[k] = FreshLevel
  BY RestParts DEF AtRest, QuietInvariant, LevelsNest
<1>2. \A k \in Level : k = 0 \/ k > index
  BY <1>1, LevelFacts DEF Level
<1>3. \A k \in Level : stack[k] = <<>> /\ level[k].history = {}
  BY <1>1, <1>2 DEF HomeInvariant, Tidy, FreshLevel
<1>4. ASSUME NEW n \in Node PROVE ~(container[n] > 0)
  <2> SUFFICES ASSUME container[n] > 0 PROVE FALSE
    OBVIOUS
  <2>1. container[n] \in Level \ {0}
    BY <1>1, <1>4 DEF EventList
  <2>2. Holds(n, stack[container[n]])
    BY <1>1, <2>1 DEF ContainersAgree
  <2> QED BY <1>3, <2>1, <2>2 DEF Holds, Elements
<1>5. \A k \in 1..index : FALSE
  BY <1>1
<1>6. \A n \in Node : ~node[n].runFlag /\ (node[n].skip => Status(n) = "Running")
  BY <1>4, <1>5 DEF RestInvariant, Rested, RunFlagHeld, SkipHeld
<1> QED BY <1>3, <1>6

\* While no dispatch loses a node for want of an executor, between steps no flow has left a
\* trace: the stacks are empty, and no node that does not run carries a flag that would keep
\* its function from being called the next time (executor.cpp:66-74, 130-138).
THEOREM NodesRest == Spec /\ DispatchesHaveRoom => []NodesAreRestored
<1>1. Init => RestInvariant
  BY RestBeginning
<1>2. RestInvariant /\ [Next]_vars /\ [~LosesNode]_vars => RestInvariant'
  BY EveryRestStep
<1>3. RestInvariant => NodesAreRestored
  BY RestedAtRest DEF NodesAreRestored
<1> QED BY <1>1, <1>2, <1>3, PTL DEF Spec, DispatchesHaveRoom

-----------------------------------------------------------------------------
(* What wakes a node that runs.                                            *)

\* A node is connected behind the one that has run while it waits for an event: pushing it
\* takes it out of its event list (executor.cpp:19, 89).
PushesWaiting ==
  AfterRun /\ \E m \in Elements(Successors(level[index].current)) : container[m] = EventList

\* The Stop behind a return stops a subchart that its owner has called again meanwhile
\* (chart.cpp:91-111).
StopsCalledAgain == ReturnStop /\ level[index].returning \in running \ Root

\* The game stops an object that hosts a subchart, or a chart below which there is one, while
\* the node that waits for it belongs to a chart that goes on (agent.cpp:254).
StopsHosted ==
  \E a \in Agent : StopObject(a) /\ \E c \in (running \cap HostedTrees(a)) \ Root :
    OwnerNode[c] \notin ChartNodes(HostedTrees(a))

LosesWaker == PushesWaiting \/ StopsCalledAgain \/ StopsHosted

\* A WaitAll node waits for some node; a timer finds a first executor for its node; the
\* charts below a chart are those of its nodes' subcharts.
ScriptsCanGoOn ==
  /\ \A n \in Node : Kind[n] = "waitall" => Target[n] # {}
  /\ MAX_STACK_SIZE >= 2
  /\ \A c \in Chart : \A d \in Under[c] \ {c} :
       OwnerNode[d] \in Node /\ ChartOf[OwnerNode[d]] \in Under[c]

\* What wakes n, at any moment of any step.
CanWake(n) ==
  Status(n) = "Running" =>
    \/ container[n] = EventList
    \/ node[n].timer # "off"
    \/ \E c \in running : OwnerNode[c] = n
    \/ node[n].isWaitAll

\* A WaitAll node still misses one of those it waits for.
StillMisses(n) == Kind[n] = "waitall" => node[n].arrived \subseteq Target[n] /\ node[n].arrived # Target[n]

\* Timers are due only until the step has fired them.
DueInTimers == (\E n \in Node : node[n].timer = "due") => level[0].pc = "timers"

WakeInvariant ==
  /\ WaitsInvariant
  /\ \A n \in Node : CanWake(n) /\ StillMisses(n)
  /\ DueInTimers

\* A step leaves n what wakes it, or n does not run or gets something new.
KeepsWaking(n) ==
  /\ node'[n].status = "Running" => Status(n) = "Running"
  /\ container[n] = EventList => container'[n] = EventList
  /\ node[n].timer # "off" => node'[n].timer # "off"
  /\ \A c \in running : OwnerNode[c] = n => c \in running'
  /\ node[n].isWaitAll => node'[n].isWaitAll

WakesAnew(n) ==
  \/ node'[n].status # "Running"
  \/ container'[n] = EventList
  \/ node'[n].timer # "off"
  \/ \E c \in running' : OwnerNode[c] = n
  \/ node'[n].isWaitAll

Wakes(n) ==
  /\ KeepsWaking(n) \/ WakesAnew(n)
  /\ node'[n].arrived = node[n].arrived \/ node'[n].arrived = {} \/ StillMisses(n)'
  /\ node'[n].timer = "due" => node[n].timer = "due"

LEMMA WakeParts ==
  ASSUME WakeInvariant
  PROVE  /\ WaitsInvariant /\ OwnersInvariant /\ HomeInvariant /\ QuietInvariant /\ ContainersAgree
         /\ MarksByKind /\ ListsTyped /\ node \in [Node -> NodeState] /\ level \in [Level -> LevelState]
         /\ index \in Level /\ index \in Int /\ index >= 0 /\ 0 \in Level
         /\ running \subseteq created /\ created \subseteq Chart
         /\ \A n \in Node : CanWake(n) /\ StillMisses(n)
<1>1. WaitsInvariant /\ OwnersInvariant /\ \A n \in Node : CanWake(n) /\ StillMisses(n)
  BY WaitsParts DEF WakeInvariant
<1>2. /\ HomeInvariant /\ QuietInvariant /\ ContainersAgree /\ MarksByKind /\ ListsTyped
      /\ node \in [Node -> NodeState] /\ index \in Level /\ level \in [Level -> LevelState]
      /\ running \subseteq created /\ created \subseteq Chart
  BY <1>1, OwnersParts DEF LevelsTyped
<1> QED BY <1>1, <1>2, LevelFacts

\* Levels above the manager's are not the manager's own.
LEMMA ManagerStays ==
  ASSUME WakeInvariant, Next, index # 0
  PROVE  level'[0] = level[0]
<1>1. index \in Int /\ index >= 0 /\ index \in Level /\ 0 \in Level /\ level \in [Level -> LevelState]
  BY WakeParts
<1>2. ASSUME NEW p, Goto(p) PROVE level'[0] = level[0]
  BY <1>1, <1>2 DEF Goto
<1>3. ASSUME NEW n, NEW p, CallFlow(n, p) PROVE level'[0] = level[0]
  BY <1>1, <1>3 DEF CallFlow
<1>4. ASSUME NEW c, NEW sync, NEW nodes, NEW p, StartChart(c, sync, nodes, p) PROVE level'[0] = level[0]
  BY <1>2, <1>3, <1>4 DEF StartChart
<1>5. ASSUME NEW ev, NEW p, TriggerEvent(ev, p) PROVE level'[0] = level[0]
  <2>1. ASSUME NEW after, StartDispatch(ev, after, p) PROVE level'[0] = level[0]
    BY <1>1, <2>1 DEF StartDispatch
  <2> QED BY <1>2, <1>5, <2>1 DEF TriggerEvent
<1>6. ~Game /\ ~Timers
  BY DEF Game, Timers, Start, Stop, StopObject, Raise, Trigger, BeginStep, CallsIn, AtRest, FireNodeTimer,
         FireAgentTimer
<1>7. CASE Events
  <2>1. CASE DispatchNode
    BY <1>2, <1>3, <2>1 DEF DispatchNode
  <2>2. CASE DispatchEnd
    BY <1>1, <2>2 DEF DispatchEnd
  <2> QED BY <1>7, <2>1, <2>2 DEF Events, SwitchQueues, HandleEvent, EndStep
<1>8. CASE Executor
  <2>1. CASE LoopExit \/ \E r \in Result : CallEnd(r)
    BY <1>2, <2>1 DEF LoopExit, CallEnd
  <2>2. CASE Truncate
    BY <1>1, <2>2 DEF Truncate
  <2>3. CASE SkipRunning
    BY <1>1, <2>3 DEF SkipRunning
  <2>4. CASE WaitTick
    BY <1>1, <2>4 DEF WaitTick
  <2>5. CASE RunNode
    BY <1>1, <2>5 DEF RunNode
  <2>6. CASE AfterRun
    BY <1>1, <2>6 DEF AfterRun
  <2>7. CASE Restore
    BY <1>1, <2>7 DEF Restore
  <2>8. CASE FlowEnd
    BY <1>1, <2>8 DEF FlowEnd
  <2> QED BY <1>8, <2>1, <2>2, <2>3, <2>4, <2>5, <2>6, <2>7, <2>8 DEF Executor
<1>9. CASE Returning
  <2>1. CASE \E r \in Result : ReturnToOwner(r)
    BY <1>2, <1>3, <2>1, ReturnToOwnerEvents
  <2>2. CASE ReturnStop
    BY <1>1, <2>2 DEF ReturnStop
  <2> QED BY <1>2, <1>9, <2>1, <2>2 DEF Returning, ReturnOfRoot
<1>10. CASE Calling
  <2>1. CASE CallReturn
    BY <1>1, <2>1 DEF CallReturn
  <2>2. CASE CallTrigger \/ CallSubchart
    BY <1>2, <1>4, <1>5, <2>2 DEF CallTrigger, CallSubchart
  <2>3. CASE CallRaise
    BY <1>2, <2>3 DEF CallRaise
  <2> QED BY <1>2, <1>10, <2>1, <2>2, <2>3
          DEF Calling, CallFunc, CallWait, CallWaitEvent, CallStop, CallWaitAll
<1> QED BY <1>6, <1>7, <1>8, <1>9, <1>10 DEF Next, Runtime

\* The timers that are due fire before the step goes on.
LEMMA DueStays ==
  ASSUME WakeInvariant, Next, ~SwitchQueues, level[0].pc = "timers"
  PROVE  level'[0].pc = "timers"
<1>1. CASE index # 0
  BY <1>1, ManagerStays
<1>2. CASE index = 0
  <2>1. At("timers") /\ level \in [Level -> LevelState] /\ 0 \in Level
    BY <1>2, WakeParts DEF At
  <2>2. CASE Timers
    <3>1. ASSUME NEW n \in Node, FireNodeTimer(n) PROVE level'[0].pc = "timers"
      <4>1. CASE Goto("timers")
        BY <1>2, <2>1, <4>1 DEF Goto, LevelState
      <4>2. CASE CallFlow(n, "timers")
        BY <1>2, <2>1, <4>2 DEF CallFlow, LevelState
      <4> QED BY <3>1, <4>1, <4>2 DEF FireNodeTimer
    <3>2. ASSUME NEW a \in Agent, FireAgentTimer(a) PROVE level'[0].pc = "timers"
      BY <3>2 DEF FireAgentTimer
    <3> QED BY <2>2, <3>1, <3>2 DEF Timers
  <2>3. ~Game
    BY <2>1 DEF Game, Start, Stop, StopObject, Raise, Trigger, BeginStep, CallsIn, AtRest, At
  <2>4. ~Events
    BY <2>1 DEF Events, HandleEvent, EndStep, DispatchNode, DispatchEnd, At
  <2>5. ~Executor
    BY <2>1 DEF Executor, LoopExit, Truncate, SkipRunning, WaitTick, RunNode, Visit, InLoop, CallEnd, AfterRun,
                Restore, FlowEnd, At
  <2>6. ~Returning /\ ~Calling
    BY <2>1 DEF Returning, ReturnToOwner, ReturnOfRoot, ReturnStop, Calling, CallFunc, CallWait, CallWaitEvent,
                CallSubchart, CallReturn, CallTrigger, CallRaise, CallStop, CallWaitAll, Calls, At
  <2> QED BY <2>2, <2>3, <2>4, <2>5, <2>6 DEF Next, Runtime
<1> QED BY <1>1, <1>2

LEMMA WakeStays ==
  ASSUME ScriptsCanGoOn, WakeInvariant, WaitsInvariant', Next, ~SwitchQueues, \A n \in Node : Wakes(n)
  PROVE  WakeInvariant'
<1>1. ASSUME NEW n \in Node PROVE CanWake(n)'
  <2>1. CanWake(n) /\ Wakes(n)
    BY DEF WakeInvariant
  <2>2. CASE KeepsWaking(n)
    BY <2>1, <2>2 DEF CanWake, KeepsWaking, Status
  <2>3. CASE WakesAnew(n)
    BY <2>3 DEF CanWake, WakesAnew, Status
  <2> QED BY <2>1, <2>2, <2>3 DEF Wakes
<1>2. \A n \in Node : StillMisses(n)'
  BY DEF WakeInvariant, StillMisses, Wakes, ScriptsCanGoOn
<1>3. DueInTimers'
  BY DueStays DEF WakeInvariant, DueInTimers, Wakes
<1> QED BY <1>1, <1>2, <1>3 DEF WakeInvariant

\* What wakes the nodes stays.
LEMMA WakeUntouched ==
  ASSUME ScriptsCanGoOn, WakeInvariant, WaitsInvariant', Next, ~SwitchQueues, UNCHANGED <<node, container, running>>
  PROVE  WakeInvariant'
<1>1. \A n \in Node : Wakes(n)
  BY DEF Wakes, KeepsWaking, Status
<1> QED BY <1>1, WakeStays
-----------------------------------------------------------------------------
(* Steps that stop nothing.                                                *)

LEMMA WakeQuietSteps ==
  ASSUME ScriptsCanGoOn, WakeInvariant, WaitsInvariant', Next,
         \/ \E w \in Raised : Raise(w)
         \/ \E a \in Agent : FireAgentTimer(a)
         \/ SwitchQueues \/ EndStep \/ LoopExit \/ ReturnOfRoot \/ CallFunc \/ CallRaise
         \/ CallReturn \/ FlowEnd \/ HandleEvent \/ DispatchEnd \/ CallTrigger
         \/ \E w \in Triggers : Trigger(w)
  PROVE  WakeInvariant'
<1>1. UNCHANGED <<node, container, running>>
  <2>1. CASE \/ (\E w \in Raised : Raise(w)) \/ (\E a \in Agent : FireAgentTimer(a)) \/ SwitchQueues
             \/ EndStep \/ LoopExit \/ ReturnOfRoot \/ CallFunc \/ CallRaise
    BY <2>1 DEF Raise, FireAgentTimer, lists, charts, SwitchQueues, EndStep, LoopExit, ReturnOfRoot, CallFunc,
                CallRaise
  <2>2. CASE CallReturn \/ FlowEnd \/ HandleEvent \/ DispatchEnd
    BY <2>2 DEF lists, charts, CallReturn, FlowEnd, HandleEvent, DispatchEnd
  <2>3. CASE CallTrigger \/ \E w \in Triggers : Trigger(w)
    BY <2>3 DEF CallTrigger, Trigger, TriggerEvent, charts
  <2> QED BY <2>1, <2>2, <2>3
<1>2. CASE ~SwitchQueues
  BY <1>1, <1>2, WakeUntouched
<1>3. CASE SwitchQueues
  <2>1. \A n \in Node : node'[n].timer # "due"
    BY <1>1, <1>3 DEF SwitchQueues
  <2>2. \A n \in Node : CanWake(n)' /\ StillMisses(n)'
    BY <1>1 DEF WakeInvariant, CanWake, StillMisses, Status
  <2> QED BY <2>1, <2>2 DEF WakeInvariant, DueInTimers
<1> QED BY <1>2, <1>3

\* Only marks of nodes change that wake nobody.
LEMMA WakeMarks ==
  ASSUME ScriptsCanGoOn, WakeInvariant, WaitsInvariant', Next, RunNode \/ (\E r \in Result : CallEnd(r))
  PROVE  WakeInvariant'
<1>1. node \in [Node -> NodeState]
  BY WakeParts
<1>2. \A m \in Node : /\ node'[m].status = node[m].status /\ node'[m].timer = node[m].timer
                      /\ node'[m].isWaitAll = node[m].isWaitAll /\ node'[m].arrived = node[m].arrived
  <2>1. CASE RunNode
    <3>1. PICK n \in Node : node' = IF node[n].skip THEN [node EXCEPT ![n].skip = FALSE]
                             ELSE [node EXCEPT ![n].runFlag = TRUE, ![n].result = "rFALSE"]
      BY <2>1 DEF RunNode
    <3>2. CASE node' = [node EXCEPT ![n].skip = FALSE]
      BY <1>1, <3>2 DEF NodeState
    <3>3. CASE node' = [node EXCEPT ![n].runFlag = TRUE, ![n].result = "rFALSE"]
      BY <1>1, <3>3 DEF NodeState
    <3> QED BY <3>1, <3>2, <3>3
  <2>2. CASE \E r \in Result : CallEnd(r)
    BY <1>1, <2>2 DEF CallEnd, NodeState
  <2> QED BY <2>1, <2>2
<1>3. container' = container /\ running' = running /\ ~SwitchQueues
  BY DEF RunNode, Visit, InLoop, CallEnd, SwitchQueues, At, lists, charts
<1> QED BY <1>2, <1>3, WakeStays DEF Wakes, KeepsWaking, Status

LEMMA WakeBeginStep ==
  ASSUME ScriptsCanGoOn, WakeInvariant, WaitsInvariant', \E due \in SUBSET Armed : BeginStep(due)
  PROVE  WakeInvariant'
<1>1. PICK due \in SUBSET Armed :
        /\ index = 0 /\ Goto("timers") /\ container' = container /\ running' = running
        /\ node' = [n \in Node |-> IF n \in due THEN [node[n] EXCEPT !.timer = "due"] ELSE node[n]]
  BY DEF BeginStep, AtRest, lists, charts
<1>2. node \in [Node -> NodeState] /\ level \in [Level -> LevelState] /\ 0 \in Level
  BY WakeParts
<1>3. \A m \in Node : /\ node'[m].status = node[m].status
                      /\ node[m].timer # "off" => node'[m].timer # "off"
                      /\ node'[m].isWaitAll = node[m].isWaitAll /\ node'[m].arrived = node[m].arrived
  BY <1>1, <1>2 DEF NodeState
<1>4. level'[0].pc = "timers"
  BY <1>1, <1>2 DEF Goto, LevelState
<1>5. \A m \in Node : CanWake(m)' /\ StillMisses(m)'
  BY <1>1, <1>3 DEF WakeInvariant, CanWake, StillMisses, Status
<1> QED BY <1>4, <1>5 DEF WakeInvariant, DueInTimers

\* One node changes, and no other gets out of its event list.
LEMMA WakeButOne ==
  ASSUME ScriptsCanGoOn, WakeInvariant, WaitsInvariant', Next, ~SwitchQueues, NEW n \in Node, Wakes(n),
         running \subseteq running', \A m \in Node : m # n => node'[m] = node[m],
         \A m \in Node : m # n /\ container[m] = EventList => container'[m] = EventList
  PROVE  WakeInvariant'
<1>1. \A m \in Node : m # n => Wakes(m)
  BY DEF Wakes, KeepsWaking, Status
<1> QED BY <1>1, WakeStays

\* Others stay where they are when n is moved.
LEMMA OthersListed ==
  ASSUME NEW n \in Node,
         (\E k, clear : UnlinkAndPush({}, n, k, clear)) \/ (\E w : UnlinkAndWait({}, n, w)) \/ Unlink({n})
         \/ container' = container
  PROVE  \A m \in Node : m # n => container'[m] = container[m]
BY DEF UnlinkAndPush, UnlinkAndWait, Unlink, Contain

LEMMA WakeDispatchNode ==
  ASSUME ScriptsCanGoOn, WakeInvariant, WaitsInvariant', Next, DispatchNode
  PROVE  WakeInvariant'
<1> DEFINE n == Head(handling[index])
<1>1. n \in Node
  <2>1. handling[index] \in Seq(Node) /\ handling[index] # <<>>
    BY WakeParts DEF DispatchNode, ListsTyped
  <2> QED BY <2>1
<1>2. /\ node' = [node EXCEPT ![n].status = "Idle"] /\ running' = running /\ ~SwitchQueues
      /\ (\E k, clear : UnlinkAndPush({}, n, k, clear)) \/ Unlink({n})
  BY DEF DispatchNode, SwitchQueues, At, charts
<1> HIDE DEF n
<1>3. node \in [Node -> NodeState]
  BY WakeParts
<1>4. Wakes(n) /\ \A m \in Node : m # n => node'[m] = node[m]
  BY <1>1, <1>2, <1>3 DEF Wakes, WakesAnew, NodeState
<1>5. \A m \in Node : m # n => container'[m] = container[m]
  BY <1>1, <1>2, OthersListed
<1> QED BY <1>1, <1>2, <1>4, <1>5, WakeButOne

LEMMA WakeFireTimer ==
  ASSUME ScriptsCanGoOn, WakeInvariant, WaitsInvariant', Next, NEW n \in Node, FireNodeTimer(n)
  PROVE  WakeInvariant'
<1>1. node \in [Node -> NodeState] /\ QuietInvariant
  BY WakeParts
<1>2. ~StackFull /\ IsRunning(ChartOf[n])
  <2>1. index = 0 /\ node[n].timer = "due" /\ MAX_STACK_SIZE >= 2 /\ MAX_STACK_SIZE \in Nat
    BY ConstantsAssumption DEF FireNodeTimer, ScriptsCanGoOn
  <2> QED BY <1>1, <2>1 DEF StackFull, QuietInvariant, StoppedChartIsQuiet
<1>3. /\ node' = [node EXCEPT ![n].timer = "off", ![n].result = "rTRUE", ![n].status = "Idle"]
      /\ UnlinkAndPush({}, n, 1, TRUE) /\ running' = running
  BY <1>2 DEF FireNodeTimer, charts
<1>4. ~SwitchQueues
  BY DEF FireNodeTimer, SwitchQueues
<1>5. Wakes(n) /\ \A m \in Node : m # n => node'[m] = node[m]
  BY <1>1, <1>3 DEF Wakes, WakesAnew, NodeState
<1>6. \A m \in Node : m # n => container'[m] = container[m]
  BY <1>3, OthersListed
<1> QED BY <1>3, <1>4, <1>5, <1>6, WakeButOne
LEMMA WakeSkipRunning ==
  ASSUME ScriptsCanGoOn, WakeInvariant, WaitsInvariant', Next, SkipRunning
  PROVE  WakeInvariant'
<1>1. PICK n \in Node : /\ node' = node /\ container' = Contain(InStack({n}, index), 0) /\ running' = running
                        /\ ~At("timers")
  BY DEF SkipRunning, Visit, InLoop, charts, At
<1>2. ~SwitchQueues /\ index # EventList
  BY <1>1, WakeParts DEF SwitchQueues, EventList
<1>3. \A m \in Node : container[m] = EventList => container'[m] = EventList
  BY <1>1, <1>2 DEF Contain, InStack
<1>4. \A m \in Node : Wakes(m)
  BY <1>1, <1>3 DEF Wakes, KeepsWaking, Status
<1> QED BY <1>2, <1>4, WakeStays

LEMMA WakeTruncate ==
  ASSUME ScriptsCanGoOn, WakeInvariant, WaitsInvariant', Next, Truncate
  PROVE  WakeInvariant'
<1>1. PICK S : /\ node' = [n \in Node |-> IF n \in S THEN [node[n] EXCEPT !.status = "EndRun"] ELSE node[n]]
               /\ container' = Contain(InStack(S, index), 0) /\ running' = running /\ ~At("timers")
  BY DEF Truncate, InLoop, charts, At
<1>2. ~SwitchQueues /\ index # EventList /\ node \in [Node -> NodeState]
  BY <1>1, WakeParts DEF SwitchQueues, EventList
<1>3. \A m \in Node : container[m] = EventList => container'[m] = EventList
  BY <1>1, <1>2 DEF Contain, InStack
<1>4. ASSUME NEW m \in Node PROVE Wakes(m)
  <2>1. node[m] \in NodeState
    BY <1>2
  <2>2. /\ node'[m].timer = node[m].timer /\ node'[m].isWaitAll = node[m].isWaitAll
        /\ node'[m].arrived = node[m].arrived
        /\ node'[m].status = "EndRun" \/ node'[m].status = node[m].status
    BY <1>1, <2>1 DEF NodeState
  <2> QED BY <1>1, <1>3, <2>2 DEF Wakes, KeepsWaking, Status
<1> QED BY <1>2, <1>4, WakeStays

LEMMA WakeWaitTick ==
  ASSUME ScriptsCanGoOn, WakeInvariant, WaitsInvariant', Next, WaitTick
  PROVE  WakeInvariant'
<1>1. PICK n \in Node : /\ \E w : UnlinkAndWait({}, n, w)
                        /\ node' = [node EXCEPT ![n].status = "Running"] /\ running' = running
                        /\ ~At("timers")
  BY DEF WaitTick, Visit, InLoop, charts, At
<1>2. ~SwitchQueues /\ node \in [Node -> NodeState] /\ container'[n] = EventList
  BY <1>1, WakeParts DEF SwitchQueues, UnlinkAndWait, Contain
<1>3. Wakes(n) /\ \A m \in Node : m # n => node'[m] = node[m]
  BY <1>1, <1>2 DEF Wakes, WakesAnew, NodeState
<1>4. \A m \in Node : m # n => container'[m] = container[m]
  BY <1>1, OthersListed
<1> QED BY <1>1, <1>2, <1>3, <1>4, WakeButOne

LEMMA WakeAfterRun ==
  ASSUME ScriptsCanGoOn, WakeInvariant, WaitsInvariant', Next, AfterRun, ~PushesWaiting
  PROVE  WakeInvariant'
<1> DEFINE n == level[index].current
           E == Elements(Successors(n))
<1>1. PICK P :
        /\ \A m \in Node : container'[m] = IF m \in E THEN index
                             ELSE IF m \in InStack(P, index) THEN 0 ELSE container[m]
        /\ node' = [m \in Node |->
             [node[m] EXCEPT !.status = IF m = n /\ ~(Status(n) = "Running") THEN "EndRun" ELSE @,
                             !.runFlag = IF m = n /\ Status(n) = "Running" THEN FALSE ELSE @,
                             !.pre = IF m \in E THEN n ELSE @]]
  BY DEF AfterRun
<1>2. \A m \in E : container[m] # EventList
  BY DEF PushesWaiting
<1> HIDE DEF n, E
<1>3. ~SwitchQueues /\ running' = running
  BY DEF AfterRun, At, SwitchQueues, charts
<1>4. /\ ~SwitchQueues /\ index # EventList /\ node \in [Node -> NodeState] /\ running' = running
      /\ index \in Level /\ level \in [Level -> LevelState]
  BY <1>3, WakeParts DEF EventList
<1>5. \A m \in Node : container[m] = EventList => container'[m] = EventList
  BY <1>1, <1>4, <1>2 DEF InStack
<1>6. ASSUME NEW m \in Node PROVE Wakes(m)
  <2>1. node[m] \in NodeState
    BY <1>4
  <2>2. PICK s, f, p : /\ node'[m] = [node[m] EXCEPT !.status = s, !.runFlag = f, !.pre = p]
                       /\ s = "EndRun" \/ s = node[m].status
    BY <1>1
  <2>3. /\ node'[m].timer = node[m].timer /\ node'[m].isWaitAll = node[m].isWaitAll
        /\ node'[m].arrived = node[m].arrived /\ node'[m].status = s
    BY <2>1, <2>2 DEF NodeState
  <2> QED BY <1>4, <1>5, <2>2, <2>3 DEF Wakes, KeepsWaking, Status
<1> QED BY <1>4, <1>6, WakeStays
-----------------------------------------------------------------------------
(* Steps that stop charts: the owner of a chart that stops is stopped too, *)
(* or is no node, or the chart did not run.                                *)

LEMMA OwnerStopsToo ==
  ASSUME ScriptsCanGoOn, WakeInvariant, NEW d \in Chart, NEW c \in running, c \in ChartTree(d), c # d
  PROVE  OwnerNode[c] \in ChartNodes(ChartTree(d))
<1>1. c \in Chart /\ running \subseteq created /\ created \subseteq Chart /\ SubchartNeedsOwner
  BY WakeParts DEF QuietInvariant
<1>2. OwnerNode[c] \in Node /\ ChartOf[OwnerNode[c]] \in Under[d]
  BY <1>1 DEF ScriptsCanGoOn, ChartTree
<1>3. ChartOf[OwnerNode[c]] \in running
  BY <1>1, <1>2, ConstantsAssumption DEF SubchartNeedsOwner, Root, IsRunning
<1> QED BY <1>1, <1>2, <1>3 DEF ChartNodes, ChartTree

\* A chart that goes on because its owner does.
OwnersGoOn(S) == \A c \in running : OwnerNode[c] \in Node \ S => c \in running'

LEMMA GoOnInTree ==
  ASSUME ScriptsCanGoOn, WakeInvariant, NEW d \in Chart, d \in Root \/ d \notin running,
         running' = running \ ChartTree(d)
  PROVE  OwnersGoOn(ChartNodes(ChartTree(d)))
<1> SUFFICES ASSUME NEW c \in running, OwnerNode[c] \in Node, c \in ChartTree(d)
             PROVE  OwnerNode[c] \in ChartNodes(ChartTree(d))
  BY DEF OwnersGoOn
<1>1. c # d
  BY ConstantsAssumption DEF Root
<1> QED BY <1>1, OwnerStopsToo

LEMMA GoOnAmong ==
  ASSUME ScriptsCanGoOn, WakeInvariant, NEW T, running' = running \ SubchartsOf(T)
  PROVE  OwnersGoOn(WithSubcharts(T))
<1> SUFFICES ASSUME NEW c \in running, OwnerNode[c] \in Node, c \in SubchartsOf(T)
             PROVE  OwnerNode[c] \in WithSubcharts(T)
  BY DEF OwnersGoOn
<1>1. PICK d \in Chart : OwnerNode[d] \in T /\ c \in ChartTree(d)
  BY DEF SubchartsOf
<1>2. CASE c = d
  BY <1>1, <1>2 DEF WithSubcharts
<1>3. CASE c # d
  <2>1. OwnerNode[c] \in ChartNodes(ChartTree(d))
    BY <1>1, <1>3, OwnerStopsToo
  <2> QED BY <1>1, <2>1 DEF WithSubcharts, SubchartsOf, ChartNodes
<1> QED BY <1>2, <1>3

\* What a stop leaves of a node, and of the others.
LEMMA StoppedSleeps ==
  ASSUME NEW nodes \in [Node -> NodeState], NEW S, NEW m \in Node
  PROVE  LET x == StoppedNodes(nodes, S)[m]
         IN  /\ m \in S => x.status = "Idle" /\ x.timer = "off" /\ x.arrived = {}
             /\ m \notin S => x = nodes[m]
<1>1. nodes[m] \in NodeState
  OBVIOUS
<1> QED BY <1>1 DEF StoppedNodes, NodeState

LEMMA WakeStop ==
  ASSUME ScriptsCanGoOn, WakeInvariant, WaitsInvariant', Next, ~At("timers"),
         NEW S, NEW nodes \in [Node -> NodeState], node' = StoppedNodes(nodes, S), Unlink(S), OwnersGoOn(S),
         \A m \in Node : /\ nodes[m].status = node[m].status /\ nodes[m].timer = node[m].timer
                         /\ nodes[m].isWaitAll = node[m].isWaitAll /\ nodes[m].arrived = node[m].arrived
  PROVE  WakeInvariant'
<1>1. ~SwitchQueues
  BY DEF SwitchQueues
<1>2. \A m \in Node : m \in S => Wakes(m)
  BY StoppedSleeps DEF Wakes, WakesAnew
<1>3. \A m \in Node : m \notin S => Wakes(m)
  <2>1. \A m \in Node : m \notin S => node'[m] = nodes[m] /\ container'[m] = container[m]
    BY StoppedSleeps DEF Unlink, Contain
  <2> QED BY <2>1 DEF Wakes, KeepsWaking, OwnersGoOn, Status
<1> QED BY <1>1, <1>2, <1>3, WakeStays

LEMMA WakeStopSteps ==
  ASSUME ScriptsCanGoOn, WakeInvariant, WaitsInvariant', Next, ~StopsCalledAgain, ~StopsHosted,
         (\E c \in Chart : Stop(c)) \/ (\E a \in Agent : StopObject(a)) \/ ReturnStop \/ CallStop
  PROVE  WakeInvariant'
<1>1. node \in [Node -> NodeState] /\ ~At("timers")
  BY WakeParts DEF Stop, StopObject, ReturnStop, CallStop, Calls, AtRest, At
<1>2. ASSUME NEW d \in Chart, d \in Root \/ d \notin running, StopChart(d) PROVE WakeInvariant'
  <2>1. OwnersGoOn(ChartNodes(ChartTree(d)))
    BY <1>2, GoOnInTree DEF StopChart
  <2> QED BY <1>1, <1>2, <2>1, WakeStop DEF StopChart
<1>3. CASE \E c \in Chart : Stop(c)
  BY <1>2, <1>3 DEF Stop
<1>6. ASSUME NEW a \in Agent, StopObject(a) PROVE WakeInvariant'
  <2> DEFINE C == HostedTrees(a)
             S == ChartNodes(C)
  <2>1. node' = StoppedNodes(node, S) /\ Unlink(S) /\ running' = running \ C
    BY <1>6 DEF StopObject
  <2>2. \A c \in (running \cap C) \ Root : OwnerNode[c] \in S
    BY <1>6 DEF StopsHosted
  <2>3. None \notin Node /\ \A c \in running : OwnerNode[c] \in Node => c \notin Root
    BY ConstantsAssumption DEF Root
  <2> HIDE DEF C, S
  <2>4. OwnersGoOn(S)
    BY <2>1, <2>2, <2>3 DEF OwnersGoOn
  <2> QED BY <1>1, <2>1, <2>4, WakeStop
<1>4. CASE ReturnStop
  <2>1. At("returned") /\ StopChart(level[index].returning)
    BY <1>4 DEF ReturnStop
  <2>2. level[index].returning \in Root \/ level[index].returning \notin running
    BY <1>4 DEF StopsCalledAgain
  <2>3. level[index].returning \in Chart
    <3>1. QuietInvariant /\ index \in Level
      BY WakeParts
    <3>2. index \in 1..index /\ FlowsStayInChart
      BY <2>1, <3>1, LevelFacts DEF QuietInvariant, LevelsNest, At
    <3> QED BY <2>1, <3>2 DEF FlowsStayInChart, FlowOf, At
  <2> QED BY <1>2, <2>1, <2>2, <2>3
<1>5. CASE CallStop
  <2>1. PICK T : StopNodes(T)
    BY <1>5 DEF CallStop
  <2>2. OwnersGoOn(WithSubcharts(T))
    BY <2>1, GoOnAmong DEF StopNodes
  <2> QED BY <1>1, <2>1, <2>2, WakeStop DEF StopNodes
<1> QED BY <1>3, <1>4, <1>5, <1>6

LEMMA WakeRestore ==
  ASSUME ScriptsCanGoOn, WakeInvariant, WaitsInvariant', Next, Restore
  PROVE  WakeInvariant'
<1>1. PICK h, ended : /\ node' = StoppedNodes(Unflagged(h), WithSubcharts(ended))
                      /\ Unlink(WithSubcharts(ended)) /\ running' = running \ SubchartsOf(ended)
  BY DEF Restore
<1>2. ~At("timers") /\ node \in [Node -> NodeState]
  BY WakeParts DEF Restore, At
<1>3. /\ Unflagged(h) \in [Node -> NodeState]
      /\ \A m \in Node : LET x == Unflagged(h)[m]
                         IN  /\ x.status = node[m].status /\ x.timer = node[m].timer
                             /\ x.isWaitAll = node[m].isWaitAll /\ x.arrived = node[m].arrived
  <2>1. \A y \in NodeState : LET z == [y EXCEPT !.runFlag = FALSE]
                             IN  /\ z \in NodeState /\ z.status = y.status /\ z.timer = y.timer
                                 /\ z.isWaitAll = y.isWaitAll /\ z.arrived = y.arrived
    BY DEF NodeState
  <2> QED BY <1>2, <2>1 DEF Unflagged
<1>4. OwnersGoOn(WithSubcharts(ended))
  BY <1>1, GoOnAmong
<1> QED BY <1>1, <1>2, <1>3, <1>4, WakeStop
\* The owner does not run, or waits for START.
LEMMA WakeReturnToOwner ==
  ASSUME ScriptsCanGoOn, WakeInvariant, WaitsInvariant', Next, NEW r \in Result, ReturnToOwner(r)
  PROVE  WakeInvariant'
<1> DEFINE o == OwnerNode[level[index].returning]
           S == WithSubcharts({o})
           f == StoppedNodes(node, S)
           queued == ~CalledBelow(o) /\ StackFull
           s == IF queued THEN "Running" ELSE f[o].status
<1>1. /\ running' = running \ SubchartsOf({o})
      /\ \/ ~queued /\ (\E k, clear : UnlinkAndPush(S, o, k, clear))
         \/ (\E w : UnlinkAndWait(S, o, w))
         \/ ~queued /\ Unlink(S)
      /\ node' = [f EXCEPT ![o].result = r, ![o].skip = TRUE, ![o].runFlag = CalledBelow(o), ![o].status = s]
  BY DEF ReturnToOwner
<1>2. /\ index \in Level /\ level[0].pc # "return" /\ FlowsStayInChart /\ node \in [Node -> NodeState]
  BY WakeParts DEF QuietInvariant, LevelsNest
<1>3. At("return") /\ level[index].returning \notin Root /\ index # 0 /\ ~At("timers") /\ ~SwitchQueues
  BY <1>2 DEF ReturnToOwner, SwitchQueues, At
<1>4. o \in Node
  <2>1. index \in 1..index
    <3>1. index \in Int /\ index >= 0
      BY WakeParts
    <3> QED BY <1>3, <3>1
  <2>2. level[index].returning \in Chart
    BY <1>2, <1>3, <2>1 DEF FlowsStayInChart, FlowOf, At
  <2> QED BY <1>3, <2>2, ConstantsAssumption DEF Root
<1> HIDE DEF o
<1>5. o \in S /\ OwnersGoOn(S) /\ f \in [Node -> NodeState]
  BY <1>1, <1>2, GoOnAmong, StoppedNodesType DEF WithSubcharts
<1> HIDE DEF S, queued
<1>6. /\ \A m \in Node : m \notin S => container'[m] = container[m]
      /\ queued => container'[o] = EventList
  BY <1>1, <1>4, <1>5 DEF UnlinkAndPush, UnlinkAndWait, Unlink, Contain
<1>7. \A m \in Node : /\ m \in S => f[m].status = "Idle" /\ f[m].timer = "off" /\ f[m].arrived = {}
                      /\ m \notin S => f[m] = node[m]
  BY <1>2, StoppedSleeps
<1> HIDE DEF f
<1>8. Wakes(o)
  <2>1. s = "Idle" \/ queued
    BY <1>4, <1>5, <1>7
  <2> HIDE DEF s
  <2>2. f[o] \in NodeState
    BY <1>4, <1>5
  <2>3. node'[o] = [f[o] EXCEPT !.result = r, !.skip = TRUE, !.runFlag = CalledBelow(o), !.status = s]
    BY <1>1, <1>4, <1>5
  <2>4. node'[o].timer = "off" /\ node'[o].arrived = {} /\ node'[o].status = s
    BY <1>4, <1>5, <1>7, <2>2, <2>3 DEF NodeState
  <2> QED BY <1>4, <1>5, <1>6, <2>1, <2>4 DEF Wakes, WakesAnew
<1>9. \A m \in Node : m # o => node'[m] = f[m]
  BY <1>1, <1>5
<1>10. \A m \in Node : m # o /\ m \in S => Wakes(m)
  BY <1>7, <1>9 DEF Wakes, WakesAnew
<1>11. \A m \in Node : m \notin S => Wakes(m)
  BY <1>5, <1>6, <1>7, <1>9 DEF Wakes, KeepsWaking, OwnersGoOn, Status
<1> QED BY <1>3, <1>8, <1>10, <1>11, WakeStays

-----------------------------------------------------------------------------
(* Functions that begin to wait.                                           *)

LEMMA WakeCall ==
  ASSUME ScriptsCanGoOn, WakeInvariant, WaitsInvariant', Next, CallWait \/ CallWaitEvent
  PROVE  WakeInvariant'
<1>1. node \in [Node -> NodeState]
  BY WakeParts
<1>2. ~SwitchQueues /\ running' = running
  BY DEF CallWait, CallWaitEvent, Calls, SwitchQueues, At, charts
<1>3. CASE CallWait
  <2>1. PICK n \in Node : /\ container' = container
                          /\ node' = [node EXCEPT ![n].timer = "armed", ![n].skip = TRUE,
                                        ![n].result = "rTRUE", ![n].status = "Running"]
    BY <1>3 DEF CallWait, lists
  <2>2. Wakes(n) /\ \A m \in Node : m # n => node'[m] = node[m]
    BY <1>1, <2>1 DEF Wakes, WakesAnew, NodeState
  <2> QED BY <1>2, <2>1, <2>2, WakeButOne
<1>4. CASE CallWaitEvent
  <2>1. PICK n \in Node : /\ \E w : UnlinkAndWait({}, n, w)
                          /\ node' = [node EXCEPT ![n].skip = TRUE, ![n].result = "rTRUE", ![n].status = "Running"]
    BY <1>4 DEF CallWaitEvent
  <2>2. container'[n] = EventList
    BY <2>1 DEF UnlinkAndWait, Contain
  <2>3. Wakes(n) /\ \A m \in Node : m # n => node'[m] = node[m]
    BY <1>1, <2>1, <2>2 DEF Wakes, WakesAnew, NodeState
  <2>4. \A m \in Node : m # n => container'[m] = container[m]
    BY <2>1, OthersListed
  <2> QED BY <1>2, <2>1, <2>3, <2>4, WakeButOne
<1> QED BY <1>3, <1>4

LEMMA WakeCallWaitAll ==
  ASSUME ScriptsCanGoOn, WakeInvariant, WaitsInvariant', Next, CallWaitAll
  PROVE  WakeInvariant'
<1>1. node \in [Node -> NodeState]
  BY WakeParts
<1>2. PICK n \in Node : 
        /\ Calls(n, "waitall") /\ UNCHANGED <<charts, lists>>
        /\ LET seen == (node[n].arrived \cup {node[n].pre}) \cap Target[n]
               all == node[n].pre \in Target[n] /\ seen = Target[n]
           IN  node' = [node EXCEPT ![n].isWaitAll = TRUE,
                          ![n].arrived = IF all THEN {} ELSE seen,
                          ![n].status = IF all THEN "EndRun" ELSE "Running",
                          ![n].result = IF all THEN "rTRUE" ELSE node[n].result]
  BY <1>1 DEF CallWaitAll
<1> DEFINE seen == (node[n].arrived \cup {node[n].pre}) \cap Target[n]
           all == node[n].pre \in Target[n] /\ seen = Target[n]
<1>3. PICK a, s, t : /\ node' = [node EXCEPT ![n].isWaitAll = TRUE, ![n].arrived = a,
                                              ![n].status = s, ![n].result = t]
                     /\ a = IF all THEN {} ELSE seen
  BY <1>2
<1>4. node[n] \in NodeState /\ node'[n] = [node[n] EXCEPT !.isWaitAll = TRUE, !.arrived = a, !.status = s, !.result = t]
  BY <1>1, <1>3
<1>5. /\ node'[n].arrived = IF all THEN {} ELSE seen
      /\ node'[n].isWaitAll /\ node'[n].timer = node[n].timer
  <2>1. node'[n].arrived = a /\ node'[n].isWaitAll /\ node'[n].timer = node[n].timer
    BY <1>4 DEF NodeState
  <2> QED BY <1>3, <2>1
<1>6. \A m \in Node : m # n => node'[m] = node[m]
  BY <1>1, <1>3
<1>7. ~SwitchQueues /\ running' = running /\ container' = container /\ Kind[n] = "waitall"
  BY <1>2 DEF Calls, SwitchQueues, At, charts, lists
<1>8. ~all => seen # Target[n]
  <2>1. node[n].arrived \subseteq Target[n] /\ node[n].arrived # Target[n]
    BY <1>7, WakeParts DEF StillMisses
  <2> QED BY <2>1
<1>9. node'[n].arrived = {} \/ (node'[n].arrived \subseteq Target[n] /\ node'[n].arrived # Target[n])
  BY <1>5, <1>8
<1> HIDE DEF seen, all
<1>10. Wakes(n)
  BY <1>5, <1>7, <1>9 DEF Wakes, WakesAnew, StillMisses
<1> QED BY <1>6, <1>7, <1>10, WakeButOne
-----------------------------------------------------------------------------
(* Charts that start: the start node runs at once or waits for START, and  *)
(* the node that has called the chart waits for it.                        *)

LEMMA WakeChartStarts ==
  ASSUME ScriptsCanGoOn, WakeInvariant, WaitsInvariant', Next, ~At("timers"), NEW c \in Chart,
         NEW sync, NEW nodes \in [Node -> NodeState], NEW p, StartChart(c, sync, nodes, p),
         \A m \in Node : /\ nodes[m].timer = node[m].timer /\ nodes[m].isWaitAll = node[m].isWaitAll
                         /\ nodes[m].arrived = node[m].arrived
                         /\ nodes[m].status = node[m].status \/ OwnerNode[c] = m
  PROVE  WakeInvariant'
<1> DEFINE s == StartNode[c]
<1>1. PICK v :
        /\ running' = running \cup {c}
        /\ node' = [nodes EXCEPT ![s].skip = TRUE, ![s].result = "rTRUE", ![s].status = v]
        /\ v = "Idle" \/ (\E w : UnlinkAndWait({}, s, w))
        /\ (\E k, clear : UnlinkAndPush({}, s, k, clear)) \/ (\E w : UnlinkAndWait({}, s, w))
  BY DEF StartChart
<1>2. s \in Node
  BY ConstantsAssumption
<1> HIDE DEF s
<1>3. \A m \in Node : m # s => container'[m] = container[m]
  BY <1>1, <1>2, OthersListed
<1>4. v = "Idle" \/ container'[s] = EventList
  BY <1>1, <1>2 DEF UnlinkAndWait, Contain
<1>5. Wakes(s)
  <2>1. nodes[s] \in NodeState
    BY <1>2
  <2>2. node'[s] = [nodes[s] EXCEPT !.skip = TRUE, !.result = "rTRUE", !.status = v]
    BY <1>1, <1>2
  <2>3. node'[s].status = v /\ node'[s].timer = nodes[s].timer /\ node'[s].arrived = nodes[s].arrived
    BY <2>1, <2>2 DEF NodeState
  <2> QED BY <1>2, <1>4, <2>3 DEF Wakes, WakesAnew
<1>6. ASSUME NEW m \in Node, m # s PROVE Wakes(m)
  <2>1. node'[m] = nodes[m] /\ container'[m] = container[m] /\ running \subseteq running' /\ c \in running'
    BY <1>1, <1>3, <1>6
  <2>2. CASE nodes[m].status = node[m].status
    BY <2>1, <2>2 DEF Wakes, KeepsWaking, Status
  <2>3. CASE OwnerNode[c] = m
    BY <2>1, <2>3 DEF Wakes, WakesAnew
  <2> QED BY <2>2, <2>3
<1>7. ~SwitchQueues
  BY DEF SwitchQueues
<1> QED BY <1>5, <1>6, <1>7, WakeStays

LEMMA WakeStarts ==
  ASSUME ScriptsCanGoOn, WakeInvariant, WaitsInvariant', Next, (\E c \in Chart : Start(c)) \/ CallSubchart
  PROVE  WakeInvariant'
<1>1. node \in [Node -> NodeState]
  BY WakeParts
<1>2. ASSUME NEW c \in Chart, Start(c) PROVE WakeInvariant'
  <2>1. ~At("timers") /\ StartChart(c, ~DeferEvent, node, "idle")
    BY <1>2 DEF Start, CallsIn, AtRest, At
  <2> QED BY <1>1, <2>1, WakeChartStarts
<1>3. CASE CallSubchart
  <2>1. PICK n \in Node, c \in Chart :
          /\ Calls(n, "sub") /\ OwnerNode[c] = n
          /\ \/ IsRunning(c) /\ node' = [node EXCEPT ![n].status = "Running"] /\ UNCHANGED <<running, lists>>
             \/ StartChart(c, TRUE, [node EXCEPT ![n].status = "Running"], "callEnd")
    BY <1>3 DEF CallSubchart
  <2> DEFINE nodes == [node EXCEPT ![n].status = "Running"]
  <2>2. /\ nodes \in [Node -> NodeState]
        /\ \A m \in Node : /\ nodes[m].timer = node[m].timer /\ nodes[m].isWaitAll = node[m].isWaitAll
                           /\ nodes[m].arrived = node[m].arrived
                           /\ nodes[m].status = node[m].status \/ OwnerNode[c] = m
    BY <1>1, <2>1 DEF NodeState
  <2> HIDE DEF nodes
  <2>3. ~At("timers")
    BY <2>1 DEF Calls, At
  <2>4. CASE IsRunning(c) /\ node' = nodes /\ UNCHANGED <<running, lists>>
    <3>1. ASSUME NEW m \in Node PROVE Wakes(m)
      <4>1. CASE nodes[m].status = node[m].status
        BY <2>2, <2>4, <4>1 DEF Wakes, KeepsWaking, Status, lists
      <4>2. CASE OwnerNode[c] = m
        BY <2>2, <2>4, <4>2 DEF Wakes, WakesAnew, IsRunning
      <4> QED BY <2>2, <4>1, <4>2
    <3>2. ~SwitchQueues
      BY <2>3 DEF SwitchQueues
    <3> QED BY <3>1, <3>2, WakeStays
  <2>5. CASE StartChart(c, TRUE, nodes, "callEnd")
    BY <2>2, <2>3, <2>5, WakeChartStarts
  <2> QED BY <2>1, <2>4, <2>5 DEF nodes
<1> QED BY <1>2, <1>3

-----------------------------------------------------------------------------
(* The theorem about what wakes a node.                                    *)

LEMMA WakeBeginning ==
  ASSUME ScriptsCanGoOn, Init, WaitsInvariant
  PROVE  WakeInvariant
<1>1. \A n \in Node : node[n] = FreshNode
  BY DEF Init
<1>2. FreshNode.status = "Idle" /\ FreshNode.timer = "off" /\ FreshNode.arrived = {}
  BY DEF FreshNode
<1> QED BY <1>1, <1>2 DEF WakeInvariant, CanWake, StillMisses, DueInTimers, ScriptsCanGoOn, Status

LEMMA EveryWakeStep ==
  ASSUME ScriptsCanGoOn, WakeInvariant, [Next]_vars, [~LosesWaker]_vars
  PROVE  WakeInvariant'
<1>1. WaitsInvariant'
  BY WakeParts, EveryWaitsStep
<1>2. CASE UNCHANGED vars
  BY <1>1, <1>2 DEF vars, charts, lists, WakeInvariant, CanWake, StillMisses, DueInTimers, Status
<1>3. CASE Next /\ ~PushesWaiting /\ ~StopsCalledAgain /\ ~StopsHosted
  <2>1. CASE Game
    BY <1>1, <1>3, <2>1, WakeStarts, WakeStopSteps, WakeQuietSteps, WakeBeginStep, ConstantsAssumption DEF Game
  <2>2. CASE Timers
    BY <1>1, <1>3, <2>2, WakeFireTimer, WakeQuietSteps DEF Timers
  <2>3. CASE Events
    BY <1>1, <1>3, <2>3, WakeQuietSteps, WakeDispatchNode DEF Events
  <2>4. CASE Executor
    BY <1>1, <1>3, <2>4, WakeQuietSteps, WakeTruncate, WakeSkipRunning, WakeWaitTick, WakeMarks, WakeAfterRun,
       WakeRestore DEF Executor
  <2>5. CASE Returning
    BY <1>1, <1>3, <2>5, WakeReturnToOwner, WakeQuietSteps, WakeStopSteps DEF Returning
  <2>6. CASE Calling
    BY <1>1, <1>3, <2>6, WakeQuietSteps, WakeCall, WakeStarts, WakeStopSteps, WakeCallWaitAll DEF Calling
  <2> QED BY <1>3, <2>1, <2>2, <2>3, <2>4, <2>5, <2>6 DEF Next, Runtime
<1> QED BY <1>2, <1>3 DEF LosesWaker

\* Between steps no timer is due.
LEMMA WakeAtRest ==
  ASSUME WakeInvariant
  PROVE  RunningNodesCanWake
<1> SUFFICES ASSUME AtRest, NEW n \in Node, Status(n) = "Running"
             PROVE  Wakeable(n)
  BY DEF RunningNodesCanWake
<1>1. CanWake(n) /\ StillMisses(n) /\ MarksByKind /\ node \in [Node -> NodeState]
  BY WakeParts
<1>2. node[n].timer # "due"
  BY DEF WakeInvariant, DueInTimers, AtRest, At
<1>3. node[n].timer = "off" \/ node[n].timer = "armed"
  BY <1>1, <1>2 DEF NodeState
<1> QED BY <1>1, <1>3 DEF CanWake, StillMisses, MarksByKind, Wakeable

\* Between steps whatever runs can be woken (RunningNodesCanWake), in every script whose WaitAll nodes
\* wait for something, unless a node is pushed while it waits for an event (executor.cpp:19), a
\* subchart is stopped that its owner has called again (chart.cpp:110), or the game stops the object a
\* subchart lives on while its owner goes on (agent.cpp:254): no other step of the runtime, nor any
\* other of these calls of the game, takes from a running node what is going to wake it.
THEOREM RunningNodesWake ==
  ASSUME ScriptsCanGoOn
  PROVE  Spec /\ [][~LosesWaker]_vars => []RunningNodesCanWake
<1>1. Init => WakeInvariant
  BY WaitsBeginning, WakeBeginning
<1>2. WakeInvariant /\ [Next]_vars /\ [~LosesWaker]_vars => WakeInvariant'
  BY EveryWakeStep
<1>3. WakeInvariant => RunningNodesCanWake
  BY WakeAtRest
<1> QED BY <1>1, <1>2, <1>3, PTL DEF Spec
===============================================================================
