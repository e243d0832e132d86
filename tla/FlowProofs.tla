------------------------------ MODULE FlowProofs ------------------------------
(***************************************************************************)
(* What the operators FlowExecutor is built from do to the parts of        *)
(* QuietInvariant: a push, a wait, a call of a flow, a start of a chart,   *)
(* a dispatch, a stop.  From these, action by action: every step of the    *)
(* runtime and of the game keeps QuietInvariant, so that its parts hold in *)
(* every state, for any charts, nodes, events and stack.                   *)
(***************************************************************************)
EXTENDS FlowProperties, NodeListsProofs

-----------------------------------------------------------------------------
(* The inductive invariant behind StoppedChartIsQuiet.                     *)

\* The levels below the top have made a call and wait for it to return, those
\* above it are as they were in the beginning; level 0 runs no node.
LevelsNest ==
  /\ \A k \in Level : k > index => level[k] = FreshLevel
  /\ \A k \in Level : k < index => level[k].pc \in {"idle", "timers", "dispatch", "callEnd", "returned"}
  /\ level[0].pc \in {"idle", "timers", "events", "dispatch"}
  /\ level[0].caller \in {"idle", "events"}
  /\ level[0].current = None

\* The function of the current node has been called and has not returned, or the
\* node is still to be popped.
InCall(k) == level[k].pc \in {"call", "callEnd", "ran"} \/ level[k].caller = "callEnd"

\* A flow runs nodes of one chart; the node whose function is being called is
\* on the stack unless it has been taken off.
FlowOf(k) ==
  /\ level[k].chart \in Chart
  /\ stack[k] \in Seq(ChartNodes({level[k].chart}))
  /\ level[k].history \subseteq ChartNodes({level[k].chart})
  /\ level[k].current # None => level[k].current \in ChartNodes({level[k].chart})
  /\ InCall(k) =>
       /\ level[k].current # None
       /\ container[level[k].current] = k => Holds(level[k].current, stack[k])
  /\ level[k].pc \in {"return", "returned"} => level[k].returning \in Chart
FlowsStayInChart == \A k \in 1..index : FlowOf(k)

\* The function of a node is called, and a chart returns, while the chart runs.
CallsInRunningChart ==
  /\ At("call") => IsRunning(level[index].chart)
  /\ At("return") => IsRunning(level[index].returning)

QuietInvariant ==
  /\ TypeOK /\ LevelsNest /\ FlowsStayInChart /\ CallsInRunningChart
  /\ SubchartNeedsOwner /\ StoppedChartIsQuiet

-----------------------------------------------------------------------------
(* Lists.                                                                  *)

\* A stack stays a stack of nodes of its flow, with the nodes that belong to it.
StackKept(k) ==
  /\ stack[k] \in Seq(ChartNodes({level[k].chart})) => stack'[k] \in Seq(ChartNodes({level[k].chart}))
  /\ k # 0 => \A n \in Node :
       (container[n] = k => Holds(n, stack[k])) => (container'[n] = k => Holds(n, stack'[k]))
StacksKept == \A k \in Level : StackKept(k)

\* The levels of the stack are numbered from 0; EventList is none of them.
LEMMA LevelFacts ==
  /\ Level \subseteq Int /\ 0 \in Level /\ EventList \in Int /\ MAX_STACK_SIZE \in Nat
  /\ \A k \in Level : k >= 0 /\ (k + 1 < MAX_STACK_SIZE => k + 1 \in Level)
  /\ \A k \in Level : k # 0 => k - 1 \in Level
BY ConstantsAssumption DEF ConstantsAssumption, Level, EventList

\* Taking nodes off all lists leaves lists of nodes, and loses only those nodes.
LEMMA WithoutTypes ==
  ASSUME ListsTyped, NEW S
  PROVE  /\ WaitingWithout(S) \in [Wait -> Seq(Node)]
         /\ HandlingWithout(S) \in [Level -> Seq(Node)]
         /\ StackWithout(S) \in [Level -> Seq(Node)]
         /\ \A k \in Level : \A T : stack[k] \in Seq(T) => StackWithout(S)[k] \in Seq(T)
         /\ \A k \in Level : \A n \in Node :
              Holds(n, stack[k]) /\ n \notin InStack(S, k) => Holds(n, StackWithout(S)[k])
<1>1. \A w \in Wait : Without(waiting[w], InEventList(S)) \in Seq(Node)
  BY WithoutType DEF ListsTyped
<1>2. \A k \in Level : Without(handling[k], InEventList(S)) \in Seq(Node)
  BY WithoutType DEF ListsTyped
<1>3. \A k \in Level : \A T : stack[k] \in Seq(T) => StackWithout(S)[k] \in Seq(T)
  BY WithoutType DEF StackWithout
<1>4. StackWithout(S) \in [Level -> Seq(Node)]
  BY WithoutType DEF StackWithout, ListsTyped
<1>5. \A k \in Level : \A n \in Node :
        Holds(n, stack[k]) /\ n \notin InStack(S, k) => Holds(n, StackWithout(S)[k])
  BY WithoutKeeps DEF StackWithout, ListsTyped, Holds
<1> QED BY <1>1, <1>2, <1>3, <1>4, <1>5 DEF WaitingWithout, HandlingWithout

\* Container pointers keep their type.
LEMMA ContainType ==
  ASSUME ListsTyped, NEW S, NEW v \in Level \cup {EventList}
  PROVE  Contain(S, v) \in [Node -> Level \cup {EventList}]
BY DEF ListsTyped, Contain

\* Nodes that leave their containers leave every list well typed.
LEMMA UnlinkEffect ==
  ASSUME ListsTyped, NEW S, Unlink(S)
  PROVE  /\ ListsTyped' /\ StacksKept
         /\ \A n \in Node : container'[n] = EventList => container[n] = EventList /\ n \notin S
<1>1. ListsTyped'
  BY WithoutTypes, ContainType, LevelFacts DEF Unlink, ListsTyped
<1>2. StacksKept
  BY WithoutTypes DEF Unlink, StacksKept, StackKept, Contain, InStack
<1>3. \A n \in Node : container'[n] = EventList => container[n] = EventList /\ n \notin S
  BY DEF Unlink, Contain, EventList
<1> QED BY <1>1, <1>2, <1>3

\* So does a node that leaves its container for the stack of executor k.
LEMMA PushEffect ==
  ASSUME ListsTyped, NEW S, NEW n \in Node, NEW k \in Level, NEW clear \in BOOLEAN,
         UnlinkAndPush(S, n, k, clear)
  PROVE  /\ ListsTyped'
         /\ \A j \in Level : j # k => StackKept(j)
         /\ \A T : (clear \/ stack[k] \in Seq(T)) /\ n \in T => stack'[k] \in Seq(T)
         /\ ~clear /\ k # 0 => \A m \in Node : (container[m] = k => Holds(m, stack[k]))
                         => (container'[m] = k => Holds(m, stack'[k]))
         /\ \A m \in Node : container'[m] = EventList => container[m] = EventList /\ m \notin S
<1> DEFINE A == StackWithout(S \cup {n})
<1>1. /\ A \in [Level -> Seq(Node)]
      /\ \A j \in Level : \A T : stack[j] \in Seq(T) => A[j] \in Seq(T)
      /\ \A j \in Level : \A m \in Node :
           Holds(m, stack[j]) /\ m \notin InStack(S \cup {n}, j) => Holds(m, A[j])
  BY WithoutTypes
<1>2. stack' = [A EXCEPT ![k] = Append(IF clear THEN <<>> ELSE A[k], n)]
  BY DEF UnlinkAndPush
<1> HIDE DEF A
<1>3. stack' \in [Level -> Seq(Node)]
  BY <1>1, <1>2
<1>4. \A j \in Level : j # k => stack'[j] = A[j]
  BY <1>1, <1>2
<1>5. \A T : (clear \/ stack[k] \in Seq(T)) /\ n \in T => stack'[k] \in Seq(T)
  BY <1>1, <1>2
<1>6. container' = [Contain(S, 0) EXCEPT ![n] = k]
  BY DEF UnlinkAndPush
<1>7. Contain(S, 0) \in [Node -> Level \cup {EventList}]
  BY ContainType, LevelFacts
<1>8. container' \in [Node -> Level \cup {EventList}]
  BY <1>6, <1>7
<1>9. waiting' \in [Wait -> Seq(Node)] /\ handling' \in [Level -> Seq(Node)]
  BY WithoutTypes DEF UnlinkAndPush
<1>11. \A m \in Node : container'[m] = IF m = n THEN k ELSE IF m \in S THEN 0 ELSE container[m]
  BY <1>6, <1>7 DEF Contain
<1>12. \A j \in Level : j # k => StackKept(j)
  BY <1>1, <1>4, <1>11 DEF StackKept, InStack
<1>13. ASSUME ~clear, NEW m \in Node, container[m] = k => Holds(m, stack[k]), container'[m] = k
       PROVE  k = 0 \/ Holds(m, stack'[k])
  <2>1. stack'[k] = Append(A[k], n) /\ A[k] \in Seq(Node)
    BY <1>1, <1>2, <1>13
  <2>2. Elements(stack'[k]) = Elements(A[k]) \cup {n}
    BY <2>1, AppendElements
  <2>3. k = 0 \/ m = n \/ (Holds(m, stack[k]) /\ m \notin InStack(S \cup {n}, k))
    BY <1>11, <1>13 DEF InStack
  <2> QED BY <1>1, <2>2, <2>3 DEF Holds
<1>10. \A m \in Node : container'[m] = EventList => container[m] = EventList /\ m \notin S
  <2>1. k # EventList
    BY LevelFacts DEF EventList
  <2> QED BY <1>6, <1>7, <2>1 DEF Contain, EventList
<1> QED BY <1>3, <1>5, <1>8, <1>9, <1>10, <1>12, <1>13 DEF ListsTyped

\* So does a node that leaves its container for an event list.
LEMMA WaitEffect ==
  ASSUME ListsTyped, NEW S, NEW n \in Node, NEW w \in Wait, UnlinkAndWait(S, n, w)
  PROVE  /\ ListsTyped' /\ StacksKept
         /\ \A m \in Node : container'[m] = EventList
              => m = n \/ (container[m] = EventList /\ m \notin S)
<1> DEFINE A == WaitingWithout(S \cup {n})
<1>1. A \in [Wait -> Seq(Node)]
  BY WithoutTypes
<1>2. waiting' = [A EXCEPT ![w] = Append(A[w], n)]
  BY DEF UnlinkAndWait
<1> HIDE DEF A
<1>3. waiting' \in [Wait -> Seq(Node)]
  BY <1>1, <1>2
<1>4. handling' \in [Level -> Seq(Node)] /\ stack' \in [Level -> Seq(Node)]
  BY WithoutTypes DEF UnlinkAndWait
<1>5. container' = [Contain(S, 0) EXCEPT ![n] = EventList]
  BY DEF UnlinkAndWait
<1>6. Contain(S, 0) \in [Node -> Level \cup {EventList}]
  BY ContainType, LevelFacts
<1>7. container' \in [Node -> Level \cup {EventList}]
  BY <1>5, <1>6
<1>8. \A m \in Node : container'[m] = EventList
        => m = n \/ (container[m] = EventList /\ m \notin S)
  BY <1>5, <1>6 DEF Contain, EventList
<1>9. StacksKept
  <2>1. \A m \in Node : container'[m] = IF m = n THEN EventList ELSE IF m \in S THEN 0 ELSE container[m]
    BY <1>5, <1>6 DEF Contain
  <2>2. EventList \notin Level
    BY LevelFacts DEF EventList
  <2>3. stack' = StackWithout(S \cup {n})
    BY DEF UnlinkAndWait
  <2> QED BY <2>1, <2>2, <2>3, WithoutTypes DEF StacksKept, StackKept, InStack
<1> QED BY <1>3, <1>4, <1>7, <1>8, <1>9 DEF ListsTyped

\* RunFlow pushes its first node on the next executor's cleared stack.
LEMMA PushOnNext ==
  ASSUME ListsTyped, NEW S, NEW n \in Node, index + 1 \in Level,
         UnlinkAndPush(S, n, index + 1, TRUE)
  PROVE  /\ ListsTyped'
         /\ \A j \in Level : j # index + 1 => StackKept(j)
         /\ \A T : n \in T => stack'[index + 1] \in Seq(T)
         /\ \A m \in Node : container'[m] = EventList => container[m] = EventList /\ m \notin S
BY PushEffect

\* ContinueFlow pushes a node on the stack of an executor that runs its chart.
LEMMA ContinueEffect ==
  ASSUME ListsTyped, NEW S, NEW n \in Node, NEW k \in Level, k # 0,
         UnlinkAndPush(S, n, k, FALSE), n \in ChartNodes({level[k].chart})
  PROVE  /\ ListsTyped' /\ StacksKept
         /\ \A m \in Node : container'[m] = EventList => container[m] = EventList /\ m \notin S
<1>1. /\ ListsTyped'
      /\ \A j \in Level : j # k => StackKept(j)
      /\ \A T : stack[k] \in Seq(T) /\ n \in T => stack'[k] \in Seq(T)
      /\ \A m \in Node : (container[m] = k => Holds(m, stack[k]))
                       => (container'[m] = k => Holds(m, stack'[k]))
      /\ \A m \in Node : container'[m] = EventList => container[m] = EventList /\ m \notin S
  BY PushEffect
<1>2. StackKept(k)
  BY <1>1 DEF StackKept
<1> QED BY <1>1, <1>2 DEF StacksKept

\* A node, and nothing else, changes lists (Agent::WaitEvent).
LEMMA JustWaits ==
  ASSUME ListsTyped, NEW n \in Node, NEW w \in Wait, UnlinkAndWait({}, n, w)
  PROVE  /\ ListsTyped' /\ StacksKept
         /\ \A m \in Node : container'[m] = EventList => m = n \/ container[m] = EventList
BY WaitEffect

-----------------------------------------------------------------------------
(* Levels.                                                                 *)

LevelsInvariant == LevelsTyped /\ LevelsNest /\ FlowsStayInChart

FlowPcs == {"call", "callEnd", "ran"}
ManagerPcs == {"idle", "timers", "events", "dispatch"}
CallerPcs == {"idle", "timers", "dispatch", "callEnd", "returned"}
ReturningPcs == {"return", "returned"}

\* What LevelsInvariant says of one level.
Settled(k) ==
  /\ level[k] \in LevelState
  /\ k < index => level[k].pc \in CallerPcs
  /\ k > index => level[k] = FreshLevel
  /\ k = 0 => /\ level[k].pc \in ManagerPcs /\ level[k].caller \in {"idle", "events"}
              /\ level[k].current = None
  /\ k \in 1..index => FlowOf(k)

\* The invariant of the levels says so of each of them.
LEMMA LevelsAreSettled ==
  ASSUME LevelsInvariant
  PROVE  /\ index \in Level /\ level \in [Level -> LevelState]
         /\ \A k \in Level : Settled(k)
<1>1. Level = 0..(MAX_STACK_SIZE - 1) /\ MAX_STACK_SIZE \in Nat \ {0} /\ 0 \in Level
  BY ConstantsAssumption DEF ConstantsAssumption, Level
<1> QED
  BY <1>1 DEF LevelsInvariant, LevelsTyped, LevelsNest, FlowsStayInChart, Settled, ManagerPcs, CallerPcs

\* Levels that are settled satisfy the invariant of the levels.
LEMMA SettledLevels ==
  ASSUME index' \in Level, level' \in [Level -> LevelState], \A k \in Level : Settled(k)'
  PROVE  LevelsInvariant'
<1>1. Level = 0..(MAX_STACK_SIZE - 1) /\ MAX_STACK_SIZE \in Nat \ {0} /\ 0 \in Level
  BY ConstantsAssumption DEF ConstantsAssumption, Level
<1>2. LevelsTyped'
  BY DEF LevelsTyped
<1>3. LevelsNest'
  BY <1>1 DEF LevelsNest, Settled, ManagerPcs, CallerPcs
<1>4. FlowsStayInChart'
  BY <1>1 DEF FlowsStayInChart, Settled
<1> QED BY <1>2, <1>3, <1>4 DEF LevelsInvariant

\* The flow of a level goes on.
LEMMA FlowGoesOn ==
  ASSUME NEW k, k # 0, FlowOf(k), StackKept(k),
         level'[k].chart = level[k].chart,
         level'[k].history \subseteq ChartNodes({level[k].chart}),
         level'[k].current = level[k].current,
         InCall(k)' => InCall(k),
         level'[k].pc \in ReturningPcs => level'[k].returning \in Chart
  PROVE  FlowOf(k)'
<1> DEFINE n == level[k].current
<1>1. n # None => n \in ChartNodes({level[k].chart}) /\ n \in Node
  BY DEF FlowOf, ChartNodes
<1>2. InCall(k) => n # None /\ (container[n] = k => Holds(n, stack[k]))
  BY DEF FlowOf
<1>3. InCall(k)' => n # None /\ (container'[n] = k => Holds(n, stack'[k]))
  BY <1>1, <1>2 DEF StackKept
<1>4. level[k].chart \in Chart /\ stack'[k] \in Seq(ChartNodes({level[k].chart}))
  BY DEF FlowOf, StackKept
<1> HIDE DEF n
<1>5. level'[k].current = n /\ ReturningPcs = {"return", "returned"}
  BY DEF n, ReturningPcs
<1>6. \A C : ChartNodes(C)' = ChartNodes(C)
  BY DEF ChartNodes
<1> QED BY <1>1, <1>3, <1>4, <1>5, <1>6 DEF FlowOf, Holds

\* A level whose record stays and whose stack keeps its type stays settled.
LEMMA SameLevel ==
  ASSUME NEW k \in Level, Settled(k), level'[k] = level[k],
         StackKept(k),
         k < index' => level[k].pc \in CallerPcs, k > index' => level[k] = FreshLevel,
         k <= index' => k <= index
  PROVE  Settled(k)'
<1>1. k \in Int /\ k >= 0
  BY LevelFacts
<1>2. ASSUME k \in 1..index' PROVE FlowOf(k)'
  <2>1. FlowOf(k) /\ k # 0
    BY <1>1, <1>2 DEF Settled
  <2>2. level[k].history \subseteq ChartNodes({level[k].chart})
    BY <2>1 DEF FlowOf
  <2>3. level[k].pc \in ReturningPcs => level[k].returning \in Chart
    BY <2>1 DEF FlowOf, ReturningPcs
  <2>4. InCall(k)' => InCall(k)
    BY DEF InCall
  <2> QED BY <2>1, <2>2, <2>3, <2>4, FlowGoesOn
<1> QED BY <1>2 DEF Settled

\* The flow of the top level goes on.
LEMMA FlowStays ==
  ASSUME index # 0, FlowOf(index), StackKept(index), index' = index,
         level'[index].chart = level[index].chart,
         level'[index].history \subseteq ChartNodes({level[index].chart}),
         level'[index].current = level[index].current,
         level'[index].pc \in FlowPcs \/ level'[index].caller = "callEnd" => InCall(index),
         level'[index].pc \in ReturningPcs => level'[index].returning \in Chart
  PROVE  FlowOf(index)'
<1>1. PICK k : k = index
  OBVIOUS
<1>2. FlowOf(k)'
  BY <1>1, FlowGoesOn DEF InCall, FlowPcs
<1> QED BY <1>1, <1>2

\* Only the record and the stack of the top level change.
LEMMA TopChanges ==
  ASSUME LevelsInvariant, index' = index, level' \in [Level -> LevelState],
         \A k \in Level \ {index} :
           level'[k] = level[k] /\ StackKept(k),
         Settled(index)'
  PROVE  LevelsInvariant'
<1>1. index \in Level /\ \A k \in Level : Settled(k)
  BY LevelsAreSettled
<1>2. ASSUME NEW k \in Level PROVE Settled(k)'
  <2>1. CASE k = index
    BY <2>1
  <2>2. CASE k # index
    <3>1. k < index' => level[k].pc \in CallerPcs
      BY <1>1 DEF Settled
    <3>2. k > index' => level[k] = FreshLevel
      BY <1>1 DEF Settled
    <3> QED BY <1>1, <2>2, <3>1, <3>2, SameLevel
  <2> QED BY <2>1, <2>2
<1> QED BY <1>1, <1>2, SettledLevels

\* The top level only moves to p: a flow's place if it runs a flow.
LEMMA GotoLevels ==
  ASSUME LevelsInvariant, StacksKept, NEW p \in Pcs, Goto(p),
         index = 0 => p \in ManagerPcs,
         index # 0 /\ p \in FlowPcs => InCall(index),
         index # 0 /\ p \in ReturningPcs => level[index].returning \in Chart
  PROVE  LevelsInvariant'
<1>1. index \in Level /\ level \in [Level -> LevelState] /\ Settled(index)
  BY LevelsAreSettled
<1>2. level' \in [Level -> LevelState] /\ index' = index
  BY <1>1 DEF Goto, LevelState
<1>3. level'[index] = [level[index] EXCEPT !.pc = p]
  BY <1>1 DEF Goto
<1>4. \A k \in Level \ {index} : level'[k] = level[k]
  BY <1>1 DEF Goto
<1>5. Settled(index)'
  <2>1. ASSUME index \in 1..index PROVE FlowOf(index)'
    <3>1. FlowOf(index) /\ index # 0
      BY <1>1, <2>1 DEF Settled
    <3>2. StackKept(index)
      BY <1>1 DEF StacksKept
    <3>3. /\ level'[index].chart = level[index].chart
          /\ level'[index].history \subseteq ChartNodes({level[index].chart})
          /\ level'[index].current = level[index].current
          /\ level'[index].pc \in ReturningPcs => level'[index].returning \in Chart
      BY <1>1, <1>3, <3>1 DEF LevelState, FlowOf
    <3>4. level'[index].pc \in FlowPcs \/ level'[index].caller = "callEnd" => InCall(index)
      BY <1>1, <1>3, <3>1 DEF LevelState, InCall
    <3> QED BY <1>2, <3>1, <3>2, <3>3, <3>4, FlowStays
  <2> QED BY <1>1, <1>2, <1>3, <2>1, LevelFacts DEF Settled, LevelState
<1> QED BY <1>2, <1>4, <1>5, TopChanges DEF StacksKept

\* Nodes belong to charts, and None is neither.
LEMMA ChartOfType == ChartOf \in [Node -> Chart] /\ None \notin Node /\ None \notin Chart
BY ConstantsAssumption DEF ConstantsAssumption

\* A flow of node n is called: the level below keeps its flow, the new one
\* starts with n's chart and the stack UnlinkAndPush has left there.
LEMMA CallLevels ==
  ASSUME LevelsInvariant, ~StackFull, NEW n \in Node, NEW p \in CallerPcs, CallFlow(n, p),
         \A k \in Level : k # index + 1 => StackKept(k),
         stack'[index + 1] \in Seq(ChartNodes({ChartOf[n]})),
         index = 0 => p \in ManagerPcs,
         index # 0 /\ p = "callEnd" => InCall(index),
         index # 0 /\ p = "returned" => level[index].returning \in Chart
  PROVE  LevelsInvariant'
<1>1. index \in Level /\ level \in [Level -> LevelState] /\ \A k \in Level : Settled(k)
  BY LevelsAreSettled
<1>2. index + 1 \in Level /\ index' = index + 1 /\ index \in Int /\ index >= 0
  BY <1>1, LevelFacts DEF StackFull, CallFlow
<1>3. level[index + 1] = FreshLevel
  BY <1>1, <1>2 DEF Settled
<1>4. level'[index] = [level[index] EXCEPT !.pc = p]
  BY <1>1, <1>2 DEF CallFlow
<1>5. level'[index + 1] = [level[index + 1] EXCEPT !.pc = "loop", !.chart = ChartOf[n]]
  BY <1>1, <1>2 DEF CallFlow
<1>6. \A k \in Level \ {index, index + 1} : level'[k] = level[k]
  BY <1>1, <1>2 DEF CallFlow
<1>7. level'[index] \in LevelState
  <2>1. level[index] \in LevelState /\ p \in Pcs
    BY <1>1 DEF CallerPcs, Pcs
  <2> QED BY <1>4, <2>1 DEF LevelState
<1>8. level'[index + 1] \in LevelState
  <2>1. level[index + 1] \in LevelState /\ ChartOf[n] \in Chart
    BY <1>1, <1>2, ChartOfType
  <2> QED BY <1>5, <2>1 DEF LevelState, Pcs
<1>9. level' \in [Level -> LevelState]
  BY <1>1, <1>2, <1>6, <1>7, <1>8 DEF CallFlow
<1>10. ASSUME NEW k \in Level PROVE Settled(k)'
  <2>1. CASE k = index
    <3>1. ASSUME k # 0 PROVE FlowOf(k)'
      <4>1. FlowOf(k) /\ index # 0 /\ index # index + 1
        BY <1>1, <1>2, <2>1, <3>1 DEF Settled
      <4>2. StackKept(k)
        BY <2>1, <4>1
      <4>3. /\ level'[k].pc = p /\ level'[k].chart = level[k].chart
            /\ level'[k].history = level[k].history
            /\ level'[k].current = level[k].current
            /\ level'[k].caller = level[k].caller
            /\ level'[k].returning = level[k].returning
        BY <1>1, <1>4, <2>1 DEF LevelState
      <4>4. p \notin {"call", "ran", "return"} /\ ReturningPcs = {"return", "returned"}
        BY DEF CallerPcs, ReturningPcs
      <4>5. InCall(k)' => InCall(k)
        BY <2>1, <4>1, <4>3, <4>4 DEF InCall
      <4>6. level'[k].history \subseteq ChartNodes({level[k].chart})
        BY <4>1, <4>3 DEF FlowOf
      <4> QED BY <2>1, <3>1, <4>1, <4>2, <4>3, <4>4, <4>5, <4>6, FlowGoesOn
    <3>2. /\ level'[k].pc = p
          /\ k = 0 => level[k].caller \in {"idle", "events"} /\ level[k].current = None
          /\ level'[k].caller = level[k].caller /\ level'[k].current = level[k].current
      BY <1>1, <1>4, <2>1 DEF LevelState, Settled
    <3> QED BY <1>2, <1>7, <2>1, <3>1, <3>2 DEF Settled
  <2>2. CASE k = index + 1
    <3>1. /\ level'[k].pc = "loop" /\ level'[k].chart = ChartOf[n]
          /\ level'[k].history = {} /\ level'[k].current = None
          /\ level'[k].caller = "idle"
      <4>1. level[k].history = {} /\ level[k].current = None /\ level[k].caller = "idle"
        BY <1>3, <2>2 DEF FreshLevel
      <4>2. level[k] \in LevelState
        BY <1>1
      <4> QED BY <1>5, <2>2, <4>1, <4>2 DEF LevelState
    <3>2. stack'[k] \in Seq(ChartNodes({level'[k].chart})) /\ level'[k].chart \in Chart
      BY <2>2, <3>1, ChartOfType
    <3>3. FlowOf(k)'
      BY <3>1, <3>2 DEF FlowOf, ChartNodes, InCall
    <3> QED BY <1>2, <1>8, <2>2, <3>3 DEF Settled
  <2>3. CASE k \notin {index, index + 1}
    <3>0. k \in Int
      BY LevelFacts
    <3>1. k < index' => level[k].pc \in CallerPcs
      BY <1>1, <1>2, <2>3, <3>0 DEF Settled
    <3>2. k > index' => level[k] = FreshLevel
      BY <1>1, <1>2, <2>3, <3>0 DEF Settled
    <3>3. k <= index' => k <= index
      BY <1>2, <2>3, <3>0
    <3> QED BY <1>1, <1>2, <1>6, <2>3, <3>1, <3>2, <3>3, SameLevel
  <2> QED BY <2>1, <2>2, <2>3
<1> QED BY <1>2, <1>9, <1>10, SettledLevels

-----------------------------------------------------------------------------
(* Charts.                                                                 *)

ChartsInvariant == ChartsTyped /\ SubchartNeedsOwner

\* C holds, with the owner's chart of a chart that exists, that chart.
IsClosed(C) == \A d \in created : OwnerNode[d] \in Node /\ ChartOf[OwnerNode[d]] \in C => d \in C

\* A chart with the charts below it is closed,
LEMMA ChartTreeIsClosed ==
  ASSUME NEW c \in Chart, created \subseteq Chart
  PROVE  IsClosed(ChartTree(c))
BY ChartsAssumption DEF ChartsAssumption, IsClosed, ChartTree

\* so are the charts an object hosts with those below them,
LEMMA HostedTreesAreClosed ==
  ASSUME NEW a, created \subseteq Chart
  PROVE  IsClosed(HostedTrees(a))
BY ChartsAssumption DEF ChartsAssumption, IsClosed, ChartTree, HostedTrees

\* and so are the subcharts of nodes with the charts below them.
LEMMA SubchartsAreClosed ==
  ASSUME NEW S, created \subseteq Chart
  PROVE  IsClosed(SubchartsOf(S))
BY ChartsAssumption DEF ChartsAssumption, IsClosed, ChartTree, SubchartsOf

\* The charts of C stop, and none of them loses its owner to that.
LEMMA ChartsStop ==
  ASSUME ChartsInvariant, NEW C, IsClosed(C), running' = running \ C, created' = created
  PROVE  ChartsInvariant'
<1>1. \A c \in running : c \notin Root => OwnerNode[c] \in Node
  BY ConstantsAssumption DEF ConstantsAssumption, ChartsInvariant, ChartsTyped, Root
<1> QED
  BY <1>1 DEF ChartsInvariant, ChartsTyped, SubchartNeedsOwner, IsClosed, IsRunning, Root

\* A chart starts whose owner's chart runs.
LEMMA ChartStarts ==
  ASSUME ChartsInvariant, NEW c \in Chart, running' = running \cup {c},
         created' \subseteq Chart, created \cup {c} \subseteq created',
         c \in Root \/ IsRunning(ChartOf[OwnerNode[c]])
  PROVE  ChartsInvariant'
BY DEF ChartsInvariant, ChartsTyped, SubchartNeedsOwner, IsRunning, Root

\* Charts that stay as they are keep their invariant.
LEMMA ChartsStay ==
  ASSUME ChartsInvariant, UNCHANGED charts
  PROVE  ChartsInvariant' /\ running' = running
BY DEF ChartsInvariant, ChartsTyped, SubchartNeedsOwner, IsRunning, Root, charts

-----------------------------------------------------------------------------
(* Nodes.                                                                  *)

\* Stopping nodes leaves well typed nodes.
LEMMA StoppedNodesType ==
  ASSUME NEW nodes \in [Node -> NodeState], NEW S
  PROVE  StoppedNodes(nodes, S) \in [Node -> NodeState]
<1>1. ASSUME NEW x \in NodeState
      PROVE  [x EXCEPT !.status = "Idle", !.result = "rSTOP", !.runFlag = FALSE,
                !.skip = FALSE, !.timer = "off", !.arrived = {}] \in NodeState
  BY DEF NodeState, Result
<1> QED BY <1>1 DEF StoppedNodes

\* Each node is quiet after a step, or belongs to a chart that runs, or to one
\* that did not run and woke nothing of it.
LEMMA QuietStays ==
  ASSUME StoppedChartIsQuiet,
         \A n \in Node :
           \/ ChartOf[n] \in running'
           \/ Status(n)' # "Running" /\ container'[n] # EventList /\ node'[n].timer = "off"
           \/ /\ ChartOf[n] \notin running
              /\ Status(n)' = "Running" => Status(n) = "Running"
              /\ container'[n] = EventList => container[n] = EventList
              /\ node'[n].timer # "off" => node[n].timer # "off"
  PROVE  StoppedChartIsQuiet'
BY DEF StoppedChartIsQuiet, IsRunning, EventList

\* Nodes that stay as they are stay quiet if they were.
LEMMA NodesStay ==
  ASSUME NodesTyped, StoppedChartIsQuiet, UNCHANGED <<node, running>>,
         \A n \in Node : container'[n] = EventList => container[n] = EventList
  PROVE  NodesTyped' /\ StoppedChartIsQuiet'
<1>1. \A n \in Node : Status(n)' = Status(n)
  BY DEF Status
<1>2. NodesTyped'
  BY DEF NodesTyped
<1> QED BY <1>1, <1>2, QuietStays

-----------------------------------------------------------------------------
(* The invariant and its parts.                                            *)

\* The invariant, in the parts the proofs are about.
LEMMA Parts ==
  QuietInvariant <=>
    /\ NodesTyped /\ StoppedChartIsQuiet /\ ChartsInvariant /\ LevelsInvariant
    /\ ListsTyped /\ QueuesTyped /\ CallsInRunningChart
BY DEF QuietInvariant, TypeOK, ChartsInvariant, LevelsInvariant

\* It holds after a step if its parts do.
LEMMA PartsNext ==
  ASSUME NodesTyped', StoppedChartIsQuiet', ChartsInvariant', LevelsInvariant',
         ListsTyped', QueuesTyped', CallsInRunningChart'
  PROVE  QuietInvariant'
BY DEF QuietInvariant, TypeOK, ChartsInvariant, LevelsInvariant

\* Only a level that calls a function or returns asks for a running chart.
LEMMA NothingCalled ==
  ASSUME level'[index'].pc \notin {"call", "return"}
  PROVE  CallsInRunningChart'
BY DEF CallsInRunningChart, At

\* Lists that stay as they are keep their types.
LEMMA ListsStay ==
  ASSUME ListsTyped, UNCHANGED lists
  PROVE  /\ ListsTyped' /\ StacksKept /\ UNCHANGED stack
         /\ \A n \in Node : container'[n] = EventList => container[n] = EventList
BY DEF ListsTyped, StacksKept, StackKept, lists

\* Levels that stay as they are stay settled.
LEMMA LevelsStay ==
  ASSUME LevelsInvariant, StacksKept, UNCHANGED <<index, level>>
  PROVE  LevelsInvariant'
<1>1. index \in Level /\ level \in [Level -> LevelState] /\ \A k \in Level : Settled(k)
  BY LevelsAreSettled
<1>2. ASSUME NEW k \in Level PROVE Settled(k)'
  BY <1>1, SameLevel DEF StacksKept, Settled
<1> QED BY <1>1, <1>2, SettledLevels

\* Queues that stay as they are keep their types.
LEMMA QueuesStay ==
  ASSUME QueuesTyped, UNCHANGED <<queues, events>>
  PROVE  QueuesTyped'
BY DEF QueuesTyped, queues, events

\* An event that is queued leaves a queue of events.
LEMMA EnqueueType ==
  ASSUME QueuesTyped, NEW ev \in Wait, Enqueue(ev)
  PROVE  inQueue' \in Seq(Wait)
BY DEF QueuesTyped, Enqueue

\* Goto changes where the top level is, and not which level it is.
LEMMA GotoPc ==
  ASSUME LevelsInvariant, NEW p, Goto(p)
  PROVE  level'[index'].pc = p /\ index' = index
<1>1. index \in Level /\ level \in [Level -> LevelState]
  BY LevelsAreSettled
<1> QED BY <1>1 DEF Goto, LevelState

\* A step of the top level to p that leaves lists, nodes and charts alone.
LEMMA JustGoto ==
  ASSUME QuietInvariant, NEW p \in Pcs \ {"call", "return"}, Goto(p),
         UNCHANGED <<node, charts, lists>>, QueuesTyped',
         index = 0 => p \in ManagerPcs,
         index # 0 /\ p \in FlowPcs => InCall(index),
         index # 0 /\ p \in ReturningPcs => level[index].returning \in Chart
  PROVE  QuietInvariant'
<1>1. ListsTyped' /\ StacksKept
  BY Parts, ListsStay
<1>2. LevelsInvariant'
  BY <1>1, Parts, GotoLevels
<1>3. CallsInRunningChart'
  BY Parts, GotoPc, NothingCalled
<1>4. ChartsInvariant' /\ running' = running
  BY Parts, ChartsStay
<1>5. NodesTyped' /\ StoppedChartIsQuiet'
  BY <1>4, Parts, ListsStay, NodesStay
<1> QED BY <1>1, <1>2, <1>3, <1>4, <1>5, PartsNext

\* What the invariant says of the top level.
LEMMA AtTop ==
  ASSUME QuietInvariant
  PROVE  /\ index \in Level /\ level[index] \in LevelState
         /\ index = 0 => level[index].pc \in ManagerPcs /\ level[index].current = None
         /\ index # 0 => index \in 1..index /\ FlowOf(index)
<1>1. index \in Level /\ Settled(index)
  BY Parts, LevelsAreSettled
<1>2. index # 0 => index \in 1..index
  BY <1>1, LevelFacts
<1> QED BY <1>1, <1>2 DEF Settled

\* The node of a call.
LEMMA CallerFacts ==
  ASSUME QuietInvariant, NEW n, NEW kind, Calls(n, kind)
  PROVE  /\ index # 0 /\ n = level[index].current /\ n \in Node /\ n # None
         /\ ChartOf[n] = level[index].chart /\ IsRunning(ChartOf[n])
         /\ index \in 1..index /\ FlowOf(index) /\ InCall(index)
<1>1. index > 0 /\ At("call") /\ n = level[index].current
  BY DEF Calls
<1>2. index # 0
  BY <1>1
<1>3. FlowOf(index) /\ index \in 1..index
  BY <1>2, AtTop
<1>4. n # None /\ n \in ChartNodes({level[index].chart}) /\ InCall(index)
  BY <1>1, <1>3 DEF FlowOf, At, InCall
<1>5. IsRunning(level[index].chart)
  BY <1>1, Parts DEF CallsInRunningChart
<1> QED BY <1>1, <1>2, <1>3, <1>4, <1>5 DEF ChartNodes

\* One node changes, of a chart that runs, or to be no less quiet.
LEMMA OneNode ==
  ASSUME NodesTyped, StoppedChartIsQuiet, running' = running,
         NEW n \in Node, NEW x \in NodeState, node' = [node EXCEPT ![n] = x],
         \A m \in Node : container'[m] = EventList =>
           (m = n /\ IsRunning(ChartOf[n])) \/ container[m] = EventList,
         \/ IsRunning(ChartOf[n])
         \/ /\ x.status = "Running" => Status(n) = "Running"
            /\ x.timer # "off" => node[n].timer # "off"
  PROVE  NodesTyped' /\ StoppedChartIsQuiet'
<1>1. node \in [Node -> NodeState]
  BY DEF NodesTyped
<1>2. NodesTyped'
  BY <1>1 DEF NodesTyped
<1>3. \A m \in Node \ {n} : Status(m)' = Status(m) /\ node'[m].timer = node[m].timer
  BY <1>1 DEF Status
<1>4. Status(n)' = x.status /\ node'[n].timer = x.timer
  BY <1>1 DEF Status
<1>5. StoppedChartIsQuiet'
  BY <1>3, <1>4, QuietStays DEF IsRunning
<1> QED BY <1>2, <1>5

\* What the invariant says of the node a flow visits.
LEMMA VisitFacts ==
  ASSUME QuietInvariant, NEW n, Visit(n)
  PROVE  /\ index # 0 /\ index \in 1..index /\ FlowOf(index) /\ At("loop")
         /\ n = Last(stack[index]) /\ stack[index] # <<>>
         /\ n \in ChartNodes({level[index].chart}) /\ n \in Node
         /\ IsRunning(ChartOf[n]) /\ ChartOf[n] = level[index].chart
<1>1. /\ At("loop") /\ stack[index] # <<>> /\ IsRunning(level[index].chart)
      /\ n = Last(stack[index])
  BY DEF Visit, InLoop, Top
<1>2. index # 0
  BY <1>1, AtTop DEF At, ManagerPcs
<1>3. FlowOf(index) /\ index \in 1..index
  BY <1>2, AtTop
<1>4. n \in ChartNodes({level[index].chart})
  BY <1>1, <1>3, LastType DEF FlowOf
<1> QED BY <1>1, <1>2, <1>3, <1>4 DEF ChartNodes

\* A flow visits a node, and its level goes on.
LEMMA VisitLevels ==
  ASSUME QuietInvariant, NEW n, Visit(n), NEW x \in LevelState,
         level' = [level EXCEPT ![index] = x], index' = index, StacksKept,
         x.pc \in {"loop", "ran", "call"}, x.pc # "loop" => x.current = n,
         x.chart = level[index].chart, x.caller = level[index].caller,
         x.history \subseteq level[index].history \cup {n},
         x.current \in {n, level[index].current}
  PROVE  LevelsInvariant'
<1>1. index \in Level /\ level \in [Level -> LevelState]
  BY Parts, LevelsAreSettled
<1>2. index # 0 /\ FlowOf(index) /\ n \in ChartNodes({level[index].chart}) /\ n \in Node
  BY VisitFacts
<1>3. level' \in [Level -> LevelState] /\ level'[index] = x
  BY <1>1
<1>4. stack'[index] \in Seq(ChartNodes({level[index].chart}))
  BY <1>1, <1>2 DEF FlowOf, StacksKept, StackKept
<1>5. n # None /\ Holds(n, stack[index])
  <2>1. stack[index] # <<>> /\ n = Last(stack[index]) /\ stack[index] \in Seq(ChartNodes({level[index].chart}))
    BY <1>2, VisitFacts DEF FlowOf
  <2> QED BY <1>2, <2>1, ChartOfType, LastType DEF Holds
<1>6. FlowOf(index)'
  <2>1. x.chart \in Chart /\ x.history \subseteq ChartNodes({x.chart})
        /\ (x.current # None => x.current \in ChartNodes({x.chart}))
    BY <1>2 DEF FlowOf
  <2>2. x.pc \notin ReturningPcs /\ ReturningPcs = {"return", "returned"}
    BY DEF ReturningPcs
  <2>3. x.pc \in FlowPcs \/ x.caller = "callEnd" =>
          /\ x.current # None
          /\ container'[x.current] = index => Holds(x.current, stack'[index])
    <3>1. \A m \in Node : (container[m] = index => Holds(m, stack[index]))
                           => (container'[m] = index => Holds(m, stack'[index]))
      BY <1>1, <1>2 DEF StacksKept, StackKept
    <3>2. container'[n] = index => Holds(n, stack'[index])
      BY <1>2, <1>5, <3>1
    <3>3. CASE x.current = n
      BY <1>5, <3>2, <3>3
    <3>4. CASE x.current # n
      <4>1. x.pc = "loop" /\ x.current = level[index].current
        BY <3>4
      <4>2. x.caller = "callEnd" => InCall(index)
        BY DEF InCall
      <4>3. InCall(index) =>
              /\ level[index].current # None /\ level[index].current \in Node
              /\ container[level[index].current] = index => Holds(level[index].current, stack[index])
        BY <1>2 DEF FlowOf, ChartNodes
      <4> QED BY <3>1, <4>1, <4>2, <4>3 DEF FlowPcs
    <3> QED BY <3>3, <3>4
  <2>4. \A C : ChartNodes(C)' = ChartNodes(C)
    BY DEF ChartNodes
  <2>5. PICK k : k = index
    OBVIOUS
  <2>6. FlowOf(k)'
    BY <1>3, <1>4, <2>1, <2>2, <2>3, <2>4, <2>5 DEF FlowOf, InCall, Holds, FlowPcs
  <2> QED BY <2>5, <2>6
<1>7. Settled(index)'
  BY <1>1, <1>2, <1>3, <1>6, LevelFacts DEF Settled
<1>8. \A k \in Level \ {index} : level'[k] = level[k]
  BY <1>1
<1> QED BY <1>3, <1>7, <1>8, Parts, TopChanges DEF StacksKept

\* A call that changes the node that makes it, whose chart runs.
LEMMA CallOfNode ==
  ASSUME QuietInvariant, NEW n, NEW kind, Calls(n, kind),
         NEW y \in NodeState, node' = [node EXCEPT ![n] = y],
         Goto("callEnd"), UNCHANGED <<charts, queues, events>>,
         ListsTyped', StacksKept,
         \A m \in Node : container'[m] = EventList => m = n \/ container[m] = EventList
  PROVE  QuietInvariant'
<1>1. /\ index # 0 /\ InCall(index) /\ n \in Node /\ IsRunning(ChartOf[n])
  BY CallerFacts
<1>2. LevelsInvariant' /\ CallsInRunningChart'
  BY <1>1, Parts, GotoLevels, GotoPc, NothingCalled DEF Pcs, ReturningPcs
<1>3. ChartsInvariant' /\ running' = running
  BY Parts, ChartsStay
<1>4. NodesTyped' /\ StoppedChartIsQuiet'
  BY <1>1, <1>3, Parts, OneNode
<1>5. QueuesTyped'
  BY Parts, QueuesStay
<1> QED BY <1>2, <1>3, <1>4, <1>5, PartsNext

\* The flow of n is called on the next executor, after the nodes of S have left
\* their lists.
LEMMA FlowCalled ==
  ASSUME QuietInvariant, ~StackFull, NEW S, NEW n \in Node, NEW p \in CallerPcs,
         UnlinkAndPush(S, n, index + 1, TRUE), CallFlow(n, p),
         index = 0 => p \in ManagerPcs,
         index # 0 /\ p = "callEnd" => InCall(index),
         index # 0 /\ p = "returned" => level[index].returning \in Chart
  PROVE  /\ ListsTyped' /\ LevelsInvariant' /\ CallsInRunningChart'
         /\ \A m \in Node : container'[m] = EventList => container[m] = EventList /\ m \notin S
<1>1. index \in Level /\ level \in [Level -> LevelState]
  BY Parts, LevelsAreSettled
<1>2. index + 1 \in Level /\ index \in Int
  BY <1>1, LevelFacts DEF StackFull
<1>3. n \in ChartNodes({ChartOf[n]})
  BY DEF ChartNodes
<1>4. /\ ListsTyped'
      /\ \A k \in Level : k # index + 1 => StackKept(k)
      /\ stack'[index + 1] \in Seq(ChartNodes({ChartOf[n]}))
      /\ \A m \in Node : container'[m] = EventList => container[m] = EventList /\ m \notin S
  <2>1. ListsTyped /\ UnlinkAndPush(S, n, index + 1, TRUE)
    BY Parts
  <2> QED BY <1>2, <1>3, <2>1, PushOnNext
<1>5. LevelsInvariant'
  BY <1>4, Parts, CallLevels
<1>6. index' = index + 1 /\ level'[index + 1].pc = "loop"
  BY <1>1, <1>2 DEF CallFlow, LevelState
<1>7. CallsInRunningChart'
  BY <1>6, NothingCalled
<1> QED BY <1>4, <1>5, <1>7

\* Agent::StartChart: a chart that may start does so.
LEMMA ChartIsStarted ==
  ASSUME QuietInvariant, NEW c \in Chart, NEW sync \in BOOLEAN, NEW nodes \in [Node -> NodeState],
         NEW p \in {"idle", "callEnd"}, StartChart(c, sync, nodes, p),
         created' \subseteq Chart, created \cup {c} \subseteq created',
         c \in Root \/ IsRunning(ChartOf[OwnerNode[c]]),
         \A m \in Node : ChartOf[m] \notin running => nodes[m] = node[m],
         index = 0 => p = "idle",
         index # 0 => p = "callEnd" /\ InCall(index)
  PROVE  /\ ListsTyped' /\ LevelsInvariant' /\ CallsInRunningChart' /\ ChartsInvariant'
         /\ NodesTyped' /\ StoppedChartIsQuiet' /\ inQueue' \in Seq(Wait)
<1> DEFINE s == StartNode[c]
           now == sync /\ ~StackFull
           w == <<AgentOf[c], START>>
           x == [nodes[s] EXCEPT !.skip = TRUE, !.result = "rTRUE",
                                 !.status = IF now THEN "Idle" ELSE "Running"]
<1>1. s \in Node /\ ChartOf[s] = c /\ w \in Wait
  BY ConstantsAssumption DEF ConstantsAssumption, Wait
<1>2. running' = running \cup {c} /\ node' = [nodes EXCEPT ![s] = x]
  <2>1. node' = [nodes EXCEPT ![s].skip = TRUE, ![s].result = "rTRUE",
                              ![s].status = IF now THEN "Idle" ELSE "Running"]
    BY DEF StartChart
  <2>2. nodes[s] \in NodeState
    BY <1>1
  <2> QED BY <1>1, <2>1, <2>2 DEF StartChart, NodeState
<1>3. x \in NodeState
  <2>1. nodes[s] \in NodeState
    BY <1>1
  <2> QED BY <2>1 DEF NodeState, Result
<1>4. ChartsInvariant'
  BY <1>2, Parts, ChartStarts
<1>5. /\ ListsTyped' /\ LevelsInvariant' /\ CallsInRunningChart' /\ inQueue' \in Seq(Wait)
      /\ \A m \in Node : container'[m] = EventList => container[m] = EventList \/ m = s
  <2>1. CASE now
    <3>1. UnlinkAndPush({}, s, index + 1, TRUE) /\ CallFlow(s, p) /\ UNCHANGED inQueue
      BY <2>1 DEF StartChart
    <3>2. p \in CallerPcs /\ (index = 0 => p \in ManagerPcs)
      BY DEF CallerPcs, ManagerPcs
    <3>3. /\ ListsTyped' /\ LevelsInvariant' /\ CallsInRunningChart'
          /\ \A m \in Node : container'[m] = EventList => container[m] = EventList
      <4>1. ~StackFull /\ (index # 0 => p # "returned")
        BY <2>1
      <4> HIDE DEF s
      <4> QED BY <1>1, <3>1, <3>2, <4>1, FlowCalled
    <3> QED BY <3>1, <3>3, Parts DEF QueuesTyped
  <2>2. CASE ~now
    <3>1. UnlinkAndWait({}, s, w) /\ Enqueue(w) /\ Goto(p)
      BY <2>2 DEF StartChart
    <3> HIDE DEF s, w, x, now
    <3>2. /\ ListsTyped' /\ StacksKept
          /\ \A m \in Node : container'[m] = EventList => m = s \/ container[m] = EventList
      <4>1. ListsTyped /\ s \in Node /\ w \in Wait /\ UnlinkAndWait({}, s, w)
        BY <1>1, <3>1, Parts
      <4> QED BY <4>1, JustWaits
    <3>3. LevelsInvariant'
      BY <3>1, <3>2, Parts, GotoLevels DEF Pcs, ManagerPcs, ReturningPcs
    <3>4. CallsInRunningChart'
      BY <3>1, Parts, GotoPc, NothingCalled
    <3>5. inQueue' \in Seq(Wait)
      BY <1>1, <3>1, Parts, EnqueueType
    <3> QED BY <3>2, <3>3, <3>4, <3>5
  <2> QED BY <2>1, <2>2
<1>6. NodesTyped'
  BY <1>1, <1>2, <1>3 DEF NodesTyped
<1>7. StoppedChartIsQuiet'
  <2> HIDE DEF s, x, now
  <2>1. ASSUME NEW m \in Node, ChartOf[m] \notin running'
        PROVE  /\ ChartOf[m] \notin running /\ Status(m)' = Status(m)
               /\ container'[m] = EventList => container[m] = EventList
               /\ node'[m].timer = node[m].timer
    <3>1. ChartOf[m] \notin running /\ m # s
      BY <1>1, <1>2, <2>1
    <3>2. node'[m] = node[m]
      BY <1>2, <3>1
    <3> QED BY <1>5, <3>1, <3>2 DEF Status
  <2> QED BY <2>1, Parts, QuietStays
<1> QED BY <1>4, <1>5, <1>6, <1>7

\* The top level starts a dispatch and is going to return to p.
LEMMA DispatchIsStarted ==
  ASSUME QuietInvariant, NEW ev \in Wait, NEW after \in Wait \cup {NoEvent},
         NEW p \in {"idle", "events", "callEnd"}, StartDispatch(ev, after, p),
         UNCHANGED <<stack, container>>,
         index = 0 => p \in {"idle", "events"},
         index # 0 => InCall(index)
  PROVE  /\ ListsTyped' /\ LevelsInvariant' /\ CallsInRunningChart'
         /\ currentEvent' = ev /\ UNCHANGED index
<1> DEFINE x == [level[index] EXCEPT !.pc = "dispatch", !.caller = p,
                                     !.event = ev, !.prevEvent = after]
<1>1. index \in Level /\ level \in [Level -> LevelState] /\ Settled(index)
  BY Parts, LevelsAreSettled
<1>2. level' = [level EXCEPT ![index] = x] /\ index' = index /\ currentEvent' = ev
  <2>1. level' = [level EXCEPT ![index].pc = "dispatch", ![index].caller = p,
                               ![index].event = ev, ![index].prevEvent = after]
    BY DEF StartDispatch
  <2> QED BY <1>1, <2>1 DEF StartDispatch
<1>3. level[index] \in LevelState /\ p \in {"idle", "events", "callEnd", "end"}
  BY <1>1
<1>4. x \in LevelState
  BY <1>3 DEF LevelState, Pcs
<1>5. /\ x.pc = "dispatch" /\ x.caller = p /\ x.chart = level[index].chart
      /\ x.history = level[index].history /\ x.current = level[index].current
  BY <1>1 DEF LevelState
<1> HIDE DEF x
<1>6. StacksKept /\ \A k \in Level \ {index} : level'[k] = level[k]
  BY <1>1, <1>2 DEF StacksKept, StackKept
<1>7. level'[index] = x /\ level' \in [Level -> LevelState]
  BY <1>1, <1>2, <1>4
<1>8. Settled(index)'
  <2>1. ASSUME index \in 1..index PROVE FlowOf(index)'
    <3>1. FlowOf(index) /\ index # 0
      BY <1>1, <2>1 DEF Settled
    <3>2. StackKept(index) /\ level[index].history \subseteq ChartNodes({level[index].chart})
      BY <1>1, <1>6, <3>1 DEF StacksKept, FlowOf
    <3>3. level'[index].pc \in FlowPcs \/ level'[index].caller = "callEnd" => InCall(index)
      BY <1>5, <1>7, <3>1 DEF FlowPcs, InCall
    <3>4. level'[index].pc \notin ReturningPcs
      BY <1>5, <1>7 DEF ReturningPcs
    <3> QED BY <1>2, <1>5, <1>7, <3>1, <3>2, <3>3, <3>4, FlowStays
  <2> QED BY <1>1, <1>2, <1>4, <1>5, <1>7, <2>1, LevelFacts DEF Settled, ManagerPcs, CallerPcs
<1>9. LevelsInvariant'
  BY <1>2, <1>6, <1>7, <1>8, Parts, TopChanges DEF StacksKept
<1>10. CallsInRunningChart'
  BY <1>2, <1>5, <1>7, NothingCalled
<1>11. ListsTyped'
  <2>1. waiting' = [waiting EXCEPT ![ev] = <<>>]
        /\ handling' = [handling EXCEPT ![index] = waiting[ev]]
    BY DEF StartDispatch
  <2> QED BY <1>1, <2>1, Parts DEF ListsTyped
<1> QED BY <1>2, <1>9, <1>10, <1>11

\* Nodes and charts stay, and no node begins to wait for an event.
LEMMA NodesAndChartsStay ==
  ASSUME QuietInvariant, UNCHANGED <<node, charts, container>>
  PROVE  ChartsInvariant' /\ NodesTyped' /\ StoppedChartIsQuiet'
<1>1. ChartsInvariant' /\ running' = running
  BY Parts, ChartsStay
<1> QED BY <1>1, Parts, NodesStay

\* Manager::Event with trigger.
LEMMA EventIsTriggered ==
  ASSUME QuietInvariant, NEW ev \in Wait, NEW p \in {"idle", "callEnd"}, TriggerEvent(ev, p),
         index = 0 => p = "idle",
         index # 0 => InCall(index)
  PROVE  QuietInvariant'
<1>1. UNCHANGED <<node, charts, container, stack, outQueue>>
  BY DEF TriggerEvent
<1>2. ChartsInvariant' /\ NodesTyped' /\ StoppedChartIsQuiet'
  BY <1>1, NodesAndChartsStay
<1>3. ASSUME Goto(p), UNCHANGED <<waiting, handling>>
      PROVE  ListsTyped' /\ LevelsInvariant' /\ CallsInRunningChart'
  <2>1. ListsTyped' /\ StacksKept
    BY <1>1, <1>3, Parts, ListsStay DEF lists
  <2>2. LevelsInvariant'
    BY <1>3, <2>1, Parts, GotoLevels DEF Pcs, ManagerPcs, ReturningPcs
  <2>3. CallsInRunningChart'
    BY <1>3, Parts, GotoPc, NothingCalled
  <2> QED BY <2>1, <2>2, <2>3
<1>4. CASE waiting[ev] = <<>>
  <2>1. Goto(p) /\ UNCHANGED <<waiting, handling, inQueue, events>>
    BY <1>4 DEF TriggerEvent
  <2>2. QueuesTyped'
    BY <1>1, <2>1, Parts, QueuesStay DEF queues
  <2> QED BY <1>2, <1>3, <2>1, <2>2, PartsNext
<1>5. CASE waiting[ev] # <<>> /\ eventFrame >= MAX_EVENT_FRAME
  <2>1. Enqueue(ev) /\ Goto(p) /\ UNCHANGED <<waiting, handling, events>>
    BY <1>5, Parts, ConstantsAssumption DEF TriggerEvent, ConstantsAssumption, QueuesTyped
  <2>2. QueuesTyped'
    BY <1>1, <2>1, Parts, EnqueueType DEF QueuesTyped, events
  <2> QED BY <1>2, <1>3, <2>1, <2>2, PartsNext
<1>6. CASE waiting[ev] # <<>> /\ ~(eventFrame >= MAX_EVENT_FRAME)
  <2>1. StartDispatch(ev, currentEvent, p) /\ eventFrame' = eventFrame + 1 /\ UNCHANGED inQueue
    BY <1>6 DEF TriggerEvent
  <2>2. currentEvent \in Wait \cup {NoEvent} /\ eventFrame \in Int
    BY Parts DEF QueuesTyped
  <2>3. /\ ListsTyped' /\ LevelsInvariant' /\ CallsInRunningChart'
        /\ currentEvent' = ev
    BY <1>1, <2>1, <2>2, DispatchIsStarted
  <2>4. QueuesTyped'
    BY <1>1, <2>1, <2>2, <2>3, Parts DEF QueuesTyped
  <2> QED BY <1>2, <2>3, <2>4, PartsNext
<1> QED BY <1>4, <1>5, <1>6

\* The record of the top level changes, and its flow goes on.
LEMMA LevelGoesOn ==
  ASSUME QuietInvariant, index # 0, index' = index, StacksKept, NEW x \in LevelState,
         level' = [level EXCEPT ![index] = x],
         x.chart = level[index].chart,
         x.history \subseteq ChartNodes({level[index].chart}),
         x.current = level[index].current,
         x.pc \in FlowPcs \/ x.caller = "callEnd" => InCall(index),
         x.pc \in ReturningPcs => x.returning \in Chart
  PROVE  LevelsInvariant' /\ level'[index'] = x
<1>1. index \in Level /\ level \in [Level -> LevelState] /\ FlowOf(index)
  BY Parts, LevelsAreSettled, AtTop
<1>2. level'[index] = x /\ level' \in [Level -> LevelState]
      /\ \A k \in Level \ {index} : level'[k] = level[k]
  BY <1>1
<1>3. StackKept(index)
  BY <1>1 DEF StacksKept
<1>4. FlowOf(index)'
  BY <1>1, <1>2, <1>3, FlowStays
<1>5. Settled(index)'
  BY <1>1, <1>2, <1>4, LevelFacts DEF Settled
<1>6. LevelsInvariant'
  BY <1>2, <1>5, Parts, TopChanges DEF StacksKept
<1> QED BY <1>2, <1>6

\* The successors of a node are nodes of its chart.
LEMMA SuccessorsType ==
  ASSUME NEW n \in Node, NodesTyped
  PROVE  Successors(n) \in Seq(ChartNodes({ChartOf[n]}))
<1>1. ASSUME NEW b \in BOOLEAN PROVE Child[n][b] \in Seq(ChartNodes({ChartOf[n]}))
  <2>1. Child[n][b] \in Seq(Node)
    BY ConstantsAssumption DEF ConstantsAssumption
  <2>2. \A i \in 1..Len(Child[n][b]) : Child[n][b][i] \in ChartNodes({ChartOf[n]})
    BY <2>1, ChartsAssumption DEF ChartsAssumption, ChartNodes
  <2> QED BY <2>1, <2>2, SeqOf
<1>2. (node[n].result = "rTRUE") \in BOOLEAN
  OBVIOUS
<1>3. <<>> \in Seq(ChartNodes({ChartOf[n]}))
  OBVIOUS
<1> QED BY <1>1, <1>2, <1>3 DEF Successors

\* The charts of C stop with all their nodes, which are among the nodes of S.
LEMMA NodesAreStopped ==
  ASSUME QuietInvariant, NEW nodes \in [Node -> NodeState], NEW S, NEW C, IsClosed(C),
         node' = StoppedNodes(nodes, S), ChartNodes(C) \subseteq S,
         running' = running \ C, created' = created,
         \A m \in Node : nodes[m].status = node[m].status /\ nodes[m].timer = node[m].timer,
         \A m \in Node : container'[m] = EventList => container[m] = EventList /\ m \notin S
  PROVE  ChartsInvariant' /\ NodesTyped' /\ StoppedChartIsQuiet'
<1>1. ChartsInvariant'
  BY Parts, ChartsStop
<1>2. NodesTyped'
  BY StoppedNodesType DEF NodesTyped
<1>3. ASSUME NEW m \in Node, m \in S
      PROVE  Status(m)' # "Running" /\ container'[m] # EventList /\ node'[m].timer = "off"
  <2>1. nodes[m] \in NodeState
    OBVIOUS
  <2>2. node'[m] = [nodes[m] EXCEPT !.status = "Idle", !.result = "rSTOP", !.runFlag = FALSE,
                                    !.skip = FALSE, !.timer = "off", !.arrived = {}]
    BY <1>3 DEF StoppedNodes
  <2> QED BY <1>3, <2>1, <2>2 DEF Status, NodeState
<1>4. ASSUME NEW m \in Node, m \notin S, ChartOf[m] \notin running'
      PROVE  /\ ChartOf[m] \notin running
             /\ Status(m)' = Status(m) /\ node'[m].timer = node[m].timer
  <2>1. node'[m] = nodes[m] /\ m \notin ChartNodes(C)
    BY <1>4 DEF StoppedNodes
  <2>2. Status(m)' = Status(m) /\ node'[m].timer = node[m].timer
    BY <2>1 DEF Status
  <2> QED BY <1>4, <2>1, <2>2 DEF ChartNodes
<1>5. StoppedChartIsQuiet'
  BY <1>3, <1>4, Parts, QuietStays
<1> QED BY <1>1, <1>2, <1>5

\* Chart::Stop: the chart and those below it, with all their nodes.
LEMMA ChartIsStopped ==
  ASSUME QuietInvariant, NEW c \in Chart, StopChart(c), created' = created
  PROVE  /\ ListsTyped' /\ StacksKept
         /\ ChartsInvariant' /\ NodesTyped' /\ StoppedChartIsQuiet'
<1> DEFINE S == ChartNodes(ChartTree(c))
<1>1. /\ node' = StoppedNodes(node, S) /\ Unlink(S) /\ running' = running \ ChartTree(c)
  BY DEF StopChart
<1>2. IsClosed(ChartTree(c))
  BY Parts, ChartTreeIsClosed DEF ChartsInvariant, ChartsTyped
<1>3. node \in [Node -> NodeState]
  BY Parts DEF NodesTyped
<1>4. ChartNodes(ChartTree(c)) \subseteq S
  OBVIOUS
<1> HIDE DEF S
<1>5. /\ ListsTyped' /\ StacksKept
      /\ \A m \in Node : container'[m] = EventList => container[m] = EventList /\ m \notin S
  BY <1>1, Parts, UnlinkEffect
<1>6. ChartsInvariant' /\ NodesTyped' /\ StoppedChartIsQuiet'
  BY <1>1, <1>2, <1>3, <1>4, <1>5, NodesAreStopped
<1> QED BY <1>5, <1>6

\* Node::Stop: the subcharts of the node, with all their nodes.
LEMMA NodesOfStop ==
  ASSUME QuietInvariant, NEW T, StopNodes(T), created' = created
  PROVE  /\ ListsTyped' /\ StacksKept
         /\ ChartsInvariant' /\ NodesTyped' /\ StoppedChartIsQuiet'
<1> DEFINE S == WithSubcharts(T)
<1>1. /\ node' = StoppedNodes(node, S) /\ Unlink(S) /\ running' = running \ SubchartsOf(T)
  BY DEF StopNodes
<1>2. IsClosed(SubchartsOf(T))
  BY Parts, SubchartsAreClosed DEF ChartsInvariant, ChartsTyped
<1>3. node \in [Node -> NodeState]
  BY Parts DEF NodesTyped
<1>4. ChartNodes(SubchartsOf(T)) \subseteq S
  BY DEF WithSubcharts
<1> HIDE DEF S
<1>5. /\ ListsTyped' /\ StacksKept
      /\ \A m \in Node : container'[m] = EventList => container[m] = EventList /\ m \notin S
  BY <1>1, Parts, UnlinkEffect
<1>6. ChartsInvariant' /\ NodesTyped' /\ StoppedChartIsQuiet'
  BY <1>1, <1>2, <1>3, <1>4, <1>5, NodesAreStopped
<1> QED BY <1>5, <1>6

\* Stopping nodes of a chart does not stop the chart: it is not below itself.
LEMMA OwnersChartStays ==
  ASSUME NEW c \in Chart, NEW S, S \subseteq ChartNodes({c})
  PROVE  c \notin SubchartsOf(S)
<1> SUFFICES ASSUME NEW d \in Chart, OwnerNode[d] \in S, c \in Under[d] PROVE FALSE
  BY DEF SubchartsOf, ChartTree
<1>1. OwnerNode[d] \in Node /\ ChartOf[OwnerNode[d]] = c
  BY DEF ChartNodes
<1> QED BY <1>1, ChartsAssumption DEF ChartsAssumption

-----------------------------------------------------------------------------
(* The actions.                                                            *)

\* asyncflow.event, called by the game.
LEMMA RaiseStep ==
  ASSUME QuietInvariant, NEW w \in Raised, Raise(w)
  PROVE  QuietInvariant'
<1>1. w \in Wait
  BY ConstantsAssumption DEF ConstantsAssumption
<1>2. UNCHANGED <<node, charts, index, level, lists, outQueue, events>> /\ Enqueue(w) /\ AtRest
  BY DEF Raise, CallsIn
<1>3. QueuesTyped'
  BY <1>1, <1>2, Parts, EnqueueType DEF QueuesTyped, events
<1>4. ListsTyped' /\ LevelsInvariant'
  BY <1>2, Parts, ListsStay, LevelsStay
<1>5. CallsInRunningChart'
  BY <1>2, NothingCalled DEF AtRest, At
<1>6. ChartsInvariant' /\ NodesTyped' /\ StoppedChartIsQuiet'
  BY <1>2, Parts, ListsStay, ChartsStay, NodesStay
<1> QED BY <1>3, <1>4, <1>5, <1>6, PartsNext

\* Manager::Step returns.
LEMMA EndStepStep ==
  ASSUME QuietInvariant, EndStep
  PROVE  QuietInvariant'
<1>1. index = 0 /\ Goto("idle") /\ UNCHANGED <<node, charts, lists, queues, events>>
  BY DEF EndStep
<1>2. QueuesTyped'
  BY <1>1, Parts, QueuesStay
<1> QED BY <1>1, <1>2, JustGoto DEF Pcs, ManagerPcs

\* EventQueue::Switch.
LEMMA SwitchQueuesStep ==
  ASSUME QuietInvariant, SwitchQueues
  PROVE  QuietInvariant'
<1>1. index = 0 /\ Goto("events") /\ UNCHANGED <<node, charts, lists, events>>
  BY DEF SwitchQueues
<1>2. QueuesTyped'
  BY <1>1, Parts DEF QueuesTyped, SwitchQueues, events
<1> QED BY <1>1, <1>2, JustGoto DEF Pcs, ManagerPcs

\* The loop of RunFlow ends.
LEMMA LoopExitStep ==
  ASSUME QuietInvariant, LoopExit
  PROVE  QuietInvariant'
<1>1. At("loop") /\ Goto("restore") /\ UNCHANGED <<node, charts, lists, queues, events>>
  BY DEF LoopExit
<1>2. index # 0
  BY <1>1, AtTop DEF At, ManagerPcs
<1>3. QueuesTyped'
  BY <1>1, Parts, QueuesStay
<1> QED BY <1>1, <1>2, <1>3, JustGoto DEF Pcs, FlowPcs, ReturningPcs

\* Chart::Return of a chart that has no owner.
LEMMA ReturnOfRootStep ==
  ASSUME QuietInvariant, ReturnOfRoot
  PROVE  QuietInvariant'
<1>1. At("return") /\ Goto("returned") /\ UNCHANGED <<node, charts, lists, queues, events>>
  BY DEF ReturnOfRoot
<1>2. index # 0 /\ level[index].returning \in Chart
  BY <1>1, AtTop DEF At, ManagerPcs, FlowOf
<1>3. QueuesTyped'
  BY <1>1, Parts, QueuesStay
<1> QED BY <1>1, <1>2, <1>3, JustGoto DEF Pcs, FlowPcs

\* A function that calls nothing of the runtime.
LEMMA CallFuncStep ==
  ASSUME QuietInvariant, CallFunc
  PROVE  QuietInvariant'
<1>1. PICK n \in Node : Calls(n, "func")
  BY DEF CallFunc
<1>2. Goto("callEnd") /\ UNCHANGED <<node, charts, lists, queues, events>>
  BY DEF CallFunc
<1>3. QueuesTyped'
  BY <1>2, Parts, QueuesStay
<1>4. index # 0 /\ InCall(index)
  BY <1>1, CallerFacts
<1> QED BY <1>2, <1>3, <1>4, JustGoto DEF Pcs, FlowPcs, ReturningPcs

\* asyncflow.event, called by a node.
LEMMA CallRaiseStep ==
  ASSUME QuietInvariant, CallRaise
  PROVE  QuietInvariant'
<1>1. PICK n \in Node : Calls(n, "raise") /\ Enqueue(Names[n])
  BY DEF CallRaise
<1>2. Goto("callEnd") /\ UNCHANGED <<node, charts, lists, outQueue, events>>
  BY DEF CallRaise
<1>3. Names[n] \in Wait
  BY ConstantsAssumption DEF ConstantsAssumption
<1>4. QueuesTyped'
  BY <1>1, <1>2, <1>3, Parts, EnqueueType DEF QueuesTyped, events
<1>5. index # 0 /\ InCall(index)
  BY <1>1, CallerFacts
<1> QED BY <1>2, <1>4, <1>5, JustGoto DEF Pcs, FlowPcs, ReturningPcs

\* AgentTimer::execute.
LEMMA FireAgentTimerStep ==
  ASSUME QuietInvariant, NEW a \in Agent, FireAgentTimer(a)
  PROVE  QuietInvariant'
<1>1. <<a, TICK>> \in Wait
  BY ConstantsAssumption DEF ConstantsAssumption, Wait
<1>2. /\ UNCHANGED <<node, charts, index, level, lists, outQueue, events>>
      /\ Enqueue(<<a, TICK>>) /\ At("timers")
  BY DEF FireAgentTimer
<1>3. QueuesTyped'
  BY <1>1, <1>2, Parts, EnqueueType DEF QueuesTyped, events
<1>4. ListsTyped' /\ LevelsInvariant'
  BY <1>2, Parts, ListsStay, LevelsStay
<1>5. CallsInRunningChart'
  BY <1>2, NothingCalled DEF At
<1>6. ChartsInvariant' /\ NodesTyped' /\ StoppedChartIsQuiet'
  BY <1>2, Parts, ListsStay, ChartsStay, NodesStay
<1> QED BY <1>3, <1>4, <1>5, <1>6, PartsNext

\* Manager::Step begins: timers become due.
LEMMA BeginStepStep ==
  ASSUME QuietInvariant, NEW due, BeginStep(due)
  PROVE  QuietInvariant'
<1>1. /\ AtRest /\ Goto("timers") /\ UNCHANGED <<charts, lists, queues, events>>
      /\ node' = [n \in Node |-> IF n \in due THEN [node[n] EXCEPT !.timer = "due"] ELSE node[n]]
      /\ due \subseteq Armed
  BY DEF BeginStep
<1>2. QueuesTyped'
  BY <1>1, Parts, QueuesStay
<1>3. ListsTyped' /\ StacksKept /\ \A n \in Node : container'[n] = EventList => container[n] = EventList
  BY <1>1, Parts, ListsStay
<1>4. LevelsInvariant' /\ CallsInRunningChart'
  BY <1>1, <1>3, Parts, GotoLevels, GotoPc, NothingCalled DEF AtRest, Pcs, ManagerPcs
<1>5. ChartsInvariant' /\ running' = running
  BY <1>1, Parts, ChartsStay
<1>6. node \in [Node -> NodeState]
  BY Parts DEF NodesTyped
<1>7. \A x \in NodeState : [x EXCEPT !.timer = "due"] \in NodeState /\ [x EXCEPT !.timer = "due"].status = x.status
  BY DEF NodeState
<1>8. NodesTyped'
  BY <1>1, <1>6, <1>7 DEF NodesTyped
<1>9. \A n \in Node : Status(n)' = Status(n) /\ (node'[n].timer # "off" => node[n].timer # "off")
  BY <1>1, <1>6, <1>7 DEF Status, Armed
<1>10. StoppedChartIsQuiet'
  BY <1>3, <1>5, <1>9, Parts, QuietStays DEF StoppedChartIsQuiet, IsRunning
<1> QED BY <1>2, <1>3, <1>4, <1>5, <1>8, <1>10, PartsNext

\* Node::Run.
LEMMA RunNodeStep ==
  ASSUME QuietInvariant, RunNode
  PROVE  QuietInvariant'
<1>1. PICK n \in Node :
        /\ Visit(n)
        /\ level' = [level EXCEPT ![index].count = @ + 1, ![index].current = n,
                                  ![index].pc = IF node[n].skip THEN "ran" ELSE "call"]
        /\ node' = IF node[n].skip THEN [node EXCEPT ![n].skip = FALSE]
                   ELSE [node EXCEPT ![n].runFlag = TRUE, ![n].result = "rFALSE"]
        /\ UNCHANGED <<charts, index, lists, queues, events>>
  BY DEF RunNode
<1>2. index \in Level /\ level \in [Level -> LevelState] /\ level[index] \in LevelState
  BY Parts, LevelsAreSettled
<1>3. node \in [Node -> NodeState] /\ node[n] \in NodeState
  BY Parts DEF NodesTyped
<1> DEFINE x == [level[index] EXCEPT !.count = @ + 1, !.current = n,
                                     !.pc = IF node[n].skip THEN "ran" ELSE "call"]
           y == IF node[n].skip THEN [node[n] EXCEPT !.skip = FALSE]
                ELSE [node[n] EXCEPT !.runFlag = TRUE, !.result = "rFALSE"]
<1>4. /\ x \in LevelState /\ level' = [level EXCEPT ![index] = x]
      /\ x.pc \in {"ran", "call"} /\ x.current = n /\ x.chart = level[index].chart
      /\ x.caller = level[index].caller /\ x.history = level[index].history
  <2>1. level' = [level EXCEPT ![index] = x]
    BY <1>1, <1>2
  <2>2. x \in LevelState
    <3>1. n \in Node \cup {None}
      BY <1>1
    <3>2. level[index].count + 1 \in Nat
      BY <1>2 DEF LevelState
    <3> QED BY <1>2, <3>1, <3>2 DEF LevelState, Pcs
  <2> QED BY <1>2, <2>1, <2>2 DEF LevelState
<1>5. y \in NodeState /\ node' = [node EXCEPT ![n] = y]
  BY <1>1, <1>3 DEF NodeState, Result
<1>6. IsRunning(ChartOf[n]) /\ ChartOf[n] = level[index].chart
  BY <1>1, VisitFacts
<1>7. ListsTyped' /\ StacksKept /\ \A m \in Node : container'[m] = EventList => container[m] = EventList
  BY <1>1, Parts, ListsStay
<1>8. ChartsInvariant' /\ running' = running
  BY <1>1, Parts, ChartsStay
<1>9. level'[index'] = x
  BY <1>1, <1>2, <1>4
<1> HIDE DEF x, y
<1>10. CallsInRunningChart'
  BY <1>4, <1>6, <1>8, <1>9 DEF CallsInRunningChart, At, IsRunning
<1>11. LevelsInvariant'
  BY <1>1, <1>4, <1>7, VisitLevels
<1>12. NodesTyped' /\ StoppedChartIsQuiet'
  BY <1>5, <1>6, <1>7, <1>8, Parts, OneNode
<1>13. QueuesTyped'
  BY <1>1, Parts, QueuesStay
<1> QED BY <1>7, <1>8, <1>10, <1>11, <1>12, <1>13, PartsNext

\* A flow leaves a running node alone.
LEMMA SkipRunningStep ==
  ASSUME QuietInvariant, SkipRunning
  PROVE  QuietInvariant'
<1>1. PICK n \in Node :
        /\ Visit(n)
        /\ level' = [level EXCEPT ![index].count = @ + 1, ![index].hasRunning = TRUE,
                                  ![index].history = @ \cup {n}]
        /\ stack' = [stack EXCEPT ![index] = Front(@)]
        /\ container' = Contain(InStack({n}, index), 0)
        /\ UNCHANGED <<node, charts, index, waiting, handling, queues, events>>
  BY DEF SkipRunning
<1>2. index \in Level /\ level \in [Level -> LevelState] /\ level[index] \in LevelState
  BY Parts, LevelsAreSettled
<1>3. /\ stack[index] # <<>> /\ stack[index] \in Seq(ChartNodes({level[index].chart}))
      /\ At("loop")
  BY <1>1, VisitFacts DEF FlowOf
<1> DEFINE x == [level[index] EXCEPT !.count = @ + 1, !.hasRunning = TRUE, !.history = @ \cup {n}]
<1>4. level' = [level EXCEPT ![index] = x]
  BY <1>1, <1>2
<1>5. x \in LevelState
  <2>1. n \in Node /\ level[index].count + 1 \in Nat
    BY <1>1, <1>2 DEF LevelState
  <2> QED BY <1>2, <2>1 DEF LevelState
<1>6. /\ x.pc = "loop" /\ x.chart = level[index].chart /\ x.caller = level[index].caller
      /\ x.history = level[index].history \cup {n} /\ x.current = level[index].current
  BY <1>2, <1>3 DEF LevelState, At
<1> HIDE DEF x
<1>7. \A T : stack[index] \in Seq(T) => Front(stack[index]) \in Seq(T)
  BY <1>3, FrontType
<1>8. stack \in [Level -> Seq(Node)]
  BY Parts DEF ListsTyped
<1>9. StacksKept
  <2>1. \A m \in Node : container'[m] = index =>
          (Holds(m, stack[index]) => Holds(m, Front(stack[index]))) /\ container[m] = index
    <3>1. ASSUME NEW m \in Node, container'[m] = index, index # 0
          PROVE  m # n /\ container[m] = index
      BY <1>1, <3>1 DEF Contain, InStack
    <3>2. index # 0 /\ n = Last(stack[index])
      BY <1>1, VisitFacts
    <3> QED BY <1>3, <3>1, <3>2, FrontKeeps DEF Holds
  <2>2. \A m \in Node : container'[m] = 0 \/ container'[m] = container[m]
    BY <1>1 DEF Contain
  <2>3. stack'[index] = Front(stack[index]) /\ \A k \in Level \ {index} : stack'[k] = stack[k]
    BY <1>1, <1>2, <1>8
  <2> QED BY <1>7, <2>1, <2>2, <2>3 DEF StacksKept, StackKept
<1>10. ListsTyped'
  <2>1. stack' \in [Level -> Seq(Node)]
    BY <1>1, <1>2, <1>7, <1>8
  <2>2. container' \in [Node -> Level \cup {EventList}]
    BY <1>1, Parts, ContainType, LevelFacts
  <2> QED BY <1>1, <2>1, <2>2, Parts DEF ListsTyped
<1>11. LevelsInvariant'
  BY <1>1, <1>4, <1>5, <1>6, <1>9, VisitLevels
<1>12. CallsInRunningChart'
  BY <1>1, <1>2, <1>4, <1>6, NothingCalled
<1>13. ChartsInvariant' /\ running' = running
  BY <1>1, Parts, ChartsStay
<1>14. NodesTyped' /\ StoppedChartIsQuiet'
  BY <1>1, <1>13, Parts, NodesStay DEF Contain, EventList
<1>15. QueuesTyped'
  BY <1>1, Parts, QueuesStay
<1> QED BY <1>10, <1>11, <1>12, <1>13, <1>14, <1>15, PartsNext

\* A node of a loop is put off to the next tick.
LEMMA WaitTickStep ==
  ASSUME QuietInvariant, WaitTick
  PROVE  QuietInvariant'
<1>1. PICK n \in Node :
        /\ Visit(n)
        /\ UnlinkAndWait({}, n, <<AgentOf[level[index].chart], TICK>>)
        /\ node' = [node EXCEPT ![n].status = "Running"]
        /\ level' = [level EXCEPT ![index].count = @ + 1, ![index].hasRunning = TRUE]
        /\ UNCHANGED <<charts, index, queues, events>>
  BY DEF WaitTick
<1>2. index \in Level /\ level \in [Level -> LevelState] /\ level[index] \in LevelState
  BY Parts, LevelsAreSettled
<1>3. At("loop") /\ level[index].chart \in Chart /\ IsRunning(ChartOf[n])
  BY <1>1, VisitFacts DEF FlowOf
<1>4. <<AgentOf[level[index].chart], TICK>> \in Wait
  BY <1>3, ConstantsAssumption DEF ConstantsAssumption, Wait
<1>5. /\ ListsTyped' /\ StacksKept
      /\ \A m \in Node : container'[m] = EventList => m = n \/ container[m] = EventList
  BY <1>1, <1>4, Parts, WaitEffect
<1> DEFINE x == [level[index] EXCEPT !.count = @ + 1, !.hasRunning = TRUE]
           y == [node[n] EXCEPT !.status = "Running"]
<1>6. level' = [level EXCEPT ![index] = x]
  BY <1>1, <1>2
<1>7. x \in LevelState
  <2>1. level[index].count + 1 \in Nat
    BY <1>2 DEF LevelState
  <2> QED BY <1>2, <2>1 DEF LevelState
<1>8. /\ x.pc = "loop" /\ x.chart = level[index].chart /\ x.caller = level[index].caller
      /\ x.history = level[index].history /\ x.current = level[index].current
  BY <1>2, <1>3 DEF LevelState, At
<1>9. node \in [Node -> NodeState] /\ node[n] \in NodeState
  BY Parts, <1>1 DEF NodesTyped
<1>10. y \in NodeState /\ node' = [node EXCEPT ![n] = y]
  BY <1>1, <1>9 DEF NodeState
<1> HIDE DEF x, y
<1>11. LevelsInvariant'
  BY <1>1, <1>5, <1>6, <1>7, <1>8, VisitLevels
<1>12. CallsInRunningChart'
  BY <1>1, <1>2, <1>6, <1>8, NothingCalled
<1>13. ChartsInvariant' /\ running' = running
  BY <1>1, Parts, ChartsStay
<1>14. NodesTyped' /\ StoppedChartIsQuiet'
  BY <1>3, <1>5, <1>10, <1>13, Parts, OneNode
<1>15. QueuesTyped'
  BY <1>1, Parts, QueuesStay
<1> QED BY <1>5, <1>11, <1>12, <1>13, <1>14, <1>15, PartsNext

\* The function of a node returns.
LEMMA CallEndStep ==
  ASSUME QuietInvariant, NEW r \in Result, CallEnd(r)
  PROVE  QuietInvariant'
<1> DEFINE n == level[index].current
           y == [node[n] EXCEPT !.result = IF @ = "rSTOP" THEN @ ELSE r]
<1>1. /\ index > 0 /\ At("callEnd") /\ Goto("ran")
      /\ node' = [node EXCEPT ![n].result = IF @ = "rSTOP" THEN @ ELSE r]
      /\ UNCHANGED <<charts, lists, queues, events>>
  BY DEF CallEnd
<1>2. index # 0
  BY <1>1
<1>3. n \in Node /\ n # None /\ InCall(index)
  BY <1>1, <1>2, AtTop DEF At, FlowOf, ChartNodes, InCall
<1>4. node \in [Node -> NodeState] /\ node[n] \in NodeState
  BY Parts, <1>3 DEF NodesTyped
<1>5. /\ y \in NodeState /\ node' = [node EXCEPT ![n] = y]
      /\ y.status = node[n].status /\ y.timer = node[n].timer
  BY <1>1, <1>3, <1>4 DEF NodeState
<1> HIDE DEF n, y
<1>6. /\ ListsTyped' /\ StacksKept
      /\ \A m \in Node : container'[m] = EventList => container[m] = EventList
  BY <1>1, Parts, ListsStay
<1>7. LevelsInvariant' /\ CallsInRunningChart'
  BY <1>1, <1>2, <1>3, <1>6, Parts, GotoLevels, GotoPc, NothingCalled DEF Pcs, n, ReturningPcs
<1>8. ChartsInvariant' /\ running' = running
  BY <1>1, Parts, ChartsStay
<1>9. NodesTyped' /\ StoppedChartIsQuiet'
  BY <1>3, <1>5, <1>6, <1>8, Parts, OneNode DEF Status
<1>10. QueuesTyped'
  BY <1>1, Parts, QueuesStay
<1> QED BY <1>6, <1>7, <1>8, <1>9, <1>10, PartsNext

\* Manager::Wait.
LEMMA CallWaitStep ==
  ASSUME QuietInvariant, CallWait
  PROVE  QuietInvariant'
<1>1. PICK n \in Node :
        /\ Calls(n, "wait")
        /\ node' = [node EXCEPT ![n].timer = "armed", ![n].skip = TRUE, ![n].result = "rTRUE",
                                ![n].status = "Running"]
        /\ Goto("callEnd")
        /\ UNCHANGED <<charts, lists, queues, events>>
  BY DEF CallWait
<1> DEFINE y == [node[n] EXCEPT !.timer = "armed", !.skip = TRUE, !.result = "rTRUE",
                                !.status = "Running"]
<1>2. node \in [Node -> NodeState] /\ node[n] \in NodeState
  BY Parts, <1>1 DEF NodesTyped
<1>3. node' = [node EXCEPT ![n] = y]
  BY <1>1, <1>2
<1>4. y \in NodeState
  BY <1>2 DEF NodeState, Result
<1> HIDE DEF y
<1> QED BY <1>1, <1>3, <1>4, Parts, ListsStay, CallOfNode

\* Manager::WaitEvent.
LEMMA CallWaitEventStep ==
  ASSUME QuietInvariant, CallWaitEvent
  PROVE  QuietInvariant'
<1>1. PICK n \in Node :
        /\ Calls(n, "event")
        /\ node' = [node EXCEPT ![n].skip = TRUE, ![n].result = "rTRUE", ![n].status = "Running"]
        /\ UnlinkAndWait({}, n, Names[n])
        /\ Goto("callEnd")
        /\ UNCHANGED <<charts, queues, events>>
  BY DEF CallWaitEvent
<1> DEFINE y == [node[n] EXCEPT !.skip = TRUE, !.result = "rTRUE", !.status = "Running"]
<1>2. node \in [Node -> NodeState] /\ node[n] \in NodeState
  BY Parts, <1>1 DEF NodesTyped
<1>3. node' = [node EXCEPT ![n] = y]
  BY <1>1, <1>2
<1>4. y \in NodeState
  BY <1>2 DEF NodeState, Result
<1> HIDE DEF y
<1>5. Names[n] \in Wait
  BY ConstantsAssumption DEF ConstantsAssumption
<1>6. /\ ListsTyped' /\ StacksKept
      /\ \A m \in Node : container'[m] = EventList => m = n \/ container[m] = EventList
  BY <1>1, <1>5, Parts, WaitEffect
<1> QED BY <1>1, <1>3, <1>4, <1>6, CallOfNode

\* Manager::WaitAll and NodeWaitAll::Run.
LEMMA CallWaitAllStep ==
  ASSUME QuietInvariant, CallWaitAll
  PROVE  QuietInvariant'
<1>1. PICK n \in Node, A \in SUBSET Node, s \in {"EndRun", "Running"}, r \in Result :
        /\ Calls(n, "waitall")
        /\ node' = [node EXCEPT ![n].isWaitAll = TRUE, ![n].arrived = A,
                                ![n].status = s, ![n].result = r]
        /\ Goto("callEnd")
        /\ UNCHANGED <<charts, lists, queues, events>>
  <2>1. PICK n \in Node :
        /\ Calls(n, "waitall")
        /\ LET seen == (node[n].arrived \cup {node[n].pre}) \cap Target[n]
               all == node[n].pre \in Target[n] /\ seen = Target[n]
           IN  node' = [node EXCEPT ![n].isWaitAll = TRUE,
                                    ![n].arrived = IF all THEN {} ELSE seen,
                                    ![n].status = IF all THEN "EndRun" ELSE "Running",
                                    ![n].result = IF all THEN "rTRUE" ELSE @]
    BY DEF CallWaitAll
  <2> DEFINE seen == (node[n].arrived \cup {node[n].pre}) \cap Target[n]
             all == node[n].pre \in Target[n] /\ seen = Target[n]
             A == IF all THEN {} ELSE seen
             s == IF all THEN "EndRun" ELSE "Running"
             r == IF all THEN "rTRUE" ELSE node[n].result
  <2>2. node[n] \in NodeState /\ node \in [Node -> NodeState]
    BY <2>1, Parts DEF NodesTyped
  <2>3. A \in SUBSET Node /\ s \in {"EndRun", "Running"} /\ r \in Result
    BY <2>1, <2>2, ConstantsAssumption DEF ConstantsAssumption, NodeState, Result
  <2>4. node' = [node EXCEPT ![n].isWaitAll = TRUE, ![n].arrived = A,
                             ![n].status = s, ![n].result = r]
    BY <2>1, <2>2 DEF NodeState
  <2> QED BY <2>1, <2>3, <2>4 DEF CallWaitAll
<1> DEFINE y == [node[n] EXCEPT !.isWaitAll = TRUE, !.arrived = A, !.status = s, !.result = r]
<1>2. node \in [Node -> NodeState] /\ node[n] \in NodeState
  BY Parts, <1>1 DEF NodesTyped
<1>3. node' = [node EXCEPT ![n] = y]
  BY <1>1, <1>2
<1>4. y \in NodeState
  BY <1>1, <1>2 DEF NodeState
<1> HIDE DEF y
<1> QED BY <1>1, <1>3, <1>4, Parts, ListsStay, CallOfNode

\* asyncflow.start.
LEMMA StartStep ==
  ASSUME QuietInvariant, NEW c \in Chart, Start(c)
  PROVE  QuietInvariant'
<1>1. /\ AtRest /\ c \in Root /\ StartChart(c, ~DeferEvent, node, "idle")
      /\ UNCHANGED <<created, outQueue, events>>
  BY DEF Start, CallsIn
<1>2. node \in [Node -> NodeState] /\ (~DeferEvent) \in BOOLEAN
  BY Parts, ConstantsAssumption DEF NodesTyped, ConstantsAssumption
<1>3. created' \subseteq Chart /\ created \cup {c} \subseteq created'
  BY <1>1, Parts DEF ChartsInvariant, ChartsTyped, SubchartNeedsOwner
<1>4. index = 0
  BY <1>1 DEF AtRest
<1>5. /\ ListsTyped' /\ LevelsInvariant' /\ CallsInRunningChart' /\ ChartsInvariant'
      /\ NodesTyped' /\ StoppedChartIsQuiet' /\ inQueue' \in Seq(Wait)
  BY <1>1, <1>2, <1>3, <1>4, ChartIsStarted
<1>6. QueuesTyped'
  BY <1>1, <1>5, Parts DEF QueuesTyped, events
<1> QED BY <1>5, <1>6, PartsNext

\* Manager::Subchart: the chart of the node that calls runs, so the subchart may.
LEMMA CallSubchartStep ==
  ASSUME QuietInvariant, CallSubchart
  PROVE  QuietInvariant'
<1>1. PICK n \in Node, c \in Chart :
        /\ Calls(n, "sub") /\ OwnerNode[c] = n
        /\ created' = created \cup {c}
        /\ IF IsRunning(c)
           THEN /\ node' = [node EXCEPT ![n].status = "Running"]
                /\ Goto("callEnd") /\ UNCHANGED <<running, lists, inQueue>>
           ELSE StartChart(c, TRUE, [node EXCEPT ![n].status = "Running"], "callEnd")
        /\ UNCHANGED <<outQueue, events>>
  BY DEF CallSubchart
<1> DEFINE y == [node[n] EXCEPT !.status = "Running"]
           nodes == [node EXCEPT ![n] = y]
<1>2. node \in [Node -> NodeState] /\ node[n] \in NodeState
  BY Parts, <1>1 DEF NodesTyped
<1>3. y \in NodeState /\ [node EXCEPT ![n].status = "Running"] = nodes
  BY <1>2 DEF NodeState
<1>4. nodes \in [Node -> NodeState] /\ \A m \in Node \ {n} : nodes[m] = node[m]
  BY <1>2, <1>3
<1>5. /\ index # 0 /\ InCall(index) /\ IsRunning(ChartOf[n])
  BY <1>1, CallerFacts
<1>6. created' \subseteq Chart /\ created \cup {c} \subseteq created'
  BY <1>1, Parts DEF ChartsInvariant, ChartsTyped
<1> HIDE DEF y, nodes
<1>7. CASE IsRunning(c)
  <2>1. c \in created /\ UNCHANGED charts
    BY <1>1, <1>7, Parts DEF ChartsInvariant, SubchartNeedsOwner, IsRunning, charts
  <2>2. Goto("callEnd") /\ UNCHANGED lists /\ node' = nodes /\ UNCHANGED <<queues, events>>
    BY <1>1, <1>3, <1>7 DEF queues
  <2>3. /\ ListsTyped' /\ StacksKept
        /\ \A m \in Node : container'[m] = EventList => m = n \/ container[m] = EventList
    BY <2>2, Parts, ListsStay
  <2> QED BY <1>1, <1>3, <2>1, <2>2, <2>3, CallOfNode DEF nodes
<1>8. CASE ~IsRunning(c)
  <2>1. StartChart(c, TRUE, nodes, "callEnd")
    BY <1>1, <1>3, <1>8
  <2>2. \A m \in Node : ChartOf[m] \notin running => nodes[m] = node[m]
    BY <1>4, <1>5 DEF IsRunning
  <2>3. IsRunning(ChartOf[OwnerNode[c]])
    BY <1>1, <1>5
  <2>4. /\ ListsTyped' /\ LevelsInvariant' /\ CallsInRunningChart' /\ ChartsInvariant'
        /\ NodesTyped' /\ StoppedChartIsQuiet' /\ inQueue' \in Seq(Wait)
    BY <1>4, <1>5, <1>6, <2>1, <2>2, <2>3, ChartIsStarted
  <2>5. QueuesTyped'
    BY <1>1, <2>4, Parts DEF QueuesTyped, events
  <2> QED BY <2>4, <2>5, PartsNext
<1> QED BY <1>7, <1>8

\* asyncflow.trigger, called by the game.
LEMMA TriggerStep ==
  ASSUME QuietInvariant, NEW w \in Triggers, Trigger(w)
  PROVE  QuietInvariant'
<1>1. w \in Wait
  BY ConstantsAssumption DEF ConstantsAssumption
<1> QED BY <1>1, EventIsTriggered DEF Trigger, CallsIn, AtRest

\* asyncflow.trigger, called by a node.
LEMMA CallTriggerStep ==
  ASSUME QuietInvariant, CallTrigger
  PROVE  QuietInvariant'
<1>1. PICK n \in Node : Calls(n, "trigger") /\ TriggerEvent(Names[n], "callEnd")
  BY DEF CallTrigger
<1>2. index # 0 /\ InCall(index)
  BY <1>1, CallerFacts
<1>3. Names[n] \in Wait
  BY ConstantsAssumption DEF ConstantsAssumption
<1> QED BY <1>1, <1>2, <1>3, EventIsTriggered

\* Manager::HandleEvent.
LEMMA HandleEventStep ==
  ASSUME QuietInvariant, HandleEvent
  PROVE  QuietInvariant'
<1> DEFINE ev == Head(outQueue)
<1>1. /\ index = 0 /\ At("events") /\ outQueue # <<>> /\ outQueue' = Tail(outQueue)
      /\ IF waiting[ev] = <<>>
         THEN UNCHANGED <<index, level, waiting, handling, currentEvent>>
         ELSE StartDispatch(ev, NoEvent, "events")
      /\ UNCHANGED <<node, charts, container, stack, inQueue, eventFrame>>
  BY DEF HandleEvent
<1>2. ev \in Wait /\ outQueue' \in Seq(Wait)
  BY <1>1, Parts DEF QueuesTyped
<1> HIDE DEF ev
<1>3. ChartsInvariant' /\ NodesTyped' /\ StoppedChartIsQuiet'
  BY <1>1, NodesAndChartsStay
<1>4. /\ ListsTyped' /\ LevelsInvariant' /\ CallsInRunningChart'
      /\ currentEvent' \in Wait \cup {NoEvent}
  <2>1. CASE waiting[ev] = <<>>
    <3>1. UNCHANGED <<index, level, waiting, handling, currentEvent>>
      BY <1>1, <2>1
    <3>2. ListsTyped' /\ StacksKept
      BY <1>1, <3>1, Parts, ListsStay DEF lists
    <3>3. LevelsInvariant'
      BY <3>1, <3>2, Parts, LevelsStay
    <3>4. CallsInRunningChart'
      BY <1>1, <3>1, NothingCalled DEF At
    <3> QED BY <3>1, <3>2, <3>3, <3>4, Parts DEF QueuesTyped
  <2>2. CASE waiting[ev] # <<>>
    <3>1. StartDispatch(ev, NoEvent, "events")
      BY <1>1, <2>2
    <3> QED BY <1>1, <1>2, <3>1, DispatchIsStarted
  <2> QED BY <2>1, <2>2
<1>5. QueuesTyped'
  BY <1>1, <1>2, <1>4, Parts DEF QueuesTyped
<1> QED BY <1>3, <1>4, <1>5, PartsNext

\* A dispatch ends.
LEMMA DispatchEndStep ==
  ASSUME QuietInvariant, DispatchEnd
  PROVE  QuietInvariant'
<1> DEFINE x == [level[index] EXCEPT !.pc = level[index].caller, !.caller = "idle",
                                     !.event = NoEvent, !.prevEvent = NoEvent]
<1>1. /\ At("dispatch") /\ currentEvent' = level[index].prevEvent
      /\ eventFrame' = IF level[index].caller = "events" THEN eventFrame ELSE eventFrame - 1
      /\ level' = [level EXCEPT ![index].pc = level[index].caller, ![index].caller = "idle",
                                ![index].event = NoEvent, ![index].prevEvent = NoEvent]
      /\ UNCHANGED <<node, charts, index, lists, queues>>
  BY DEF DispatchEnd
<1>2. index \in Level /\ level \in [Level -> LevelState] /\ Settled(index) /\ level[index] \in LevelState
  BY Parts, LevelsAreSettled
<1>3. level' = [level EXCEPT ![index] = x]
  BY <1>1, <1>2
<1>4. x \in LevelState
  BY <1>2 DEF LevelState, Pcs
<1>5. /\ x.pc = level[index].caller /\ x.caller = "idle" /\ x.chart = level[index].chart
      /\ x.history = level[index].history /\ x.current = level[index].current
      /\ level[index].caller \in {"idle", "events", "callEnd", "end"}
      /\ level[index].prevEvent \in Wait \cup {NoEvent}
  BY <1>2 DEF LevelState
<1> HIDE DEF x
<1>6. ListsTyped' /\ StacksKept
  BY <1>1, Parts, ListsStay
<1>7. level'[index] = x /\ level' \in [Level -> LevelState] /\ \A k \in Level \ {index} : level'[k] = level[k]
  BY <1>2, <1>3, <1>4
<1>8. Settled(index)'
  <2>1. ASSUME index \in 1..index PROVE FlowOf(index)'
    <3>1. FlowOf(index) /\ index # 0
      BY <1>2, <2>1 DEF Settled
    <3>2. StackKept(index) /\ level[index].history \subseteq ChartNodes({level[index].chart})
      BY <1>2, <1>6, <3>1 DEF StacksKept, FlowOf
    <3>3. level'[index].pc \in FlowPcs \/ level'[index].caller = "callEnd" => InCall(index)
      BY <1>5, <1>7, <3>1 DEF FlowPcs, InCall
    <3>4. level'[index].pc \notin ReturningPcs
      BY <1>5, <1>7 DEF ReturningPcs
    <3> QED BY <1>1, <1>5, <1>7, <3>1, <3>2, <3>3, <3>4, FlowStays
  <2>2. index = 0 => x.pc \in ManagerPcs /\ x.current = None
    BY <1>2, <1>5 DEF Settled, ManagerPcs
  <2> QED BY <1>1, <1>2, <1>4, <1>5, <1>7, <2>1, <2>2, LevelFacts DEF Settled
<1>9. LevelsInvariant'
  BY <1>1, <1>6, <1>7, <1>8, Parts, TopChanges DEF StacksKept
<1>10. CallsInRunningChart'
  BY <1>1, <1>5, <1>7, NothingCalled
<1>11. QueuesTyped'
  BY <1>1, <1>5, Parts DEF QueuesTyped, queues
<1>12. ChartsInvariant' /\ NodesTyped' /\ StoppedChartIsQuiet'
  BY <1>1, NodesAndChartsStay DEF lists
<1> QED BY <1>6, <1>9, <1>10, <1>11, <1>12, PartsNext

\* Manager::_handleEvent: a node of a stopped chart is not run.
LEMMA DispatchNodeStep ==
  ASSUME QuietInvariant, DispatchNode
  PROVE  QuietInvariant'
<1> DEFINE n == Head(handling[index])
           y == [node[n] EXCEPT !.status = "Idle"]
<1>1. /\ At("dispatch") /\ handling[index] # <<>>
      /\ node' = [node EXCEPT ![n].status = "Idle"]
      /\ IF ~StackFull /\ IsRunning(ChartOf[n])
         THEN UnlinkAndPush({}, n, index + 1, TRUE) /\ CallFlow(n, "dispatch")
         ELSE Unlink({n}) /\ Goto("dispatch")
      /\ UNCHANGED <<charts, queues, events>>
  BY DEF DispatchNode
<1>2. n \in Node /\ node \in [Node -> NodeState]
  <2>1. index \in Level /\ handling \in [Level -> Seq(Node)] /\ node \in [Node -> NodeState]
    BY Parts, AtTop DEF ListsTyped, NodesTyped
  <2> QED BY <1>1, <2>1
<1>3. /\ y \in NodeState /\ node' = [node EXCEPT ![n] = y]
      /\ y.status = "Idle" /\ y.timer = node[n].timer
  <2>1. node[n] \in NodeState
    BY <1>2
  <2> QED BY <1>1, <1>2, <2>1 DEF NodeState
<1> HIDE DEF n, y
<1>4. /\ ListsTyped' /\ LevelsInvariant' /\ CallsInRunningChart'
      /\ \A m \in Node : container'[m] = EventList => container[m] = EventList
  <2>1. CASE ~StackFull /\ IsRunning(ChartOf[n])
    <3>1. UnlinkAndPush({}, n, index + 1, TRUE) /\ CallFlow(n, "dispatch")
      BY <1>1, <2>1
    <3> QED BY <1>2, <2>1, <3>1, FlowCalled DEF CallerPcs, ManagerPcs
  <2>2. CASE ~(~StackFull /\ IsRunning(ChartOf[n]))
    <3>1. Unlink({n}) /\ Goto("dispatch")
      BY <1>1, <2>2
    <3>2. /\ ListsTyped' /\ StacksKept
          /\ \A m \in Node : container'[m] = EventList => container[m] = EventList
      BY <3>1, Parts, UnlinkEffect
    <3>3. LevelsInvariant' /\ CallsInRunningChart'
      BY <3>1, <3>2, Parts, GotoLevels, GotoPc, NothingCalled
         DEF Pcs, ManagerPcs, FlowPcs, ReturningPcs
    <3> QED BY <3>2, <3>3
  <2> QED BY <2>1, <2>2
<1>5. ChartsInvariant' /\ running' = running
  BY <1>1, Parts, ChartsStay
<1>6. NodesTyped' /\ StoppedChartIsQuiet'
  BY <1>2, <1>3, <1>4, <1>5, Parts, OneNode
<1>7. QueuesTyped'
  BY <1>1, Parts, QueuesStay
<1> QED BY <1>4, <1>5, <1>6, <1>7, PartsNext

\* NodeTimer::execute: nor is it here.
LEMMA FireNodeTimerStep ==
  ASSUME QuietInvariant, NEW n \in Node, FireNodeTimer(n)
  PROVE  QuietInvariant'
<1> DEFINE now == ~StackFull /\ IsRunning(ChartOf[n])
           y == [node[n] EXCEPT !.timer = "off", !.result = "rTRUE",
                                !.status = IF now THEN "Idle" ELSE @]
<1>1. /\ index = 0 /\ At("timers")
      /\ node' = [node EXCEPT ![n].timer = "off", ![n].result = "rTRUE",
                              ![n].status = IF now THEN "Idle" ELSE @]
      /\ IF now THEN UnlinkAndPush({}, n, 1, TRUE) /\ CallFlow(n, "timers")
                ELSE Goto("timers") /\ UNCHANGED lists
      /\ UNCHANGED <<charts, queues, events>>
  BY DEF FireNodeTimer
<1>2. node \in [Node -> NodeState] /\ node[n] \in NodeState
  BY Parts DEF NodesTyped
<1>3. /\ y \in NodeState /\ node' = [node EXCEPT ![n] = y]
      /\ y.status \in {"Idle", node[n].status} /\ y.timer = "off"
  <2> HIDE DEF now
  <2> QED BY <1>1, <1>2 DEF NodeState, Result
<1> HIDE DEF y
<1>4. /\ ListsTyped' /\ LevelsInvariant' /\ CallsInRunningChart'
      /\ \A m \in Node : container'[m] = EventList => container[m] = EventList
  <2>1. CASE now
    <3>1. UnlinkAndPush({}, n, index + 1, TRUE) /\ CallFlow(n, "timers")
      <4>1. index + 1 = 1
        BY <1>1
      <4> QED BY <1>1, <2>1, <4>1
    <3> QED BY <2>1, <3>1, FlowCalled DEF CallerPcs, ManagerPcs
  <2>2. CASE ~now
    <3>1. Goto("timers") /\ UNCHANGED lists
      BY <1>1, <2>2
    <3>2. /\ ListsTyped' /\ StacksKept
          /\ \A m \in Node : container'[m] = EventList => container[m] = EventList
      BY <3>1, Parts, ListsStay
    <3>3. LevelsInvariant' /\ CallsInRunningChart'
      BY <1>1, <3>1, <3>2, Parts, GotoLevels, GotoPc, NothingCalled DEF Pcs, ManagerPcs
    <3> QED BY <3>2, <3>3
  <2> QED BY <2>1, <2>2
<1>5. ChartsInvariant' /\ running' = running
  BY <1>1, Parts, ChartsStay
<1>6. NodesTyped' /\ StoppedChartIsQuiet'
  <2>1. y.status = "Running" => Status(n) = "Running"
    BY <1>3 DEF Status
  <2> QED BY <1>3, <1>4, <1>5, <2>1, Parts, OneNode
<1>7. QueuesTyped'
  BY <1>1, Parts, QueuesStay
<1> QED BY <1>4, <1>5, <1>6, <1>7, PartsNext

\* The flow has used up its nodes.
LEMMA TruncateStep ==
  ASSUME QuietInvariant, Truncate
  PROVE  QuietInvariant'
<1> DEFINE S == Elements(stack[index])
           x == [level[index] EXCEPT !.pc = "restore", !.history = @ \cup S]
<1>1. /\ At("loop")
      /\ node' = [n \in Node |-> IF n \in S THEN [node[n] EXCEPT !.status = "EndRun"] ELSE node[n]]
      /\ level' = [level EXCEPT ![index].pc = "restore", ![index].history = @ \cup S]
      /\ container' = Contain(InStack(S, index), 0)
      /\ stack' = [stack EXCEPT ![index] = <<>>]
      /\ UNCHANGED <<charts, index, waiting, handling, queues, events>>
  BY DEF Truncate, InLoop
<1>2. index # 0
  BY <1>1, AtTop DEF At, ManagerPcs
<1>3. index \in Level /\ level \in [Level -> LevelState] /\ level[index] \in LevelState
  BY Parts, LevelsAreSettled
<1>4. FlowOf(index) /\ stack[index] \in Seq(ChartNodes({level[index].chart}))
  BY <1>2, AtTop DEF FlowOf
<1>5. S \subseteq ChartNodes({level[index].chart}) /\ ChartNodes({level[index].chart}) \subseteq Node
  BY <1>4, ElementsType DEF ChartNodes
<1>6. x \in LevelState /\ level' = [level EXCEPT ![index] = x]
  <2> HIDE DEF S
  <2>1. level[index].history \cup S \in SUBSET Node
    BY <1>3, <1>5 DEF LevelState
  <2> QED BY <1>1, <1>3, <2>1 DEF LevelState, Pcs
<1>7. /\ x.pc = "restore" /\ x.chart = level[index].chart /\ x.caller = level[index].caller
      /\ x.history = level[index].history \cup S /\ x.current = level[index].current
  BY <1>3 DEF LevelState
<1> HIDE DEF x
<1>8. \A m \in Node : container'[m] = IF m \in S /\ container[m] = index THEN 0 ELSE container[m]
  BY <1>1 DEF Contain, InStack
<1>9. StacksKept
  <2>1. stack \in [Level -> Seq(Node)]
    BY Parts DEF ListsTyped
  <2>2. stack'[index] = <<>> /\ \A k \in Level \ {index} : stack'[k] = stack[k]
    BY <1>1, <1>3, <2>1
  <2>3. \A m \in Node : Holds(m, stack[index]) <=> m \in S
    BY DEF Holds
  <2> HIDE DEF S
  <2>4. StackKept(index)
    BY <1>2, <1>8, <2>2, <2>3 DEF StackKept
  <2>5. \A k \in Level \ {index} : StackKept(k)
    BY <1>8, <2>2 DEF StackKept
  <2> QED BY <2>4, <2>5 DEF StacksKept
<1>10. ListsTyped'
  <2>1. container' \in [Node -> Level \cup {EventList}]
    BY <1>1, Parts, ContainType, LevelFacts
  <2>2. stack' \in [Level -> Seq(Node)]
    BY <1>1, <1>3, Parts DEF ListsTyped
  <2> QED BY <1>1, <2>1, <2>2, Parts DEF ListsTyped
<1>11. LevelsInvariant' /\ level'[index'] = x
  <2>1. x.history \subseteq ChartNodes({level[index].chart})
    BY <1>4, <1>5, <1>7 DEF FlowOf
  <2>2. (x.pc \in FlowPcs \/ x.caller = "callEnd" => InCall(index)) /\ x.pc \notin ReturningPcs
    BY <1>7 DEF FlowPcs, ReturningPcs, InCall
  <2> QED BY <1>1, <1>2, <1>6, <1>7, <1>9, <2>1, <2>2, LevelGoesOn
<1>12. CallsInRunningChart'
  BY <1>7, <1>11, NothingCalled
<1>13. ChartsInvariant' /\ running' = running
  BY <1>1, Parts, ChartsStay
<1>14. NodesTyped' /\ StoppedChartIsQuiet'
  <2> HIDE DEF S
  <2>1. node \in [Node -> NodeState]
    BY Parts DEF NodesTyped
  <2>2. \A y \in NodeState : LET z == [y EXCEPT !.status = "EndRun"]
                             IN  z \in NodeState /\ z.status = "EndRun" /\ z.timer = y.timer
    BY DEF NodeState
  <2>3. NodesTyped'
    BY <1>1, <2>1, <2>2 DEF NodesTyped
  <2>4. \A m \in Node : /\ Status(m)' = "Running" => Status(m) = "Running"
                        /\ node'[m].timer = node[m].timer
                        /\ container'[m] = EventList => container[m] = EventList
    BY <1>1, <1>8, <2>1, <2>2 DEF Status, EventList
  <2>5. StoppedChartIsQuiet'
    BY <1>13, <2>4, Parts, QuietStays
  <2> QED BY <2>3, <2>5
<1>15. QueuesTyped'
  BY <1>1, Parts, QueuesStay
<1> QED BY <1>10, <1>11, <1>12, <1>13, <1>14, <1>15, PartsNext

\* The node that has run is popped, and its successors are pushed.
LEMMA AfterRunStep ==
  ASSUME QuietInvariant, AfterRun
  PROVE  QuietInvariant'
<1> DEFINE n == level[index].current
           runs == Status(n) = "Running"
           pops == container[n] = index
           P == IF pops THEN {Top} ELSE {}
           next == Successors(n)
           E == Elements(next)
           rest == IF pops THEN Front(stack[index]) ELSE stack[index]
           C == ChartNodes({level[index].chart})
           x == [level[index] EXCEPT !.pc = "loop", !.history = @ \cup P,
                                     !.hasRunning = @ \/ runs]
           y(m) == [node[m] EXCEPT !.status = IF m = n /\ ~runs THEN "EndRun" ELSE @,
                                   !.runFlag = IF m = n /\ runs THEN FALSE ELSE @,
                                   !.pre = IF m \in E THEN n ELSE @]
<1>1. /\ index > 0 /\ At("ran")
      /\ level' = [level EXCEPT ![index].pc = "loop", ![index].history = @ \cup P,
                                ![index].hasRunning = @ \/ runs]
      /\ node' = [m \in Node |-> y(m)]
      /\ waiting' = WaitingWithout(E) /\ handling' = HandlingWithout(E)
      /\ stack' = [StackWithout(E) EXCEPT ![index] = Without(rest, E) \o Reversed(Firsts(next))]
      /\ container' = [m \in Node |-> IF m \in E THEN index
                                      ELSE IF m \in InStack(P, index) THEN 0
                                      ELSE container[m]]
      /\ UNCHANGED <<charts, index, queues, events>>
  BY DEF AfterRun
<1>2. index # 0 /\ index \in Level /\ level \in [Level -> LevelState] /\ level[index] \in LevelState
      /\ FlowOf(index) /\ InCall(index)
  <2> HIDE DEF n, E, P, rest, x, y, next, runs, pops
  <2>1. index # 0 /\ InCall(index)
    BY <1>1 DEF InCall, At
  <2> QED BY <2>1, Parts, LevelsAreSettled, AtTop
<1>3. n \in C /\ n \in Node /\ ChartOf[n] = level[index].chart /\ C \subseteq Node
      /\ stack[index] \in Seq(C) /\ (pops => Holds(n, stack[index]))
  BY <1>2 DEF FlowOf, ChartNodes
<1>4. next \in Seq(C) /\ E \subseteq C
  <2>1. next \in Seq(C)
    BY <1>3, Parts, SuccessorsType
  <2> HIDE DEF next, C
  <2> QED BY <2>1, ElementsType
<1> HIDE DEF next, E
<1>5. P \subseteq C /\ rest \in Seq(C)
      /\ \A m \in Node : Holds(m, stack[index]) => m \in P \/ Holds(m, rest)
  <2>1. CASE pops
    <3>1. stack[index] # <<>>
      BY <1>3, <2>1 DEF Holds, Elements
    <3> HIDE DEF C
    <3>2. Top \in C /\ Front(stack[index]) \in Seq(C)
      BY <1>3, <3>1, LastType, FrontType DEF Top
    <3>3. \A m \in Node : Holds(m, stack[index]) => m = Top \/ Holds(m, Front(stack[index]))
      BY <1>3, FrontKeeps DEF Holds, Top
    <3> QED BY <2>1, <3>2, <3>3
  <2>2. CASE ~pops
    BY <1>3, <2>2
  <2> QED BY <2>1, <2>2
<1>6. x \in LevelState /\ level' = [level EXCEPT ![index] = x]
  <2> HIDE DEF P, runs, C
  <2>1. level[index].history \cup P \in SUBSET Node
    BY <1>2, <1>3, <1>5 DEF LevelState
  <2>2. (level[index].hasRunning \/ runs) \in BOOLEAN
    BY DEF runs
  <2>3. level' = [level EXCEPT ![index] = x]
    BY <1>1, <1>2
  <2> QED BY <1>2, <2>1, <2>2, <2>3 DEF LevelState, Pcs
<1>7. /\ x.pc = "loop" /\ x.chart = level[index].chart /\ x.caller = level[index].caller
      /\ x.history = level[index].history \cup P /\ x.current = level[index].current
  <2> HIDE DEF P, runs, n
  <2> QED BY <1>2 DEF LevelState
<1> HIDE DEF x, pops, P, rest
<1>8. \A m \in Node : container'[m] = IF m \in E THEN index
                                      ELSE IF m \in P /\ container[m] = index THEN 0
                                      ELSE container[m]
  BY <1>1 DEF InStack
<1>9. /\ StackWithout(E) \in [Level -> Seq(Node)]
      /\ \A k \in Level : \A T : stack[k] \in Seq(T) => StackWithout(E)[k] \in Seq(T)
      /\ \A k \in Level : \A m \in Node :
           Holds(m, stack[k]) /\ m \notin InStack(E, k) => Holds(m, StackWithout(E)[k])
      /\ waiting' \in [Wait -> Seq(Node)] /\ handling' \in [Level -> Seq(Node)]
  BY <1>1, Parts, WithoutTypes
<1>10. /\ stack'[index] = Without(rest, E) \o Reversed(Firsts(next))
       /\ \A k \in Level \ {index} : stack'[k] = StackWithout(E)[k]
  BY <1>1, <1>2, <1>9
<1>11. stack'[index] \in Seq(C) /\ \A m \in Node : m \in E \/ Holds(m, rest) => Holds(m, stack'[index])
  <2> HIDE DEF C
  <2>1. Without(rest, E) \in Seq(C) /\ Firsts(next) \in Seq(C) /\ Reversed(Firsts(next)) \in Seq(C)
    BY <1>4, <1>5, WithoutType, FirstsParts, ReversedType
  <2>2. /\ stack'[index] \in Seq(C)
        /\ Elements(stack'[index]) = Elements(Without(rest, E)) \cup Elements(Reversed(Firsts(next)))
    BY <1>10, <2>1, ConcatElements
  <2>3. E \subseteq Elements(Reversed(Firsts(next)))
    BY <1>4, <2>1, FirstsParts, ReversedElements DEF E
  <2>4. \A m \in Elements(rest) : m \in E \/ m \in Elements(Without(rest, E))
    BY <1>5, WithoutKeeps
  <2> QED BY <2>2, <2>3, <2>4 DEF Holds
<1>12. StacksKept
  <2>1. StackKept(index)
    <3>1. ASSUME NEW m \in Node, container[m] = index => Holds(m, stack[index]), container'[m] = index
          PROVE  Holds(m, stack'[index])
      BY <1>2, <1>5, <1>8, <1>11, <3>1
    <3> QED BY <1>11, <3>1 DEF StackKept
  <2>2. ASSUME NEW k \in Level \ {index} PROVE StackKept(k)
    <3>1. \A m \in Node : container'[m] = k /\ k # 0 => m \notin E /\ container[m] = k
      BY <1>8, <2>2
    <3> QED BY <1>9, <1>10, <2>2, <3>1 DEF StackKept, InStack
  <2> QED BY <2>1, <2>2 DEF StacksKept
<1>13. ListsTyped'
  <2>1. container' \in [Node -> Level \cup {EventList}]
    BY <1>1, <1>2, Parts, LevelFacts DEF ListsTyped
  <2>2. stack' \in [Level -> Seq(Node)]
    <3>1. stack'[index] \in Seq(Node)
      BY <1>3, <1>11, SeqSubset
    <3>2. \A k \in Level : stack'[k] \in Seq(Node)
      BY <1>9, <1>10, <3>1
    <3> QED BY <1>1, <1>9, <3>2
  <2> QED BY <1>9, <2>1, <2>2 DEF ListsTyped
<1>14. LevelsInvariant' /\ level'[index'] = x
  <2>1. x.history \subseteq C
    BY <1>2, <1>5, <1>7 DEF FlowOf
  <2>2. x.pc \notin ReturningPcs
    BY <1>7 DEF ReturningPcs
  <2> QED BY <1>1, <1>2, <1>6, <1>7, <1>12, <2>1, <2>2, LevelGoesOn
<1>15. CallsInRunningChart'
  BY <1>7, <1>14, NothingCalled
<1>16. ChartsInvariant' /\ running' = running
  BY <1>1, Parts, ChartsStay
<1>17. NodesTyped' /\ StoppedChartIsQuiet'
  <2>1. node \in [Node -> NodeState]
    BY Parts DEF NodesTyped
  <2>2. ASSUME NEW m \in Node
        PROVE  /\ y(m) \in NodeState /\ y(m).timer = node[m].timer
               /\ y(m).status \in {"EndRun", node[m].status}
    <3> DEFINE s == IF m = n /\ ~runs THEN "EndRun" ELSE node[m].status
               f == IF m = n /\ runs THEN FALSE ELSE node[m].runFlag
               q == IF m \in E THEN n ELSE node[m].pre
    <3>1. node[m] \in NodeState
      BY <2>1
    <3>2. /\ s \in {"Idle", "Running", "EndRun"} /\ s \in {"EndRun", node[m].status}
          /\ f \in BOOLEAN /\ q \in Node \cup {None}
      <4> HIDE DEF runs, n
      <4> QED BY <1>3, <3>1 DEF NodeState
    <3>3. y(m) = [node[m] EXCEPT !.status = s, !.runFlag = f, !.pre = q]
      <4> HIDE DEF runs, n
      <4> QED BY <3>1 DEF NodeState
    <3> HIDE DEF s, f, q, y, runs, n
    <3> QED BY <3>1, <3>2, <3>3 DEF NodeState
  <2> HIDE DEF y
  <2>3. NodesTyped'
    BY <1>1, <2>2 DEF NodesTyped
  <2>4. \A m \in Node : /\ Status(m)' = "Running" => Status(m) = "Running"
                        /\ node'[m].timer = node[m].timer
                        /\ container'[m] = EventList => container[m] = EventList
    <3>1. index # EventList /\ EventList # 0
      BY <1>2, LevelFacts DEF EventList
    <3> QED BY <1>1, <1>8, <2>2, <3>1 DEF Status
  <2>5. StoppedChartIsQuiet'
    BY <1>16, <2>4, Parts, QuietStays
  <2> QED BY <2>3, <2>5
<1>18. QueuesTyped'
  BY <1>1, Parts, QueuesStay
<1> QED BY <1>13, <1>14, <1>15, <1>16, <1>17, <1>18, PartsNext

\* asyncflow.stop.
LEMMA StopStep ==
  ASSUME QuietInvariant, NEW c \in MayStop, Stop(c)
  PROVE  QuietInvariant'
<1>1. c \in Chart /\ AtRest /\ StopChart(c) /\ UNCHANGED <<created, index, level, queues, events>>
  BY ConstantsAssumption DEF ConstantsAssumption, Stop
<1>2. /\ ListsTyped' /\ StacksKept
      /\ ChartsInvariant' /\ NodesTyped' /\ StoppedChartIsQuiet'
  BY <1>1, ChartIsStopped
<1>3. LevelsInvariant'
  BY <1>1, <1>2, Parts, LevelsStay
<1>4. CallsInRunningChart'
  BY <1>1, NothingCalled DEF AtRest, At
<1>5. QueuesTyped'
  BY <1>1, Parts, QueuesStay
<1> QED BY <1>2, <1>3, <1>4, <1>5, PartsNext

\* asyncflow.stop of every chart an object hosts.
LEMMA StopObjectStep ==
  ASSUME QuietInvariant, NEW a, StopObject(a)
  PROVE  QuietInvariant'
<1> DEFINE C == HostedTrees(a)
           S == ChartNodes(C)
<1>1. /\ AtRest /\ UNCHANGED <<created, index, level, queues, events>>
      /\ node' = StoppedNodes(node, S) /\ Unlink(S) /\ running' = running \ C
  BY DEF StopObject
<1>2. IsClosed(C) /\ node \in [Node -> NodeState]
  BY Parts, HostedTreesAreClosed DEF ChartsInvariant, ChartsTyped, NodesTyped
<1>3. ChartNodes(C) \subseteq S
  OBVIOUS
<1> HIDE DEF C, S
<1>4. /\ ListsTyped' /\ StacksKept
      /\ \A m \in Node : container'[m] = EventList => container[m] = EventList /\ m \notin S
  BY <1>1, Parts, UnlinkEffect
<1>5. ChartsInvariant' /\ NodesTyped' /\ StoppedChartIsQuiet'
  BY <1>1, <1>2, <1>3, <1>4, NodesAreStopped
<1>6. LevelsInvariant'
  BY <1>1, <1>4, Parts, LevelsStay
<1>7. CallsInRunningChart'
  BY <1>1, NothingCalled DEF AtRest, At
<1>8. QueuesTyped'
  BY <1>1, Parts, QueuesStay
<1> QED BY <1>4, <1>5, <1>6, <1>7, <1>8, PartsNext

\* The Stop that ends Chart::Return.
LEMMA ReturnStopStep ==
  ASSUME QuietInvariant, ReturnStop
  PROVE  QuietInvariant'
<1> DEFINE x == [level[index] EXCEPT !.pc = level[index].caller, !.caller = "idle",
                                     !.returning = None]
<1>1. /\ At("returned") /\ StopChart(level[index].returning)
      /\ level' = [level EXCEPT ![index].pc = level[index].caller, ![index].caller = "idle",
                                ![index].returning = None]
      /\ UNCHANGED <<created, index, queues, events>>
  BY DEF ReturnStop
<1>2. index # 0
  BY <1>1, AtTop DEF At, ManagerPcs
<1>3. /\ index \in Level /\ level \in [Level -> LevelState] /\ level[index] \in LevelState
      /\ FlowOf(index) /\ level[index].returning \in Chart
  BY <1>1, <1>2, Parts, LevelsAreSettled, AtTop DEF At, FlowOf
<1>4. level' = [level EXCEPT ![index] = x] /\ x \in LevelState
  BY <1>1, <1>3 DEF LevelState, Pcs
<1>5. /\ x.pc = level[index].caller /\ x.caller = "idle" /\ x.chart = level[index].chart
      /\ x.history = level[index].history /\ x.current = level[index].current
      /\ level[index].caller \in {"idle", "events", "callEnd", "end"}
  BY <1>3 DEF LevelState
<1> HIDE DEF x
<1>6. /\ ListsTyped' /\ StacksKept
      /\ ChartsInvariant' /\ NodesTyped' /\ StoppedChartIsQuiet'
  BY <1>1, <1>3, ChartIsStopped
<1>7. LevelsInvariant' /\ level'[index'] = x
  <2>1. x.pc \in FlowPcs \/ x.caller = "callEnd" => InCall(index)
    BY <1>5 DEF FlowPcs, InCall
  <2>2. x.pc \notin ReturningPcs /\ x.history \subseteq ChartNodes({level[index].chart})
    BY <1>3, <1>5 DEF ReturningPcs, FlowOf
  <2> QED BY <1>1, <1>2, <1>4, <1>5, <1>6, <2>1, <2>2, LevelGoesOn
<1>8. CallsInRunningChart'
  BY <1>5, <1>7, NothingCalled
<1>9. QueuesTyped'
  BY <1>1, Parts, QueuesStay
<1> QED BY <1>6, <1>7, <1>8, <1>9, PartsNext

\* Manager::StopNode and Manager::StopFlow.
LEMMA CallStopStep ==
  ASSUME QuietInvariant, CallStop
  PROVE  QuietInvariant'
<1>1. PICK kind, T : (\E n \in Node : Calls(n, kind)) /\ StopNodes(T)
  BY DEF CallStop
<1>2. Goto("callEnd") /\ UNCHANGED <<created, queues, events>>
  BY DEF CallStop
<1>3. /\ ListsTyped' /\ StacksKept
      /\ ChartsInvariant' /\ NodesTyped' /\ StoppedChartIsQuiet'
  BY <1>1, <1>2, NodesOfStop
<1>4. index # 0 /\ InCall(index)
  BY <1>1, CallerFacts
<1>5. LevelsInvariant' /\ CallsInRunningChart'
  BY <1>2, <1>3, <1>4, Parts, GotoLevels, GotoPc, NothingCalled DEF Pcs, ReturningPcs
<1>6. QueuesTyped'
  BY <1>2, Parts, QueuesStay
<1> QED BY <1>3, <1>5, <1>6, PartsNext

\* Chart::Return, called by a node of a chart that runs.
LEMMA CallReturnStep ==
  ASSUME QuietInvariant, CallReturn
  PROVE  QuietInvariant'
<1>1. PICK n \in Node :
        /\ Calls(n, "ret")
        /\ level' = IF IsRunning(ChartOf[n])
                    THEN [level EXCEPT ![index].pc = "return", ![index].returning = ChartOf[n],
                                       ![index].caller = "callEnd"]
                    ELSE [level EXCEPT ![index].pc = "callEnd"]
        /\ UNCHANGED <<node, charts, index, lists, queues, events>>
  BY DEF CallReturn
<1> DEFINE x == [level[index] EXCEPT !.pc = "return", !.returning = ChartOf[n], !.caller = "callEnd"]
<1>2. index # 0 /\ InCall(index) /\ FlowOf(index) /\ IsRunning(ChartOf[n]) /\ ChartOf[n] \in Chart
  BY <1>1, CallerFacts, ChartOfType
<1>3. level \in [Level -> LevelState] /\ index \in Level /\ level[index] \in LevelState
  BY Parts, LevelsAreSettled
<1>4. x \in LevelState /\ level' = [level EXCEPT ![index] = x]
  BY <1>1, <1>2, <1>3 DEF LevelState, Pcs
<1>5. /\ x.pc = "return" /\ x.caller = "callEnd" /\ x.chart = level[index].chart
      /\ x.history = level[index].history /\ x.current = level[index].current
      /\ x.returning = ChartOf[n]
  BY <1>3 DEF LevelState
<1> HIDE DEF x
<1>6. ListsTyped' /\ StacksKept
  BY <1>1, Parts, ListsStay
<1>7. LevelsInvariant' /\ level'[index'] = x
  <2>1. x.history \subseteq ChartNodes({level[index].chart})
    BY <1>2, <1>5 DEF FlowOf
  <2> QED BY <1>1, <1>2, <1>4, <1>5, <1>6, <2>1, LevelGoesOn
<1>8. ChartsInvariant' /\ NodesTyped' /\ StoppedChartIsQuiet' /\ running' = running
  BY <1>1, Parts, NodesAndChartsStay, ChartsStay DEF lists
<1>9. CallsInRunningChart'
  BY <1>2, <1>5, <1>7, <1>8 DEF CallsInRunningChart, At, IsRunning
<1>10. QueuesTyped'
  BY <1>1, Parts, QueuesStay
<1> QED BY <1>6, <1>7, <1>8, <1>9, <1>10, PartsNext

\* The nodes that have ended are reset, and the chart may return.
LEMMA RestoreStep ==
  ASSUME QuietInvariant, Restore
  PROVE  QuietInvariant'
<1> DEFINE h == level[index].history
           c == level[index].chart
           ended == {n \in h : Status(n) = "EndRun"}
           S == WithSubcharts(ended)
           finished == /\ ~level[index].hasRunning
                       /\ ~CheckRunning(c, S)
                       /\ IsRunning(c)
           x == [level[index] EXCEPT !.history = {},
                                     !.pc = IF finished THEN "return" ELSE "end",
                                     !.returning = IF finished THEN c ELSE None,
                                     !.caller = IF finished THEN "end" ELSE "idle"]
<1>1. /\ At("restore")
      /\ node' = StoppedNodes(Unflagged(h), S) /\ Unlink(S)
      /\ running' = running \ SubchartsOf(ended)
      /\ level' = [level EXCEPT ![index].history = {},
                                ![index].pc = IF finished THEN "return" ELSE "end",
                                ![index].returning = IF finished THEN c ELSE None,
                                ![index].caller = IF finished THEN "end" ELSE "idle"]
      /\ UNCHANGED <<created, index, queues, events>>
  BY DEF Restore
<1>2. finished => IsRunning(c)
  OBVIOUS
<1>3. ended \subseteq h
  OBVIOUS
<1>4. ChartNodes(SubchartsOf(ended)) \subseteq S
  BY DEF WithSubcharts
<1> HIDE DEF ended, S, finished
<1>5. index # 0
  BY <1>1, AtTop DEF At, ManagerPcs
<1>6. /\ index \in Level /\ level \in [Level -> LevelState] /\ level[index] \in LevelState
      /\ FlowOf(index) /\ c \in Chart /\ h \subseteq ChartNodes({c})
  BY <1>5, Parts, LevelsAreSettled, AtTop DEF FlowOf
<1>7. level' = [level EXCEPT ![index] = x] /\ x \in LevelState
  BY <1>1, <1>6 DEF LevelState, Pcs
<1>8. /\ x.pc = (IF finished THEN "return" ELSE "end") /\ x.chart = c /\ x.history = {}
      /\ x.current = level[index].current /\ x.returning = (IF finished THEN c ELSE None)
      /\ x.caller = (IF finished THEN "end" ELSE "idle")
  BY <1>6 DEF LevelState
<1> HIDE DEF x
<1>9. /\ ListsTyped' /\ StacksKept
      /\ \A m \in Node : container'[m] = EventList => container[m] = EventList /\ m \notin S
  BY <1>1, Parts, UnlinkEffect
<1>10. LevelsInvariant' /\ level'[index'] = x
  <2>1. x.pc \notin FlowPcs /\ x.caller # "callEnd"
    BY <1>8 DEF FlowPcs
  <2>2. x.pc \in ReturningPcs => x.returning \in Chart
    BY <1>6, <1>8 DEF ReturningPcs
  <2>3. x.history \subseteq ChartNodes({level[index].chart})
    BY <1>8
  <2> QED BY <1>1, <1>5, <1>7, <1>8, <1>9, <2>1, <2>2, <2>3, LevelGoesOn
<1>11. Unflagged(h) \in [Node -> NodeState]
       /\ \A m \in Node : /\ Unflagged(h)[m].status = node[m].status
                          /\ Unflagged(h)[m].timer = node[m].timer
  <2>1. node \in [Node -> NodeState]
    BY Parts DEF NodesTyped
  <2>2. \A y \in NodeState : LET z == [y EXCEPT !.runFlag = FALSE]
                             IN  z \in NodeState /\ z.status = y.status /\ z.timer = y.timer
    BY DEF NodeState
  <2> HIDE DEF h
  <2> QED BY <2>1, <2>2 DEF Unflagged
<1>12. IsClosed(SubchartsOf(ended))
  BY Parts, SubchartsAreClosed DEF ChartsInvariant, ChartsTyped
<1>13. ChartsInvariant' /\ NodesTyped' /\ StoppedChartIsQuiet'
  <2> HIDE DEF h, c
  <2> QED BY <1>1, <1>4, <1>9, <1>11, <1>12, NodesAreStopped
<1>14. CallsInRunningChart'
  <2>1. c \notin SubchartsOf(ended)
    BY <1>3, <1>6, OwnersChartStays
  <2>2. finished => c \in running'
    BY <1>1, <1>2, <2>1 DEF IsRunning
  <2> QED BY <1>8, <1>10, <2>2 DEF CallsInRunningChart, At, IsRunning
<1>15. QueuesTyped'
  BY <1>1, Parts, QueuesStay
<1> QED BY <1>9, <1>10, <1>13, <1>14, <1>15, PartsNext

\* RunFlow returns to the executor below.
LEMMA FlowEndStep ==
  ASSUME QuietInvariant, FlowEnd
  PROVE  QuietInvariant'
<1>1. /\ index > 0 /\ index' = index - 1
      /\ level' = [level EXCEPT ![index] = FreshLevel]
      /\ UNCHANGED <<node, charts, lists, queues, events>>
  BY DEF FlowEnd
<1>2. index \in Level /\ level \in [Level -> LevelState] /\ \A k \in Level : Settled(k)
  BY Parts, LevelsAreSettled
<1>3. index' \in Level /\ index \in Int /\ index' # index
  BY <1>1, <1>2, LevelFacts
<1>4. FreshLevel \in LevelState
  BY DEF FreshLevel, LevelState, Pcs
<1>5. level' \in [Level -> LevelState]
  BY <1>1, <1>2, <1>4
<1>6. ListsTyped' /\ StacksKept
  BY <1>1, Parts, ListsStay
<1>7. ASSUME NEW k \in Level PROVE Settled(k)'
  <2>1. k \in Int /\ k >= 0
    BY LevelFacts
  <2>2. CASE k = index
    <3>1. level'[k] = FreshLevel /\ k > index' /\ k # 0 /\ k \notin 1..index'
      BY <1>1, <1>2, <1>3, <2>2
    <3> QED BY <1>3, <1>4, <2>1, <3>1 DEF Settled
  <2>3. CASE k # index
    <3>1. level'[k] = level[k] /\ StackKept(k)
      BY <1>1, <1>2, <1>6, <2>3 DEF StacksKept
    <3>2. k < index' => level[k].pc \in CallerPcs
      BY <1>1, <1>2, <1>3, <2>1 DEF Settled
    <3>3. k > index' => level[k] = FreshLevel
      BY <1>1, <1>2, <1>3, <2>1, <2>3 DEF Settled
    <3>4. k <= index' => k <= index
      BY <1>1, <1>3, <2>1
    <3> QED BY <1>2, <3>1, <3>2, <3>3, <3>4, SameLevel
  <2> QED BY <2>2, <2>3
<1>8. LevelsInvariant'
  BY <1>3, <1>5, <1>7, SettledLevels
<1>9. CallsInRunningChart'
  <2>1. level'[index'] = level[index'] /\ level[index'].pc \in CallerPcs
    BY <1>1, <1>2, <1>3 DEF Settled
  <2> QED BY <2>1, NothingCalled DEF CallerPcs
<1>10. ChartsInvariant' /\ NodesTyped' /\ StoppedChartIsQuiet'
  BY <1>1, NodesAndChartsStay DEF lists
<1>11. QueuesTyped'
  BY <1>1, Parts, QueuesStay
<1> QED BY <1>6, <1>8, <1>9, <1>10, <1>11, PartsNext

\* Chart::Return of a subchart resumes its owner, whose chart runs.
LEMMA ReturnToOwnerStep ==
  ASSUME QuietInvariant, NEW r \in Result, ReturnToOwner(r)
  PROVE  QuietInvariant'
<1> DEFINE c == level[index].returning
           o == OwnerNode[c]
           S == WithSubcharts({o})
           home == <<AgentOf[ChartOf[o]], START>>
           queued == ~CalledBelow(o) /\ StackFull
           y == [StoppedNodes(node, S)[o] EXCEPT !.result = r, !.skip = TRUE,
                                                 !.runFlag = CalledBelow(o),
                                                 !.status = IF queued THEN "Running" ELSE @]
<1>1. /\ index > 0 /\ At("return") /\ c \notin Root
      /\ node' = [StoppedNodes(node, S) EXCEPT ![o].result = r, ![o].skip = TRUE,
                                               ![o].runFlag = CalledBelow(o),
                                               ![o].status = IF queued THEN "Running" ELSE @]
      /\ running' = running \ SubchartsOf({o})
      /\ \/ CalledBelow(o) /\ UnlinkAndPush(S, o, index - 1, FALSE) /\ Goto("returned")
         \/ queued /\ UnlinkAndWait(S, o, home) /\ Goto("returned")
         \/ /\ ~CalledBelow(o) /\ ~StackFull
            /\ IF IsRunning(ChartOf[o])
               THEN UnlinkAndPush(S, o, index + 1, TRUE) /\ CallFlow(o, "returned")
               ELSE Unlink(S) /\ Goto("returned")
      /\ outQueue' = IF queued THEN <<home>> \o outQueue ELSE outQueue
      /\ UNCHANGED <<created, inQueue, events>>
  BY DEF ReturnToOwner
<1>2. queued => StackFull
  OBVIOUS
<1>3. ChartNodes(SubchartsOf({o})) \subseteq S
  BY DEF WithSubcharts
<1>4. index # 0
  <2>1. index > 0
    BY DEF ReturnToOwner
  <2> QED BY <2>1
<1> HIDE DEF S, queued
<1>5. /\ index \in Level /\ level \in [Level -> LevelState] /\ \A k \in Level : Settled(k)
      /\ c \in Chart
  BY <1>1, <1>4, Parts, LevelsAreSettled, AtTop DEF FlowOf, At
<1>6. o \in Node /\ home \in Wait
  BY <1>1, <1>5, ConstantsAssumption DEF ConstantsAssumption, Root, Wait
<1>7. ChartOf[o] \in running'
  <2>1. ChartOf[o] \in running
    BY <1>1, <1>5, Parts DEF CallsInRunningChart, ChartsInvariant, SubchartNeedsOwner, IsRunning
  <2>2. ChartOf[o] \notin SubchartsOf({o})
    BY <1>6, OwnersChartStays, ChartOfType DEF ChartNodes
  <2> QED BY <1>1, <2>1, <2>2
<1> HIDE DEF o, home
<1>8. StoppedNodes(node, S) \in [Node -> NodeState]
  BY Parts, StoppedNodesType DEF NodesTyped
<1>9. y \in NodeState /\ node' = [StoppedNodes(node, S) EXCEPT ![o] = y]
  <2>1. StoppedNodes(node, S)[o] \in NodeState
    BY <1>6, <1>8
  <2>2. CalledBelow(o) \in BOOLEAN
    BY DEF CalledBelow
  <2>3. node' = [StoppedNodes(node, S) EXCEPT ![o] = y]
    BY <1>1, <1>6, <1>8
  <2>4. y \in NodeState
    BY <2>1, <2>2 DEF NodeState, Result
  <2> QED BY <2>3, <2>4
<1> HIDE DEF y
<1>10. /\ ListsTyped' /\ LevelsInvariant' /\ CallsInRunningChart'
       /\ \A m \in Node : container'[m] = EventList
            => m = o \/ (container[m] = EventList /\ m \notin S)
  <2>1. ASSUME Goto("returned"), StacksKept PROVE LevelsInvariant' /\ CallsInRunningChart'
    BY <1>4, <1>5, <2>1, Parts, GotoLevels, GotoPc, NothingCalled DEF Pcs, FlowPcs
  <2>2. CASE CalledBelow(o) /\ UnlinkAndPush(S, o, index - 1, FALSE) /\ Goto("returned")
    <3> DEFINE k == index - 1
    <3>1. k \in Level /\ k < index
      BY <1>4, <1>5, LevelFacts
    <3>2. level[k].current = o /\ Settled(k)
      BY <1>5, <2>2, <3>1 DEF CalledBelow
    <3> HIDE DEF k
    <3>3. k # 0 /\ FlowOf(k)
      <4>1. k # 0
        BY <1>6, <3>2, ChartOfType DEF Settled
      <4>2. k \in 1..index
        BY <1>5, <3>1, <4>1, LevelFacts
      <4> QED BY <3>2, <4>1, <4>2 DEF Settled
    <3>4. o \in ChartNodes({level[k].chart})
      BY <1>6, <3>2, <3>3, ChartOfType DEF FlowOf
    <3>5. UnlinkAndPush(S, o, k, FALSE)
      BY <2>2 DEF k
    <3>6. /\ ListsTyped' /\ StacksKept
          /\ \A m \in Node : container'[m] = EventList => container[m] = EventList /\ m \notin S
      BY <1>6, <3>1, <3>3, <3>4, <3>5, Parts, ContinueEffect
    <3> QED BY <2>1, <2>2, <3>6
  <2>3. CASE queued /\ UnlinkAndWait(S, o, home) /\ Goto("returned")
    <3>1. /\ ListsTyped' /\ StacksKept
          /\ \A m \in Node : container'[m] = EventList
               => m = o \/ (container[m] = EventList /\ m \notin S)
      BY <1>6, <2>3, Parts, WaitEffect
    <3> QED BY <2>1, <2>3, <3>1
  <2>4. CASE /\ ~CalledBelow(o) /\ ~StackFull
             /\ UnlinkAndPush(S, o, index + 1, TRUE) /\ CallFlow(o, "returned")
    BY <1>4, <1>5, <1>6, <2>4, FlowCalled DEF CallerPcs
  <2>5. CASE Unlink(S) /\ Goto("returned")
    <3>1. /\ ListsTyped' /\ StacksKept
          /\ \A m \in Node : container'[m] = EventList => container[m] = EventList /\ m \notin S
      BY <2>5, Parts, UnlinkEffect
    <3> QED BY <2>1, <2>5, <3>1
  <2> QED BY <1>1, <2>2, <2>3, <2>4, <2>5
<1>11. ChartsInvariant'
  <2>1. IsClosed(SubchartsOf({o}))
    BY Parts, SubchartsAreClosed DEF ChartsInvariant, ChartsTyped
  <2> QED BY <1>1, <2>1, Parts, ChartsStop
<1>12. NodesTyped'
  BY <1>6, <1>8, <1>9 DEF NodesTyped
<1>13. StoppedChartIsQuiet'
  <2>1. ASSUME NEW m \in Node, m \in S, m # o
        PROVE  Status(m)' # "Running" /\ container'[m] # EventList /\ node'[m].timer = "off"
    <3>1. node'[m] = [node[m] EXCEPT !.status = "Idle", !.result = "rSTOP", !.runFlag = FALSE,
                                     !.skip = FALSE, !.timer = "off", !.arrived = {}]
      BY <1>6, <1>8, <1>9, <2>1 DEF StoppedNodes
    <3>2. node[m] \in NodeState
      BY Parts DEF NodesTyped
    <3> QED BY <1>10, <2>1, <3>1, <3>2 DEF Status, NodeState
  <2>2. ASSUME NEW m \in Node, m \notin S, m # o, ChartOf[m] \notin running'
        PROVE  /\ ChartOf[m] \notin running
               /\ Status(m)' = Status(m) /\ node'[m].timer = node[m].timer
               /\ container'[m] = EventList => container[m] = EventList
    <3>1. node'[m] = node[m]
      BY <1>6, <1>8, <1>9, <2>2 DEF StoppedNodes
    <3>2. ChartOf[m] \notin SubchartsOf({o})
      BY <1>3, <2>2 DEF ChartNodes
    <3> QED BY <1>1, <1>10, <2>2, <3>1, <3>2 DEF Status
  <2> QED BY <1>7, <2>1, <2>2, Parts, QuietStays
<1>14. QueuesTyped'
  BY <1>1, <1>6, Parts DEF QueuesTyped, events
<1> QED BY <1>10, <1>11, <1>12, <1>13, <1>14, PartsNext

\* The runtime starts in a state of the invariant.
LEMMA Beginning ==
  ASSUME Init
  PROVE  QuietInvariant
<1>1. NodesTyped /\ StoppedChartIsQuiet
  <2>1. FreshNode \in NodeState
    BY DEF FreshNode, NodeState, Result
  <2>2. \A n \in Node : node[n] = FreshNode /\ container[n] = 0
    BY DEF Init
  <2> QED BY <2>1, <2>2 DEF Init, NodesTyped, StoppedChartIsQuiet, Status, FreshNode, EventList
<1>2. ChartsInvariant
  BY DEF Init, ChartsInvariant, ChartsTyped, SubchartNeedsOwner, Root
<1>3. index = 0 /\ 0 \in Level /\ \A k \in Level : level[k] = FreshLevel /\ k >= 0
  BY LevelFacts DEF Init
<1>4. FreshLevel \in LevelState /\ FreshLevel.pc = "idle" /\ FreshLevel.caller = "idle"
      /\ FreshLevel.current = None
  BY DEF FreshLevel, LevelState, Pcs
<1>5. LevelsInvariant
  <2>1. LevelsTyped
    BY <1>3, <1>4 DEF Init, LevelsTyped
  <2>2. LevelsNest
    BY <1>3, <1>4, LevelFacts DEF LevelsNest
  <2>3. FlowsStayInChart
    BY <1>3 DEF FlowsStayInChart
  <2> QED BY <2>1, <2>2, <2>3 DEF LevelsInvariant
<1>6. ListsTyped
  BY LevelFacts DEF Init, ListsTyped
<1>7. QueuesTyped
  BY DEF Init, QueuesTyped
<1>8. CallsInRunningChart
  BY <1>3, <1>4 DEF CallsInRunningChart, At
<1> QED BY <1>1, <1>2, <1>5, <1>6, <1>7, <1>8, Parts

\* Nothing changes.
LEMMA Stuttering ==
  ASSUME QuietInvariant, UNCHANGED vars
  PROVE  QuietInvariant'
<1>1. UNCHANGED <<node, charts, index, level, lists, queues, events, container>>
  BY DEF vars, lists
<1>2. ListsTyped' /\ LevelsInvariant'
  BY <1>1, Parts, ListsStay, LevelsStay
<1>3. ChartsInvariant' /\ NodesTyped' /\ StoppedChartIsQuiet' /\ running' = running
  BY <1>1, NodesAndChartsStay, Parts, ChartsStay
<1>4. CallsInRunningChart'
  BY <1>1, <1>3, Parts DEF CallsInRunningChart, At, IsRunning
<1>5. QueuesTyped'
  BY <1>1, Parts, QueuesStay
<1> QED BY <1>2, <1>3, <1>4, <1>5, PartsNext

\* Every step of the game and of the runtime keeps the invariant.
LEMMA EveryStep ==
  ASSUME QuietInvariant, [Next]_vars
  PROVE  QuietInvariant'
<1>1. CASE Game
  BY <1>1, StartStep, StopStep, StopObjectStep, RaiseStep, TriggerStep, BeginStepStep DEF Game
<1>2. CASE Timers
  BY <1>2, FireNodeTimerStep, FireAgentTimerStep DEF Timers
<1>3. CASE Events
  BY <1>3, SwitchQueuesStep, HandleEventStep, EndStepStep, DispatchNodeStep, DispatchEndStep
     DEF Events
<1>4. CASE Executor
  BY <1>4, LoopExitStep, TruncateStep, SkipRunningStep, WaitTickStep, RunNodeStep, CallEndStep,
     AfterRunStep, RestoreStep, FlowEndStep DEF Executor
<1>5. CASE Returning
  BY <1>5, ReturnToOwnerStep, ReturnOfRootStep, ReturnStopStep DEF Returning
<1>6. CASE Calling
  BY <1>6, CallFuncStep, CallWaitStep, CallWaitEventStep, CallSubchartStep, CallReturnStep,
     CallTriggerStep, CallRaiseStep, CallStopStep, CallWaitAllStep DEF Calling
<1>7. CASE UNCHANGED vars
  BY <1>7, Stuttering
<1> QED BY <1>1, <1>2, <1>3, <1>4, <1>5, <1>6, <1>7 DEF Next, Runtime

-----------------------------------------------------------------------------
(* The theorems.                                                           *)

\* The invariant holds in every state the runtime reaches.
THEOREM InvariantHolds == Spec => []QuietInvariant
<1>1. Init => QuietInvariant
  BY Beginning
<1>2. QuietInvariant /\ [Next]_vars => QuietInvariant'
  BY EveryStep
<1> QED BY <1>1, <1>2, PTL DEF Spec

\* Every variable keeps its type.  In particular the stack index never leaves
\* the stack of executors, however flows, returns and dispatches nest
\* (StackExecutor::RunFlow, executor.h:84), and a pop returns a node.
THEOREM TypeCorrect == Spec => []TypeOK
<1>1. QuietInvariant => TypeOK
  BY DEF QuietInvariant
<1> QED BY <1>1, InvariantHolds, PTL

\* Once a chart is stopped, by the game, by its own return or because its owner
\* node was stopped, no node of it runs, waits or has a timer: nothing wakes it
\* (Chart::Stop, chart.cpp:76).
THEOREM StoppedChartsStayQuiet == Spec => []StoppedChartIsQuiet
<1>1. QuietInvariant => StoppedChartIsQuiet
  BY DEF QuietInvariant
<1> QED BY <1>1, InvariantHolds, PTL

\* A subchart never runs on after the chart that called it has stopped
\* (NodeSubchart::Stop, node.cpp:90).
THEOREM SubchartsNeedOwners == Spec => []SubchartNeedsOwner
<1>1. QuietInvariant => SubchartNeedsOwner
  BY DEF QuietInvariant
<1> QED BY <1>1, InvariantHolds, PTL

\* After the function of a node has returned, whatever flows it has run, the
\* executor that is going to pop finds the node on its stack, which is therefore
\* not empty (executor.cpp:28-35).
THEOREM PopsItsOwnStack == Spec => []PopFindsNode
<1>1. QuietInvariant => PopFindsNode
  <2> SUFFICES ASSUME QuietInvariant, index > 0, At("ran"), container[level[index].current] = index
               PROVE  stack[index] # <<>> /\ level[index].current \in Elements(stack[index])
    BY DEF PopFindsNode
  <2>1. FlowOf(index) /\ InCall(index)
    BY AtTop DEF InCall, At
  <2>2. Holds(level[index].current, stack[index])
    BY <2>1 DEF FlowOf
  <2> QED BY <2>2 DEF Holds, Elements
<1> QED BY <1>1, InvariantHolds, PTL
===============================================================================
