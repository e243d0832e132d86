---------------------------- MODULE VersionsProofs ----------------------------
(***************************************************************************)
(* Old charts keep their data and the nodes of it, for any documents,      *)
(* patches, objects and callers.                                           *)
(*                                                                         *)
(* The invariant says what a chart that was not patched relies on: the     *)
(* data it points to is still what was imported, is what the chart saw     *)
(* when it was made, and has as many nodes as the chart.                   *)
(***************************************************************************)
EXTENDS ChartVersions, NodeListsProofs

\* The versions of the data, and which of them were patched.
DataTyped ==
  /\ \E S : data \in Seq(S)
  /\ dict \in 0..Len(data)
  /\ patched \subseteq 1..Len(data)

\* A chart has a version of the data, or there is none.
ChartsTyped ==
  /\ graph = [c \in Chart |-> graph[c]]
  /\ chart = [c \in Chart |-> chart[c]]
  /\ \A c \in Chart :
       /\ chart[c] = [data |-> chart[c].data, count |-> chart[c].count, at |-> chart[c].at]
       /\ chart[c].data \in 0..Len(data)

\* A version that was not patched is what was imported.
ImportedData == \A v \in (1..Len(data)) \ patched : \E d \in Graphs : data[v] = FromYaml(d)

Unpatched(c) == chart[c].data \notin patched \cup {0}

\* The chart sees the data it was made from, and has a node for each node of it.
KeepsData ==
  \A c \in Chart : Unpatched(c) =>
    /\ graph[c] = data[chart[c].data]
    /\ chart[c].count = Len(data[chart[c].data].uid)

\* The flow of a chart whose data was not patched is at a node the chart has.
UnpatchedNodesExist ==
  \A c \in Chart : Unpatched(c) => chart[c].at \in 0..chart[c].count

\* There is no flow without a chart.
NothingFlows == \A c \in Chart : chart[c].data = 0 => chart[c] = Missing

VersionsInvariant ==
  DataTyped /\ ChartsTyped /\ ImportedData /\ KeepsData /\ UnpatchedNodesExist /\ NothingFlows

-----------------------------------------------------------------------------
(* What is imported.                                                       *)

\* FromYaml connects nodes of the document to nodes of it.
LEMMA ImportedChildren ==
  ASSUME NEW d \in Graphs
  PROVE  /\ FromYaml(d).uid = d.uid
         /\ Len(d.uid) \in Nat \ {0}
         /\ \A i \in 1..Len(d.uid) : FromYaml(d).next[i] \subseteq 1..Len(d.uid)
<1>1. d.uid \in Seq(STRING) /\ d.uid # <<>> /\ \A e \in d.edges : Contains(d.uid, e[2])
  BY VersionsAssumption DEF VersionsAssumption, Documents
<1>2. Len(d.uid) \in Nat \ {0} /\ DOMAIN d.uid = 1..Len(d.uid)
  BY <1>1
<1>3. \A u : Contains(d.uid, u) => Position(d.uid, u) \in DOMAIN d.uid
  BY DEF Contains, Position
<1>4. ASSUME NEW i \in 1..Len(d.uid) PROVE FromYaml(d).next[i] \subseteq 1..Len(d.uid)
  <2>1. FromYaml(d).next[i] = Ids(d.uid, d.edges, d.uid[i])
    BY <1>2 DEF FromYaml
  <2>2. Ids(d.uid, d.edges, d.uid[i]) \subseteq 1..Len(d.uid)
    BY <1>1, <1>2, <1>3 DEF Ids
  <2> QED BY <2>1, <2>2
<1>5. FromYaml(d).uid = d.uid
  BY DEF FromYaml
<1> QED BY <1>2, <1>4, <1>5

-----------------------------------------------------------------------------
(* The steps.                                                              *)

\* Before anything is imported there are no charts.
LEMMA VersionsInit == Init => VersionsInvariant
<1> SUFFICES ASSUME Init PROVE VersionsInvariant
  OBVIOUS
<1>1. data = <<>> /\ dict = 0 /\ patched = {} /\ data \in Seq({}) /\ Len(data) = 0
  BY DEF Init
<1>2. \A c \in Chart : chart[c] = Missing
  BY DEF Init
<1>3. DataTyped
  BY <1>1 DEF DataTyped
<1>4. ChartsTyped
  BY <1>1, <1>2 DEF Init, ChartsTyped, Missing
<1> QED
  BY <1>1, <1>2, <1>3, <1>4
     DEF VersionsInvariant, ImportedData, KeepsData, UnpatchedNodesExist, NothingFlows, Unpatched, Missing

\* Importing leaves the versions there are alone.
LEMMA ImportStep ==
  ASSUME VersionsInvariant, NEW d \in Graphs, Import(d)
  PROVE  VersionsInvariant'
<1> DEFINE g == FromYaml(d)
<1>1. data' = Append(data, g) /\ dict' = Len(data') /\ UNCHANGED <<patched, chart, graph>>
  BY DEF Import, ReloadChartData
<1>2. PICK S : data \in Seq(S)
  BY DEF VersionsInvariant, DataTyped
<1> HIDE DEF g
<1>3. /\ data' \in Seq(S \cup {g}) /\ Len(data') = Len(data) + 1 /\ Len(data) \in Nat
      /\ data'[Len(data')] = g /\ \A v \in 1..Len(data) : data'[v] = data[v]
  BY <1>1, <1>2
<1>4. DataTyped'
  BY <1>1, <1>3 DEF VersionsInvariant, DataTyped
<1>5. ChartsTyped'
  BY <1>1, <1>3 DEF VersionsInvariant, ChartsTyped
<1>6. ImportedData'
  BY <1>1, <1>3 DEF VersionsInvariant, ImportedData, g
<1>7. \A c \in Chart : Unpatched(c)' => Unpatched(c) /\ data'[chart[c].data] = data[chart[c].data]
  BY <1>1, <1>3 DEF VersionsInvariant, ChartsTyped, Unpatched
<1>8. KeepsData' /\ UnpatchedNodesExist' /\ NothingFlows'
  BY <1>1, <1>7 DEF VersionsInvariant, KeepsData, UnpatchedNodesExist, NothingFlows
<1> QED BY <1>4, <1>5, <1>6, <1>8 DEF VersionsInvariant

\* A patch changes the version it marks.
LEMMA PatchStep ==
  ASSUME VersionsInvariant, NEW p \in Patches, Patch(p)
  PROVE  VersionsInvariant'
<1> DEFINE g == PatchFromYaml(data[dict], p)
<1>1. /\ dict # 0 /\ data' = [data EXCEPT ![dict] = g]
      /\ patched' = patched \cup {dict} /\ UNCHANGED <<dict, chart, graph>>
  BY DEF Patch
<1>2. PICK S : data \in Seq(S)
  BY DEF VersionsInvariant, DataTyped
<1> HIDE DEF g
<1>3. dict \in 1..Len(data)
  BY <1>1, <1>2 DEF VersionsInvariant, DataTyped
<1>4. /\ data' \in Seq(S \cup {g}) /\ Len(data') = Len(data) /\ Len(data) \in Nat
      /\ \A v \in (1..Len(data)) \ {dict} : data'[v] = data[v]
  BY <1>1, <1>2, <1>3
<1>5. DataTyped'
  BY <1>1, <1>3, <1>4 DEF VersionsInvariant, DataTyped
<1>6. ChartsTyped'
  BY <1>1, <1>4 DEF VersionsInvariant, ChartsTyped
<1>7. ImportedData'
  BY <1>1, <1>4 DEF VersionsInvariant, ImportedData
<1>8. \A c \in Chart : Unpatched(c)' => Unpatched(c) /\ data'[chart[c].data] = data[chart[c].data]
  BY <1>1, <1>4 DEF VersionsInvariant, ChartsTyped, Unpatched
<1>9. KeepsData' /\ UnpatchedNodesExist' /\ NothingFlows'
  BY <1>1, <1>8 DEF VersionsInvariant, KeepsData, UnpatchedNodesExist, NothingFlows
<1> QED BY <1>5, <1>6, <1>7, <1>9 DEF VersionsInvariant

\* A chart that is made has the current data, all its nodes, and is idle or at the first.
LEMMA MadeStep ==
  ASSUME VersionsInvariant, NEW c \in Chart, NEW at \in {0, 1}, dict # 0, Made(c, at), UNCHANGED datas
  PROVE  VersionsInvariant'
<1> DEFINE made == [data |-> dict, count |-> Len(data[dict].uid), at |-> at]
<1>1. chart' = [chart EXCEPT ![c] = made] /\ graph' = [graph EXCEPT ![c] = data[dict]]
  BY DEF Made
<1>2. UNCHANGED <<data, dict, patched>>
  BY DEF datas
<1>3. dict \in 1..Len(data) /\ Len(data) \in Nat
  BY DEF VersionsInvariant, DataTyped
<1>4. made.data = dict /\ made.count = Len(data[dict].uid) /\ made.at = at
      /\ made = [data |-> made.data, count |-> made.count, at |-> made.at]
  OBVIOUS
<1> HIDE DEF made
<1>5. chart'[c] = made /\ graph'[c] = data[dict]
      /\ \A x \in Chart \ {c} : chart'[x] = chart[x] /\ graph'[x] = graph[x]
  BY <1>1 DEF VersionsInvariant, ChartsTyped
<1>6. DataTyped' /\ ImportedData'
  BY <1>2 DEF VersionsInvariant, DataTyped, ImportedData
<1>7. ChartsTyped'
  <2>1. chart' = [x \in Chart |-> chart'[x]] /\ graph' = [x \in Chart |-> graph'[x]]
    BY <1>1 DEF VersionsInvariant, ChartsTyped
  <2>2. \A x \in Chart : chart'[x] = [data |-> chart'[x].data, count |-> chart'[x].count, at |-> chart'[x].at]
    BY <1>4, <1>5 DEF VersionsInvariant, ChartsTyped
  <2>3. \A x \in Chart : chart'[x].data \in 0..Len(data')
    BY <1>2, <1>3, <1>4, <1>5 DEF VersionsInvariant, ChartsTyped
  <2> QED BY <2>1, <2>2, <2>3 DEF ChartsTyped
<1>8. KeepsData'
  BY <1>2, <1>4, <1>5 DEF VersionsInvariant, KeepsData, Unpatched
<1>9. dict \notin patched => at \in 0..Len(data[dict].uid)
  BY <1>3, ImportedChildren DEF VersionsInvariant, ImportedData
<1>10. UnpatchedNodesExist' /\ NothingFlows'
  BY <1>2, <1>4, <1>5, <1>9 DEF VersionsInvariant, UnpatchedNodesExist, NothingFlows, Unpatched
<1> QED BY <1>6, <1>7, <1>8, <1>10 DEF VersionsInvariant

\* The flow of c comes to a node, or ends, and its chart stays as it is.
LEMMA FlowStep ==
  ASSUME VersionsInvariant, NEW c \in Chart, NEW at,
         chart' = [chart EXCEPT ![c].at = at], UNCHANGED <<datas, graph>>,
         chart[c].data = 0 => at = 0, Unpatched(c) => at \in 0..chart[c].count
  PROVE  VersionsInvariant'
<1>1. UNCHANGED <<data, dict, patched, graph>>
  BY DEF datas
<1>2. /\ chart'[c] = [data |-> chart[c].data, count |-> chart[c].count, at |-> at]
      /\ \A x \in Chart \ {c} : chart'[x] = chart[x]
      /\ chart' = [x \in Chart |-> chart'[x]]
  BY DEF VersionsInvariant, ChartsTyped
<1>3. \A x \in Chart : chart'[x].data = chart[x].data /\ chart'[x].count = chart[x].count
  BY <1>2
<1>4. DataTyped' /\ ImportedData'
  BY <1>1 DEF VersionsInvariant, DataTyped, ImportedData
<1>5. ChartsTyped'
  BY <1>1, <1>2 DEF VersionsInvariant, ChartsTyped
<1>6. KeepsData'
  BY <1>1, <1>3 DEF VersionsInvariant, KeepsData, Unpatched
<1>7. UnpatchedNodesExist'
  BY <1>1, <1>2, <1>3 DEF VersionsInvariant, UnpatchedNodesExist, Unpatched
<1>8. NothingFlows'
  BY <1>1, <1>2, <1>3 DEF VersionsInvariant, NothingFlows, Missing
<1> QED BY <1>4, <1>5, <1>6, <1>7, <1>8 DEF VersionsInvariant

\* A chart that is removed leaves nothing.
LEMMA RemoveStep ==
  ASSUME VersionsInvariant, NEW o \in Object, Remove(o)
  PROVE  VersionsInvariant'
<1>1. o \in Chart /\ UNCHANGED <<data, dict, patched>>
      /\ chart' = [chart EXCEPT ![o] = Missing] /\ graph' = [graph EXCEPT ![o] = NoGraph]
  BY DEF Remove, datas, Chart
<1>2. chart'[o] = Missing /\ graph'[o] = NoGraph
      /\ \A x \in Chart \ {o} : chart'[x] = chart[x] /\ graph'[x] = graph[x]
  BY <1>1 DEF VersionsInvariant, ChartsTyped
<1>3. DataTyped' /\ ImportedData' /\ Len(data) \in Nat
  BY <1>1 DEF VersionsInvariant, DataTyped, ImportedData
<1>4. ChartsTyped'
  <2>1. chart' = [x \in Chart |-> chart'[x]] /\ graph' = [x \in Chart |-> graph'[x]]
    BY <1>1 DEF VersionsInvariant, ChartsTyped
  <2>2. \A x \in Chart : chart'[x] = [data |-> chart'[x].data, count |-> chart'[x].count, at |-> chart'[x].at]
    BY <1>2 DEF VersionsInvariant, ChartsTyped, Missing
  <2>3. chart'[o].data = 0
    BY <1>2 DEF Missing
  <2>4. \A x \in Chart : chart[x].data \in 0..Len(data)
    BY DEF VersionsInvariant, ChartsTyped
  <2>5. \A x \in Chart : chart'[x].data \in 0..Len(data)
    BY <1>2, <1>3, <2>3, <2>4
  <2> QED BY <1>1, <2>1, <2>2, <2>5 DEF ChartsTyped
<1>5. KeepsData' /\ UnpatchedNodesExist' /\ NothingFlows'
  BY <1>1, <1>2 DEF VersionsInvariant, KeepsData, UnpatchedNodesExist, NothingFlows, Unpatched, Missing
<1> QED BY <1>3, <1>4, <1>5 DEF VersionsInvariant

\* A chart that was not patched has a first node, and the children of its nodes.
LEMMA UnpatchedChildren ==
  ASSUME VersionsInvariant, NEW c \in Chart, Unpatched(c)
  PROVE  /\ {0, 1} \subseteq 0..chart[c].count
         /\ chart[c].at \in 1..chart[c].count => Children(c) \subseteq 0..chart[c].count
<1>1. chart[c].data \in (1..Len(data)) \ patched
  BY DEF VersionsInvariant, DataTyped, ChartsTyped, Unpatched
<1>2. PICK d \in Graphs : data[chart[c].data] = FromYaml(d)
  BY <1>1 DEF VersionsInvariant, ImportedData
<1>3. chart[c].count = Len(d.uid)
  BY <1>2, ImportedChildren DEF VersionsInvariant, KeepsData
<1> QED BY <1>2, <1>3, ImportedChildren DEF Children

\* Every step keeps the invariant.
LEMMA VersionsStep == VersionsInvariant /\ [Next]_vars => VersionsInvariant'
<1> SUFFICES ASSUME VersionsInvariant, [Next]_vars PROVE VersionsInvariant'
  OBVIOUS
<1>1. CASE UNCHANGED vars
  BY <1>1 DEF vars, datas, VersionsInvariant, DataTyped, ChartsTyped, ImportedData, KeepsData,
              UnpatchedNodesExist, NothingFlows, Unpatched
<1>2. CASE \E d \in Graphs : Import(d)
  BY <1>2, ImportStep
<1>3. CASE \E p \in Patches : Patch(p)
  BY <1>3, PatchStep
<1>4. ASSUME NEW o \in Object, Attach(o) PROVE VersionsInvariant'
  BY <1>4, MadeStep DEF Attach, Chart
<1>5. ASSUME NEW o \in Object, Start(o) PROVE VersionsInvariant'
  <2>1. o \in Chart /\ chart[o].data # 0 /\ chart' = [chart EXCEPT ![o].at = 1] /\ UNCHANGED <<datas, graph>>
    BY <1>5 DEF Start, Chart
  <2> QED BY <2>1, UnpatchedChildren, FlowStep
<1>6. ASSUME NEW o \in Object, Remove(o) PROVE VersionsInvariant'
  BY <1>6, RemoveStep
<1>7. ASSUME NEW c \in Caller, Call(c) PROVE VersionsInvariant'
  <2>1. c \in Chart /\ dict # 0 /\ UNCHANGED datas
    BY <1>7 DEF Call, Chart
  <2>2. CASE chart[c].data = dict /\ chart' = [chart EXCEPT ![c].at = 1] /\ UNCHANGED graph
    BY <2>1, <2>2, UnpatchedChildren, FlowStep
  <2>3. CASE Made(c, 1)
    BY <2>1, <2>3, MadeStep
  <2> QED BY <1>7, <2>2, <2>3 DEF Call
<1>8. ASSUME NEW c \in Chart, Follow(c) PROVE VersionsInvariant'
  <2>1. /\ chart[c].at \in 1..chart[c].count /\ UNCHANGED <<datas, graph>>
        /\ \E n \in Children(c) : chart' = [chart EXCEPT ![c].at = n]
    BY <1>8 DEF Follow
  <2>2. chart[c].data # 0
    BY <2>1 DEF VersionsInvariant, NothingFlows, Missing
  <2> QED BY <2>1, <2>2, UnpatchedChildren, FlowStep
<1>9. ASSUME NEW c \in Chart, End(c) PROVE VersionsInvariant'
  <2>1. chart' = [chart EXCEPT ![c].at = 0] /\ UNCHANGED <<datas, graph>>
    BY <1>9 DEF End
  <2>2. Unpatched(c) => 0 \in 0..chart[c].count
    BY UnpatchedChildren
  <2> QED BY <2>1, <2>2, FlowStep
<1> QED BY <1>1, <1>2, <1>3, <1>4, <1>5, <1>6, <1>7, <1>8, <1>9 DEF Next

-----------------------------------------------------------------------------
(* The theorems.                                                           *)

\* The data a chart points to is what it was made from, until it is patched in place
\* (manager.cpp:303-363, chart.cpp:60-73).
THEOREM VersionsInvariantHolds == Spec => []VersionsInvariant
BY VersionsInit, VersionsStep, PTL DEF Spec

\* The change of one step that OldChartsOldData is about.
LEMMA FollowsOwnGraph ==
  ASSUME VersionsInvariant, [Next]_vars, NEW c \in Chart, Unpatched(c),
         chart[c].data = chart'[c].data, chart[c].at # 0, chart'[c].at \notin {0, chart[c].at}
  PROVE  chart'[c].at \in graph[c].next[chart[c].at]
<1>1. chart = [x \in Chart |-> chart[x]]
      /\ \A x \in Chart : chart[x] = [data |-> chart[x].data, count |-> chart[x].count, at |-> chart[x].at]
  BY DEF VersionsInvariant, ChartsTyped
<1>2. graph[c] = data[chart[c].data]
  BY DEF VersionsInvariant, KeepsData
<1>3. \A n, x \in Chart : chart' = [chart EXCEPT ![x].at = n] /\ x # c => chart'[c] = chart[c]
  BY <1>1
<1>4. PICK x \in Chart : Follow(x) \/ Attach(x) \/ Start(x) \/ Remove(x) \/ Call(x) \/ End(x)
  BY DEF Next, vars, datas, Import, Patch, Chart
<1>5. x = c
  BY <1>1, <1>4 DEF Follow, Attach, Start, Remove, Call, Made, End
<1>6. CASE Follow(c)
  BY <1>1, <1>2, <1>6 DEF Follow, Children
<1>7. ~Start(c) /\ ~Call(c)
  BY DEF Start, Call
<1>8. ~Attach(c) /\ ~Remove(c) /\ ~End(c)
  BY <1>1 DEF Attach, Remove, End, Missing
<1> QED BY <1>4, <1>5, <1>6, <1>7, <1>8

\* "Old charts old data" (doc/lua_api.md:94): a chart whose data was not patched in
\* place goes on along the graph it was made from (manager.cpp:348-363).
THEOREM OldChartsKeepData == Spec => OldChartsOldData
<1>1. VersionsInvariant /\ [Next]_vars =>
        \A c \in Chart :
          /\ chart[c].data \notin patched \cup {0} /\ chart[c].data = chart'[c].data
          /\ chart[c].at # 0 /\ chart'[c].at \notin {0, chart[c].at}
          => chart'[c].at \in graph[c].next[chart[c].at]
  BY FollowsOwnGraph DEF Unpatched
<1> QED BY <1>1, VersionsInvariantHolds, PTL DEF Spec, OldChartsOldData

-----------------------------------------------------------------------------
(* Where patches only connect nodes in another way.                        *)

\* A patch in place names only nodes that every version of the chart has.
OnlyReconnects ==
  \A p \in Patches, d \in Graphs : \A i \in DOMAIN p.uid : Contains(d.uid, p.uid[i])

\* A version has the nodes of the document it was imported from, however often it
\* has been patched since, and connects them to one another.
SameNodes(g) ==
  \E d \in Graphs :
    /\ g.uid = d.uid
    /\ \A i \in 1..Len(d.uid) : g.next[i] \subseteq 1..Len(d.uid)

\* A chart has as many nodes as its data, and its flow is at one of them.
AtItsNodes(c) ==
  chart[c].data # 0 =>
    /\ chart[c].count = Len(data[chart[c].data].uid)
    /\ chart[c].at \in 0..chart[c].count

ReconnectInvariant ==
  /\ VersionsInvariant
  /\ \A v \in 1..Len(data) : SameNodes(data[v])
  /\ \A c \in Chart : AtItsNodes(c)

\* What is imported has the nodes of the document.
LEMMA ImportedNodes ==
  ASSUME NEW d \in Graphs
  PROVE  SameNodes(FromYaml(d))
BY ImportedChildren DEF SameNodes

\* A patch that names no new nodes leaves the nodes as they are.
LEMMA PatchedNodes ==
  ASSUME OnlyReconnects, NEW g, SameNodes(g), NEW p \in Patches, Fits(g, p)
  PROVE  SameNodes(PatchFromYaml(g, p)) /\ PatchFromYaml(g, p).uid = g.uid
<1> DEFINE new == Without(p.uid, Elements(g.uid))
           h == PatchFromYaml(g, p)
<1>1. PICK d \in Graphs : g.uid = d.uid /\ \A i \in 1..Len(d.uid) : g.next[i] \subseteq 1..Len(d.uid)
  BY DEF SameNodes
<1>2. d.uid \in Seq(STRING) /\ p.uid \in Seq(STRING)
  BY VersionsAssumption DEF VersionsAssumption, Documents
<1>3. DOMAIN d.uid = 1..Len(d.uid) /\ DOMAIN p.uid = 1..Len(p.uid) /\ Len(d.uid) \in Nat /\ Len(p.uid) \in Nat
  BY <1>2
<1>4. Elements(p.uid) \subseteq Elements(g.uid)
  BY <1>1, <1>3 DEF OnlyReconnects, Contains, Elements
<1>5. new = <<>>
  <2>1. new \in Seq(STRING) /\ Elements(new) = {}
    BY <1>2, <1>4, WithoutType, WithoutElements
  <2> HIDE DEF new
  <2>2. Len(new) \in Nat /\ \A i \in 1..Len(new) : new[i] \in Elements(new)
    BY <2>1 DEF Elements
  <2> QED BY <2>1, <2>2
<1>6. g.uid \o new = d.uid
  BY <1>1, <1>2, <1>5
<1>7. /\ h.uid = d.uid
      /\ \A i \in 1..Len(d.uid) :
           h.next[i] \subseteq g.next[i] \cup Ids(d.uid, p.edges, d.uid[i])
  BY <1>3, <1>6 DEF PatchFromYaml
<1>8. \A e \in p.edges : Contains(d.uid, e[2])
  <2> SUFFICES ASSUME NEW e \in p.edges PROVE Contains(d.uid, e[2])
    OBVIOUS
  <2>1. Contains(d.uid \o p.uid, e[2])
    BY <1>1 DEF Fits
  <2>2. PICK i \in DOMAIN (d.uid \o p.uid) : (d.uid \o p.uid)[i] = e[2]
    BY <2>1 DEF Contains
  <2> DEFINE all == d.uid \o p.uid
  <2>3. all \in Seq(STRING) /\ Elements(all) = Elements(d.uid) \cup Elements(p.uid)
    BY <1>2, ConcatElements
  <2> HIDE DEF all
  <2>4. e[2] \in Elements(all)
    <3>1. DOMAIN all = 1..Len(all)
      BY <2>3
    <3> QED BY <2>2, <3>1 DEF Elements, all
  <2>5. e[2] \in Elements(d.uid)
    BY <1>1, <1>4, <2>3, <2>4
  <2> QED BY <1>3, <2>5 DEF Contains, Elements
<1>9. \A u : Contains(d.uid, u) => Position(d.uid, u) \in 1..Len(d.uid)
  BY <1>3 DEF Contains, Position
<1>10. \A u : Ids(d.uid, p.edges, u) \subseteq 1..Len(d.uid)
  BY <1>8, <1>9 DEF Ids
<1>11. \A i \in 1..Len(d.uid) : h.next[i] \subseteq 1..Len(d.uid)
  BY <1>1, <1>7, <1>10
<1> HIDE DEF h
<1> QED BY <1>1, <1>7, <1>11 DEF SameNodes, h

\* The versions keep their nodes through imports and patches.
LEMMA DataSteps ==
  ASSUME OnlyReconnects, ReconnectInvariant, [Next]_vars
  PROVE  /\ \A v \in 1..Len(data') : SameNodes(data'[v])
         /\ Len(data') >= Len(data)
         /\ \A v \in 1..Len(data) : data'[v].uid = data[v].uid
<1>1. PICK S : data \in Seq(S)
  BY DEF ReconnectInvariant, VersionsInvariant, DataTyped
<1>2. dict \in 0..Len(data) /\ Len(data) \in Nat /\ \A v \in 1..Len(data) : SameNodes(data[v])
  BY <1>1 DEF ReconnectInvariant, VersionsInvariant, DataTyped
<1>3. ASSUME NEW d \in Graphs, Import(d)
      PROVE  /\ \A v \in 1..Len(data') : SameNodes(data'[v])
             /\ Len(data') >= Len(data)
             /\ \A v \in 1..Len(data) : data'[v].uid = data[v].uid
  <2> DEFINE g == FromYaml(d)
  <2>1. data' = Append(data, g) /\ SameNodes(g)
    BY <1>3, ImportedNodes DEF Import, ReloadChartData
  <2> HIDE DEF g
  <2>2. Len(data') = Len(data) + 1 /\ data'[Len(data) + 1] = g /\ \A v \in 1..Len(data) : data'[v] = data[v]
    BY <1>1, <2>1
  <2>3. \A v \in 1..Len(data') : v = Len(data) + 1 \/ v \in 1..Len(data)
    BY <1>2, <2>2
  <2> QED BY <1>2, <2>1, <2>2, <2>3
<1>4. ASSUME NEW p \in Patches, Patch(p)
      PROVE  /\ \A v \in 1..Len(data') : SameNodes(data'[v])
             /\ Len(data') >= Len(data)
             /\ \A v \in 1..Len(data) : data'[v].uid = data[v].uid
  <2> DEFINE g == PatchFromYaml(data[dict], p)
  <2>1. dict \in 1..Len(data) /\ Fits(data[dict], p) /\ data' = [data EXCEPT ![dict] = g]
    BY <1>2, <1>4 DEF Patch
  <2>2. SameNodes(g) /\ g.uid = data[dict].uid
    BY <1>2, <2>1, PatchedNodes
  <2> HIDE DEF g
  <2>3. Len(data') = Len(data) /\ data'[dict] = g /\ \A v \in 1..Len(data) : v # dict => data'[v] = data[v]
    BY <1>1, <2>1
  <2> QED BY <1>2, <2>1, <2>2, <2>3
<1>5. CASE UNCHANGED data
  BY <1>2, <1>5
<1>6. (\E d \in Graphs : Import(d)) \/ (\E p \in Patches : Patch(p)) \/ UNCHANGED data
  BY DEF Next, vars, datas, Attach, Start, Remove, Call, Follow, End
<1> QED BY <1>3, <1>4, <1>5, <1>6

\* What a step makes of a chart: one of the current version, none, or one whose flow
\* has gone on along its data.
LEMMA ChartSteps ==
  ASSUME ReconnectInvariant, [Next]_vars, NEW c \in Chart
  PROVE  \/ chart'[c] = chart[c]
         \/ chart'[c] = Missing
         \/ /\ dict # 0 /\ UNCHANGED data
            /\ \E at \in {0, 1} :
                 chart'[c] = [data |-> dict, count |-> Len(data[dict].uid), at |-> at]
         \/ /\ chart[c].data # 0 /\ UNCHANGED data
            /\ \E at \in {0, 1} \cup Children(c) :
                 /\ at \in {0, 1} \/ chart[c].at \in 1..chart[c].count
                 /\ chart'[c] = [chart[c] EXCEPT !.at = at]
<1>1. chart = [x \in Chart |-> chart[x]]
  BY DEF ReconnectInvariant, VersionsInvariant, ChartsTyped
<1>2. CASE UNCHANGED chart
  BY <1>2
<1>3. ASSUME NEW o \in Object, Attach(o) PROVE chart'[c] = chart[c] \/ (o = c /\ dict # 0 /\ UNCHANGED data
        /\ chart'[c] = [data |-> dict, count |-> Len(data[dict].uid), at |-> 0])
  BY <1>1, <1>3 DEF Attach, Made, datas
<1>4. ASSUME NEW o \in Object, Remove(o) PROVE chart'[c] = chart[c] \/ chart'[c] = Missing
  BY <1>1, <1>4 DEF Remove
<1>5. ASSUME NEW o \in Object, Start(o) PROVE chart'[c] = chart[c] \/ (chart[c].data # 0 /\ UNCHANGED data
        /\ chart'[c] = [chart[c] EXCEPT !.at = 1])
  BY <1>1, <1>5 DEF Start, datas
<1>6. ASSUME NEW x \in Caller, Call(x)
      PROVE  \/ chart'[c] = chart[c]
             \/ chart[c].data # 0 /\ UNCHANGED data /\ chart'[c] = [chart[c] EXCEPT !.at = 1]
             \/ /\ dict # 0 /\ UNCHANGED data
                /\ chart'[c] = [data |-> dict, count |-> Len(data[dict].uid), at |-> 1]
  BY <1>1, <1>6 DEF Call, Made, datas
<1>7. ASSUME NEW x \in Chart, Follow(x)
      PROVE  \/ chart'[c] = chart[c]
             \/ /\ chart[c].data # 0 /\ UNCHANGED data /\ chart[c].at \in 1..chart[c].count
                /\ \E at \in Children(c) : chart'[c] = [chart[c] EXCEPT !.at = at]
  <2>1. x = c => chart[c].data # 0
    BY <1>7 DEF Follow, ReconnectInvariant, VersionsInvariant, NothingFlows, Missing
  <2>2. PICK n \in Children(x) : chart' = [chart EXCEPT ![x].at = n]
    BY <1>7 DEF Follow
  <2>3. UNCHANGED data /\ chart[x].at \in 1..chart[x].count
    BY <1>7 DEF Follow, datas
  <2>4. CASE x = c
    BY <1>1, <2>1, <2>2, <2>3, <2>4
  <2>5. CASE x # c
    BY <1>1, <2>2, <2>5
  <2> QED BY <2>4, <2>5
<1>8. ASSUME NEW x \in Chart, End(x)
      PROVE  chart'[c] = chart[c] \/ (chart[c].data # 0 /\ UNCHANGED data /\ chart'[c] = [chart[c] EXCEPT !.at = 0])
  <2>1. x = c => chart[c].data # 0
    BY <1>8 DEF End, ReconnectInvariant, VersionsInvariant, NothingFlows, Missing
  <2> QED BY <1>1, <1>8, <2>1 DEF End, datas
<1>9. \/ UNCHANGED chart
      \/ \E o \in Object : Attach(o) \/ Start(o) \/ Remove(o)
      \/ \E x \in Caller : Call(x)
      \/ \E x \in Chart : Follow(x) \/ End(x)
  BY DEF Next, vars, Import, Patch
<1> QED BY <1>2, <1>3, <1>4, <1>5, <1>6, <1>7, <1>8, <1>9

\* Every step keeps that invariant.
LEMMA ReconnectStep ==
  ASSUME OnlyReconnects, ReconnectInvariant, [Next]_vars
  PROVE  ReconnectInvariant'
<1>1. VersionsInvariant'
  BY VersionsStep DEF ReconnectInvariant
<1>2. ASSUME NEW c \in Chart PROVE AtItsNodes(c)'
  <2>1. /\ \A v \in 1..Len(data) : data'[v].uid = data[v].uid
        /\ \A v \in 1..Len(data) : SameNodes(data[v])
        /\ Len(data) \in Nat /\ dict \in 0..Len(data) /\ chart[c].data \in 0..Len(data)
        /\ chart[c] = [data |-> chart[c].data, count |-> chart[c].count, at |-> chart[c].at]
        /\ AtItsNodes(c)
    BY DataSteps DEF ReconnectInvariant, VersionsInvariant, DataTyped, ChartsTyped
  <2>2. \A v \in 1..Len(data) : /\ {0, 1} \subseteq 0..Len(data[v].uid)
                                /\ \A i \in 1..Len(data[v].uid) : data[v].next[i] \subseteq 0..Len(data[v].uid)
    BY <2>1, ImportedChildren DEF SameNodes
  <2>3. CASE chart'[c] = chart[c]
    BY <2>1, <2>3 DEF AtItsNodes
  <2>4. CASE chart'[c] = Missing
    BY <2>4 DEF AtItsNodes, Missing
  <2>5. CASE dict # 0 /\ UNCHANGED data
             /\ \E at \in {0, 1} : chart'[c] = [data |-> dict, count |-> Len(data[dict].uid), at |-> at]
    BY <2>1, <2>2, <2>5 DEF AtItsNodes
  <2>6. CASE chart[c].data # 0 /\ UNCHANGED data
             /\ \E at \in {0, 1} \cup Children(c) :
                  /\ at \in {0, 1} \/ chart[c].at \in 1..chart[c].count
                  /\ chart'[c] = [chart[c] EXCEPT !.at = at]
    <3>1. PICK at \in {0, 1} \cup Children(c) :
            /\ at \in {0, 1} \/ chart[c].at \in 1..chart[c].count
            /\ chart'[c] = [data |-> chart[c].data, count |-> chart[c].count, at |-> at]
      BY <2>1, <2>6
    <3>2. at \in 0..chart[c].count
      BY <2>1, <2>2, <2>6, <3>1 DEF AtItsNodes, Children
    <3> QED BY <2>1, <2>6, <3>1, <3>2 DEF AtItsNodes
  <2> QED BY <2>3, <2>4, <2>5, <2>6, ChartSteps
<1> QED BY <1>1, <1>2, DataSteps DEF ReconnectInvariant

\* It holds in every state, where patches only connect nodes in another way.
LEMMA ReconnectInvariantHolds ==
  ASSUME OnlyReconnects
  PROVE  Spec => []ReconnectInvariant
<1>1. Init => ReconnectInvariant
  <2> SUFFICES ASSUME Init PROVE ReconnectInvariant
    OBVIOUS
  <2>1. data = <<>> /\ Len(data) = 0 /\ \A c \in Chart : chart[c].data = 0
    BY DEF Init, Missing
  <2> QED BY <2>1, VersionsInit DEF ReconnectInvariant, AtItsNodes
<1>2. ReconnectInvariant /\ [Next]_vars => ReconnectInvariant'
  BY ReconnectStep
<1> QED BY <1>1, <1>2, PTL DEF Spec

\* No flow comes to a node its chart does not have, however often the chart is imported
\* again, and patched, while it runs, as long as no patch adds a node: the unchecked
\* Chart::GetNode is safe (chart.h:32).
THEOREM ReconnectedNodesExist ==
  ASSUME OnlyReconnects
  PROVE  Spec => []NodesExist
<1>1. ReconnectInvariant => NodesExist
  <2> SUFFICES ASSUME ReconnectInvariant, NEW c \in Chart
               PROVE  chart[c].at <= chart[c].count
    BY DEF NodesExist
  <2>1. CASE chart[c].data = 0
    BY <2>1 DEF ReconnectInvariant, VersionsInvariant, NothingFlows, Missing
  <2>2. CASE chart[c].data # 0
    <3>1. chart[c].data \in 1..Len(data) /\ chart[c].at \in 0..chart[c].count
      BY <2>2 DEF ReconnectInvariant, VersionsInvariant, ChartsTyped, DataTyped, AtItsNodes
    <3> QED BY <3>1
  <2> QED BY <2>1, <2>2
<1> QED BY <1>1, ReconnectInvariantHolds, PTL

\* "New charts new data" (doc/lua_api.md:94): a call starts a chart of the version that was
\* imported last, with all the nodes of it, also when it uses the chart of the last call
\* again (manager.cpp:614-620).
THEOREM NewChartsHaveNewData ==
  ASSUME OnlyReconnects
  PROVE  Spec => NewChartsNewData
<1>1. ReconnectInvariant /\ [Next]_vars =>
        \A c \in Caller : chart[c].at = 0 /\ chart'[c].at # 0 =>
          /\ chart'[c].data = dict
          /\ chart'[c].count = Len(data[dict].uid)
  <2> SUFFICES ASSUME ReconnectInvariant, [Next]_vars, NEW c \in Caller, chart[c].at = 0, chart'[c].at # 0
               PROVE  chart'[c].data = dict /\ chart'[c].count = Len(data[dict].uid)
    OBVIOUS
  <2>1. /\ c \in Chart /\ chart = [x \in Chart |-> chart[x]]
        /\ chart[c] = [data |-> chart[c].data, count |-> chart[c].count, at |-> chart[c].at]
        /\ AtItsNodes(c)
    BY DEF ReconnectInvariant, VersionsInvariant, ChartsTyped, Chart
  <2>2. PICK x \in Chart : \/ (x \in Object /\ (Attach(x) \/ Start(x) \/ Remove(x)))
                           \/ (x \in Caller /\ Call(x)) \/ Follow(x) \/ End(x)
    BY DEF Next, vars, Import, Patch, Chart
  <2>3. x = c
    BY <2>1, <2>2 DEF Attach, Start, Remove, Call, Made, Follow, End
  <2>4. c \notin Object /\ ~ Follow(c) /\ ~ End(c)
    BY <2>1, VersionsAssumption DEF Follow, End, VersionsAssumption
  <2>5. CASE Call(c)
    BY <2>1, <2>5 DEF Call, Made, AtItsNodes
  <2> QED BY <2>2, <2>3, <2>4, <2>5
<1> QED BY <1>1, ReconnectInvariantHolds, PTL DEF Spec, NewChartsNewData
=============================================================================
