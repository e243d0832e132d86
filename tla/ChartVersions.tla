----------------------------- MODULE ChartVersions -----------------------------
(***************************************************************************)
(* The data of one chart, which is imported again and patched while charts *)
(* made from it run.                                                       *)
(*                                                                         *)
(* A chart keeps a pointer to the data it was made from, and a node for    *)
(* each node of it that there was then.  Charts are attached to objects or *)
(* called as subcharts by the nodes of others.  Of the flow of a chart the *)
(* module keeps the node it has come to: a child is looked up in the data  *)
(* when its parent has run, which may be steps later.  X_Y is X with the   *)
(* mistake Y in it.                                                        *)
(***************************************************************************)
EXTENDS NodeLists

CONSTANTS
  Object,     \* game objects, on which the chart may be attached
  Caller,     \* nodes of other charts that call it as a subchart
  Graphs,     \* what is imported: documents
  Patches,    \* what data is patched with, in place
  MaxVersion  \* bound: versions of the data

\* A document names its nodes, the start node first, and connects them.
Documents == Graphs \cup Patches
Position(uid, u) == CHOOSE i \in DOMAIN uid : uid[i] = u
Contains(uid, u) == \E i \in DOMAIN uid : uid[i] = u

ASSUME VersionsAssumption ==
  /\ MaxVersion \in Nat \ {0} /\ Object \cap Caller = {}
  /\ \A d \in Documents : d.uid \in Seq(STRING)
  /\ \A d \in Graphs :
       /\ d.uid # <<>>
       /\ \A e \in d.edges : Contains(d.uid, e[1]) /\ Contains(d.uid, e[2])

Chart == Object \cup Caller

VARIABLES
  data,     \* the versions of the data: ids of nodes are positions in uid
  dict,     \* chart_data_dict_: the current version, or 0
  chart,    \* of each chart: its data (0 when there is no chart), how many nodes
            \* it has made, and the node its flow has come to (0 when it is idle)
  graph,    \* for the properties: the data as the chart saw it when it was made
  patched   \* for the properties: the versions that were patched in place

datas == <<data, dict, patched>>
vars  == <<datas, chart, graph>>

Missing == [data |-> 0, count |-> 0, at |-> 0]
NoGraph == [uid |-> <<>>, next |-> <<>>]

Init ==
  /\ data = <<>> /\ dict = 0 /\ patched = {}
  /\ chart = [c \in Chart |-> Missing]
  /\ graph = [c \in Chart |-> NoGraph]

-----------------------------------------------------------------------------
(* Import and patch.                                                       *)

Ids(uid, E, u) == {Position(uid, e[2]) : e \in {e \in E : e[1] = u}}

\* ChartData::FromYaml.
FromYaml(d) == [uid |-> d.uid, next |-> [i \in DOMAIN d.uid |-> Ids(d.uid, d.edges, d.uid[i])]]

\* ChartData::PatchFromYaml: new nodes come last, nodes that are named lose their
\* connections, and those of the patch are added.
PatchFromYaml(g, p) ==
  LET uid == g.uid \o Without(p.uid, Elements(g.uid))
      Old(i) == IF Contains(p.uid, uid[i]) THEN {} ELSE g.next[i]
  IN  [uid |-> uid, next |-> [i \in DOMAIN uid |-> Old(i) \cup Ids(uid, p.edges, uid[i])]]
\* A connector that names an unknown node is not guarded against.
Fits(g, p) == \A e \in p.edges : \A k \in {1, 2} : Contains(g.uid \o p.uid, e[k])

ReloadChartData_Overwrites(g) ==
  /\ Len(data) < MaxVersion
  /\ IF dict = 0 THEN data' = <<g>> /\ dict' = 1
     ELSE data' = [data EXCEPT ![dict] = g] /\ UNCHANGED dict
  /\ UNCHANGED patched

\* Manager::ReloadChartData; ChartData::Update.
ReloadChartData(g) ==
  /\ Len(data) < MaxVersion
  /\ data' = Append(data, g)
  /\ dict' = Len(data')
  /\ UNCHANGED patched

Import(d) == ReloadChartData(FromYaml(d)) /\ UNCHANGED <<chart, graph>>

\* Manager::PatchFromYaml, in place.
Patch(p) ==
  /\ dict # 0 /\ Fits(data[dict], p)
  /\ data' = [data EXCEPT ![dict] = PatchFromYaml(@, p)]
  /\ patched' = patched \cup {dict}
  /\ UNCHANGED <<dict, chart, graph>>

-----------------------------------------------------------------------------
(* Charts.                                                                 *)

\* Chart::Init, and the chart idle or started.
Made(c, at) ==
  /\ chart' = [chart EXCEPT ![c] = [data |-> dict, count |-> Len(data[dict].uid), at |-> at]]
  /\ graph' = [graph EXCEPT ![c] = data[dict]]

Attach(o) ==
  /\ dict # 0 /\ chart[o] = Missing
  /\ Made(o, 0)
  /\ UNCHANGED datas

Start(o) ==
  /\ chart[o].data # 0 /\ chart[o].at = 0
  /\ chart' = [chart EXCEPT ![o].at = 1]
  /\ UNCHANGED <<datas, graph>>

Remove(o) ==
  /\ chart[o] # Missing
  /\ chart' = [chart EXCEPT ![o] = Missing]
  /\ graph' = [graph EXCEPT ![o] = NoGraph]
  /\ UNCHANGED datas

Call_ReusesOld(c) ==
  /\ dict # 0 /\ chart[c].at = 0
  /\ IF chart[c] # Missing THEN chart' = [chart EXCEPT ![c].at = 1] /\ UNCHANGED graph
     ELSE Made(c, 1)
  /\ UNCHANGED datas

\* Manager::Subchart: the chart of the last call is used again, unless the data is
\* not the same or the call is for another object.
Call(c) ==
  /\ dict # 0 /\ chart[c].at = 0
  /\ \/ /\ chart[c].data = dict
        /\ chart' = [chart EXCEPT ![c].at = 1]
        /\ UNCHANGED graph
     \/ Made(c, 1)
  /\ UNCHANGED datas

\* The children of the node that the flow of c has come to.
Children_OfCurrent(c) ==
  IF chart[c].at <= Len(data[dict].uid) THEN data[dict].next[chart[c].at] ELSE {}
Children(c) == data[chart[c].data].next[chart[c].at]

\* DfsExecutor::AddSubsequenceNodes, and the nodes that follow.
Follow(c) ==
  /\ chart[c].at \in 1..chart[c].count
  /\ \E n \in Children(c) : chart' = [chart EXCEPT ![c].at = n]
  /\ UNCHANGED <<datas, graph>>

\* The flow ends, or is stopped.
End(c) ==
  /\ chart[c].at # 0
  /\ chart' = [chart EXCEPT ![c].at = 0]
  /\ UNCHANGED <<datas, graph>>

-----------------------------------------------------------------------------
Next ==
  \/ \E d \in Graphs : Import(d)
  \/ \E p \in Patches : Patch(p)
  \/ \E o \in Object : Attach(o) \/ Start(o) \/ Remove(o)
  \/ \E c \in Caller : Call(c)
  \/ \E c \in Chart : Follow(c) \/ End(c)

Spec == Init /\ [][Next]_vars

-----------------------------------------------------------------------------
(* What importing and patching is meant to guarantee.                      *)

\* A flow comes to nodes that its chart has: Chart::GetNode does not check the id
\* that the data gives (chart.h:32, executor.cpp:190).
NodesExist == \A c \in Chart : chart[c].at <= chart[c].count

\* "Old charts old data": a chart whose data was not patched in place goes on along
\* the graph it was made from, however often that is imported again
\* (doc/lua_api.md:94, test_patch.py:99, chart_data.cpp:346-351).
OldChartsOldData ==
  [][\A c \in Chart :
       /\ chart[c].data \notin patched \cup {0} /\ chart[c].data = chart'[c].data
       /\ chart[c].at # 0 /\ chart'[c].at \notin {0, chart[c].at}
       => chart'[c].at \in graph[c].next[chart[c].at]]_vars

\* "New charts new data": what is started by a call has the data that was imported
\* last, and all the nodes of it
\* (doc/lua_api.md:94, manager.cpp:614-620).
NewChartsNewData ==
  [][\A c \in Caller : chart[c].at = 0 /\ chart'[c].at # 0 =>
       /\ chart'[c].data = dict
       /\ chart'[c].count = Len(data[dict].uid)]_vars
=============================================================================
