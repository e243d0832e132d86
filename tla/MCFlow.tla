------------------------------- MODULE MCFlow -------------------------------
(***************************************************************************)
(* Instances of FlowExecutor: a script is a set of charts given by their   *)
(* nodes (the first is the start node), the functions of their nodes and   *)
(* their connectors.  An instance has the charts of several scripts; the   *)
(* first component of a chart or a node says of which.                     *)
(***************************************************************************)
EXTENDS FlowProperties, TLC

CONSTANT Scripts    \* a sequence of scripts

Given(f, x, default) == IF x \in DOMAIN f THEN f[x] ELSE default
Tag(i, s) == [j \in DOMAIN s |-> <<i, s[j]>>]

ScriptChart == UNION {{i} \X DOMAIN Scripts[i].nodes : i \in DOMAIN Scripts}
NodesOfScript(i) == UNION {Elements(Scripts[i].nodes[c]) : c \in DOMAIN Scripts[i].nodes}
ScriptNode == UNION {{i} \X NodesOfScript(i) : i \in DOMAIN Scripts}
ScriptEvent == {"Start", "Tick", "E", "F", "G", "H"}
ScriptChartOf == [n \in ScriptNode |->
  <<n[1], CHOOSE c \in DOMAIN Scripts[n[1]].nodes : n[2] \in Elements(Scripts[n[1]].nodes[c])>>]
ScriptStart == [c \in ScriptChart |-> <<c[1], Scripts[c[1]].nodes[c[2]][1]>>]
ScriptOwner == [c \in ScriptChart |->
  LET owner == Scripts[c[1]].owner IN IF c[2] \in DOMAIN owner THEN <<c[1], owner[c[2]]>> ELSE None]
ScriptKind == [n \in ScriptNode |-> Given(Scripts[n[1]].kind, n[2], "func")]
\* next: connectors taken on success, and on failure too unless fail says otherwise
ScriptChild == [n \in ScriptNode |-> [b \in BOOLEAN |->
                  LET next == Given(Scripts[n[1]].next, n[2], <<>>)
                  IN  Tag(n[1], IF b THEN next ELSE Given(Scripts[n[1]].fail, n[2], next))]]
ScriptTarget == [n \in ScriptNode |-> {n[1]} \X Given(Scripts[n[1]].target, n[2], {})]
ScriptAgentOf == [c \in ScriptChart |-> Given(Scripts[c[1]].agent, c[2], "o1")]
ScriptAgent == {ScriptAgentOf[c] : c \in ScriptChart}
ScriptNames == [n \in ScriptNode |-> Given(Scripts[n[1]].names, n[2], <<"o1", "E">>)]
ScriptNoLoopCheck == UNION {{i} \X Scripts[i].noLoopCheck : i \in DOMAIN Scripts}

RECURSIVE Below(_)
Below(c) == {c} \cup UNION {Below(d) : d \in {d \in ScriptChart :
                              ScriptOwner[d] # None /\ ScriptChartOf[ScriptOwner[d]] = c}}
ScriptUnder == [c \in ScriptChart |-> Below(c)]

\* Bound: one behaviour is about the charts of one script.
Touched == {n[1] : n \in {m \in Node : node[m] # FreshNode}}
OneScript == Cardinality(Touched') <= 1
PlayNext == (Game /\ OneScript) \/ Runtime
PlaySpec == Init /\ [][PlayNext]_vars

OnE == {<<"o1", "E">>}
OnEOrG == {<<"o1", "E">>, <<"o1", "G">>}
Nothing == {}
Both == {"rTRUE", "rFALSE"}
TrueOnly == {"rTRUE"}

Plain == [owner |-> <<>>, kind |-> <<>>, fail |-> <<>>, target |-> <<>>, names |-> <<>>, agent |-> <<>>,
          noLoopCheck |-> {}]

\* Two paths lead to one event node.
DiamondCharts == [Plain EXCEPT !.kind = "e" :> "event"] @@
  [nodes |-> "main" :> <<"start", "a", "b", "e", "done">>,
   next |-> "start" :> <<"a", "b">> @@ "a" :> <<"e">> @@ "b" :> <<"e">> @@ "e" :> <<"done">>]

\* A subchart that waits is called again and again.
SubLoopCharts == [Plain EXCEPT !.owner = "sub" :> "call", !.kind = "call" :> "sub" @@ "w" :> "wait"] @@
  [nodes |-> "main" :> <<"start", "call", "after">> @@ "sub" :> <<"s0", "w">>,
   next |-> "start" :> <<"call">> @@ "call" :> <<"after">> @@ "after" :> <<"call">>
            @@ "s0" :> <<"w">>]

\* A subchart that ends at once is called in a loop.
SyncLoopCharts == [Plain EXCEPT !.owner = "sub" :> "call", !.kind = "call" :> "sub"] @@
  [nodes |-> "main" :> <<"start", "call", "after">> @@ "sub" :> <<"s0", "s1">>,
   next |-> "start" :> <<"call">> @@ "call" :> <<"after">> @@ "after" :> <<"call">>
            @@ "s0" :> <<"s1">>]

\* A node of a flow is stopped by a later node of the same flow.
StopLaterCharts == [Plain EXCEPT !.kind = "w" :> "wait" @@ "x" :> "stop", !.target = "x" :> {"w"}] @@
  [nodes |-> "main" :> <<"start", "w", "x">>,
   next |-> "start" :> <<"w", "x">>]

\* A node triggers the only event its chart waits for.
TriggerOwnCharts == [Plain EXCEPT !.kind = "e" :> "event" @@ "t" :> "trigger"] @@
  [nodes |-> "main" :> <<"start", "e", "t", "after">>,
   next |-> "start" :> <<"e", "t">> @@ "t" :> <<"after">>]

\* Every node that an event wakes triggers the next event.
ChainCharts == [Plain EXCEPT !.kind = "e1" :> "event" @@ "e2" :> "event" @@ "e3" :> "event"
                                @@ "t1" :> "trigger" @@ "t2" :> "trigger",
    !.names = "e1" :> <<"o1", "E">> @@ "t1" :> <<"o1", "F">> @@ "e2" :> <<"o1", "F">>
              @@ "t2" :> <<"o1", "G">> @@ "e3" :> <<"o1", "G">>] @@
  [nodes |-> "main" :> <<"start", "e1", "t1", "e2", "t2", "e3">>,
   next |-> "start" :> <<"e1", "e2", "e3">> @@ "e1" :> <<"t1">> @@ "e2" :> <<"t2">>]

\* A subchart that waits, then returns or ends, and a successor for each result;
\* its flow comes to the node that waits on two paths.
ErrandCharts == [Plain EXCEPT !.owner = "sub" :> "call",
                        !.kind = "call" :> "sub" @@ "w" :> "wait" @@ "r" :> "ret" @@ "e" :> "event",
                        !.fail = "call" :> <<"bad">> @@ "s0" :> <<"e">>] @@
  [nodes |-> "main" :> <<"start", "call", "good", "bad">> @@ "sub" :> <<"s0", "w", "m", "e", "r">>,
   next |-> "start" :> <<"call">> @@ "call" :> <<"good">> @@ "s0" :> <<"w", "m">> @@ "m" :> <<"w">>
            @@ "w" :> <<"r">>]

\* Loops: one goes through the tick, one is not checked and is cut off.
LoopsCharts == [Plain EXCEPT !.kind = "e" :> "event", !.fail = "a" :> <<"b">> @@ "b" :> <<>>,
                       !.noLoopCheck = {"b"}] @@
  [nodes |-> "main" :> <<"start", "a", "b", "e">>,
   next |-> "start" :> <<"a", "e">> @@ "a" :> <<"a">> @@ "b" :> <<"b">>]

\* WaitAll, a flow that stops another one, and a node that stops one.
JoinCharts == [Plain EXCEPT !.kind = "w1" :> "wait" @@ "w2" :> "wait" @@ "all" :> "waitall"
                                     @@ "e" :> "event" @@ "x" :> "stopflow" @@ "y" :> "stop",
    !.target = "all" :> {"w1", "w2"} @@ "x" :> {"w1"} @@ "y" :> {"e"}] @@
  [nodes |-> "main" :> <<"start", "w1", "w2", "all", "y", "e", "x">>,
   next |-> "start" :> <<"w1", "w2", "e">> @@ "w1" :> <<"all">> @@ "w2" :> <<"all">>
            @@ "all" :> <<"y">> @@ "e" :> <<"x">>]

\* Two objects: the nodes that an event wakes trigger and raise events for the
\* other object; ka and kb keep the charts alive.
SignalsCharts == [Plain EXCEPT !.agent = "b" :> "o2", !.noLoopCheck = {},
    !.kind = "ka" :> "event" @@ "ea" :> "event" @@ "ta" :> "trigger" @@ "ga" :> "event"
             @@ "ha" :> "trigger" @@ "kb" :> "event" @@ "fb" :> "event" @@ "tb" :> "trigger"
             @@ "ub" :> "raise",
    !.names = "ka" :> <<"o1", "H">> @@ "kb" :> <<"o2", "H">> @@ "ea" :> <<"o1", "E">>
              @@ "ta" :> <<"o2", "F">> @@ "fb" :> <<"o2", "F">> @@ "tb" :> <<"o1", "G">>
              @@ "ga" :> <<"o1", "G">> @@ "ha" :> <<"o2", "H">> @@ "ub" :> <<"o1", "E">>] @@
  [nodes |-> "a" :> <<"sa", "ka", "ea", "ta", "ga", "ha">> @@ "b" :> <<"sb", "kb", "fb", "tb", "ub">>,
   next |-> "sa" :> <<"ka", "ea", "ga">> @@ "ea" :> <<"ta", "ea">> @@ "ga" :> <<"ha">>
            @@ "sb" :> <<"kb", "fb">> @@ "fb" :> <<"tb", "ub", "fb">>]

\* A node of the chart that called a subchart wakes it while its own flow runs.
MeetingCharts == [Plain EXCEPT !.owner = "sub" :> "call",
    !.kind = "k" :> "event" @@ "call" :> "sub" @@ "t" :> "trigger" @@ "w" :> "event"
             @@ "r" :> "ret",
    !.names = "k" :> <<"o1", "G">> @@ "t" :> <<"o1", "F">> @@ "w" :> <<"o1", "F">>,
    !.fail = "call" :> <<"bad">>] @@
  [nodes |-> "main" :> <<"start", "k", "call", "t", "good", "bad", "after">> @@ "sub" :> <<"s0", "w", "r">>,
   next |-> "start" :> <<"k", "call", "t">> @@ "call" :> <<"good">> @@ "t" :> <<"after">>
            @@ "s0" :> <<"w">> @@ "w" :> <<"r">>]

\* Charts nested deeper than the stack of executors.
DeepCharts == [Plain EXCEPT !.owner = "s1" :> "c1" @@ "s2" :> "c2", !.kind = "c1" :> "sub" @@ "c2" :> "sub" @@ "w" :> "wait"] @@
  [nodes |-> "main" :> <<"start", "c1", "done">> @@ "s1" :> <<"a", "c2">> @@ "s2" :> <<"b", "w">>,
   next |-> "start" :> <<"c1">> @@ "c1" :> <<"done">> @@ "a" :> <<"c2">> @@ "b" :> <<"w">>]

\* A node calls a subchart on another object, where it waits.
HostedCharts == [Plain EXCEPT !.owner = "sub" :> "call", !.agent = "sub" :> "o2",
                        !.kind = "call" :> "sub" @@ "w" :> "wait"] @@
  [nodes |-> "main" :> <<"start", "call", "after">> @@ "sub" :> <<"s0", "w">>,
   next |-> "start" :> <<"call">> @@ "call" :> <<"after">> @@ "s0" :> <<"w">>]

SmallPlays == <<ErrandCharts, LoopsCharts, JoinCharts, MeetingCharts>>
Signals == <<SignalsCharts>>
Deep == <<DeepCharts>>
Diamond == <<DiamondCharts>>
SubLoop == <<SubLoopCharts>>
SyncLoop == <<SyncLoopCharts>>
StopLater == <<StopLaterCharts>>
TriggerOwn == <<TriggerOwnCharts>>
Chain == <<ChainCharts>>
Hosted == <<HostedCharts>>
=============================================================================
