------------------------------- MODULE MCAsync -------------------------------
(***************************************************************************)
(* Charts for AsyncProperties.  As in MCFlow, an instance has the charts   *)
(* of several scripts, and the first component of a name says of which.    *)
(***************************************************************************)
EXTENDS AsyncProperties, FiniteSets, TLC

CONSTANT Scripts

Given(f, x, default) == IF x \in DOMAIN f THEN f[x] ELSE default
Tag(i, s) == [j \in DOMAIN s |-> <<i, s[j]>>]

ScriptChart == UNION {{i} \X DOMAIN Scripts[i].nodes : i \in DOMAIN Scripts}
NodesOfScript(i) == UNION {Elements(Scripts[i].nodes[c]) : c \in DOMAIN Scripts[i].nodes}
ScriptNode == UNION {{i} \X NodesOfScript(i) : i \in DOMAIN Scripts}
ScriptChartOf == [n \in ScriptNode |->
  <<n[1], CHOOSE c \in DOMAIN Scripts[n[1]].nodes : n[2] \in Elements(Scripts[n[1]].nodes[c])>>]
ScriptStart == [c \in ScriptChart |-> <<c[1], Scripts[c[1]].nodes[c[2]][1]>>]
ScriptKind == [n \in ScriptNode |-> Given(Scripts[n[1]].kind, n[2], "func")]
ScriptChild == [n \in ScriptNode |-> [b \in BOOLEAN |->
                  LET next == Given(Scripts[n[1]].next, n[2], <<>>)
                  IN  Tag(n[1], IF b THEN next ELSE Given(Scripts[n[1]].fail, n[2], next))]]
ScriptTarget == [n \in ScriptNode |-> {n[1]} \X Given(Scripts[n[1]].target, n[2], {})]
ScriptData == [n \in ScriptNode |-> <<n[1], Given(Scripts[n[1]].data, n[2], n[2])>>]
ScriptNodeData == {ScriptData[n] : n \in ScriptNode}
ScriptBreakable == UNION {{i} \X Scripts[i].breakable : i \in DOMAIN Scripts}

\* Bound: one behaviour is about the charts of one script.
Touched == {n[1] : n \in {m \in Node : node[m] # FreshNode}}
           \cup {x[1] : x \in breakpoints \cup debugged}
OneScript == Cardinality(Touched') <= 1
PlayNext == ((Game \/ Debugger) /\ OneScript) \/ Runtime
PlaySpec == Init /\ [][PlayNext]_vars /\ WF_vars(Runtime) /\ SF_vars(BeginStep)

Plain == [kind |-> <<>>, fail |-> <<>>, target |-> <<>>, data |-> <<>>, breakable |-> {}]
Both == {"rTRUE", "rFALSE"}
TrueOnly == {"rTRUE"}
Never == {}
NoStop == {FALSE}
Stops == {TRUE, FALSE}

\* A node that suspends, in a loop, and one that is stopped by another flow or
\* reached again.  The function of g may answer b while b is on the stack.
CallsCharts == [Plain EXCEPT !.kind = "a" :> "suspend" @@ "b" :> "suspend" @@ "x" :> "stop" @@ "e" :> "event" @@ "g" :> "game",
                             !.fail = "a" :> <<"e">>, !.target = "x" :> {"b"}] @@
  [nodes |-> "main" :> <<"s", "a", "b", "x", "e", "g">>,
   next |-> "s" :> <<"a", "b">> @@ "a" :> <<"x">> @@ "x" :> <<"a">> @@ "e" :> <<"g", "b">>]

\* A function of the game that may answer a node of the other chart, or stop it.
OthersCharts == [Plain EXCEPT !.kind = "a" :> "suspend" @@ "w" :> "suspend" @@ "g" :> "game"] @@
  [nodes |-> "main" :> <<"s", "a", "g">> @@ "other" :> <<"o", "w">>,
   next |-> "s" :> <<"a">> @@ "a" :> <<"g">> @@ "g" :> <<"a">> @@ "o" :> <<"w">> @@ "w" :> <<"w">>]

\* A loop of nodes that may have breakpoints.
HeldCharts == [Plain EXCEPT !.breakable = {"p", "q"}, !.fail = "q" :> <<>>] @@
  [nodes |-> "main" :> <<"s", "p", "q">>,
   next |-> "s" :> <<"p">> @@ "p" :> <<"q">> @@ "q" :> <<"p">>]

\* A node that is activated while the step handles events, and reached by the flow
\* that does so.
SecondPathCharts == [Plain EXCEPT !.kind = "b" :> "suspend" @@ "e" :> "event" @@ "g" :> "game"] @@
  [nodes |-> "main" :> <<"s", "b", "e", "g">>,
   next |-> "s" :> <<"b", "e">> @@ "e" :> <<"g">> @@ "g" :> <<"b">>]

\* The same node on the stack when it is answered, and then stopped.
OnStackCharts == [Plain EXCEPT !.kind = "b" :> "suspend" @@ "e" :> "event" @@ "g" :> "game" @@ "x" :> "stop",
                               !.target = "x" :> {"b"}] @@
  [nodes |-> "main" :> <<"s", "b", "e", "g", "x">>,
   next |-> "s" :> <<"b", "e">> @@ "e" :> <<"g", "b">> @@ "g" :> <<"x">>]

\* A node with a breakpoint suspends, and another function answers it.
ContinuedCharts == [Plain EXCEPT !.breakable = {"a"}, !.kind = "a" :> "suspend" @@ "b" :> "suspend" @@ "g" :> "game"] @@
  [nodes |-> "main" :> <<"s", "b", "g", "a">>, next |-> "s" :> <<"b", "a">> @@ "b" :> <<"g">>]

\* Two objects with one chart: their nodes share the node data.
TwinCharts == [Plain EXCEPT !.breakable = {"p"}, !.kind = "e1" :> "event" @@ "e2" :> "event" @@ "a" :> "suspend",
                            !.data = "p1" :> "p" @@ "p2" :> "p"] @@
  [nodes |-> "c1" :> <<"s1", "p1">> @@ "c2" :> <<"s2", "a", "p2">>,
   next |-> "s1" :> <<"p1">> @@ "s2" :> <<"a">> @@ "a" :> <<"p2">>]

\* A node that suspends has a breakpoint.
AsyncBreakCharts == [Plain EXCEPT !.breakable = {"a"}, !.kind = "a" :> "suspend"] @@
  [nodes |-> "main" :> <<"s", "a">>, next |-> "s" :> <<"a">>]

\* Two nodes of a chart are held at a time.
WalkCharts == [Plain EXCEPT !.breakable = {"p", "q"}] @@
  [nodes |-> "main" :> <<"s", "p", "q">>, next |-> "s" :> <<"p", "q">>]

\* A function whose callback comes before it returns.
EchoCharts == [Plain EXCEPT !.kind = "a" :> "echo", !.fail = "a" :> <<"e">>] @@
  [nodes |-> "main" :> <<"s", "a", "d", "e">>, next |-> "s" :> <<"a">> @@ "a" :> <<"d">>]

\* A node that suspends in a loop, one that calls back at once, and an event node,
\* which may have a breakpoint.
SloppyCharts == [Plain EXCEPT !.breakable = {"e"}, !.kind = "a" :> "suspend" @@ "d" :> "echo" @@ "e" :> "event",
                              !.fail = "a" :> <<"e">>] @@
  [nodes |-> "main" :> <<"s", "a", "d", "e">>,
   next |-> "s" :> <<"a", "d">> @@ "a" :> <<"a">> @@ "e" :> <<"a">>]

Calls == <<CallsCharts, OthersCharts, HeldCharts>>
Sloppy == <<SloppyCharts>>
Twins == <<TwinCharts>>
AsyncBreak == <<AsyncBreakCharts>>
Walk == <<WalkCharts>>
Echo == <<EchoCharts>>
SecondPath == <<SecondPathCharts>>
OnStack == <<OnStackCharts>>
Continued == <<ContinuedCharts>>
=============================================================================
