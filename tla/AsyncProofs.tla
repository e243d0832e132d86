----------------------------- MODULE AsyncProofs -----------------------------
(***************************************************************************)
(* Theorems about AsyncCalls: what its lists and pointers say of a node,   *)
(* that an answer to a pending call is accepted and kept, that a stopped   *)
(* chart is left alone, what wakes a node that runs, that breakpoints      *)
(* hold, and that AsyncCalls implements SuspendedCalls.                    *)
(***************************************************************************)
EXTENDS AsyncProperties, NodeListsProofs

-----------------------------------------------------------------------------
(* The inductive invariant of the proofs.                                  *)

\* The nodes a callback can name.
Calling == {n \in Node : Kind[n] \in {"suspend", "echo"}}

\* The debugger has no breakpoints at nodes that suspend, and no function calls back
\* before it returns: assumptions of some theorems.
Apart == \A n \in Calling : DataOf[n] \notin Breakable
Silent == \A n \in Node : Kind[n] # "echo"

\* The nodes that a callback may take out of the active list by their container
\* pointer only, once the debugger has continued them (async_manager.cpp:37).
Loose == IF Apart THEN {} ELSE Calling

\* The nodes that no late callback wakes.
Steady == IF Careful /\ Apart THEN Node ELSE Node \ Calling

\* What the pointers say of list w is true of the nodes of Sure(w).  A node on the
\* stack may have lost its pointer to any callback.
Sure(w) == IF w = "stack" THEN {} ELSE Node \ Loose

\* In the lists and pointers h a node is where its pointer says, once, and nowhere else
\* but on the stack.
Agrees(h) ==
  /\ \A w \in List \ {"event", "handling"} : \A n \in Sure(w) :
       n \in Elements(h.list[w]) <=> h.container[n] = w
  /\ \A n \in Node \ Loose :
       /\ n \in Elements(h.list["event"]) \cup Elements(h.list["handling"]) <=> h.container[n] = "event"
       /\ n \notin Elements(h.list["event"]) \cap Elements(h.list["handling"])
  /\ \A w \in List : Once(h.list[w], Sure(w))
  /\ \A n \in Node : h.container[n] = "stack" => n \in Elements(h.list["stack"])

\* The part of Manager::Step that runs, or runs the flow under way.
InFlow == flow.pc \in {"loop", "called"}
Stage == IF InFlow THEN flow.caller ELSE flow.pc

\* The node whose function is under way runs the game's code.
InGame(n) ==
  /\ n \in Node /\ ChartOf[n] = flow.chart
  /\ \/ Kind[n] = "game" /\ container[n] \notin {"waiting", "active"}
     \/ Kind[n] = "echo" /\ node[n].status = "Running"

\* The stack belongs to the flow, and the list of a dispatch to the events.
FlowInvariant ==
  /\ InFlow => flow.chart \in running /\ \A n \in Elements(list["stack"]) : ChartOf[n] = flow.chart
  /\ ~InFlow => list["stack"] = <<>> /\ resumed = <<>>
  /\ InFunction => InGame(flow.current)
  /\ Stage # "events" => list["handling"] = <<>>

\* A node with a pending call has it from its function, in a chart that runs, and has
\* not gone on.
PendingCall(n) ==
  Apart /\ call[n] # None =>
    /\ n \in Calling /\ n \in nodesSet /\ ChartOf[n] \in running /\ ~node[n].skip
    /\ container[n] \in {None, "waiting", "stack"} /\ node[n].status = "Running"

\* A node that suspends waits for no event, and one that is active has left nodes_set_,
\* so that no callback activates it again.
CallingNode(n) ==
  Apart /\ n \in Calling =>
    /\ container[n] # "event"
    /\ (node[n].runFlag => InFunction /\ flow.current = n)
    /\ (container[n] = "active" => n \notin nodesSet)

Quiet(n) == ChartOf[n] \notin running => node[n].status # "Running" /\ container[n] = None

Linked(n) == container[n] \in {"waiting", "active"} => node[n].status = "Running"

NodeInvariant(n) ==
  /\ PendingCall(n) /\ CallingNode(n)
  /\ In(n, "waiting") => n \in nodesSet
  /\ n \in Steady => Quiet(n) /\ Linked(n)

AsyncInvariant ==
  /\ TypeOK /\ Agrees(Home) /\ FlowInvariant
  /\ \A n \in Node : NodeInvariant(n)
  /\ \A x \in Contexts : held[x] # None => held[x] \in Calling
  /\ breakpoints \subseteq Breakable

-----------------------------------------------------------------------------
(* Lists and container pointers.                                           *)

HomeSet == [list : [List -> Seq(Node)], container : [Node -> List \cup {None}]]

Has(h, n, w) == n \in Elements(h.list[w])

\* Nothing has been done to n.
Same(h, k, n) ==
  /\ k.container[n] = h.container[n]
  /\ \A w \in List : Has(k, n, w) <=> Has(h, n, w)

\* The lists by name, and what is no list.
LEMMA ListNames ==
  /\ {"waiting", "active", "event", "handling", "stack"} = List
  /\ None \notin List /\ None \notin Node /\ None \notin Contexts
BY AsyncAssumption DEF List

\* The homes at a state.
LEMMA HomeTyped ==
  ASSUME TypeOK
  PROVE  Home \in HomeSet /\ Home.list = list /\ Home.container = container
BY DEF TypeOK, Home, HomeSet

\* What Become makes of them.
LEMMA Became ==
  ASSUME NEW h \in HomeSet, Become(h)
  PROVE  /\ Home' = h /\ list' = h.list /\ container' = h.container
         /\ list' \in [List -> Seq(Node)] /\ container' \in [Node -> List \cup {None}]
BY DEF Become, Home, HomeSet

\* A home by its components.
LEMMA HomeParts ==
  ASSUME NEW h \in HomeSet
  PROVE  /\ h.list \in [List -> Seq(Node)] /\ h.container \in [Node -> List \cup {None}]
         /\ \A w \in List : h.list[w] \in Seq(Node) /\ Elements(h.list[w]) \subseteq Node
         /\ \A n \in Node : h.container[n] \in List \cup {None}
         /\ h = [list |-> h.list, container |-> h.container]
<1>1. h.list \in [List -> Seq(Node)] /\ h.container \in [Node -> List \cup {None}]
  BY DEF HomeSet
<1>2. \A w \in List : h.list[w] \in Seq(Node)
  BY <1>1
<1>3. \A w \in List : Elements(h.list[w]) \subseteq Node
  BY <1>2, ElementsType
<1>4. h = [list |-> h.list, container |-> h.container]
  BY DEF HomeSet
<1> QED BY <1>1, <1>2, <1>3, <1>4

\* What Agrees says of a single node.
Leaves(h, n, w) ==
  \/ h.container[n] = w
  \/ InEventLists(w) /\ h.container[n] # None /\ InEventLists(h.container[n])

Leaving(h, S, w) == {n \in S : Leaves(h, n, w)}

\* A node that is in a list of which it is sure leaves it by its pointer, and has none
\* when it is in no such list.
LEMMA SureLeaves ==
  ASSUME NEW h \in HomeSet, Agrees(h), NEW w \in List, NEW n \in Sure(w), Has(h, n, w)
  PROVE  Leaves(h, n, w) /\ h.container[n] # None
<1>1. n \in Node
  BY DEF Sure
<1>2. CASE w \notin {"event", "handling"}
  BY <1>2, ListNames DEF Agrees, Has, Leaves
<1>3. CASE w \in {"event", "handling"}
  <2>1. n \in Node \ Loose
    BY <1>3 DEF Sure
  <2>2. h.container[n] = "event"
    BY <1>3, <2>1 DEF Agrees, Has
  <2> QED BY <1>3, <2>2, ListNames DEF Leaves, InEventLists
<1> QED BY <1>2, <1>3

\* Unlinking a set of nodes.
LEMMA RemovedParts ==
  ASSUME NEW h \in HomeSet, NEW S, NEW k, k = Removed(h, S)
  PROVE  /\ k \in HomeSet
         /\ \A w \in List : k.list[w] = Without(h.list[w], Leaving(h, S, w))
         /\ \A w \in List, n \in Node : Has(k, n, w) <=> Has(h, n, w) /\ ~(n \in S /\ Leaves(h, n, w))
         /\ \A n \in Node : k.container[n] = IF n \in S THEN None ELSE h.container[n]
<1>1. k = [list |-> [w \in List |-> Without(h.list[w], Leaving(h, S, w))],
           container |-> [n \in Node |-> IF n \in S THEN None ELSE h.container[n]]]
  BY DEF Removed, Leaves, Leaving
<1>2. \A w \in List : h.list[w] \in Seq(Node)
  BY HomeParts
<1>3. \A w \in List : k.list[w] = Without(h.list[w], Leaving(h, S, w))
  BY <1>1
<1>4. \A n \in Node : k.container[n] = IF n \in S THEN None ELSE h.container[n]
  BY <1>1
<1>5. k.list \in [List -> Seq(Node)]
  <2>1. \A w \in List : Without(h.list[w], Leaving(h, S, w)) \in Seq(Node)
    BY <1>2, WithoutType
  <2>2. k.list = [w \in List |-> Without(h.list[w], Leaving(h, S, w))]
    BY <1>1
  <2> QED BY <2>1, <2>2
<1>6. k.container \in [Node -> List \cup {None}]
  BY <1>1, HomeParts
<1>7. k \in HomeSet
  BY <1>1, <1>5, <1>6 DEF HomeSet
<1>8. ASSUME NEW w \in List, NEW n \in Node
      PROVE  Has(k, n, w) <=> Has(h, n, w) /\ ~(n \in S /\ Leaves(h, n, w))
  <2>1. Elements(Without(h.list[w], Leaving(h, S, w))) = Elements(h.list[w]) \ Leaving(h, S, w)
    BY <1>2, WithoutElements
  <2> QED BY <1>3, <2>1 DEF Has, Leaving
<1> QED BY <1>3, <1>4, <1>7, <1>8

\* It concerns no other node, and after it the nodes are in no list of which they are
\* sure.
LEMMA RemovedHome ==
  ASSUME NEW h \in HomeSet, NEW S, Agrees(h), NEW k, k = Removed(h, S)
  PROVE  /\ k \in HomeSet /\ Agrees(k)
         /\ \A n \in Node \ S : Same(h, k, n)
         /\ \A n \in Node \cap S : k.container[n] = None
         /\ \A w \in List : \A n \in Sure(w) \cap S : ~ Has(k, n, w)
         /\ \A w \in List, n \in Node : Has(k, n, w) => Has(h, n, w)
<1>1. /\ k \in HomeSet
      /\ \A w \in List : k.list[w] = Without(h.list[w], Leaving(h, S, w))
      /\ \A w \in List, n \in Node : Has(k, n, w) <=> Has(h, n, w) /\ ~(n \in S /\ Leaves(h, n, w))
      /\ \A n \in Node : k.container[n] = IF n \in S THEN None ELSE h.container[n]
  BY RemovedParts
<1>2. \A n \in Node \ S : Same(h, k, n)
  BY <1>1 DEF Same
<1>3. \A n \in Node \cap S : k.container[n] = None
  BY <1>1
<1>4. \A w \in List : Sure(w) \subseteq Node
  BY DEF Sure
<1>5. \A w \in List : \A n \in Sure(w) \cap S : ~ Has(k, n, w)
  BY <1>1, <1>4, SureLeaves
<1>6. \A w \in List, n \in Node : Has(k, n, w) => Has(h, n, w)
  BY <1>1
<1>7. Agrees(k)
  <2>1. ASSUME NEW w \in List \ {"event", "handling"}, NEW n \in Sure(w)
        PROVE  Has(k, n, w) <=> k.container[n] = w
    <3>1. n \in Node /\ (Has(h, n, w) <=> h.container[n] = w)
      BY <1>4 DEF Agrees, Has
    <3>2. CASE n \in S
      BY <1>3, <1>5, <3>1, <3>2, ListNames
    <3>3. CASE n \notin S
      BY <1>2, <3>1, <3>3 DEF Same
    <3> QED BY <3>2, <3>3
  <2>2. ASSUME NEW n \in Node \ Loose
        PROVE  /\ (Has(k, n, "event") \/ Has(k, n, "handling")) <=> k.container[n] = "event"
               /\ ~ (Has(k, n, "event") /\ Has(k, n, "handling"))
    <3>0. n \in Sure("event") /\ n \in Sure("handling") /\ "event" \in List /\ "handling" \in List
      BY DEF Sure, List
    <3>1. /\ (Has(h, n, "event") \/ Has(h, n, "handling")) <=> h.container[n] = "event"
          /\ ~ (Has(h, n, "event") /\ Has(h, n, "handling"))
      BY DEF Agrees, Has
    <3>2. CASE n \in S
      BY <1>3, <1>5, <3>0, <3>2, ListNames
    <3>3. CASE n \notin S
      BY <1>2, <3>0, <3>1, <3>3 DEF Same
    <3> QED BY <3>2, <3>3
  <2>3. ASSUME NEW w \in List PROVE Once(k.list[w], Sure(w))
    <3>1. h.list[w] \in Seq(Node) /\ Once(h.list[w], Sure(w))
      BY HomeParts DEF Agrees
    <3>2. Once(Without(h.list[w], Leaving(h, S, w)), Sure(w))
      BY <3>1, WithoutOnce
    <3> QED BY <1>1, <3>2
  <2>4. ASSUME NEW n \in Node, k.container[n] = "stack" PROVE Has(k, n, "stack")
    <3>1. n \notin S /\ h.container[n] = "stack" /\ "stack" \in List
      BY <1>1, <2>4, ListNames
    <3>2. Has(h, n, "stack")
      BY <3>1 DEF Agrees, Has
    <3> QED BY <1>1, <3>1, <3>2
  <2> QED BY <2>1, <2>2, <2>3, <2>4 DEF Agrees, Has
<1> QED BY <1>1, <1>2, <1>3, <1>5, <1>6, <1>7

\* Linking a node at the end of a list.
PushLists == List \ {"handling"}

LEMMA PushedHome ==
  ASSUME NEW h \in HomeSet, NEW w \in PushLists, NEW n \in Node, Agrees(h), NEW k, k = Pushed(h, w, n)
  PROVE  /\ k \in HomeSet /\ Agrees(k)
         /\ \A m \in Node \ {n} : Same(h, k, m)
         /\ k.container[n] = w /\ Has(k, n, w)
         /\ \A v \in List, m \in Node : Has(k, m, v) => Has(h, m, v) \/ (m = n /\ v = w)
<1> DEFINE r == Removed(h, {n})
<1>1. /\ r \in HomeSet /\ Agrees(r)
      /\ \A m \in Node \ {n} : Same(h, r, m)
      /\ \A m \in Node \cap {n} : r.container[m] = None
      /\ \A v \in List : \A m \in Sure(v) \cap {n} : ~ Has(r, m, v)
      /\ \A v \in List, m \in Node : Has(r, m, v) => Has(h, m, v)
  BY RemovedHome
<1>2. k = [list |-> [r.list EXCEPT ![w] = Append(@, n)], container |-> [r.container EXCEPT ![n] = w]]
  BY DEF Pushed
<1> HIDE DEF r
<1>3. /\ r.list \in [List -> Seq(Node)] /\ r.container \in [Node -> List \cup {None}]
      /\ \A v \in List : r.list[v] \in Seq(Node)
      /\ w \in List /\ w # "handling"
  BY <1>1, HomeParts DEF PushLists
<1>4. /\ k.list = [r.list EXCEPT ![w] = Append(@, n)]
      /\ k.container = [r.container EXCEPT ![n] = w]
  BY <1>2
<1>5. /\ k.list[w] = Append(r.list[w], n) /\ \A v \in List \ {w} : k.list[v] = r.list[v]
      /\ k.container[n] = w /\ \A m \in Node \ {n} : k.container[m] = r.container[m]
  BY <1>3, <1>4
<1>6. k \in HomeSet
  <2>1. Append(r.list[w], n) \in Seq(Node)
    BY <1>3
  <2>2. k.list \in [List -> Seq(Node)] /\ k.container \in [Node -> List \cup {None}]
    BY <1>3, <1>4, <2>1
  <2> QED BY <1>2, <1>4, <2>2 DEF HomeSet
<1>7. Elements(k.list[w]) = Elements(r.list[w]) \cup {n}
  BY <1>3, <1>5, AppendElements
<1>8. /\ \A m \in Node : Has(k, m, w) <=> Has(r, m, w) \/ m = n
      /\ \A v \in List \ {w}, m \in Node : Has(k, m, v) <=> Has(r, m, v)
  BY <1>5, <1>7 DEF Has
<1>9. \A m \in Node \ {n} : Same(h, k, m)
  <2> TAKE m \in Node \ {n}
  <2>1. Same(h, r, m) /\ k.container[m] = r.container[m]
    BY <1>1, <1>5
  <2>2. \A v \in List : Has(k, m, v) <=> Has(r, m, v)
    BY <1>8
  <2> QED BY <2>1, <2>2 DEF Same
<1>10. Has(k, n, w) /\ k.container[n] = w
  BY <1>5, <1>8
<1>11. \A v \in List, m \in Node : Has(k, m, v) => Has(h, m, v) \/ (m = n /\ v = w)
  BY <1>1, <1>8
<1>12. ASSUME NEW v \in List, n \in Sure(v) PROVE Has(k, n, v) <=> v = w
  BY <1>1, <1>8, <1>12
<1>13. Agrees(k)
  <2>1. ASSUME NEW v \in List \ {"event", "handling"}, NEW m \in Sure(v)
        PROVE  Has(k, m, v) <=> k.container[m] = v
    <3>1. m \in Node /\ (Has(h, m, v) <=> h.container[m] = v)
      BY DEF Agrees, Has, Sure
    <3>2. CASE m = n
      BY <1>10, <1>12, <3>2
    <3>3. CASE m # n
      BY <1>9, <3>1, <3>3 DEF Same
    <3> QED BY <3>2, <3>3
  <2>2. ASSUME NEW m \in Node \ Loose
        PROVE  /\ (Has(k, m, "event") \/ Has(k, m, "handling")) <=> k.container[m] = "event"
               /\ ~ (Has(k, m, "event") /\ Has(k, m, "handling"))
    <3>0. m \in Sure("event") /\ m \in Sure("handling") /\ "event" \in List /\ "handling" \in List
      BY DEF Sure, List
    <3>1. /\ (Has(h, m, "event") \/ Has(h, m, "handling")) <=> h.container[m] = "event"
          /\ ~ (Has(h, m, "event") /\ Has(h, m, "handling"))
      BY DEF Agrees, Has
    <3>2. CASE m = n
      BY <1>3, <1>10, <1>12, <3>0, <3>2
    <3>3. CASE m # n
      BY <1>9, <3>0, <3>1, <3>3 DEF Same
    <3> QED BY <3>2, <3>3
  <2>3. ASSUME NEW v \in List PROVE Once(k.list[v], Sure(v))
    <3>1. r.list[v] \in Seq(Node) /\ Once(r.list[v], Sure(v))
      BY <1>1, <1>3 DEF Agrees
    <3>2. CASE v = w
      <4>1. n \in Sure(w) => n \notin Elements(r.list[w])
        BY <1>1, <1>3 DEF Has
      <4>2. Once(Append(r.list[w], n), Sure(w))
        BY <3>1, <3>2, <4>1, AppendOnce
      <4> QED BY <1>5, <3>2, <4>2
    <3>3. CASE v # w
      BY <1>5, <3>1, <3>3
    <3> QED BY <3>2, <3>3
  <2>4. ASSUME NEW m \in Node, k.container[m] = "stack" PROVE Has(k, m, "stack")
    <3>1. CASE m = n
      BY <1>10, <2>4, <3>1
    <3>2. CASE m # n
      <4>1. Same(h, k, m) /\ "stack" \in List
        BY <1>9, <3>2, ListNames
      <4> QED BY <2>4, <4>1 DEF Agrees, Has, Same
    <3> QED BY <3>1, <3>2
  <2> QED BY <2>1, <2>2, <2>3, <2>4 DEF Agrees, Has
<1> QED BY <1>6, <1>9, <1>10, <1>11, <1>13

-----------------------------------------------------------------------------
(* Pushing the nodes of a sequence, one after the other.                   *)

\* The homes after each of the first n of s.
Pushes(g, h, w, s, n) ==
  /\ g[0] = h
  /\ \A i \in 1..n : g[i] = Pushed(g[i-1], w, s[i])

\* What pushing the first n of s has led to.
PushedFirst(h, k, w, s, n) ==
  /\ k \in HomeSet /\ Agrees(k)
  /\ \A m \in Node : (\A i \in 1..n : s[i] # m) => Same(h, k, m)
  /\ \A i \in 1..n : k.container[s[i]] = w /\ Has(k, s[i], w)
  /\ \A v \in List, m \in Node : Has(k, m, v) => Has(h, m, v) \/ (v = w /\ \E i \in 1..n : s[i] = m)

LEMMA PushedStep ==
  ASSUME NEW h \in HomeSet, NEW w \in PushLists, NEW s \in Seq(Node), NEW n \in 1..Len(s),
         NEW j, PushedFirst(h, j, w, s, n - 1), NEW k, k = Pushed(j, w, s[n])
  PROVE  PushedFirst(h, k, w, s, n)
<1>1. s[n] \in Node /\ j \in HomeSet /\ Agrees(j) /\ w \in List
  BY DEF PushedFirst, PushLists
<1>2. /\ k \in HomeSet /\ Agrees(k)
      /\ \A m \in Node \ {s[n]} : Same(j, k, m)
      /\ k.container[s[n]] = w /\ Has(k, s[n], w)
      /\ \A v \in List, m \in Node : Has(k, m, v) => Has(j, m, v) \/ (m = s[n] /\ v = w)
  BY <1>1, PushedHome
<1>3. n \in 1..n /\ \A i \in 1..n : i = n \/ i \in 1..(n-1)
  OBVIOUS
<1>4. \A i \in 1..(n-1) : i \in 1..n /\ i \in 1..Len(s) /\ s[i] \in Node
  OBVIOUS
<1>5. ASSUME NEW m \in Node, \A i \in 1..n : s[i] # m PROVE Same(h, k, m)
  <2>1. Same(h, j, m)
    BY <1>4, <1>5 DEF PushedFirst
  <2>2. Same(j, k, m)
    BY <1>2, <1>3, <1>5
  <2> QED BY <2>1, <2>2 DEF Same
<1>6. ASSUME NEW i \in 1..n PROVE k.container[s[i]] = w /\ Has(k, s[i], w)
  <2>1. CASE s[i] = s[n]
    BY <1>2, <2>1
  <2>2. CASE s[i] # s[n]
    <3>1. i \in 1..(n-1)
      BY <1>3, <2>2
    <3>2. j.container[s[i]] = w /\ Has(j, s[i], w)
      BY <3>1 DEF PushedFirst
    <3>3. Same(j, k, s[i])
      BY <1>2, <1>4, <2>2, <3>1
    <3> QED BY <1>1, <3>2, <3>3 DEF Same
  <2> QED BY <2>1, <2>2
<1>7. ASSUME NEW v \in List, NEW m \in Node, Has(k, m, v)
      PROVE  Has(h, m, v) \/ (v = w /\ \E i \in 1..n : s[i] = m)
  <2>1. CASE m = s[n] /\ v = w
    BY <1>3, <2>1
  <2>2. CASE Has(j, m, v)
    <3>1. Has(h, m, v) \/ (v = w /\ \E i \in 1..(n-1) : s[i] = m)
      BY <2>2 DEF PushedFirst
    <3> QED BY <1>4, <3>1
  <2> QED BY <1>2, <1>7, <2>1, <2>2
<1> QED BY <1>2, <1>5, <1>6, <1>7 DEF PushedFirst

\* The pushes can be carried out along all of s,
LEMMA PushesPossible ==
  ASSUME NEW h \in HomeSet, Agrees(h), NEW w \in PushLists, NEW s \in Seq(Node)
  PROVE  \E g \in [0..Len(s) -> HomeSet] :
           Pushes(g, h, w, s, Len(s)) /\ \A n \in 0..Len(s) : PushedFirst(h, g[n], w, s, n)
<1> DEFINE Fine(g, n) == Pushes(g, h, w, s, n) /\ \A i \in 0..n : PushedFirst(h, g[i], w, s, i)
           Possible(n) == \E g \in [0..n -> HomeSet] : Fine(g, n)
           Bad == {n \in 0..Len(s) : ~ Possible(n)}
<1>1. Bad = {}
  <2> SUFFICES ASSUME Bad # {} PROVE FALSE
    OBVIOUS
  <2>1. PICK n \in Bad : \A m \in Bad : n <= m
    <3>1. Bad \subseteq Nat
      OBVIOUS
    <3> HIDE DEF Bad
    <3> QED BY <3>1, LeastNat
  <2>2. n \in 0..Len(s) /\ ~ Possible(n)
    OBVIOUS
  <2>3. n # 0
    <3> DEFINE g == [i \in 0..0 |-> h]
    <3>1. g \in [0..0 -> HomeSet] /\ g[0] = h
      OBVIOUS
    <3>2. PushedFirst(h, h, w, s, 0)
      BY DEF PushedFirst, Same
    <3>3. Pushes(g, h, w, s, 0)
      BY DEF Pushes
    <3> HIDE DEF g
    <3>4. \A i \in 0..0 : PushedFirst(h, g[i], w, s, i)
      BY <3>1, <3>2
    <3> QED BY <2>2, <3>1, <3>3, <3>4
  <2>4. n \in 1..Len(s) /\ n - 1 \in 0..Len(s)
    BY <2>2, <2>3
  <2>5. Possible(n - 1)
    <3> HIDE DEF Possible
    <3> QED BY <2>1, <2>4
  <2>6. PICK g \in [0..(n-1) -> HomeSet] : Fine(g, n - 1)
    BY <2>5
  <2> DEFINE last == Pushed(g[n-1], w, s[n])
             f == [i \in 0..n |-> IF i = n THEN last ELSE g[i]]
  <2>7. PushedFirst(h, last, w, s, n)
    <3>1. PushedFirst(h, g[n-1], w, s, n - 1)
      BY <2>4, <2>6
    <3> QED BY <2>4, <3>1, PushedStep
  <2> HIDE DEF last
  <2>8. f \in [0..n -> HomeSet]
    <3>1. last \in HomeSet
      BY <2>7 DEF PushedFirst
    <3> QED BY <2>4, <3>1
  <2>9. f[n] = last /\ \A i \in 0..(n-1) : f[i] = g[i]
    BY <2>4
  <2> HIDE DEF f
  <2>10. Pushes(f, h, w, s, n)
    <3>1. f[0] = h
      BY <2>4, <2>6, <2>9 DEF Pushes
    <3>2. ASSUME NEW i \in 1..n PROVE f[i] = Pushed(f[i-1], w, s[i])
      <4>1. i - 1 \in 0..(n-1) /\ f[i-1] = g[i-1]
        BY <2>4, <2>9
      <4>2. CASE i = n
        BY <2>9, <4>1, <4>2 DEF last
      <4>3. CASE i # n
        <5>1. i \in 1..(n-1) /\ f[i] = g[i]
          BY <2>4, <2>9, <4>3
        <5> QED BY <2>6, <4>1, <5>1 DEF Pushes
      <4> QED BY <4>2, <4>3
    <3> QED BY <3>1, <3>2 DEF Pushes
  <2>11. \A i \in 0..n : PushedFirst(h, f[i], w, s, i)
    <3> TAKE i \in 0..n
    <3>1. CASE i = n
      BY <2>7, <2>9, <3>1
    <3>2. CASE i # n
      <4>1. i \in 0..(n-1)
        BY <2>4, <3>2
      <4> QED BY <2>6, <2>9, <4>1
    <3> QED BY <3>1, <3>2
  <2> QED BY <2>2, <2>8, <2>10, <2>11
<1>2. Len(s) \in 0..Len(s)
  OBVIOUS
<1>3. Possible(Len(s))
  <2> HIDE DEF Possible
  <2> QED BY <1>1, <1>2
<1> QED BY <1>3

\* so PushedAll does so.
LEMMA PushedAllHome ==
  ASSUME NEW h \in HomeSet, Agrees(h), NEW w \in PushLists, NEW s \in Seq(Node),
         NEW k, k = PushedAll(h, w, s)
  PROVE  /\ k \in HomeSet /\ Agrees(k)
         /\ \A m \in Node \ Elements(s) : Same(h, k, m)
         /\ \A m \in Elements(s) : k.container[m] = w /\ Has(k, m, w)
         /\ \A v \in List, m \in Node : Has(k, m, v) => Has(h, m, v) \/ (v = w /\ m \in Elements(s))
<1> DEFINE F(g) == [i \in 0..Len(s) |-> IF i = 0 THEN h ELSE Pushed(g[i - 1], w, s[i])]
<1>0. Len(s) \in Nat /\ Len(s) \in 0..Len(s)
  OBVIOUS
<1>1. PICK g \in [0..Len(s) -> HomeSet] :
        Pushes(g, h, w, s, Len(s)) /\ \A n \in 0..Len(s) : PushedFirst(h, g[n], w, s, n)
  BY PushesPossible
<1>2. g = F(g)
  <2>1. g[0] = h /\ \A i \in 1..Len(s) : g[i] = Pushed(g[i-1], w, s[i])
    BY <1>1 DEF Pushes
  <2>2. \A i \in 0..Len(s) : i = 0 \/ i \in 1..Len(s)
    OBVIOUS
  <2>3. g = [i \in 0..Len(s) |-> g[i]]
    OBVIOUS
  <2> QED BY <2>1, <2>2, <2>3
<1> DEFINE f == CHOOSE f : f = F(f)
<1>3. k = f[Len(s)]
  BY DEF PushedAll
<1>4. f = F(f)
  <2> HIDE DEF F
  <2> QED BY <1>2
<1> HIDE DEF f
<1>5. f[0] = h /\ \A i \in 1..Len(s) : f[i] = Pushed(f[i-1], w, s[i])
  <2>1. \A i \in 0..Len(s) : f[i] = F(f)[i]
    BY <1>4
  <2>2. f[0] = h
    BY <1>0, <2>1
  <2>3. ASSUME NEW i \in 1..Len(s) PROVE f[i] = Pushed(f[i-1], w, s[i])
    BY <1>0, <2>1
  <2> QED BY <2>2, <2>3
<1> HIDE DEF F
<1>6. \A n \in 0..Len(s) : PushedFirst(h, f[n], w, s, n)
  <2> DEFINE Bad == {n \in 0..Len(s) : ~ PushedFirst(h, f[n], w, s, n)}
  <2> SUFFICES ASSUME Bad # {} PROVE FALSE
    OBVIOUS
  <2>1. PICK n \in Bad : \A m \in Bad : n <= m
    <3>1. Bad \subseteq Nat
      OBVIOUS
    <3> HIDE DEF Bad
    <3> QED BY <3>1, LeastNat
  <2>2. n \in 0..Len(s) /\ ~ PushedFirst(h, f[n], w, s, n)
    OBVIOUS
  <2>3. n # 0
    <3>1. PushedFirst(h, h, w, s, 0)
      BY DEF PushedFirst, Same
    <3> QED BY <1>5, <2>2, <3>1
  <2>4. n \in 1..Len(s) /\ n - 1 \in 0..Len(s) /\ ~ (n <= n - 1)
    BY <1>0, <2>2, <2>3
  <2>5. PushedFirst(h, f[n-1], w, s, n - 1)
    BY <2>1, <2>4
  <2>6. f[n] = Pushed(f[n-1], w, s[n])
    BY <1>5, <2>4
  <2>7. PushedFirst(h, f[n], w, s, n)
    BY <2>4, <2>5, <2>6, PushedStep
  <2> QED BY <2>2, <2>7
<1>7. PushedFirst(h, k, w, s, Len(s))
  BY <1>0, <1>3, <1>6
<1> QED BY <1>7 DEF PushedFirst, Elements

-----------------------------------------------------------------------------
(* Other ways to take a node off.                                          *)

\* The home k is h with n in no list it is sure of and without a pointer.
Lifted(h, k, n) ==
  /\ k \in HomeSet
  /\ \A m \in Node \ {n} : Same(h, k, m)
  /\ k.container[n] = None
  /\ \A v \in List : n \in Sure(v) => ~ Has(k, n, v)
  /\ \A v \in List, m \in Node : Has(k, m, v) => Has(h, m, v)

LEMMA LiftedAgrees ==
  ASSUME NEW h \in HomeSet, Agrees(h), NEW n \in Node, NEW k, Lifted(h, k, n),
         \A v \in List : Once(k.list[v], Sure(v))
  PROVE  Agrees(k)
<1>1. ASSUME NEW v \in List \ {"event", "handling"}, NEW m \in Sure(v)
      PROVE  Has(k, m, v) <=> k.container[m] = v
  <2>1. m \in Node /\ (Has(h, m, v) <=> h.container[m] = v)
    BY DEF Agrees, Has, Sure
  <2>2. CASE m = n
    BY <2>2, ListNames DEF Lifted
  <2>3. CASE m # n
    BY <2>1, <2>3 DEF Same, Lifted
  <2> QED BY <2>2, <2>3
<1>2. ASSUME NEW m \in Node \ Loose
      PROVE  /\ (Has(k, m, "event") \/ Has(k, m, "handling")) <=> k.container[m] = "event"
             /\ ~ (Has(k, m, "event") /\ Has(k, m, "handling"))
  <2>0. m \in Sure("event") /\ m \in Sure("handling") /\ "event" \in List /\ "handling" \in List
    BY DEF Sure, List
  <2>1. /\ (Has(h, m, "event") \/ Has(h, m, "handling")) <=> h.container[m] = "event"
        /\ ~ (Has(h, m, "event") /\ Has(h, m, "handling"))
    BY DEF Agrees, Has
  <2>2. CASE m = n
    BY <2>0, <2>2, ListNames DEF Lifted
  <2>3. CASE m # n
    BY <2>0, <2>1, <2>3 DEF Same, Lifted
  <2> QED BY <2>2, <2>3
<1>3. ASSUME NEW m \in Node, k.container[m] = "stack" PROVE Has(k, m, "stack")
  <2>1. m # n /\ "stack" \in List
    BY <1>3, ListNames DEF Lifted
  <2>2. h.container[m] = "stack" /\ (Has(k, m, "stack") <=> Has(h, m, "stack"))
    BY <1>3, <2>1 DEF Same, Lifted
  <2> QED BY <2>2 DEF Agrees, Has
<1> QED BY <1>1, <1>2, <1>3 DEF Agrees, Has

\* AsyncManager::RemoveNode: the pointer of n is cleared, and if n is sure, it was in
\* waiting_nodes_ or nowhere.
LEMMA TakenOffHome ==
  ASSUME NEW h \in HomeSet, Agrees(h), NEW n \in Node,
         n \in Loose \/ h.container[n] \notin {"active", "event"},
         NEW k, k = TakenOff(h, n)
  PROVE  Lifted(h, k, n) /\ Agrees(k) /\ ~ Has(k, n, "waiting")
<1>1. /\ h.list \in [List -> Seq(Node)] /\ h.container \in [Node -> List \cup {None}]
      /\ \A w \in List : h.list[w] \in Seq(Node)
      /\ "waiting" \in List
  BY HomeParts DEF List
<1>2. /\ k = [list |-> k.list, container |-> k.container]
      /\ k.list = [h.list EXCEPT !["waiting"] = Without(@, {n})]
      /\ k.container = [h.container EXCEPT ![n] = None]
  BY DEF TakenOff
<1>3. /\ k.list["waiting"] = Without(h.list["waiting"], {n})
      /\ \A v \in List \ {"waiting"} : k.list[v] = h.list[v]
      /\ k.container[n] = None /\ \A m \in Node \ {n} : k.container[m] = h.container[m]
  BY <1>1, <1>2
<1>4. k \in HomeSet
  <2>1. Without(h.list["waiting"], {n}) \in Seq(Node)
    BY <1>1, WithoutType
  <2>2. k.list \in [List -> Seq(Node)] /\ k.container \in [Node -> List \cup {None}]
    BY <1>1, <1>2, <2>1
  <2> QED BY <1>2, <2>2 DEF HomeSet
<1>5. Elements(k.list["waiting"]) = Elements(h.list["waiting"]) \ {n}
  BY <1>1, <1>3, WithoutElements
<1>6. \A v \in List, m \in Node : Has(k, m, v) <=> Has(h, m, v) /\ ~(v = "waiting" /\ m = n)
  BY <1>3, <1>5 DEF Has
<1>7. \A m \in Node \ {n} : Same(h, k, m)
  BY <1>3, <1>6 DEF Same
<1>8. ASSUME NEW v \in List, n \in Sure(v) PROVE ~ Has(k, n, v)
  <2>1. CASE v \in {"event", "handling"}
    <3>1. n \notin Loose
      BY <1>8, <2>1 DEF Sure
    <3>2. ~ Has(h, n, "event") /\ ~ Has(h, n, "handling")
      BY <3>1 DEF Agrees, Has
    <3> QED BY <1>6, <2>1, <3>2
  <2>2. CASE v = "active"
    <3>1. ~ Has(h, n, v)
      BY <1>8, <2>2, ListNames DEF Agrees, Has, Sure
    <3> QED BY <1>6, <3>1
  <2>4. CASE v = "stack"
    BY <1>8, <2>4 DEF Sure
  <2>3. CASE v = "waiting"
    BY <1>6, <2>3
  <2> QED BY <2>1, <2>2, <2>3, <2>4 DEF List
<1>9. Lifted(h, k, n)
  BY <1>3, <1>4, <1>6, <1>7, <1>8 DEF Lifted
<1>10. ASSUME NEW v \in List PROVE Once(k.list[v], Sure(v))
  <2>1. h.list[v] \in Seq(Node) /\ Once(h.list[v], Sure(v))
    BY <1>1 DEF Agrees
  <2>2. CASE v = "waiting"
    BY <1>3, <2>1, <2>2, WithoutOnce
  <2>3. CASE v # "waiting"
    BY <1>3, <2>1, <2>3
  <2> QED BY <2>2, <2>3
<1>11. Agrees(k)
  BY <1>9, <1>10, LiftedAgrees
<1> QED BY <1>1, <1>6, <1>9, <1>11

\* Popping the first node of a list.
Popped(h, w) ==
  [list |-> [h.list EXCEPT ![w] = Tail(@)],
   container |-> [h.container EXCEPT ![Head(h.list[w])] = None]]

LEMMA PoppedHome ==
  ASSUME NEW h \in HomeSet, Agrees(h), NEW w \in {"active", "handling"}, h.list[w] # <<>>,
         NEW n, n = Head(h.list[w]),
         NEW k, k = Popped(h, w)
  PROVE  n \in Node /\ Has(h, n, w) /\ Lifted(h, k, n) /\ Agrees(k)
<1>1. /\ h.list \in [List -> Seq(Node)] /\ h.container \in [Node -> List \cup {None}]
      /\ \A v \in List : h.list[v] \in Seq(Node)
      /\ w \in List
  BY HomeParts DEF List
<1>2. /\ n \in Node /\ n \in Elements(h.list[w]) /\ Tail(h.list[w]) \in Seq(Node)
      /\ Elements(h.list[w]) = Elements(Tail(h.list[w])) \cup {n}
  BY <1>1, TailElements
<1>3. Once(h.list[w], Sure(w))
  BY <1>1 DEF Agrees
<1>4. Once(Tail(h.list[w]), Sure(w)) /\ (n \in Sure(w) => n \notin Elements(Tail(h.list[w])))
  BY <1>1, <1>3, TailOnce
<1>5. /\ k = [list |-> k.list, container |-> k.container]
      /\ k.list = [h.list EXCEPT ![w] = Tail(@)]
      /\ k.container = [h.container EXCEPT ![n] = None]
  BY DEF Popped
<1>6. /\ k.list[w] = Tail(h.list[w]) /\ \A v \in List \ {w} : k.list[v] = h.list[v]
      /\ k.container[n] = None /\ \A m \in Node \ {n} : k.container[m] = h.container[m]
  BY <1>1, <1>2, <1>5
<1>7. k \in HomeSet
  <2>1. k.list \in [List -> Seq(Node)] /\ k.container \in [Node -> List \cup {None}]
    BY <1>1, <1>2, <1>5
  <2> QED BY <1>5, <2>1 DEF HomeSet
<1>8. /\ \A m \in Node \ {n} : Has(k, m, w) <=> Has(h, m, w)
      /\ \A v \in List \ {w}, m \in Node : Has(k, m, v) <=> Has(h, m, v)
      /\ n \in Sure(w) => ~ Has(k, n, w)
      /\ Has(h, n, w)
  BY <1>2, <1>4, <1>6 DEF Has
<1>9. \A m \in Node \ {n} : Same(h, k, m)
  BY <1>6, <1>8 DEF Same
<1>10. ASSUME NEW v \in List, n \in Sure(v) PROVE ~ Has(k, n, v)
  <2>1. CASE v = w
    BY <1>8, <1>10, <2>1
  <2>2. CASE v # w
    <3>0. n \in Node \ Loose /\ n \in Sure("active") /\ v # "stack"
      BY <1>2, <1>10 DEF Sure
    <3>1. CASE w = "active"
      <4>1. h.container[n] = "active"
        BY <1>2, <1>8, <3>0, <3>1 DEF Agrees, Has, List
      <4>2. ~ Has(h, n, v)
        <5>1. CASE v \in {"event", "handling"}
          BY <3>0, <4>1, <5>1 DEF Agrees, Has
        <5>2. CASE v \notin {"event", "handling"}
          BY <1>10, <2>2, <3>1, <4>1, <5>2 DEF Agrees, Has
        <5> QED BY <5>1, <5>2
      <4> QED BY <1>2, <1>8, <2>2, <4>2
    <3>2. CASE w = "handling"
      <4>1. h.container[n] = "event" /\ ~ Has(h, n, "event")
        BY <1>8, <3>0, <3>2 DEF Agrees, Has
      <4>2. ~ Has(h, n, v)
        <5>1. CASE v = "event"
          BY <4>1, <5>1
        <5>2. CASE v \notin {"event", "handling"}
          BY <1>10, <4>1, <5>2 DEF Agrees, Has
        <5> QED BY <2>2, <3>2, <5>1, <5>2
      <4> QED BY <1>2, <1>8, <2>2, <4>2
    <3> QED BY <3>1, <3>2
  <2> QED BY <2>1, <2>2
<1>11. \A v \in List, m \in Node : Has(k, m, v) => Has(h, m, v)
  BY <1>8
<1>12. Lifted(h, k, n)
  BY <1>6, <1>7, <1>9, <1>10, <1>11 DEF Lifted
<1>13. ASSUME NEW v \in List PROVE Once(k.list[v], Sure(v))
  <2>1. Once(h.list[v], Sure(v))
    BY <1>1 DEF Agrees
  <2> QED BY <1>4, <1>6, <2>1
<1>14. Agrees(k)
  BY <1>2, <1>12, <1>13, LiftedAgrees
<1> QED BY <1>2, <1>8, <1>12, <1>14

\* Popping the top of the stack: a node that believes it is elsewhere keeps its pointer.
LEMMA TopHome ==
  ASSUME NEW h \in HomeSet, Agrees(h), h.list["stack"] # <<>>,
         NEW n, n = Last(h.list["stack"]), NEW k, k = PoppedOff(h)
  PROVE  /\ n \in Node /\ Has(h, n, "stack") /\ k \in HomeSet /\ Agrees(k)
         /\ \A m \in Node \ {n} : Same(h, k, m)
         /\ k.container[n] = (IF h.container[n] = "stack" THEN None ELSE h.container[n])
         /\ \A v \in List \ {"stack"} : k.list[v] = h.list[v]
         /\ \A v \in List, m \in Node : Has(k, m, v) => Has(h, m, v)
<1>1. /\ h.list \in [List -> Seq(Node)] /\ h.container \in [Node -> List \cup {None}]
      /\ \A v \in List : h.list[v] \in Seq(Node)
      /\ "stack" \in List
  BY HomeParts DEF List
<1>2. n \in Node /\ n \in Elements(h.list["stack"])
  BY <1>1, LastType
<1>3. /\ k = [list |-> k.list, container |-> k.container]
      /\ k.list = [h.list EXCEPT !["stack"] = Front(@)]
      /\ k.container = [h.container EXCEPT ![n] = IF @ = "stack" THEN None ELSE @]
  BY DEF PoppedOff
<1>4. /\ k.list["stack"] = Front(h.list["stack"]) /\ \A v \in List \ {"stack"} : k.list[v] = h.list[v]
      /\ k.container[n] = (IF h.container[n] = "stack" THEN None ELSE h.container[n])
      /\ \A m \in Node \ {n} : k.container[m] = h.container[m]
  BY <1>1, <1>2, <1>3
<1>5. /\ Front(h.list["stack"]) \in Seq(Node)
      /\ Elements(h.list["stack"]) = Elements(Front(h.list["stack"])) \cup {n}
  <2>1. Once(h.list["stack"], {})
    BY DEF Once
  <2> QED BY <1>1, <2>1, FrontType, FrontOnce
<1>6. k \in HomeSet
  <2>1. k.list \in [List -> Seq(Node)] /\ k.container \in [Node -> List \cup {None}]
    BY <1>1, <1>3, <1>5
  <2> QED BY <1>3, <2>1 DEF HomeSet
<1>7. /\ \A m \in Node \ {n} : Has(k, m, "stack") <=> Has(h, m, "stack")
      /\ \A v \in List \ {"stack"}, m \in Node : Has(k, m, v) <=> Has(h, m, v)
      /\ \A v \in List, m \in Node : Has(k, m, v) => Has(h, m, v)
      /\ Has(h, n, "stack")
  BY <1>2, <1>4, <1>5 DEF Has
<1>8. \A m \in Node \ {n} : Same(h, k, m)
  BY <1>4, <1>7 DEF Same
<1>9. Agrees(k)
  <2>1. ASSUME NEW v \in List \ {"event", "handling"}, NEW m \in Sure(v)
        PROVE  Has(k, m, v) <=> k.container[m] = v
    <3>1. m \in Node /\ v # "stack" /\ (Has(h, m, v) <=> h.container[m] = v)
      BY DEF Agrees, Has, Sure
    <3>2. k.container[m] = v <=> h.container[m] = v
      BY <1>4, <3>1, ListNames
    <3> QED BY <1>7, <3>1, <3>2
  <2>2. ASSUME NEW m \in Node \ Loose
        PROVE  /\ (Has(k, m, "event") \/ Has(k, m, "handling")) <=> k.container[m] = "event"
               /\ ~ (Has(k, m, "event") /\ Has(k, m, "handling"))
    <3>1. k.container[m] = "event" <=> h.container[m] = "event"
      BY <1>4, ListNames
    <3> QED BY <1>7, <3>1, ListNames DEF Agrees, Has
  <2>3. ASSUME NEW v \in List PROVE Once(k.list[v], Sure(v))
    <3>1. CASE v = "stack"
      BY <3>1 DEF Once, Sure
    <3>2. CASE v # "stack"
      BY <1>4, <3>2 DEF Agrees
    <3> QED BY <3>1, <3>2
  <2>4. ASSUME NEW m \in Node, k.container[m] = "stack" PROVE Has(k, m, "stack")
    <3>1. m # n /\ h.container[m] = "stack"
      BY <1>1, <1>4, <2>4, ListNames
    <3> QED BY <1>7, <3>1 DEF Agrees, Has
  <2> QED BY <2>1, <2>2, <2>3, <2>4 DEF Agrees, Has
<1> QED BY <1>2, <1>4, <1>6, <1>7, <1>8, <1>9

\* Moving the nodes of an event to the list of a dispatch.
LEMMA DispatchedHome ==
  ASSUME NEW h \in HomeSet, Agrees(h), h.list["handling"] = <<>>,
         NEW k, k = [list |-> [h.list EXCEPT !["handling"] = h.list["event"], !["event"] = <<>>],
                     container |-> h.container]
  PROVE  /\ k \in HomeSet /\ Agrees(k)
         /\ \A v \in List \ {"event", "handling"} : k.list[v] = h.list[v]
<1>1. /\ h.list \in [List -> Seq(Node)] /\ h.container \in [Node -> List \cup {None}]
      /\ \A v \in List : h.list[v] \in Seq(Node)
      /\ "event" \in List /\ "handling" \in List
  BY HomeParts DEF List
<1>2. /\ k.list["handling"] = h.list["event"] /\ k.list["event"] = <<>>
      /\ \A v \in List \ {"event", "handling"} : k.list[v] = h.list[v]
      /\ k.container = h.container
  BY <1>1
<1>3. k \in HomeSet
  <2>1. [h.list EXCEPT !["handling"] = h.list["event"], !["event"] = <<>>] \in [List -> Seq(Node)]
    BY <1>1
  <2> QED BY <1>1, <2>1 DEF HomeSet
<1>4. Elements(<<>>) = {}
  BY DEF Elements
<1>5. \A v \in List \ {"event", "handling"} : \A n \in Sure(v) :
        n \in Elements(k.list[v]) <=> k.container[n] = v
  BY <1>2 DEF Agrees
<1>6. \A n \in Node \ Loose :
        /\ n \in Elements(k.list["event"]) \cup Elements(k.list["handling"]) <=> k.container[n] = "event"
        /\ n \notin Elements(k.list["event"]) \cap Elements(k.list["handling"])
  BY <1>2, <1>4 DEF Agrees
<1>7. ASSUME NEW v \in List PROVE Once(k.list[v], Sure(v))
  <2>1. \A w \in List : Once(h.list[w], Sure(w))
    BY DEF Agrees
  <2>2. CASE v = "event"
    BY <1>2, <2>2 DEF Once
  <2>3. CASE v = "handling"
    <3>1. Sure("handling") = Sure("event")
      BY DEF Sure
    <3> QED BY <1>1, <1>2, <2>1, <2>3, <3>1
  <2>4. CASE v \notin {"event", "handling"}
    BY <1>2, <2>1, <2>4
  <2> QED BY <2>2, <2>3, <2>4
<1>8. \A n \in Node : k.container[n] = "stack" => n \in Elements(k.list["stack"])
  BY <1>2, ListNames DEF Agrees
<1> QED BY <1>2, <1>3, <1>5, <1>6, <1>7, <1>8 DEF Agrees

-----------------------------------------------------------------------------
(* Parts of the handlers.                                                  *)

\* Stopping nodes.
StoppedFrom(nodes, S, k) ==
  /\ k \in [Node -> NodeState]
  /\ \A n \in Node \ S : k[n] = nodes[n]
  /\ \A n \in Node \cap S : /\ k[n].status = "Idle" /\ k[n].result = "rSTOP"
                            /\ k[n].runFlag = FALSE /\ k[n].skip = FALSE

LEMMA StoppedNodes ==
  ASSUME NEW nodes \in [Node -> NodeState], NEW S
  PROVE  StoppedFrom(nodes, S, Stopped(nodes, S))
<1> DEFINE k == Stopped(nodes, S)
<1> DEFINE stopped == [status |-> "Idle", result |-> "rSTOP", runFlag |-> FALSE, skip |-> FALSE]
<1>1. stopped \in NodeState
  BY DEF NodeState, Result
<1>2. k = [n \in Node |-> IF n \in S THEN stopped ELSE nodes[n]]
  BY DEF Stopped
<1>3. k \in [Node -> NodeState]
  <2> HIDE DEF stopped
  <2> QED BY <1>1, <1>2
<1> HIDE DEF k
<1> QED BY <1>2, <1>3 DEF StoppedFrom, k

\* Ending calls.
LEMMA CallsEnded ==
  ASSUME TypeOK, NEW S, CallsEnd(S), \A x \in Contexts : held[x] # None => held[x] \in Calling
  PROVE  /\ held' \in [Contexts -> Node \cup {None}] /\ call' \in [Node -> Contexts \cup {None}]
         /\ \A n \in Node \ S : call'[n] = call[n]
         /\ \A n \in Node \cap S : call'[n] = None
         /\ \A x \in Contexts : held'[x] # None => held'[x] \in Calling
BY DEF TypeOK, CallsEnd

\* What a step may do to a node without breaking what is true of it: leave it where it
\* is, take it off its list or put it on the stack; leave its call or end it.
Spared(n) ==
  /\ In(n, "waiting")' => In(n, "waiting")
  /\ n \in nodesSet' <=> n \in nodesSet
  /\ Apart =>
       /\ container'[n] \in {container[n], None, "stack"}
       /\ call'[n] \in {call[n], None}
       /\ call'[n] # None => ~ node'[n].skip /\ ChartOf[n] \in running' /\ node'[n].status = "Running"
       /\ n \in Calling /\ node'[n].runFlag => flow'.pc = "called" /\ flow'.current = n
  /\ n \in Steady => Quiet(n)' /\ Linked(n)'

LEMMA NodeSpared ==
  ASSUME NEW n \in Node, NodeInvariant(n), Spared(n)
  PROVE  NodeInvariant(n)'
<1>1. None \notin List /\ {"stack", "active", "event", "waiting"} \subseteq List
  BY ListNames
<1>2. Apart' = Apart /\ (n \in Calling)' = (n \in Calling) /\ (n \in Steady)' = (n \in Steady)
  BY DEF Apart, Calling, Steady
<1>3. PendingCall(n)'
  <2> SUFFICES ASSUME Apart, call'[n] # None
               PROVE  /\ n \in Calling /\ n \in nodesSet' /\ ChartOf[n] \in running' /\ ~node'[n].skip
                      /\ container'[n] \in {None, "waiting", "stack"} /\ node'[n].status = "Running"
    BY <1>2 DEF PendingCall
  <2>1. call[n] # None
    BY DEF Spared
  <2> QED BY <1>1, <2>1 DEF Spared, NodeInvariant, PendingCall
<1>4. CallingNode(n)'
  <2> SUFFICES ASSUME Apart, n \in Calling
               PROVE  /\ container'[n] # "event"
                      /\ (node'[n].runFlag => InFunction' /\ flow'.current = n)
                      /\ (container'[n] = "active" => n \notin nodesSet')
    BY <1>2 DEF CallingNode
  <2> QED BY <1>1 DEF Spared, NodeInvariant, CallingNode, InFunction, At
<1>5. In(n, "waiting")' => n \in nodesSet'
  BY DEF Spared, NodeInvariant
<1>6. n \in Steady => Quiet(n)' /\ Linked(n)'
  BY DEF Spared
<1> QED BY <1>2, <1>3, <1>4, <1>5, <1>6 DEF NodeInvariant

\* The flow of n that RunFlow begins, or refuses to begin.
FlowEffect(n, h, nodes, active, p) ==
  /\ Home' \in HomeSet /\ Agrees(Home)'
  /\ node' \in [Node -> NodeState] /\ flow' \in FlowState
  /\ \A m \in Node \ {n} : Same(h, Home', m) /\ node'[m] = nodes[m]
  /\ node'[n].skip = nodes[n].skip /\ node'[n].runFlag = nodes[n].runFlag
  /\ node'[n].result = nodes[n].result
  /\ \A v \in List, m \in Node : Has(Home', m, v) => Has(h, m, v) \/ (m = n /\ v = "stack")
  /\ ChartOf[n] \in active => /\ flow'.pc = "loop" /\ flow'.chart = ChartOf[n] /\ flow'.caller = p
                              /\ node'[n].status = "Idle" /\ container'[n] = "stack"
  /\ ChartOf[n] \notin active => flow'.pc = p /\ node' = nodes /\ Home' = h

LEMMA RunFlowParts ==
  ASSUME NEW h \in HomeSet, Agrees(h), h.list["stack"] = <<>>, NEW n \in Node,
         NEW nodes \in [Node -> NodeState], NEW active, NEW p \in {"idle", "async", "events"},
         active \subseteq Chart, RunFlow(n, h, nodes, active, p)
  PROVE  FlowEffect(n, h, nodes, active, p)
<1>1. h.list["stack"] = <<>> => [h EXCEPT !.list["stack"] = <<>>] = h
  <2>1. h.list = [h.list EXCEPT !["stack"] = <<>>]
    BY HomeParts
  <2> QED BY <2>1 DEF HomeSet
<1>2. /\ NoFlow \in FlowState
      /\ NoFlow = [pc |-> "idle", chart |-> None, current |-> None, hasRunning |-> FALSE,
                   history |-> {}, caller |-> "idle"]
  BY DEF NoFlow, FlowState
<1>3. CASE ChartOf[n] \in active
  <2> DEFINE k == Pushed(h, "stack", n)
  <2>1. /\ k \in HomeSet /\ Agrees(k)
        /\ \A m \in Node \ {n} : Same(h, k, m)
        /\ k.container[n] = "stack" /\ Has(k, n, "stack")
        /\ \A v \in List, m \in Node : Has(k, m, v) => Has(h, m, v) \/ (m = n /\ v = "stack")
    <3>1. "stack" \in PushLists
      BY DEF PushLists, List
    <3> QED BY <3>1, PushedHome
  <2>2. node' = [nodes EXCEPT ![n].status = "Idle"] /\ Become(k)
        /\ flow' = [NoFlow EXCEPT !.pc = "loop", !.chart = ChartOf[n], !.caller = p]
    BY <1>1, <1>3 DEF RunFlow
  <2> HIDE DEF k
  <2>3. Home' = k /\ container' = k.container
    BY <2>1, <2>2, Became
  <2>4. Agrees(Home)'
    <3>1. Agrees(Home') <=> Agrees(Home)'
      OBVIOUS
    <3> QED BY <2>1, <2>3, <3>1
  <2>5. flow' \in FlowState /\ flow'.pc = "loop" /\ flow'.chart = ChartOf[n] /\ flow'.caller = p
    BY <1>2, <1>3, <2>2 DEF FlowState
  <2>6. /\ node' \in [Node -> NodeState] /\ \A m \in Node \ {n} : node'[m] = nodes[m]
        /\ node'[n] = [nodes[n] EXCEPT !.status = "Idle"]
    BY <2>2 DEF NodeState
  <2>7. /\ node'[n].skip = nodes[n].skip /\ node'[n].runFlag = nodes[n].runFlag
        /\ node'[n].result = nodes[n].result /\ node'[n].status = "Idle"
    BY <2>6 DEF NodeState
  <2>8. Home' \in HomeSet /\ container'[n] = "stack"
    BY <2>1, <2>3
  <2>9. \A m \in Node \ {n} : Same(h, Home', m)
    BY <2>1, <2>3
  <2>10. \A v \in List, m \in Node : Has(Home', m, v) => Has(h, m, v) \/ (m = n /\ v = "stack")
    BY <2>1, <2>3
  <2> QED BY <1>3, <2>4, <2>5, <2>6, <2>7, <2>8, <2>9, <2>10 DEF FlowEffect
<1>4. CASE ChartOf[n] \notin active
  <2>1. node' = nodes /\ Become(h) /\ flow' = [NoFlow EXCEPT !.pc = p]
    BY <1>4 DEF RunFlow
  <2>2. Home' = h
    BY <2>1, Became
  <2>3. Agrees(Home)'
    <3>1. Agrees(Home') <=> Agrees(Home)'
      OBVIOUS
    <3> QED BY <2>2, <3>1
  <2>4. flow' \in FlowState /\ flow'.pc = p
    BY <1>2, <2>1 DEF FlowState
  <2>5. \A m \in Node \ {n} : Same(h, Home', m)
    BY <2>2 DEF Same
  <2> QED BY <1>4, <2>1, <2>2, <2>3, <2>4, <2>5 DEF FlowEffect
<1> QED BY <1>3, <1>4

\* The nodes that Node::Run of n makes the executor push.
Successors(n, nodes) ==
  IF nodes[n].status = "Running" \/ nodes[n].result = "rSTOP" THEN {}
  ELSE Elements(Child[n][nodes[n].result = "rTRUE"])

\* Nothing has been done to n, unless it has been popped off the stack.
Stays(h, k, n) ==
  /\ k.container[n] = h.container[n] \/ (h.container[n] = "stack" /\ k.container[n] = None)
  /\ \A w \in List \ {"stack"} : Has(k, n, w) <=> Has(h, n, w)

\* What follows Node::Run of n, whose successors are S.
RunEffect(n, h, nodes, S) ==
  /\ Home' \in HomeSet /\ Agrees(Home)' /\ node' \in [Node -> NodeState] /\ flow' \in FlowState
  /\ S \subseteq Node /\ \A m \in S : ChartOf[m] = ChartOf[n]
  /\ \A m \in Node \ S : Stays(h, Home', m)
  /\ \A m \in S : container'[m] = "stack"
  /\ \A v \in List, m \in Node : Has(Home', m, v) => Has(h, m, v) \/ (v = "stack" /\ m \in S)
  /\ \A m \in Node \ {n} : node'[m] = nodes[m]
  /\ node'[n].skip = nodes[n].skip /\ node'[n].result = nodes[n].result
  /\ nodes[n].status = "Running" => node'[n].status = "Running" /\ node'[n].runFlag = FALSE
  /\ nodes[n].status # "Running" => node'[n].status = "EndRun" /\ node'[n].runFlag = nodes[n].runFlag
  /\ flow'.pc = "loop" /\ flow'.chart = flow.chart /\ flow'.caller = flow.caller

LEMMA AfterRunParts ==
  ASSUME NEW h \in HomeSet, Agrees(h), NEW n \in Node, NEW nodes \in [Node -> NodeState],
         flow \in FlowState, AfterRun(n, h, nodes)
  PROVE  RunEffect(n, h, nodes, Successors(n, nodes))
<1> DEFINE S == Successors(n, nodes)
<1> DEFINE pops == h.container[n] = "stack"
           runs == nodes[n].status = "Running"
           next == IF runs \/ nodes[n].result = "rSTOP" THEN <<>> ELSE Child[n][nodes[n].result = "rTRUE"]
           r == IF pops THEN PoppedOff(h) ELSE h
           k == PushedAll(r, "stack", Reversed(next))
<1>1. /\ Become(k)
      /\ node' = IF runs THEN [nodes EXCEPT ![n].runFlag = FALSE]
                         ELSE [nodes EXCEPT ![n].status = "EndRun"]
      /\ flow' = [flow EXCEPT !.pc = "loop", !.current = None, !.hasRunning = @ \/ runs,
                              !.history = IF pops THEN @ \cup {n} ELSE @]
  BY DEF AfterRun
<1>2. next \in Seq(Node) /\ Elements(next) = S
  <2>1. Elements(<<>>) = {} /\ <<>> \in Seq(Node)
    BY DEF Elements
  <2>2. \A b \in BOOLEAN : Child[n][b] \in Seq(Node)
    BY AsyncAssumption
  <2> QED BY <2>1, <2>2 DEF Successors
<1>3. \A m \in S : ChartOf[m] = ChartOf[n]
  <2>1. \A b \in BOOLEAN : \A m \in Elements(Child[n][b]) : ChartOf[m] = ChartOf[n]
    BY AsyncAssumption
  <2> QED BY <2>1 DEF Successors
<1> DEFINE s == Reversed(next)
<1>4. s \in Seq(Node) /\ Elements(s) = S /\ S \subseteq Node
  <2> HIDE DEF next
  <2> QED BY <1>2, ReversedType, ReversedSame, ElementsType
<1> HIDE DEF next, s, S
<1>5. /\ r \in HomeSet /\ Agrees(r)
      /\ \A m \in Node : Stays(h, r, m)
      /\ \A v \in List, m \in Node : Has(r, m, v) => Has(h, m, v)
  <2>1. CASE pops
    <3> DEFINE q == Last(h.list["stack"])
    <3>1. h.list["stack"] # <<>> /\ r = PoppedOff(h)
      BY <2>1 DEF Agrees, Elements
    <3> HIDE DEF r, pops
    <3>2. /\ q \in Node /\ r \in HomeSet /\ Agrees(r)
          /\ \A m \in Node \ {q} : Same(h, r, m)
          /\ r.container[q] = (IF h.container[q] = "stack" THEN None ELSE h.container[q])
          /\ \A v \in List \ {"stack"} : r.list[v] = h.list[v]
          /\ \A v \in List, m \in Node : Has(r, m, v) => Has(h, m, v)
      BY <3>1, TopHome
    <3>3. Stays(h, r, q)
      BY <3>2 DEF Stays, Has
    <3>4. \A m \in Node \ {q} : Stays(h, r, m)
      BY <3>2 DEF Stays, Same
    <3> QED BY <3>2, <3>3, <3>4
  <2>2. CASE ~pops
    <3>1. r = h
      BY <2>2
    <3> QED BY <3>1 DEF Stays
  <2> QED BY <2>1, <2>2
<1> HIDE DEF r
<1>6. /\ k \in HomeSet /\ Agrees(k)
      /\ \A m \in Node \ Elements(s) : Same(r, k, m)
      /\ \A m \in Elements(s) : k.container[m] = "stack" /\ Has(k, m, "stack")
      /\ \A v \in List, m \in Node : Has(k, m, v) => Has(r, m, v) \/ (v = "stack" /\ m \in Elements(s))
  <2>1. "stack" \in PushLists
    BY DEF PushLists, List
  <2>2. k = PushedAll(r, "stack", s)
    BY DEF s
  <2> HIDE DEF k
  <2> QED BY <1>4, <1>5, <2>1, <2>2, PushedAllHome
<1> HIDE DEF k
<1>7. Home' = k /\ container' = k.container
  BY <1>1, <1>6, Became
<1>8. Agrees(Home)'
  <2>1. Agrees(Home') <=> Agrees(Home)'
    OBVIOUS
  <2> QED BY <1>6, <1>7, <2>1
<1>9. \A m \in Node \ S : Stays(h, Home', m)
  <2> TAKE m \in Node \ S
  <2>1. Stays(h, r, m) /\ Same(r, k, m)
    BY <1>4, <1>5, <1>6
  <2> QED BY <1>7, <2>1 DEF Same, Stays
<1>10. \A m \in S : container'[m] = "stack"
  BY <1>4, <1>6, <1>7
<1>14. \A v \in List, m \in Node : Has(Home', m, v) => Has(h, m, v) \/ (v = "stack" /\ m \in S)
  BY <1>4, <1>5, <1>6, <1>7
<1>15. /\ node' \in [Node -> NodeState] /\ \A m \in Node \ {n} : node'[m] = nodes[m]
       /\ runs => node'[n] = [nodes[n] EXCEPT !.runFlag = FALSE]
       /\ ~runs => node'[n] = [nodes[n] EXCEPT !.status = "EndRun"]
  BY <1>1 DEF NodeState
<1>16. /\ node'[n].skip = nodes[n].skip /\ node'[n].result = nodes[n].result
       /\ runs => node'[n].status = "Running" /\ node'[n].runFlag = FALSE
       /\ ~runs => node'[n].status = "EndRun" /\ node'[n].runFlag = nodes[n].runFlag
  BY <1>15 DEF NodeState
<1>17. /\ flow' \in FlowState /\ flow'.pc = "loop" /\ flow'.chart = flow.chart
       /\ flow'.caller = flow.caller
  BY <1>1 DEF FlowState
<1>18. Home' \in HomeSet
  BY <1>6, <1>7
<1> QED BY <1>3, <1>4, <1>8, <1>9, <1>10, <1>14, <1>15, <1>16, <1>17, <1>18 DEF RunEffect, S

\* The node an executor visits.
LEMMA VisitParts ==
  ASSUME AsyncInvariant, NEW n, Visit(n)
  PROVE  /\ n \in Node /\ ChartOf[n] = flow.chart /\ flow.chart \in running
         /\ At("loop") /\ InFlow /\ Stage = flow.caller
         /\ node[n].status # "Running" /\ node[n].runFlag = FALSE
         /\ Home \in HomeSet /\ Agrees(Home)
<1>1. /\ Home \in HomeSet /\ Agrees(Home) /\ Home.list = list /\ Home.container = container
      /\ node \in [Node -> NodeState]
  BY HomeTyped DEF AsyncInvariant, TypeOK
<1>2. n = Last(list["stack"]) /\ list["stack"] # <<>> /\ At("loop") /\ node[n].status # "Running" /\ ~ node[n].runFlag
  BY DEF Visit, InLoop, Top
<1>3. n \in Node /\ n \in Elements(list["stack"])
  <2>1. list["stack"] \in Seq(Node)
    BY <1>1, HomeParts, ListNames
  <2> QED BY <1>2, <2>1, LastType
<1>5. InFlow /\ Stage = flow.caller
  BY <1>2 DEF At, InFlow, Stage
<1>6. ChartOf[n] = flow.chart /\ flow.chart \in running
  BY <1>3, <1>5 DEF AsyncInvariant, FlowInvariant
<1>7. node[n].runFlag = FALSE
  BY <1>1, <1>2, <1>3 DEF NodeState
<1> QED BY <1>1, <1>2, <1>3, <1>5, <1>6, <1>7

\* The node that a flow runs: the one it visits, or whose function is under way.
Runner(n) == Visit(n) \/ (InFunction /\ n = flow.current)

LEMMA RunnerParts ==
  ASSUME AsyncInvariant, NEW n, Runner(n)
  PROVE  /\ n \in Node /\ ChartOf[n] = flow.chart /\ flow.chart \in running
         /\ InFlow /\ Stage = flow.caller /\ flow \in FlowState
         /\ Home \in HomeSet /\ Agrees(Home) /\ TypeOK /\ FlowInvariant
         /\ \A m \in Node : NodeInvariant(m)
         /\ Apart => \A m \in Calling \ {n} : node[m].runFlag = FALSE
<1>1. /\ Home \in HomeSet /\ Agrees(Home) /\ TypeOK /\ FlowInvariant /\ flow \in FlowState
      /\ node \in [Node -> NodeState] /\ \A m \in Node : NodeInvariant(m)
  BY HomeTyped DEF AsyncInvariant, TypeOK
<1>2. n \in Node /\ ChartOf[n] = flow.chart /\ flow.chart \in running /\ InFlow /\ Stage = flow.caller
  <2>1. CASE Visit(n)
    BY <2>1, VisitParts
  <2>2. CASE InFunction /\ n = flow.current
    BY <1>1, <2>2 DEF FlowInvariant, InGame, InFlow, InFunction, At, Stage
  <2> QED BY <2>1, <2>2 DEF Runner
<1>3. ASSUME Apart, NEW m \in Calling \ {n} PROVE node[m].runFlag = FALSE
  <2>1. m \in Node
    BY DEF Calling
  <2>2. node[m].runFlag => InFunction /\ flow.current = m
    BY <1>1, <1>3, <2>1 DEF NodeInvariant, CallingNode
  <2>3. ~ (InFunction /\ flow.current = m)
    <3>1. CASE Visit(n)
      BY <3>1 DEF Visit, InLoop, InFunction, At
    <3>2. CASE InFunction /\ n = flow.current
      BY <3>2
    <3> QED BY <3>1, <3>2 DEF Runner
  <2> QED BY <1>1, <2>1, <2>2, <2>3 DEF NodeState
<1> QED BY <1>1, <1>2, <1>3

\* A node that is visited has no call, and no late callback has activated it.
LEMMA VisitFree ==
  ASSUME AsyncInvariant, NEW n, Visit(n)
  PROVE  /\ Runner(n) /\ NodeInvariant(n)
         /\ Apart => call[n] = None
         /\ n \in Steady => container[n] \notin {"waiting", "active"}
         /\ n \notin Calling => n \in Steady
         /\ Apart /\ n \in Calling => container[n] # "event"
<1>1. n \in Node /\ Runner(n) /\ NodeInvariant(n) /\ node[n].status # "Running"
  BY VisitParts, RunnerParts DEF Runner
<1>2. Apart => call[n] = None
  BY <1>1 DEF NodeInvariant, PendingCall
<1>3. n \in Steady => container[n] \notin {"waiting", "active"}
  BY <1>1 DEF NodeInvariant, Linked
<1>4. Apart /\ n \in Calling => container[n] # "event"
  BY <1>1 DEF NodeInvariant, CallingNode
<1> QED BY <1>1, <1>2, <1>3, <1>4 DEF Steady

-----------------------------------------------------------------------------
(* The steps of a flow.                                                    *)

\* A list without nodes is empty.
LEMMA EmptyList ==
  ASSUME NEW s \in Seq(Node), \A m \in Node : m \notin Elements(s)
  PROVE  s = <<>>
<1> SUFFICES ASSUME s # <<>> PROVE FALSE
  OBVIOUS
<1>1. Last(s) \in Node /\ Last(s) \in Elements(s)
  BY LastType
<1> QED BY <1>1

\* What running n does to another node, which is left alone or stopped and may be
\* pushed.
LEMMA RunSpares ==
  ASSUME AsyncInvariant, NEW n, Runner(n), NEW h \in HomeSet, Agrees(h),
         NEW nodes \in [Node -> NodeState], AfterRun(n, h, nodes), running' = running,
         NEW m \in Node \ {n}, m \in nodesSet' <=> m \in nodesSet,
         Has(h, m, "waiting") => In(m, "waiting"),
         \/ Same(Home, h, m) /\ nodes[m] = node[m] /\ call'[m] = call[m]
         \/ /\ h.container[m] = None /\ call'[m] = None
            /\ nodes[m].status # "Running" /\ nodes[m].runFlag = FALSE
  PROVE  NodeInvariant(m)'
<1>1. /\ n \in Node /\ ChartOf[n] = flow.chart /\ flow.chart \in running
      /\ NodeInvariant(m) /\ flow \in FlowState
      /\ Apart /\ m \in Calling => node[m].runFlag = FALSE
  BY RunnerParts
<1> DEFINE S == Successors(n, nodes)
<1>b. RunEffect(n, h, nodes, S)
  BY <1>1, AfterRunParts
<1> HIDE DEF S
<1>2. /\ Home' = [list |-> list', container |-> container']
      /\ \A k \in S : ChartOf[k] = ChartOf[n]
      /\ \A k \in Node \ S : Stays(h, Home', k)
      /\ \A k \in S : container'[k] = "stack"
      /\ \A v \in List, k \in Node : Has(Home', k, v) => Has(h, k, v) \/ (v = "stack" /\ k \in S)
      /\ node'[m] = nodes[m]
  BY <1>b DEF RunEffect, Home
<1>4. In(m, "waiting")' => In(m, "waiting")
  BY <1>2, ListNames DEF In, Has
<1>5. m \notin S => container'[m] \in {h.container[m], None}
  BY <1>2 DEF Stays
<1>6. m \in S => container'[m] = "stack" /\ ChartOf[m] \in running'
  BY <1>1, <1>2
<1>7. CASE Same(Home, h, m) /\ nodes[m] = node[m] /\ call'[m] = call[m]
  <2>1. h.container[m] = container[m]
    BY <1>7 DEF Same, Home
  <2>2. container'[m] \in {container[m], None, "stack"}
    BY <1>5, <1>6, <2>1
  <2>3. Apart /\ call'[m] # None =>
          ~ node'[m].skip /\ ChartOf[m] \in running' /\ node'[m].status = "Running"
    BY <1>1, <1>2, <1>7 DEF NodeInvariant, PendingCall
  <2>4. ASSUME m \in Steady PROVE Quiet(m)' /\ Linked(m)'
    <3>1. Quiet(m) /\ Linked(m)
      BY <1>1, <2>4 DEF NodeInvariant
    <3>2. CASE m \in S
      BY <1>6, <3>2 DEF Quiet, Linked
    <3>3. CASE m \notin S
      BY <1>2, <1>5, <1>7, <2>1, <3>1, <3>3, ListNames DEF Quiet, Linked
    <3> QED BY <3>2, <3>3
  <2>5. Spared(m)
    BY <1>1, <1>2, <1>4, <1>7, <2>2, <2>3, <2>4 DEF Spared
  <2> QED BY <1>1, <2>5, NodeSpared
<1>8. CASE h.container[m] = None /\ call'[m] = None /\ nodes[m].status # "Running" /\ nodes[m].runFlag = FALSE
  <2>1. container'[m] \in {None, "stack"}
    BY <1>5, <1>6, <1>8
  <2>2. Quiet(m)' /\ Linked(m)'
    BY <1>2, <1>5, <1>6, <1>8, <2>1, ListNames DEF Quiet, Linked
  <2>3. Spared(m)
    BY <1>2, <1>4, <1>8, <2>1, <2>2 DEF Spared
  <2> QED BY <1>1, <2>3, NodeSpared
<1> QED BY <1>7, <1>8

\* So running n keeps the invariant if it keeps what is said of single nodes.
LEMMA RunKeeps ==
  ASSUME AsyncInvariant, NEW n, Runner(n), NEW h \in HomeSet, Agrees(h),
         NEW nodes \in [Node -> NodeState], AfterRun(n, h, nodes),
         \A m \in Node : \A v \in {"stack", "handling"} : Has(h, m, v) => In(m, v),
         UNCHANGED <<running, debugged, breakpoints, resumed>>,
         nodesSet' \subseteq Node, continueFlag' \subseteq continueFlag,
         held' \in [Contexts -> Node \cup {None}], call' \in [Node -> Contexts \cup {None}],
         \A x \in Contexts : held'[x] # None => held'[x] \in Calling,
         \A m \in Node : NodeInvariant(m)'
  PROVE  AsyncInvariant'
<1>1. /\ n \in Node /\ ChartOf[n] = flow.chart /\ flow.chart \in running /\ Stage = flow.caller
      /\ flow \in FlowState /\ TypeOK /\ FlowInvariant /\ InFlow
      /\ Home \in HomeSet /\ Home.list = list
  BY RunnerParts, HomeTyped
<1> DEFINE S == Successors(n, nodes)
<1>b. RunEffect(n, h, nodes, S)
  BY <1>1, AfterRunParts
<1> HIDE DEF S
<1>2. /\ Home' \in HomeSet /\ Agrees(Home)' /\ node' \in [Node -> NodeState] /\ flow' \in FlowState
      /\ S \subseteq Node /\ \A k \in S : ChartOf[k] = ChartOf[n]
      /\ \A v \in List, k \in Node : Has(Home', k, v) => Has(h, k, v) \/ (v = "stack" /\ k \in S)
      /\ flow'.pc = "loop" /\ flow'.chart = flow.chart /\ flow'.caller = flow.caller
  BY <1>b DEF RunEffect
<1>3. /\ list' \in [List -> Seq(Node)] /\ container' \in [Node -> List \cup {None}]
      /\ \A v \in List : list'[v] \in Seq(Node) /\ Elements(list'[v]) \subseteq Node
  <2>1. Home'.list = list' /\ Home'.container = container'
    BY DEF Home
  <2> QED BY <1>2, <2>1, HomeParts
<1>4. TypeOK'
  BY <1>1, <1>2, <1>3 DEF TypeOK
<1>5. \A m \in Node : \A v \in {"stack", "handling"} : In(m, v)' => In(m, v) \/ (v = "stack" /\ m \in S)
  <2> TAKE m \in Node, v \in {"stack", "handling"}
  <2>1. Has(Home', m, v) => Has(h, m, v) \/ (v = "stack" /\ m \in S)
    BY <1>2, ListNames
  <2>2. Has(Home', m, v) <=> In(m, v)'
    BY DEF Has, In, Home
  <2> QED BY <2>1, <2>2
<1>6. \A m \in Elements(list'["stack"]) : ChartOf[m] = flow'.chart
  <2> TAKE m \in Elements(list'["stack"])
  <2>1. m \in Node /\ In(m, "stack")'
    BY <1>3, ListNames DEF In
  <2>2. CASE In(m, "stack")
    BY <1>1, <1>2, <2>2 DEF In, FlowInvariant
  <2>3. CASE m \in S
    BY <1>1, <1>2, <2>3
  <2> QED BY <1>5, <2>1, <2>2, <2>3
<1>7. list["handling"] = <<>> => list'["handling"] = <<>>
  <2> SUFFICES ASSUME list["handling"] = <<>> PROVE list'["handling"] = <<>>
    OBVIOUS
  <2>1. \A m \in Node : m \notin Elements(list'["handling"])
    BY <1>5 DEF In, Elements
  <2> QED BY <1>3, <2>1, EmptyList, ListNames
<1>8. Stage' = Stage /\ flow'.pc = "loop"
  BY <1>1, <1>2 DEF Stage, InFlow, At
<1>9. FlowInvariant'
  BY <1>1, <1>2, <1>6, <1>7, <1>8 DEF FlowInvariant, InFlow, InFunction, At
<1>10. breakpoints' \subseteq Breakable
  BY DEF AsyncInvariant
<1>11. \A x \in Contexts : (held[x] # None => held[x] \in Calling)'
  BY DEF Calling
<1> QED BY <1>2, <1>4, <1>9, <1>10, <1>11 DEF AsyncInvariant

\* The node that runs, when it has no call: it is popped, or left in the list where it
\* is or where its function has put it, and may be pushed again.
LEMMA RunnerWithoutCall ==
  ASSUME AsyncInvariant, NEW n, Runner(n), NEW h \in HomeSet, Agrees(h),
         NEW nodes \in [Node -> NodeState], AfterRun(n, h, nodes), running' = running,
         Apart => call'[n] = None, n \in nodesSet' <=> n \in nodesSet,
         Has(h, n, "waiting") => In(n, "waiting"),
         h.container[n] \in {"waiting", "active"} =>
           h.container[n] = container[n] /\ (n \in Steady => nodes[n].status = "Running"),
         n \in Calling /\ Apart =>
           h.container[n] # "event" /\ (nodes[n].runFlag = FALSE \/ nodes[n].status = "Running")
  PROVE  NodeInvariant(n)'
<1>1. /\ n \in Node /\ ChartOf[n] = flow.chart /\ flow.chart \in running
      /\ NodeInvariant(n) /\ flow \in FlowState
  BY RunnerParts
<1> DEFINE S == Successors(n, nodes)
<1>2. RunEffect(n, h, nodes, S)
  BY <1>1, AfterRunParts
<1> HIDE DEF S
<1>3. container'[n] \in {h.container[n], None, "stack"}
  <2>1. n \in S => container'[n] = "stack"
    BY <1>2 DEF RunEffect
  <2>2. n \notin S => container'[n] \in {h.container[n], None}
    BY <1>1, <1>2 DEF RunEffect, Stays, Home
  <2> QED BY <2>1, <2>2
<1>4. None \notin {"waiting", "active", "event"}
  BY ListNames DEF List
<1>5. In(n, "waiting")' => In(n, "waiting")
  <2>1. Has(Home', n, "waiting") => Has(h, n, "waiting")
    BY <1>1, <1>2 DEF RunEffect, List
  <2>2. Has(Home', n, "waiting") <=> In(n, "waiting")'
    BY DEF Has, In, Home
  <2> QED BY <2>1, <2>2
<1>6. PendingCall(n)'
  BY DEF PendingCall, Apart
<1>7. CallingNode(n)'
  <2> SUFFICES ASSUME Apart, n \in Calling
               PROVE  /\ container'[n] # "event" /\ ~ node'[n].runFlag
                      /\ (container'[n] = "active" => n \notin nodesSet')
    BY DEF CallingNode, Apart, Calling
  <2>1. ~ node'[n].runFlag
    BY <1>2 DEF RunEffect
  <2>2. container'[n] = "active" => container[n] = "active"
    BY <1>3, <1>4
  <2> QED BY <1>1, <1>3, <1>4, <2>1, <2>2 DEF NodeInvariant, CallingNode
<1>8. (In(n, "waiting") => n \in nodesSet)'
  BY <1>1, <1>5 DEF NodeInvariant
<1>9. Quiet(n)'
  BY <1>1 DEF Quiet
<1>10. n \in Steady => Linked(n)'
  BY <1>2, <1>3, <1>4 DEF Linked, RunEffect
<1>11. (n \in Steady)' <=> n \in Steady
  BY DEF Steady, Apart, Calling
<1> QED BY <1>6, <1>7, <1>8, <1>9, <1>10, <1>11 DEF NodeInvariant

\* A node that waits in waiting_nodes_ after its function, or its breakpoint.
LEMMA RunnerWaits ==
  ASSUME AsyncInvariant, NEW n, Visit(n),
         NEW nodes \in [Node -> NodeState], AfterRun(n, Pushed(Home, "waiting", n), nodes), running' = running,
         nodes[n].status = "Running", n \in nodesSet',
         Apart /\ call'[n] # None => n \in Calling /\ ~ nodes[n].skip
  PROVE  NodeInvariant(n)'
<1>1. /\ n \in Node /\ ChartOf[n] = flow.chart /\ flow.chart \in running
      /\ flow \in FlowState /\ Home \in HomeSet /\ Agrees(Home)
  BY RunnerParts DEF Runner
<1> DEFINE h == Pushed(Home, "waiting", n)
<1>2. h \in HomeSet /\ Agrees(h) /\ h.container[n] = "waiting"
  <2>1. "waiting" \in PushLists
    BY DEF PushLists, List
  <2> QED BY <1>1, <2>1, PushedHome
<1> HIDE DEF h
<1> DEFINE S == Successors(n, nodes)
<1>3. RunEffect(n, h, nodes, S)
  BY <1>1, <1>2, AfterRunParts DEF h
<1>4. S = {}
  BY DEF Successors
<1> HIDE DEF S
<1>5. container'[n] = "waiting"
  BY <1>1, <1>2, <1>3, <1>4 DEF RunEffect, Stays, Home
<1>7. node'[n].skip = nodes[n].skip /\ node'[n].runFlag = FALSE /\ node'[n].status = "Running"
  BY <1>3 DEF RunEffect
<1>8. PendingCall(n)' /\ CallingNode(n)'
  BY <1>1, <1>5, <1>7, ListNames DEF PendingCall, CallingNode, Calling, Apart
<1>9. Quiet(n)' /\ Linked(n)'
  BY <1>1, <1>7 DEF Quiet, Linked
<1> QED BY <1>8, <1>9 DEF NodeInvariant

\* RunSkipped: the answer of a resumed node is used.
LEMMA RunSkippedStep ==
  ASSUME AsyncInvariant, RunSkipped
  PROVE  AsyncInvariant'
<1>1. PICK n \in Node : Visit(n) /\ node[n].skip /\ AfterRun(n, Home, [node EXCEPT ![n].skip = FALSE])
                        /\ UNCHANGED <<nodesSet, control, calls, resumed>>
  BY DEF RunSkipped
<1>2. /\ Home \in HomeSet /\ Agrees(Home) /\ Home.container = container /\ Runner(n)
      /\ node \in [Node -> NodeState] /\ TypeOK /\ NodeInvariant(n)
      /\ node[n].status # "Running" /\ node[n].runFlag = FALSE
  BY <1>1, VisitParts, HomeTyped DEF AsyncInvariant, TypeOK, Runner
<1> DEFINE nodes == [node EXCEPT ![n].skip = FALSE]
<1>3. /\ nodes \in [Node -> NodeState] /\ \A m \in Node \ {n} : nodes[m] = node[m]
      /\ nodes[n].runFlag = FALSE
  BY <1>2 DEF NodeState
<1>4. AfterRun(n, Home, nodes)
  BY <1>1
<1> HIDE DEF nodes
<1>5. call' = call /\ held' = held /\ nodesSet' = nodesSet /\ UNCHANGED control /\ UNCHANGED resumed
  BY <1>1 DEF calls
<1>6. \A m \in Node, v \in List : Has(Home, m, v) <=> In(m, v)
  BY DEF Has, In, Home
<1>7. NodeInvariant(n)'
  <2>1. Apart => call'[n] = None
    BY <1>1, <1>2, <1>5 DEF NodeInvariant, PendingCall
  <2> QED BY <1>1, <1>2, <1>3, <1>4, <1>5, <1>6, <2>1, VisitFree, RunnerWithoutCall, ListNames DEF control
<1>8. \A m \in Node \ {n} : NodeInvariant(m)'
  BY <1>1, <1>2, <1>3, <1>4, <1>5, <1>6, RunSpares, ListNames DEF control, Same
<1>9. \A m \in Node : NodeInvariant(m)'
  BY <1>7, <1>8
<1>10. \A x \in Contexts : held'[x] # None => held'[x] \in Calling
  BY <1>5 DEF AsyncInvariant
<1> QED BY <1>1, <1>2, <1>3, <1>4, <1>5, <1>6, <1>9, <1>10, RunKeeps, ListNames DEF control, TypeOK

\* Node n of k, which is otherwise like node, when its function has been called.
CalledAs(k, n, st, r, sk) ==
  /\ k \in [Node -> NodeState] /\ \A m \in Node \ {n} : k[m] = node[m]
  /\ k[n].status = st /\ k[n].result = r /\ k[n].skip = sk /\ k[n].runFlag = TRUE

LEMMA EnteredNode ==
  ASSUME TypeOK, NEW n \in Node
  PROVE  CalledAs(Entered(n), n, node[n].status, "rFALSE", node[n].skip)
<1>1. node \in [Node -> NodeState] /\ "rFALSE" \in Result
  BY DEF TypeOK, Result
<1> DEFINE j == [node EXCEPT ![n].runFlag = TRUE]
           k == [j EXCEPT ![n].result = "rFALSE"]
<1>2. j \in [Node -> NodeState] /\ j[n] = [node[n] EXCEPT !.runFlag = TRUE] /\ \A m \in Node \ {n} : j[m] = node[m]
  BY <1>1 DEF NodeState
<1>3. Entered(n) = k
  BY <1>1 DEF Entered
<1> HIDE DEF j
<1>4. k \in [Node -> NodeState] /\ k[n] = [j[n] EXCEPT !.result = "rFALSE"] /\ \A m \in Node \ {n} : k[m] = j[m]
  BY <1>1, <1>2 DEF NodeState
<1> HIDE DEF k
<1>5. /\ k[n].status = node[n].status /\ k[n].result = "rFALSE" /\ k[n].skip = node[n].skip
      /\ k[n].runFlag = TRUE
  BY <1>1, <1>2, <1>4 DEF NodeState
<1> QED BY <1>2, <1>3, <1>4, <1>5 DEF CalledAs

\* It has returned r;
LEMMA ReturnedNode ==
  ASSUME TypeOK, NEW n \in Node, NEW r \in Result
  PROVE  CalledAs([Entered(n) EXCEPT ![n].result = r], n, node[n].status, r, node[n].skip)
<1> DEFINE e == Entered(n)
           k == [e EXCEPT ![n].result = r]
<1>1. CalledAs(e, n, node[n].status, "rFALSE", node[n].skip)
  BY EnteredNode
<1> HIDE DEF e
<1>2. k \in [Node -> NodeState] /\ k[n] = [e[n] EXCEPT !.result = r] /\ \A m \in Node \ {n} : k[m] = e[m]
  BY <1>1 DEF CalledAs, NodeState
<1> HIDE DEF k
<1>3. CalledAs(k, n, node[n].status, r, node[n].skip)
  BY <1>1, <1>2 DEF CalledAs, NodeState
<1> QED BY <1>3 DEF k, e

\* it has suspended its node;
LEMMA SuspendedNode ==
  ASSUME TypeOK, NEW n \in Node, NEW r \in Result
  PROVE  CalledAs([Entered(n) EXCEPT ![n].status = "Running", ![n].result = r], n, "Running", r, node[n].skip)
<1> DEFINE e == Entered(n)
           j == [e EXCEPT ![n].status = "Running"]
           k == [j EXCEPT ![n].result = r]
<1>1. CalledAs(e, n, node[n].status, "rFALSE", node[n].skip)
  BY EnteredNode
<1>0. [Entered(n) EXCEPT ![n].status = "Running", ![n].result = r] = k
  BY <1>1 DEF CalledAs, NodeState
<1> HIDE DEF e
<1>2. j \in [Node -> NodeState] /\ j[n] = [e[n] EXCEPT !.status = "Running"] /\ \A m \in Node \ {n} : j[m] = e[m]
  BY <1>1 DEF CalledAs, NodeState
<1> HIDE DEF j
<1>3. k \in [Node -> NodeState] /\ k[n] = [j[n] EXCEPT !.result = r] /\ \A m \in Node \ {n} : k[m] = j[m]
  BY <1>2 DEF NodeState
<1> HIDE DEF k
<1>4. CalledAs(k, n, "Running", r, node[n].skip)
  BY <1>1, <1>2, <1>3 DEF CalledAs, NodeState
<1> QED BY <1>0, <1>4

\* its node is to go on without it, with result r.
LEMMA AnsweredNode ==
  ASSUME TypeOK, NEW n \in Node, NEW r \in Result
  PROVE  CalledAs([Entered(n) EXCEPT ![n].status = "Running", ![n].skip = TRUE, ![n].result = r],
                  n, "Running", r, TRUE)
<1> DEFINE e == Entered(n)
           i == [e EXCEPT ![n].status = "Running"]
           j == [i EXCEPT ![n].skip = TRUE]
           k == [j EXCEPT ![n].result = r]
<1>1. CalledAs(e, n, node[n].status, "rFALSE", node[n].skip)
  BY EnteredNode
<1>0. [Entered(n) EXCEPT ![n].status = "Running", ![n].skip = TRUE, ![n].result = r] = k
  BY <1>1 DEF CalledAs, NodeState
<1> HIDE DEF e
<1>2. i \in [Node -> NodeState] /\ i[n] = [e[n] EXCEPT !.status = "Running"] /\ \A m \in Node \ {n} : i[m] = e[m]
  BY <1>1 DEF CalledAs, NodeState
<1> HIDE DEF i
<1>3. j \in [Node -> NodeState] /\ j[n] = [i[n] EXCEPT !.skip = TRUE] /\ \A m \in Node \ {n} : j[m] = i[m]
  BY <1>2 DEF NodeState
<1> HIDE DEF j
<1>4. k \in [Node -> NodeState] /\ k[n] = [j[n] EXCEPT !.result = r] /\ \A m \in Node \ {n} : k[m] = j[m]
  BY <1>3 DEF NodeState
<1> HIDE DEF k
<1>5. CalledAs(k, n, "Running", r, TRUE)
  BY <1>1, <1>2, <1>3, <1>4 DEF CalledAs, NodeState
<1> QED BY <1>0, <1>5

\* A result of the game's functions is a result.
LEMMA ResultNames ==
  /\ Results \subseteq Result /\ {"rTRUE", "rFALSE", "rSTOP"} = Result
BY AsyncAssumption DEF Result

LEMMA HoldStep ==
  ASSUME AsyncInvariant, HoldAtBreakpoint
  PROVE  AsyncInvariant'
<1>1. PICK n \in Node :
        /\ Visit(n) /\ ~node[n].skip /\ Breaks(n)
        /\ AfterRun(n, Pushed(Home, "waiting", n),
                    [Entered(n) EXCEPT ![n].status = "Running", ![n].result = "rTRUE"])
        /\ nodesSet' = nodesSet \cup {n}
        /\ UNCHANGED <<control, calls, resumed>>
  BY DEF HoldAtBreakpoint
<1> DEFINE nodes == [Entered(n) EXCEPT ![n].status = "Running", ![n].result = "rTRUE"]
           h == Pushed(Home, "waiting", n)
<1>2. /\ Home \in HomeSet /\ Agrees(Home) /\ TypeOK /\ node[n].skip \in BOOLEAN /\ Runner(n)
  BY <1>1, VisitParts DEF AsyncInvariant, TypeOK, NodeState, Runner
<1>3. /\ h \in HomeSet /\ Agrees(h) /\ \A m \in Node \ {n} : Same(Home, h, m)
      /\ \A v \in List, m \in Node : Has(h, m, v) => Has(Home, m, v) \/ (m = n /\ v = "waiting")
  <2>1. "waiting" \in PushLists
    BY DEF PushLists, List
  <2> QED BY <1>2, <2>1, PushedHome
<1>4. /\ nodes \in [Node -> NodeState] /\ \A m \in Node \ {n} : nodes[m] = node[m]
      /\ nodes[n].status = "Running" /\ nodes[n].skip = node[n].skip
  BY <1>2, ResultNames, SuspendedNode DEF CalledAs
<1>5. AfterRun(n, h, nodes) /\ AfterRun(n, Pushed(Home, "waiting", n), nodes)
  BY <1>1
<1> HIDE DEF nodes, h
<1>6. /\ call' = call /\ held' = held /\ nodesSet' = nodesSet \cup {n} /\ UNCHANGED resumed
      /\ running' = running /\ debugged' = debugged /\ breakpoints' = breakpoints /\ continueFlag' = continueFlag
  BY <1>1 DEF calls, control
<1>7. \A m \in Node, v \in List : Has(Home, m, v) <=> In(m, v)
  BY DEF Has, In, Home
<1>8. NodeInvariant(n)'
  <2>1. Apart => call'[n] = None
    BY <1>1, <1>6, VisitFree
  <2> QED BY <1>1, <1>4, <1>5, <1>6, <2>1, RunnerWaits
<1>9. ASSUME NEW m \in Node \ {n} PROVE NodeInvariant(m)'
  <2>1. Same(Home, h, m) /\ nodes[m] = node[m] /\ call'[m] = call[m]
    BY <1>3, <1>4, <1>6
  <2>2. (m \in nodesSet' <=> m \in nodesSet) /\ (Has(h, m, "waiting") => In(m, "waiting"))
    BY <1>3, <1>6, <1>7, ListNames
  <2> QED BY <1>1, <1>2, <1>3, <1>4, <1>5, <1>6, <2>1, <2>2, RunSpares
<1>10. \A m \in Node : NodeInvariant(m)'
  BY <1>8, <1>9
<1>11. \A m \in Node : \A v \in {"stack", "handling"} : Has(h, m, v) => In(m, v)
  BY <1>3, <1>7, ListNames
<1>12. /\ nodesSet' \subseteq Node /\ \A x \in Contexts : held'[x] # None => held'[x] \in Calling
       /\ held' \in [Contexts -> Node \cup {None}] /\ call' \in [Node -> Contexts \cup {None}]
  BY <1>6 DEF AsyncInvariant, TypeOK
<1> QED BY <1>1, <1>2, <1>3, <1>4, <1>5, <1>6, <1>10, <1>11, <1>12, RunKeeps

LEMMA CallFuncStep ==
  ASSUME AsyncInvariant, CallFunc
  PROVE  AsyncInvariant'
<1>1. PICK n \in Node, r \in Results :
        /\ CallsFunction(n, "func")
        /\ AfterRun(n, Home, [Entered(n) EXCEPT ![n].result = r])
        /\ UNCHANGED <<nodesSet, calls>>
  BY DEF CallFunc
<1> DEFINE nodes == [Entered(n) EXCEPT ![n].result = r]
<1>2. /\ Home \in HomeSet /\ Agrees(Home) /\ Home.container = container /\ TypeOK
      /\ node[n].skip \in BOOLEAN /\ node[n].status \in {"Idle", "Running", "EndRun"} /\ r \in Result
  BY <1>1, VisitParts, HomeTyped, ResultNames DEF CallsFunction, AsyncInvariant, TypeOK, NodeState
<1>3. nodes \in [Node -> NodeState] /\ \A m \in Node \ {n} : nodes[m] = node[m]
  BY <1>2, ReturnedNode DEF CalledAs
<1>4. AfterRun(n, Home, nodes)
  BY <1>1
<1> HIDE DEF nodes
<1>5. /\ Visit(n) /\ Kind[n] = "func" /\ continueFlag' \subseteq continueFlag
      /\ call' = call /\ held' = held /\ nodesSet' = nodesSet /\ UNCHANGED <<running, debugged, breakpoints, resumed>>
  BY <1>1 DEF calls, CallsFunction
<1>6. \A m \in Node, v \in List : Has(Home, m, v) <=> In(m, v)
  BY DEF Has, In, Home
<1>r. Runner(n) /\ n \notin Calling
  BY <1>5 DEF Runner, Calling
<1>7. NodeInvariant(n)'
  <2>1. Apart => call'[n] = None
    BY <1>5, VisitFree
  <2>2. container[n] \notin {"waiting", "active"}
    BY <1>5, <1>r, VisitFree
  <2> QED BY <1>2, <1>3, <1>4, <1>5, <1>6, <1>r, <2>1, <2>2, RunnerWithoutCall, ListNames
<1>8. \A m \in Node \ {n} : NodeInvariant(m)'
  BY <1>2, <1>3, <1>4, <1>5, <1>6, <1>r, RunSpares, ListNames DEF Same
<1>9. \A m \in Node : NodeInvariant(m)'
  BY <1>7, <1>8
<1>10. \A x \in Contexts : held'[x] # None => held'[x] \in Calling
  BY <1>5 DEF AsyncInvariant
<1> QED BY <1>2, <1>3, <1>4, <1>5, <1>6, <1>r, <1>9, <1>10, RunKeeps, ListNames DEF TypeOK

LEMMA CallSuspendStep ==
  ASSUME AsyncInvariant, CallSuspend
  PROVE  AsyncInvariant'
<1>1. PICK n \in Node, r \in Results, x \in Unused :
        /\ CallsFunction(n, "suspend")
        /\ AfterRun(n, Pushed(Home, "waiting", n),
                    [Entered(n) EXCEPT ![n].status = "Running", ![n].result = r])
        /\ nodesSet' = nodesSet \cup {n}
        /\ held' = [held EXCEPT ![x] = n] /\ call' = [call EXCEPT ![n] = x]
  BY DEF CallSuspend
<1> DEFINE nodes == [Entered(n) EXCEPT ![n].status = "Running", ![n].result = r]
           h == Pushed(Home, "waiting", n)
<1>2. /\ Visit(n) /\ ~ node[n].skip /\ Kind[n] = "suspend" /\ continueFlag' \subseteq continueFlag
      /\ UNCHANGED <<running, debugged, breakpoints, resumed>>
  BY <1>1 DEF CallsFunction
<1>3. Home \in HomeSet /\ Agrees(Home) /\ TypeOK /\ Runner(n) /\ n \in Calling
  BY <1>2, VisitParts DEF AsyncInvariant, Runner, Calling
<1>4. /\ h \in HomeSet /\ Agrees(h) /\ \A m \in Node \ {n} : Same(Home, h, m)
      /\ \A v \in List, m \in Node : Has(h, m, v) => Has(Home, m, v) \/ (m = n /\ v = "waiting")
  <2>1. "waiting" \in PushLists
    BY DEF PushLists, List
  <2> QED BY <1>3, <2>1, PushedHome
<1>5. /\ nodes \in [Node -> NodeState] /\ \A m \in Node \ {n} : nodes[m] = node[m]
      /\ nodes[n].status = "Running" /\ nodes[n].skip = node[n].skip
  <2>1. r \in Result
    BY ResultNames
  <2> QED BY <1>3, <2>1, SuspendedNode DEF CalledAs
<1>6. AfterRun(n, h, nodes) /\ AfterRun(n, Pushed(Home, "waiting", n), nodes)
  BY <1>1
<1> HIDE DEF nodes, h
<1>7. x \in Contexts
  BY DEF Unused
<1>8. /\ \A m \in Node \ {n} : call'[m] = call[m]
      /\ held' \in [Contexts -> Node \cup {None}] /\ call' \in [Node -> Contexts \cup {None}]
      /\ \A y \in Contexts : held'[y] # None => held'[y] \in Calling
      /\ nodesSet' \subseteq Node
  BY <1>1, <1>2, <1>3, <1>7 DEF TypeOK, AsyncInvariant
<1>9. \A m \in Node, v \in List : Has(Home, m, v) <=> In(m, v)
  BY DEF Has, In, Home
<1>10. NodeInvariant(n)'
  <2>1. n \in nodesSet'
    BY <1>1
  <2> QED BY <1>2, <1>3, <1>5, <1>6, <2>1, RunnerWaits
<1>11. ASSUME NEW m \in Node \ {n} PROVE NodeInvariant(m)'
  <2>1. Same(Home, h, m) /\ nodes[m] = node[m] /\ call'[m] = call[m]
    BY <1>4, <1>5, <1>8
  <2>2. (m \in nodesSet' <=> m \in nodesSet) /\ (Has(h, m, "waiting") => In(m, "waiting"))
    BY <1>1, <1>4, <1>9, ListNames
  <2> QED BY <1>2, <1>3, <1>4, <1>5, <1>6, <2>1, <2>2, RunSpares
<1>12. \A m \in Node : NodeInvariant(m)'
  BY <1>10, <1>11
<1>13. \A m \in Node : \A v \in {"stack", "handling"} : Has(h, m, v) => In(m, v)
  BY <1>4, <1>9, ListNames
<1> QED BY <1>2, <1>3, <1>4, <1>5, <1>6, <1>8, <1>12, <1>13, RunKeeps

LEMMA CallWaitEventStep ==
  ASSUME AsyncInvariant, CallWaitEvent
  PROVE  AsyncInvariant'
<1>1. PICK n \in Node :
        /\ CallsFunction(n, "event")
        /\ AfterRun(n, Pushed(Home, "event", n),
                    [Entered(n) EXCEPT ![n].status = "Running", ![n].skip = TRUE, ![n].result = "rTRUE"])
        /\ UNCHANGED <<nodesSet, calls>>
  BY DEF CallWaitEvent
<1> DEFINE nodes == [Entered(n) EXCEPT ![n].status = "Running", ![n].skip = TRUE, ![n].result = "rTRUE"]
           h == Pushed(Home, "event", n)
<1>2. /\ Visit(n) /\ Kind[n] = "event" /\ continueFlag' \subseteq continueFlag
      /\ call' = call /\ held' = held /\ nodesSet' = nodesSet /\ UNCHANGED <<running, debugged, breakpoints, resumed>>
  BY <1>1 DEF CallsFunction, calls
<1>3. Home \in HomeSet /\ Agrees(Home) /\ TypeOK /\ Runner(n) /\ n \notin Calling
  BY <1>2, VisitParts DEF AsyncInvariant, Runner, Calling
<1>4. /\ h \in HomeSet /\ Agrees(h) /\ h.container[n] = "event" /\ \A m \in Node \ {n} : Same(Home, h, m)
      /\ \A v \in List, m \in Node : Has(h, m, v) => Has(Home, m, v) \/ (m = n /\ v = "event")
  <2>1. "event" \in PushLists
    BY DEF PushLists, List
  <2> QED BY <1>3, <2>1, PushedHome
<1>5. nodes \in [Node -> NodeState] /\ \A m \in Node \ {n} : nodes[m] = node[m]
  BY <1>3, ResultNames, AnsweredNode DEF CalledAs
<1>6. AfterRun(n, h, nodes)
  BY <1>1
<1> HIDE DEF nodes, h
<1>7. \A m \in Node, v \in List : Has(Home, m, v) <=> In(m, v)
  BY DEF Has, In, Home
<1>8. NodeInvariant(n)'
  <2>1. Apart => call'[n] = None
    BY <1>2, VisitFree
  <2>3. Has(h, n, "waiting") => In(n, "waiting")
    <3>1. "waiting" \in List /\ "waiting" # "event"
      BY ListNames
    <3>2. Has(h, n, "waiting") => Has(Home, n, "waiting")
      BY <1>4, <3>1
    <3> QED BY <1>7, <3>1, <3>2
  <2> QED BY <1>2, <1>3, <1>4, <1>5, <1>6, <2>1, <2>3, RunnerWithoutCall
<1>9. ASSUME NEW m \in Node \ {n} PROVE NodeInvariant(m)'
  <2>1. Same(Home, h, m) /\ nodes[m] = node[m] /\ call'[m] = call[m]
    BY <1>2, <1>4, <1>5
  <2>2. (m \in nodesSet' <=> m \in nodesSet) /\ (Has(h, m, "waiting") => In(m, "waiting"))
    BY <1>2, <1>4, <1>7, ListNames
  <2> QED BY <1>2, <1>3, <1>4, <1>5, <1>6, <2>1, <2>2, RunSpares
<1>10. \A m \in Node : NodeInvariant(m)'
  BY <1>8, <1>9
<1>11. \A m \in Node : \A v \in {"stack", "handling"} : Has(h, m, v) => In(m, v)
  BY <1>4, <1>7, ListNames
<1>12. \A x \in Contexts : held'[x] # None => held'[x] \in Calling
  BY <1>2 DEF AsyncInvariant
<1> QED BY <1>2, <1>3, <1>4, <1>5, <1>6, <1>10, <1>11, <1>12, RunKeeps DEF TypeOK

LEMMA CallStopStep ==
  ASSUME AsyncInvariant, CallStop
  PROVE  AsyncInvariant'
<1>1. PICK n \in Node :
        /\ CallsFunction(n, "stop")
        /\ LET S == Target[n]
               nodes == Stopped(Entered(n), S)
           IN  AfterRun(n, Removed(Home, S), IF n \in S THEN nodes ELSE [nodes EXCEPT ![n].result = "rTRUE"])
        /\ CallsEnd(Target[n])
        /\ UNCHANGED nodesSet
  BY DEF CallStop
<1> DEFINE S == Target[n]
           e == Entered(n)
           j == Stopped(e, S)
           nodes == IF n \in S THEN j ELSE [j EXCEPT ![n].result = "rTRUE"]
           h == Removed(Home, S)
<1>2. /\ Visit(n) /\ Kind[n] = "stop" /\ continueFlag' \subseteq continueFlag
      /\ nodesSet' = nodesSet /\ UNCHANGED <<running, debugged, breakpoints, resumed>> /\ CallsEnd(S)
  BY <1>1 DEF CallsFunction
<1>3. Home \in HomeSet /\ Agrees(Home) /\ TypeOK /\ Home.container = container /\ Runner(n) /\ n \notin Calling
  BY <1>2, VisitParts, HomeTyped DEF AsyncInvariant, Runner, Calling
<1>4. /\ e \in [Node -> NodeState] /\ \A m \in Node \ {n} : e[m] = node[m]
  BY <1>3, EnteredNode DEF CalledAs
<1>5. AfterRun(n, h, nodes)
  BY <1>1
<1> HIDE DEF S, e
<1>j. StoppedFrom(e, S, j)
  BY <1>4, StoppedNodes
<1> HIDE DEF j
<1>6. /\ j \in [Node -> NodeState] /\ \A m \in Node \ S : j[m] = e[m]
      /\ \A m \in Node \cap S : j[m].status = "Idle" /\ j[m].runFlag = FALSE
  BY <1>j DEF StoppedFrom
<1>7. nodes \in [Node -> NodeState] /\ \A m \in Node \ {n} : nodes[m] = j[m]
  <2>1. "rTRUE" \in Result
    BY ResultNames
  <2> QED BY <1>6, <2>1 DEF NodeState
<1>8. /\ h \in HomeSet /\ Agrees(h)
      /\ \A m \in Node \ S : Same(Home, h, m)
      /\ \A m \in Node \cap S : h.container[m] = None
      /\ \A w \in List, m \in Node : Has(h, m, w) => Has(Home, m, w)
  BY <1>3, RemovedHome
<1> HIDE DEF nodes, h
<1>9. /\ held' \in [Contexts -> Node \cup {None}] /\ call' \in [Node -> Contexts \cup {None}]
      /\ \A m \in Node \ S : call'[m] = call[m]
      /\ \A m \in Node \cap S : call'[m] = None
      /\ \A x \in Contexts : held'[x] # None => held'[x] \in Calling
  BY <1>2, <1>3, CallsEnded DEF AsyncInvariant
<1>10. \A m \in Node, v \in List : Has(Home, m, v) <=> In(m, v)
  BY DEF Has, In, Home
<1>11. NodeInvariant(n)'
  <2>1. Apart => call'[n] = None
    BY <1>2, <1>9, VisitFree
  <2>2. h.container[n] \notin {"waiting", "active"} /\ (Has(h, n, "waiting") => In(n, "waiting"))
    <3>1. container[n] \notin {"waiting", "active"}
      BY <1>2, <1>3, VisitFree
    <3> QED BY <1>3, <1>8, <1>10, <3>1, ListNames DEF Same
  <2> QED BY <1>2, <1>3, <1>5, <1>7, <1>8, <2>1, <2>2, RunnerWithoutCall
<1>12. ASSUME NEW m \in Node \ {n} PROVE NodeInvariant(m)'
  <2>1. \/ Same(Home, h, m) /\ nodes[m] = node[m] /\ call'[m] = call[m]
        \/ /\ h.container[m] = None /\ call'[m] = None
           /\ nodes[m].status # "Running" /\ nodes[m].runFlag = FALSE
    <3>1. CASE m \in S
      BY <1>6, <1>7, <1>8, <1>9, <3>1
    <3>2. CASE m \notin S
      BY <1>4, <1>6, <1>7, <1>8, <1>9, <3>2
    <3> QED BY <3>1, <3>2
  <2>2. (m \in nodesSet' <=> m \in nodesSet) /\ (Has(h, m, "waiting") => In(m, "waiting"))
    BY <1>2, <1>8, <1>10, ListNames
  <2> QED BY <1>2, <1>3, <1>5, <1>7, <1>8, <2>1, <2>2, RunSpares
<1>13. \A m \in Node : NodeInvariant(m)'
  BY <1>11, <1>12
<1>14. \A m \in Node : \A v \in {"stack", "handling"} : Has(h, m, v) => In(m, v)
  BY <1>8, <1>10, ListNames
<1>15. nodesSet' \subseteq Node
  BY <1>2, <1>3 DEF TypeOK
<1> QED BY <1>2, <1>3, <1>5, <1>7, <1>8, <1>9, <1>13, <1>14, <1>15, RunKeeps

\* The other steps of a flow.
LEMMA FlowStepKeeps ==
  ASSUME AsyncInvariant, InFlow, Home' \in HomeSet, Agrees(Home)', node' \in [Node -> NodeState],
         flow' \in FlowState, flow'.pc \in {"loop", "called"},
         flow'.pc = "called" => InGame(flow.current)',
         flow'.chart = flow.chart, flow'.caller = flow.caller,
         \A m \in Node : \A v \in {"stack", "handling"} : In(m, v)' => In(m, v),
         UNCHANGED <<running, debugged, breakpoints, resumed>>,
         nodesSet' \subseteq Node, continueFlag' \subseteq continueFlag,
         held' \in [Contexts -> Node \cup {None}], call' \in [Node -> Contexts \cup {None}],
         \A x \in Contexts : held'[x] # None => held'[x] \in Calling,
         \A m \in Node : NodeInvariant(m)'
  PROVE  AsyncInvariant'
<1>1. TypeOK /\ FlowInvariant
  BY DEF AsyncInvariant
<1>2. /\ list' \in [List -> Seq(Node)] /\ container' \in [Node -> List \cup {None}]
      /\ \A v \in List : list'[v] \in Seq(Node) /\ Elements(list'[v]) \subseteq Node
  <2>1. Home'.list = list' /\ Home'.container = container'
    BY DEF Home
  <2> QED BY <2>1, HomeParts
<1>3. TypeOK'
  BY <1>1, <1>2 DEF TypeOK
<1>4. \A m \in Elements(list'["stack"]) : ChartOf[m] = flow'.chart
  BY <1>1, <1>2, ListNames DEF In, FlowInvariant
<1>5. list["handling"] = <<>> => list'["handling"] = <<>>
  <2> SUFFICES ASSUME list["handling"] = <<>> PROVE list'["handling"] = <<>>
    OBVIOUS
  <2>1. \A m \in Node : m \notin Elements(list'["handling"])
    BY DEF In, Elements
  <2> QED BY <1>2, <2>1, EmptyList, ListNames
<1>6. InFlow' /\ Stage' = Stage
  BY DEF Stage, InFlow
<1>7. FlowInvariant'
  BY <1>1, <1>4, <1>5, <1>6 DEF FlowInvariant, InFunction, At
<1>8. breakpoints' \subseteq Breakable
  BY DEF AsyncInvariant
<1>9. \A x \in Contexts : (held[x] # None => held[x] \in Calling)'
  BY DEF Calling
<1> QED BY <1>3, <1>7, <1>8, <1>9 DEF AsyncInvariant

\* A node that a step leaves where it is.
LEMMA NodeLeft ==
  ASSUME NEW m \in Node, NodeInvariant(m), Same(Home, Home', m),
         m \in nodesSet' <=> m \in nodesSet, call'[m] = call[m],
         node'[m].skip = node[m].skip, node'[m].status = node[m].status,
         node'[m].runFlag => node[m].runFlag,
         Apart /\ m \in Calling /\ node'[m].runFlag /\ flow.pc = "called" /\ flow.current = m =>
           flow'.pc = "called" /\ flow'.current = m,
         ChartOf[m] \in running => ChartOf[m] \in running'
  PROVE  NodeInvariant(m)'
<1>1. container'[m] = container[m] /\ (In(m, "waiting")' => In(m, "waiting"))
  BY ListNames DEF Same, Home, Has, In
<1>2. m \in Steady => Quiet(m)' /\ Linked(m)'
  BY <1>1 DEF NodeInvariant, Quiet, Linked
<1>3. Apart /\ call'[m] # None => ~ node'[m].skip /\ ChartOf[m] \in running' /\ node'[m].status = "Running"
  BY DEF NodeInvariant, PendingCall
<1>4. Apart /\ m \in Calling /\ node'[m].runFlag => flow'.pc = "called" /\ flow'.current = m
  BY DEF NodeInvariant, CallingNode, InFunction, At
<1>5. Spared(m)
  BY <1>1, <1>2, <1>3, <1>4 DEF Spared
<1> QED BY <1>5, NodeSpared

LEMMA CallEchoStep ==
  ASSUME AsyncInvariant, CallEcho
  PROVE  AsyncInvariant'
<1>1. PICK n \in Node, x \in Unused :
        /\ CallsFunction(n, "echo")
        /\ Become(Pushed(Home, "waiting", n))
        /\ node' = [Entered(n) EXCEPT ![n].status = "Running"]
        /\ EntersGame(n)
        /\ nodesSet' = nodesSet \cup {n}
        /\ held' = [held EXCEPT ![x] = n] /\ call' = [call EXCEPT ![n] = x]
  BY DEF CallEcho
<1> DEFINE h == Pushed(Home, "waiting", n)
<1>2. /\ Visit(n) /\ ~ node[n].skip /\ Kind[n] = "echo" /\ continueFlag' \subseteq continueFlag
      /\ UNCHANGED <<running, debugged, breakpoints, resumed>>
  BY <1>1 DEF CallsFunction
<1>3. /\ Home \in HomeSet /\ Agrees(Home) /\ TypeOK /\ Runner(n) /\ n \in Calling
      /\ InFlow /\ ChartOf[n] = flow.chart /\ flow.chart \in running /\ flow.pc = "loop"
      /\ flow \in FlowState /\ \A m \in Node : NodeInvariant(m)
  BY <1>2, VisitParts DEF AsyncInvariant, TypeOK, Runner, Calling, At
<1>4. /\ h \in HomeSet /\ Agrees(h) /\ h.container[n] = "waiting" /\ \A m \in Node \ {n} : Same(Home, h, m)
      /\ \A v \in List, m \in Node : Has(h, m, v) => Has(Home, m, v) \/ (m = n /\ v = "waiting")
  <2>1. "waiting" \in PushLists
    BY DEF PushLists, List
  <2> QED BY <1>3, <2>1, PushedHome
<1>5. /\ node' \in [Node -> NodeState] /\ \A m \in Node \ {n} : node'[m] = node[m]
      /\ node'[n].status = "Running" /\ node'[n].skip = node[n].skip
  <2> DEFINE e == Entered(n)
  <2>1. CalledAs(e, n, node[n].status, "rFALSE", node[n].skip) /\ node' = [e EXCEPT ![n].status = "Running"]
    BY <1>1, <1>3, EnteredNode
  <2> HIDE DEF e
  <2>2. node' \in [Node -> NodeState] /\ node'[n] = [e[n] EXCEPT !.status = "Running"] /\ \A m \in Node \ {n} : node'[m] = e[m]
    BY <2>1 DEF CalledAs, NodeState
  <2> QED BY <2>1, <2>2 DEF CalledAs, NodeState
<1>6. Become(h)
  BY <1>1
<1> HIDE DEF h
<1>7. Home' = h /\ container' = h.container
  BY <1>4, <1>6, Became
<1>8. Home' \in HomeSet /\ Agrees(Home)'
  <2>1. Agrees(Home') <=> Agrees(Home)'
    OBVIOUS
  <2> QED BY <1>4, <1>7, <2>1
<1>9. \A m \in Node, v \in List : (Has(Home, m, v) <=> In(m, v)) /\ (Has(Home', m, v) <=> In(m, v)')
  BY DEF Has, In, Home
<1>10. /\ flow' \in FlowState /\ flow'.pc = "called" /\ flow'.current = n /\ flow'.chart = flow.chart
       /\ flow'.caller = flow.caller
  BY <1>1, <1>3 DEF EntersGame, FlowState
<1>11. InGame(flow.current)'
  BY <1>2, <1>3, <1>5, <1>10 DEF InGame
<1>12. /\ \A m \in Node \ {n} : call'[m] = call[m]
       /\ held' \in [Contexts -> Node \cup {None}] /\ call' \in [Node -> Contexts \cup {None}]
       /\ \A y \in Contexts : held'[y] # None => held'[y] \in Calling
       /\ nodesSet' \subseteq Node
  <2>1. x \in Contexts
    BY DEF Unused
  <2> QED BY <1>1, <1>3, <2>1 DEF TypeOK, AsyncInvariant
<1>13. NodeInvariant(n)'
  <2>1. container'[n] = "waiting" /\ n \in nodesSet' /\ ChartOf[n] \in running'
    BY <1>1, <1>2, <1>3, <1>4, <1>7
  <2>2. PendingCall(n)'
    BY <1>2, <1>3, <1>5, <2>1 DEF PendingCall, Calling, Apart
  <2>3. CallingNode(n)'
    BY <1>10, <2>1, ListNames DEF CallingNode, InFunction, At
  <2>4. Quiet(n)' /\ Linked(n)'
    BY <1>5, <2>1 DEF Quiet, Linked
  <2> QED BY <2>1, <2>2, <2>3, <2>4 DEF NodeInvariant
<1>14. ASSUME NEW m \in Node \ {n} PROVE NodeInvariant(m)'
  <2>1. Same(Home, Home', m) /\ node'[m] = node[m] /\ call'[m] = call[m]
    BY <1>4, <1>5, <1>7, <1>12
  <2> QED BY <1>1, <1>2, <1>3, <2>1, NodeLeft
<1>15. \A m \in Node : NodeInvariant(m)'
  BY <1>13, <1>14
<1>16. \A m \in Node : \A v \in {"stack", "handling"} : In(m, v)' => In(m, v)
  BY <1>4, <1>7, <1>9, ListNames
<1> QED BY <1>2, <1>3, <1>5, <1>8, <1>10, <1>11, <1>12, <1>15, <1>16, FlowStepKeeps

LEMMA CallGameStep ==
  ASSUME AsyncInvariant, CallGame
  PROVE  AsyncInvariant'
<1>1. PICK n \in Node :
        /\ CallsFunction(n, "game")
        /\ node' = Entered(n)
        /\ EntersGame(n)
        /\ UNCHANGED <<lists, nodesSet, calls>>
  BY DEF CallGame
<1>2. /\ Visit(n) /\ Kind[n] = "game" /\ continueFlag' \subseteq continueFlag
      /\ UNCHANGED <<list, container, nodesSet, held, call, running, debugged, breakpoints, resumed>>
  BY <1>1 DEF CallsFunction, lists, calls
<1>3. /\ Home \in HomeSet /\ Agrees(Home) /\ TypeOK /\ InFlow
      /\ ChartOf[n] = flow.chart /\ flow.chart \in running /\ flow.pc = "loop"
      /\ flow \in FlowState /\ \A m \in Node : NodeInvariant(m)
  BY <1>2, VisitParts DEF AsyncInvariant, TypeOK, At
<1>4. Home' = Home /\ Home' \in HomeSet /\ Agrees(Home)'
  <2>1. Home' = Home
    BY <1>2 DEF Home
  <2>2. Agrees(Home') <=> Agrees(Home)'
    OBVIOUS
  <2> QED BY <1>3, <2>1, <2>2
<1>5. CalledAs(node', n, node[n].status, "rFALSE", node[n].skip)
  BY <1>1, <1>3, EnteredNode
<1>6. /\ flow' \in FlowState /\ flow'.pc = "called" /\ flow'.current = n /\ flow'.chart = flow.chart
      /\ flow'.caller = flow.caller
  BY <1>1, <1>3 DEF EntersGame, FlowState
<1>7. container[n] \notin {"waiting", "active"} /\ n \notin Calling
  BY <1>2, <1>3, VisitFree DEF Calling
<1>8. InGame(flow.current)'
  BY <1>2, <1>3, <1>6, <1>7 DEF InGame
<1>9. \A m \in Node : Same(Home, Home', m)
  BY <1>4 DEF Same
<1>10. NodeInvariant(n)'
  <2>1. (n \notin Calling)' /\ PendingCall(n)' /\ CallingNode(n)'
    BY <1>2, <1>3, <1>7 DEF NodeInvariant, PendingCall, CallingNode, Calling, Apart
  <2>2. (In(n, "waiting") => n \in nodesSet)'
    BY <1>2, <1>3 DEF NodeInvariant, In
  <2>3. Quiet(n)' /\ Linked(n)'
    BY <1>2, <1>3, <1>7 DEF Quiet, Linked
  <2> QED BY <2>1, <2>2, <2>3 DEF NodeInvariant
<1>11. \A m \in Node \ {n} : NodeInvariant(m)'
  BY <1>2, <1>3, <1>5, <1>9, NodeLeft DEF CalledAs
<1>12. \A m \in Node : NodeInvariant(m)'
  BY <1>10, <1>11
<1>13. \A m \in Node : \A v \in {"stack", "handling"} : In(m, v)' => In(m, v)
  BY <1>2 DEF In
<1>14. node' \in [Node -> NodeState]
  BY <1>5 DEF CalledAs
<1>15. \A x \in Contexts : held'[x] # None => held'[x] \in Calling
  BY <1>2 DEF AsyncInvariant
<1> QED BY <1>2, <1>3, <1>4, <1>6, <1>8, <1>12, <1>13, <1>14, <1>15, FlowStepKeeps DEF TypeOK

LEMMA ReturnsStep ==
  ASSUME AsyncInvariant, NEW r \in Results, Returns(r)
  PROVE  AsyncInvariant'
<1>0. SUFFICES ASSUME NEW n, n = flow.current PROVE AsyncInvariant'
  OBVIOUS
<1> DEFINE s == IF node[n].result = "rSTOP" THEN "rSTOP" ELSE r
           nodes == [node EXCEPT ![n].result = s]
<1>1. InFunction /\ Runner(n) /\ InGame(n) /\ n \in Node /\ AfterRun(n, Home, [node EXCEPT ![n].result = IF @ = "rSTOP" THEN @ ELSE r])
  BY <1>0 DEF Returns, Runner, AsyncInvariant, FlowInvariant, InGame
<1>2. /\ UNCHANGED <<nodesSet, running, debugged, breakpoints, continueFlag, held, call, resumed>>
  BY DEF Returns, control, calls
<1>3. /\ Home \in HomeSet /\ Agrees(Home) /\ TypeOK /\ ChartOf[n] = flow.chart /\ flow.chart \in running
      /\ node \in [Node -> NodeState] /\ flow \in FlowState /\ \A m \in Node : NodeInvariant(m)
  BY <1>1, RunnerParts DEF TypeOK
<1>4. nodes = [node EXCEPT ![n].result = IF @ = "rSTOP" THEN @ ELSE r]
  BY <1>1, <1>3
<1>5. AfterRun(n, Home, nodes)
  BY <1>1, <1>4
<1>6. /\ nodes \in [Node -> NodeState] /\ \A m \in Node \ {n} : nodes[m] = node[m]
      /\ nodes[n].status = node[n].status /\ nodes[n].skip = node[n].skip
  <2>1. s \in Result
    BY <1>1, <1>3, ResultNames DEF NodeState
  <2> HIDE DEF s
  <2>2. nodes[n] = [node[n] EXCEPT !.result = s]
    BY <1>1, <1>3
  <2> QED BY <1>1, <1>3, <2>1, <2>2 DEF NodeState
<1> HIDE DEF nodes
<1>7. \A m \in Node, v \in List : Has(Home, m, v) <=> In(m, v)
  BY DEF Has, In, Home
<1>8. Home.container[n] = container[n]
  BY DEF Home
<1>9. NodeInvariant(n)'
  <2>1. CASE Kind[n] = "game" /\ container[n] \notin {"waiting", "active"}
    <3>1. n \notin Calling
      BY <2>1 DEF Calling
    <3>2. Apart => call'[n] = None
      BY <1>1, <1>2, <1>3, <3>1 DEF NodeInvariant, PendingCall
    <3>3. Has(Home, n, "waiting") => In(n, "waiting")
      BY <1>1, <1>7, ListNames
    <3> QED BY <1>1, <1>2, <1>3, <1>5, <1>6, <1>8, <2>1, <3>1, <3>2, <3>3, RunnerWithoutCall
  <2>2. CASE Kind[n] = "echo" /\ node[n].status = "Running"
    <3> DEFINE S == Successors(n, nodes)
    <3>1. RunEffect(n, Home, nodes, S) /\ S = {}
      BY <1>1, <1>3, <1>5, <1>6, <2>2, AfterRunParts DEF Successors
    <3> HIDE DEF S
    <3>2. Stays(Home, Home', n) /\ node'[n].skip = node[n].skip /\ node'[n].status = "Running"
          /\ node'[n].runFlag = FALSE /\ \A v \in List : Has(Home', n, v) => Has(Home, n, v)
      BY <1>1, <1>6, <2>2, <3>1 DEF RunEffect
    <3>3. container'[n] \in {container[n], None}
      BY <3>2 DEF Stays, Home
    <3>4. In(n, "waiting")' => In(n, "waiting")
      BY <3>2, ListNames DEF Has, In, Home
    <3>5. Apart /\ call'[n] # None => ~ node'[n].skip /\ ChartOf[n] \in running'
      BY <1>1, <1>2, <1>3, <3>2 DEF NodeInvariant, PendingCall
    <3>6. Quiet(n)' /\ Linked(n)'
      BY <1>2, <1>3, <3>2 DEF Quiet, Linked
    <3>7. Spared(n)
      BY <1>2, <3>2, <3>3, <3>4, <3>5, <3>6 DEF Spared
    <3> QED BY <1>1, <1>3, <3>7, NodeSpared
  <2> QED BY <1>1, <2>1, <2>2 DEF InGame
<1>10. ASSUME NEW m \in Node \ {n} PROVE NodeInvariant(m)'
  <2>1. Same(Home, Home, m) /\ nodes[m] = node[m] /\ call'[m] = call[m]
    BY <1>2, <1>6 DEF Same
  <2>2. Has(Home, m, "waiting") => In(m, "waiting")
    BY <1>7, ListNames
  <2> QED BY <1>1, <1>2, <1>3, <1>5, <1>6, <2>1, <2>2, RunSpares
<1>11. \A m \in Node : NodeInvariant(m)'
  BY <1>9, <1>10
<1>12. \A m \in Node : \A v \in {"stack", "handling"} : Has(Home, m, v) => In(m, v)
  BY <1>7, ListNames
<1>13. \A x \in Contexts : held'[x] # None => held'[x] \in Calling
  BY <1>2 DEF AsyncInvariant
<1> QED BY <1>1, <1>2, <1>3, <1>5, <1>6, <1>11, <1>12, <1>13, RunKeeps DEF TypeOK

\* What is known at the top of the stack.
LEMMA TopParts ==
  ASSUME AsyncInvariant, InLoop
  PROVE  /\ Top \in Node /\ ChartOf[Top] = flow.chart /\ flow.chart \in running
         /\ At("loop") /\ InFlow /\ list["stack"] # <<>>
         /\ Home \in HomeSet /\ Agrees(Home) /\ TypeOK /\ flow \in FlowState
         /\ \A m \in Node : NodeInvariant(m)
<1>1. /\ Home \in HomeSet /\ Agrees(Home) /\ Home.list = list /\ TypeOK
      /\ \A m \in Node : NodeInvariant(m)
  BY HomeTyped DEF AsyncInvariant
<1>2. list["stack"] # <<>> /\ At("loop") /\ InFlow
  BY DEF InLoop, At, InFlow
<1>3. Top \in Node /\ Top \in Elements(list["stack"])
  <2>1. list["stack"] \in Seq(Node)
    BY <1>1, HomeParts, ListNames
  <2> QED BY <1>2, <2>1, LastType DEF Top
<1> DEFINE n == Top
<1> HIDE DEF n
<1>4. n \in Node /\ n \in Elements(list["stack"])
  BY <1>3 DEF n
<1>5. ChartOf[n] = flow.chart /\ flow.chart \in running /\ flow \in FlowState
  BY <1>1, <1>2, <1>4 DEF AsyncInvariant, FlowInvariant, TypeOK
<1> QED BY <1>1, <1>2, <1>4, <1>5 DEF n

LEMMA SkipRunningStep ==
  ASSUME AsyncInvariant, SkipRunning
  PROVE  AsyncInvariant'
<1> DEFINE h == PoppedOff(Home)
<1>1. /\ InLoop /\ Become(h)
      /\ flow' = [flow EXCEPT !.hasRunning = TRUE, !.history = @ \cup {Top}]
      /\ UNCHANGED <<node, nodesSet, control, calls, resumed>>
  BY DEF SkipRunning
<1>a. PICK n : n = Top
  OBVIOUS
<1>2. /\ n \in Node /\ ChartOf[n] = flow.chart /\ flow.chart \in running
      /\ At("loop") /\ InFlow /\ list["stack"] # <<>> /\ n = Last(list["stack"])
      /\ Home \in HomeSet /\ Agrees(Home) /\ TypeOK /\ flow \in FlowState
      /\ \A m \in Node : NodeInvariant(m)
      /\ Home.list = list /\ Home.container = container
      /\ flow' = [flow EXCEPT !.hasRunning = TRUE, !.history = @ \cup {n}]
  BY <1>a, <1>1, TopParts, HomeTyped DEF Top
<1>4. /\ h \in HomeSet /\ Agrees(h)
      /\ \A m \in Node \ {n} : Same(Home, h, m)
      /\ h.container[n] \in {container[n], None}
      /\ \A v \in List, m \in Node : Has(h, m, v) => Has(Home, m, v)
  BY <1>2, TopHome
<1> HIDE DEF h
<1>6. Home' = h /\ container' = h.container
  BY <1>1, <1>4, Became
<1>7. Home' \in HomeSet /\ Agrees(Home)'
  <2>1. Agrees(Home') <=> Agrees(Home)'
    OBVIOUS
  <2> QED BY <1>4, <1>6, <2>1
<1>8. UNCHANGED <<node, nodesSet, running, debugged, breakpoints, continueFlag, held, call, resumed>>
  BY <1>1 DEF control, calls
<1>9. \A m \in Node, v \in List : In(m, v)' => In(m, v)
  <2>2. \A m \in Node, v \in List : (Has(Home, m, v) <=> In(m, v)) /\ (Has(Home', m, v) <=> In(m, v)')
    BY DEF Has, In, Home
  <2> QED BY <1>4, <1>6, <2>2
<1>10. flow' \in FlowState /\ flow'.pc = "loop" /\ flow'.chart = flow.chart /\ flow'.caller = flow.caller
  BY <1>2 DEF FlowState, At
<1>12. NodeInvariant(n)'
  <2>1. container'[n] \in {container[n], None}
    BY <1>4, <1>6
  <2>2. Apart /\ call'[n] # None => ~ node'[n].skip /\ ChartOf[n] \in running' /\ node'[n].status = "Running"
    BY <1>2, <1>8 DEF NodeInvariant, PendingCall
  <2>3. n \in Steady => Quiet(n)' /\ Linked(n)'
    BY <1>2, <1>8, <2>1, ListNames DEF Quiet, Linked, NodeInvariant
  <2>4. In(n, "waiting")' => In(n, "waiting")
    BY <1>2, <1>9, ListNames
  <2>5. Apart /\ n \in Calling => ~ node'[n].runFlag
    BY <1>2, <1>8 DEF NodeInvariant, CallingNode, InFunction, At
  <2>6. Spared(n)
    BY <1>8, <2>1, <2>2, <2>3, <2>4, <2>5 DEF Spared
  <2> QED BY <1>2, <2>6, NodeSpared
<1>13. ASSUME NEW m \in Node \ {n} PROVE NodeInvariant(m)'
  <2>1. Same(Home, Home', m)
    BY <1>4, <1>6
  <2>2. flow.pc # "called"
    BY <1>2 DEF At
  <2> QED BY <1>2, <1>8, <2>1, <2>2, NodeLeft
<1>14. \A m \in Node : NodeInvariant(m)'
  BY <1>12, <1>13
<1>15. \A m \in Node : \A v \in {"stack", "handling"} : In(m, v)' => In(m, v)
  BY <1>9, ListNames
<1>16. \A x \in Contexts : held'[x] # None => held'[x] \in Calling
  BY <1>8 DEF AsyncInvariant
<1> QED BY <1>2, <1>7, <1>8, <1>10, <1>14, <1>15, <1>16, FlowStepKeeps DEF TypeOK

LEMMA WaitTickStep ==
  ASSUME AsyncInvariant, WaitTick
  PROVE  AsyncInvariant'
<1>0. SUFFICES ASSUME NEW n, n = Top PROVE AsyncInvariant'
  OBVIOUS
<1> DEFINE h == Pushed(Home, "event", n)
<1>1. /\ InLoop /\ Become(h) /\ node[n].runFlag
      /\ node' = [node EXCEPT ![n].status = "Running"]
      /\ flow' = [flow EXCEPT !.hasRunning = TRUE]
      /\ UNCHANGED <<nodesSet, control, calls, resumed>>
  BY <1>0 DEF WaitTick
<1>2. /\ n \in Node /\ ChartOf[n] = flow.chart /\ flow.chart \in running
      /\ flow.pc = "loop" /\ InFlow
      /\ Home \in HomeSet /\ Agrees(Home) /\ TypeOK /\ flow \in FlowState
      /\ \A m \in Node : NodeInvariant(m)
  BY <1>0, <1>1, TopParts DEF At
<1>3. /\ h \in HomeSet /\ Agrees(h) /\ h.container[n] = "event"
      /\ \A m \in Node \ {n} : Same(Home, h, m)
      /\ \A v \in List, m \in Node : Has(h, m, v) => Has(Home, m, v) \/ (m = n /\ v = "event")
  <2>1. "event" \in PushLists
    BY DEF PushLists, List
  <2> QED BY <1>2, <2>1, PushedHome
<1> HIDE DEF h
<1>6. Home' = h /\ container' = h.container
  BY <1>1, <1>3, Became
<1>7. Home' \in HomeSet /\ Agrees(Home)'
  <2>1. Agrees(Home') <=> Agrees(Home)'
    OBVIOUS
  <2> QED BY <1>3, <1>6, <2>1
<1>8. UNCHANGED <<nodesSet, running, debugged, breakpoints, continueFlag, held, call, resumed>>
  BY <1>1 DEF control, calls
<1>9. \A m \in Node, v \in List : In(m, v)' => In(m, v) \/ v = "event"
  <2>2. \A m \in Node, v \in List : (Has(Home, m, v) <=> In(m, v)) /\ (Has(Home', m, v) <=> In(m, v)')
    BY DEF Has, In, Home
  <2> QED BY <1>3, <1>6, <2>2
<1>10. flow' \in FlowState /\ flow'.pc = "loop" /\ flow'.chart = flow.chart /\ flow'.caller = flow.caller
  BY <1>1, <1>2 DEF FlowState
<1>11. Apart => n \notin Calling
  BY <1>1, <1>2 DEF NodeInvariant, CallingNode, InFunction, At
<1>12. NodeInvariant(n)'
  <2>1. PendingCall(n)' /\ CallingNode(n)'
    BY <1>2, <1>8, <1>11 DEF NodeInvariant, PendingCall, CallingNode, Calling, Apart
  <2>2. (In(n, "waiting") => n \in nodesSet)'
    BY <1>2, <1>8, <1>9, ListNames DEF NodeInvariant
  <2>3. Quiet(n)' /\ Linked(n)'
    BY <1>2, <1>3, <1>6, <1>8, ListNames DEF Quiet, Linked
  <2> QED BY <2>1, <2>2, <2>3 DEF NodeInvariant
<1>16. node' \in [Node -> NodeState] /\ \A m \in Node \ {n} : node'[m] = node[m]
  BY <1>1, <1>2 DEF TypeOK, NodeState
<1>13. ASSUME NEW m \in Node \ {n} PROVE NodeInvariant(m)'
  <2>1. Same(Home, Home', m)
    BY <1>3, <1>6
  <2> QED BY <1>2, <1>8, <1>16, <2>1, NodeLeft
<1>14. \A m \in Node : NodeInvariant(m)'
  BY <1>12, <1>13
<1>15. \A m \in Node : \A v \in {"stack", "handling"} : In(m, v)' => In(m, v)
  BY <1>9, ListNames
<1>17. \A x \in Contexts : held'[x] # None => held'[x] \in Calling
  BY <1>8 DEF AsyncInvariant
<1> QED BY <1>2, <1>7, <1>8, <1>10, <1>14, <1>15, <1>16, <1>17, FlowStepKeeps DEF TypeOK

-----------------------------------------------------------------------------
(* The steps between flows.                                                *)

LEMMA StepKeeps ==
  ASSUME AsyncInvariant, Home' \in HomeSet, Agrees(Home)', node' \in [Node -> NodeState],
         flow' \in FlowState, nodesSet' \subseteq Node, running' \subseteq Chart, debugged' \subseteq Chart,
         breakpoints' \subseteq Breakable, continueFlag' \subseteq NodeData,
         held' \in [Contexts -> Node \cup {None}], call' \in [Node -> Contexts \cup {None}],
         \A x \in Contexts : held'[x] # None => held'[x] \in Calling,
         FlowInvariant', \A m \in Node : NodeInvariant(m)'
  PROVE  AsyncInvariant'
<1>1. list' \in [List -> Seq(Node)] /\ container' \in [Node -> List \cup {None}]
  <2>1. Home'.list = list' /\ Home'.container = container'
    BY DEF Home
  <2> QED BY <2>1, HomeParts
<1>2. breakpoints' \subseteq NodeData
  BY AsyncAssumption
<1>3. TypeOK'
  BY <1>1, <1>2 DEF TypeOK
<1> QED BY <1>3 DEF AsyncInvariant

\* Between flows the stack is empty.
Between == flow.pc \in {"idle", "debug", "async", "events"}

LEMMA BetweenParts ==
  ASSUME AsyncInvariant, Between
  PROVE  /\ ~ InFlow /\ Stage = flow.pc /\ list["stack"] = <<>> /\ resumed = <<>>
         /\ flow.pc # "events" => list["handling"] = <<>>
         /\ Home \in HomeSet /\ Agrees(Home) /\ Home.list = list /\ Home.container = container
         /\ TypeOK /\ flow \in FlowState /\ node \in [Node -> NodeState]
         /\ \A m \in Node, v \in List : Has(Home, m, v) <=> In(m, v)
         /\ \A m \in Node : container[m] # "stack" /\ ~ In(m, "stack") /\ NodeInvariant(m)
<1>1. /\ Home \in HomeSet /\ Agrees(Home) /\ Home.list = list /\ Home.container = container
      /\ TypeOK /\ flow \in FlowState /\ node \in [Node -> NodeState]
      /\ \A m \in Node : NodeInvariant(m)
  BY HomeTyped DEF AsyncInvariant, TypeOK
<1>2. ~ InFlow /\ Stage = flow.pc
  BY DEF Between, InFlow, Stage
<1>3. list["stack"] = <<>> /\ resumed = <<>> /\ (flow.pc # "events" => list["handling"] = <<>>)
  BY <1>2 DEF AsyncInvariant, FlowInvariant
<1>4. \A m \in Node : ~ In(m, "stack")
  BY <1>3 DEF In, Elements
<1>5. \A m \in Node : container[m] # "stack"
  BY <1>1, <1>4 DEF Agrees, In
<1>6. \A m \in Node, v \in List : Has(Home, m, v) <=> In(m, v)
  BY DEF Has, In, Home
<1> QED BY <1>1, <1>2, <1>3, <1>4, <1>5, <1>6

\* A step that begins no flow.
LEMMA StaysBetween ==
  ASSUME AsyncInvariant, Between, Between', Home' \in HomeSet, resumed' = resumed,
         \A m \in Node : In(m, "stack")' => In(m, "stack"),
         flow'.pc # "events" => \A m \in Node : ~ In(m, "handling")'
  PROVE  FlowInvariant' /\ Stage' = flow'.pc
<1>1. ~ InFlow' /\ Stage' = flow'.pc
  BY DEF Between, InFlow, Stage
<1>2. list'["stack"] \in Seq(Node) /\ list'["handling"] \in Seq(Node)
  <2>1. Home'.list = list'
    BY DEF Home
  <2> QED BY <2>1, HomeParts, ListNames
<1>3. list'["stack"] = <<>> /\ resumed' = <<>>
  <2>1. \A m \in Node : ~ In(m, "stack")'
    BY BetweenParts
  <2> QED BY <1>2, <2>1, BetweenParts, EmptyList DEF In
<1>4. flow'.pc # "events" => list'["handling"] = <<>>
  BY <1>2, EmptyList DEF In
<1> QED BY <1>1, <1>3, <1>4 DEF FlowInvariant, InFlow, InFunction, At

\* One that leaves the flow as it is.
LEMMA FlowKept ==
  ASSUME AsyncInvariant, Home' \in HomeSet, flow' = flow, resumed' = resumed,
         InFlow => flow.chart \in running',
         \A m \in Node : \A v \in {"stack", "handling"} : In(m, v)' => In(m, v),
         \A n \in Node : InFunction /\ n = flow.current => InGame(n)'
  PROVE  FlowInvariant'
<1>1. FlowInvariant /\ TypeOK /\ list["stack"] \in Seq(Node) /\ list["handling"] \in Seq(Node)
  BY ListNames DEF AsyncInvariant, TypeOK
<1>2. list'["stack"] \in Seq(Node) /\ list'["handling"] \in Seq(Node)
  <2>1. Home'.list = list'
    BY DEF Home
  <2> QED BY <2>1, HomeParts, ListNames
<1>3. Elements(list'["stack"]) \subseteq Elements(list["stack"])
  <2>1. Elements(list'["stack"]) \subseteq Node
    BY <1>2, ElementsType
  <2> QED BY <2>1 DEF In
<1>4. list["stack"] = <<>> => list'["stack"] = <<>>
  <2> SUFFICES ASSUME list["stack"] = <<>> PROVE list'["stack"] = <<>>
    OBVIOUS
  <2>1. Elements(list["stack"]) = {}
    BY DEF Elements
  <2> QED BY <1>2, <1>3, <2>1, EmptyList
<1>5. list["handling"] = <<>> => list'["handling"] = <<>>
  <2> SUFFICES ASSUME list["handling"] = <<>> PROVE list'["handling"] = <<>>
    OBVIOUS
  <2>1. \A m \in Node : m \notin Elements(list'["handling"])
    BY DEF In, Elements
  <2> QED BY <1>2, <2>1, EmptyList
<1>6. InFlow' = InFlow /\ InFunction' = InFunction /\ Stage' = Stage
  BY DEF InFlow, InFunction, At, Stage
<1>7. InFunction => InGame(flow.current)'
  <2> SUFFICES ASSUME InFunction PROVE InGame(flow.current)'
    OBVIOUS
  <2>1. flow.current \in Node
    BY <1>1 DEF FlowInvariant, InGame
  <2>2. \A n \in Node : n = flow.current =>
          /\ ChartOf[n] = flow'.chart
          /\ \/ Kind[n] = "game" /\ container'[n] \notin {"waiting", "active"}
             \/ Kind[n] = "echo" /\ node'[n].status = "Running"
    BY DEF InGame
  <2>3. flow'.current = flow.current
    OBVIOUS
  <2> QED BY <2>1, <2>2, <2>3 DEF InGame
<1> QED BY <1>1, <1>3, <1>4, <1>5, <1>6, <1>7 DEF FlowInvariant

\* One that begins the flow of n, or fails to.
LEMMA FlowBegins ==
  ASSUME NEW h \in HomeSet, h.list["stack"] = <<>>, NEW n \in Node, NEW nodes,
         NEW p \in {"idle", "async", "events"}, FlowEffect(n, h, nodes, running', p),
         ChartOf[n] \notin running' => resumed' = <<>>,
         p # "events" => h.list["handling"] = <<>>
  PROVE  FlowInvariant' /\ Stage' = p
<1>1. /\ Home' \in HomeSet
      /\ \A v \in List, m \in Node : Has(Home', m, v) => Has(h, m, v) \/ (m = n /\ v = "stack")
      /\ ChartOf[n] \in running' => flow'.pc = "loop" /\ flow'.chart = ChartOf[n] /\ flow'.caller = p
      /\ ChartOf[n] \notin running' => flow'.pc = p /\ Home' = h
  BY DEF FlowEffect
<1>2. Home'.list = list' /\ \A v \in List : list'[v] \in Seq(Node) /\ Elements(list'[v]) \subseteq Node
  <2>1. Home'.list = list'
    BY DEF Home
  <2> QED BY <1>1, <2>1, HomeParts
<1>3. p # "events" => list'["handling"] = <<>>
  <2> SUFFICES ASSUME p # "events" PROVE list'["handling"] = <<>>
    OBVIOUS
  <2>1. \A m \in Node : ~ Has(Home', m, "handling")
    BY <1>1, ListNames DEF Has, Elements
  <2> QED BY <1>2, <2>1, EmptyList, ListNames DEF Has
<1>4. CASE ChartOf[n] \in running'
  <2>1. \A m \in Elements(list'["stack"]) : m = n
    BY <1>1, <1>2, ListNames DEF Has, Elements
  <2>2. InFlow' /\ Stage' = p /\ ~ InFunction'
    BY <1>1, <1>4 DEF InFlow, Stage, InFunction, At
  <2> QED BY <1>1, <1>3, <1>4, <2>1, <2>2 DEF FlowInvariant
<1>5. CASE ChartOf[n] \notin running'
  <2>1. ~ InFlow' /\ Stage' = p /\ ~ InFunction'
    BY <1>1, <1>5 DEF InFlow, Stage, InFunction, At
  <2>2. list'["stack"] = <<>>
    BY <1>1, <1>2, <1>5
  <2> QED BY <1>3, <1>5, <2>1, <2>2 DEF FlowInvariant
<1> QED BY <1>4, <1>5

\* Passing from one part of Manager::Step to the next.
LEMMA PassingStep ==
  ASSUME AsyncInvariant, BeginStep \/ EndDebug \/ EndStep
  PROVE  AsyncInvariant'
<1>1. /\ Between /\ UNCHANGED <<node, lists, nodesSet, control, calls, resumed>>
      /\ flow' \in FlowState
      /\ \/ flow.pc = "idle" /\ flow'.pc = "debug"
         \/ flow.pc = "debug" /\ flow'.pc = "async"
         \/ flow.pc = "events" /\ flow'.pc = "idle" /\ list["handling"] = <<>>
  <2>1. flow \in FlowState /\ NoFlow \in FlowState
    BY DEF AsyncInvariant, TypeOK, NoFlow, FlowState
  <2>2. CASE BeginStep
    BY <2>1, <2>2 DEF BeginStep, Between, Idle, At, FlowState
  <2>3. CASE EndDebug
    BY <2>1, <2>3 DEF EndDebug, Between, At, FlowState
  <2>4. CASE EndStep
    <3>1. NoFlow.pc = "idle"
      BY DEF NoFlow
    <3> QED BY <2>1, <2>4, <3>1 DEF EndStep, Between, At
  <2> QED BY <2>2, <2>3, <2>4
<1>2. /\ UNCHANGED <<node, list, container, nodesSet, running, debugged, breakpoints, continueFlag, held, call, resumed>>
      /\ Home' = Home /\ Agrees(Home)'
  <2>1. UNCHANGED <<node, list, container, nodesSet, running, debugged, breakpoints, continueFlag, held, call, resumed>>
    BY <1>1 DEF lists, control, calls
  <2>2. Home' = Home /\ (Agrees(Home') <=> Agrees(Home)')
    BY <2>1 DEF Home
  <2> QED BY <1>1, <2>1, <2>2, BetweenParts
<1>3. FlowInvariant' /\ Stage' = flow'.pc
  <2>1. Between'
    BY <1>1 DEF Between
  <2>2. flow'.pc # "events" => \A m \in Node : ~ In(m, "handling")'
    <3>1. list'["handling"] = <<>>
      BY <1>1, <1>2, BetweenParts
    <3> QED BY <3>1 DEF In, Elements
  <2> QED BY <1>1, <1>2, <2>1, <2>2, BetweenParts, StaysBetween DEF In
<1>4. ASSUME NEW m \in Node PROVE NodeInvariant(m)'
  <2>1. NodeInvariant(m) /\ Same(Home, Home', m) /\ flow.pc # "called"
    BY <1>1, <1>2, BetweenParts DEF Same
  <2> QED BY <1>2, <2>1, NodeLeft
<1> QED BY <1>1, <1>2, <1>3, <1>4, BetweenParts, StepKeeps DEF AsyncInvariant, TypeOK

\* The steps of the game and the debugger that only change what they keep.
LEMMA BookkeepingStep ==
  ASSUME AsyncInvariant,
         \/ \E x \in Contexts : Forget(x)
         \/ \E c \in Chart : DebugChart(c)
         \/ \E d \in NodeData : SetBreakpoint(d)
  PROVE  AsyncInvariant'
<1>1. /\ UNCHANGED <<node, list, container, nodesSet, running, continueFlag, flow, call, resumed>>
      /\ debugged' \subseteq Chart /\ breakpoints' \subseteq Breakable
      /\ held' \in [Contexts -> Node \cup {None}]
      /\ \A x \in Contexts : held'[x] # None => held'[x] \in Calling
  <2>1. TypeOK /\ breakpoints \subseteq Breakable /\ \A x \in Contexts : held[x] # None => held[x] \in Calling
    BY DEF AsyncInvariant
  <2>2. ASSUME NEW x \in Contexts, Forget(x)
        PROVE  /\ UNCHANGED <<node, list, container, nodesSet, running, continueFlag, flow, call, resumed>>
               /\ UNCHANGED <<debugged, breakpoints>> /\ held' = [held EXCEPT ![x] = None]
    BY <2>2 DEF Forget, lists, control
  <2>3. ASSUME NEW c \in Chart, DebugChart(c)
        PROVE  /\ UNCHANGED <<node, list, container, nodesSet, running, continueFlag, flow, call, resumed>>
               /\ UNCHANGED <<breakpoints, held>> /\ debugged' \subseteq debugged \cup {c}
    BY <2>3 DEF DebugChart, lists, calls
  <2>4. ASSUME NEW d \in NodeData, SetBreakpoint(d)
        PROVE  /\ UNCHANGED <<node, list, container, nodesSet, running, continueFlag, flow, call, resumed>>
               /\ UNCHANGED <<debugged, held>> /\ breakpoints' = breakpoints \cup {d} /\ d \in Breakable
    BY <2>4 DEF SetBreakpoint, lists, calls
  <2> QED BY <2>1, <2>2, <2>3, <2>4 DEF TypeOK
<1>2. Home' = Home /\ Agrees(Home)' /\ Home' \in HomeSet
  <2>1. Home' = Home /\ (Agrees(Home') <=> Agrees(Home)')
    BY <1>1 DEF Home
  <2> QED BY <2>1, HomeTyped DEF AsyncInvariant
<1>3. FlowInvariant'
  BY <1>1 DEF AsyncInvariant, FlowInvariant, InFlow, InFunction, InGame, Stage, At
<1>4. ASSUME NEW m \in Node PROVE NodeInvariant(m)'
  <2>1. Same(Home, Home', m) /\ NodeInvariant(m)
    BY <1>2 DEF Same, AsyncInvariant
  <2> QED BY <1>1, <2>1, NodeLeft
<1> QED BY <1>1, <1>2, <1>3, <1>4, StepKeeps DEF AsyncInvariant, TypeOK

LEMMA EndAsyncStep ==
  ASSUME AsyncInvariant, EndAsync
  PROVE  AsyncInvariant'
<1>1. /\ flow.pc = "async" /\ list["active"] = <<>> /\ flow' = [flow EXCEPT !.pc = "events"]
      /\ \/ list' = [list EXCEPT !["handling"] = list["event"], !["event"] = <<>>]
         \/ UNCHANGED list
      /\ UNCHANGED <<node, container, nodesSet, running, debugged, breakpoints, continueFlag, held, call, resumed>>
  BY DEF EndAsync, At, control, calls
<1>2. Between
  BY <1>1 DEF Between
<1>3. /\ list["handling"] = <<>> /\ Home \in HomeSet /\ Agrees(Home) /\ Home.list = list
      /\ Home.container = container /\ flow \in FlowState
  BY <1>1, <1>2, BetweenParts
<1>4. Home' \in HomeSet /\ Agrees(Home') /\ \A v \in List \ {"event", "handling"} : list'[v] = list[v]
  <2>1. CASE list' = [list EXCEPT !["handling"] = list["event"], !["event"] = <<>>]
    <3> DEFINE k == [list |-> [Home.list EXCEPT !["handling"] = Home.list["event"], !["event"] = <<>>],
                     container |-> Home.container]
    <3>1. k \in HomeSet /\ Agrees(k) /\ \A v \in List \ {"event", "handling"} : k.list[v] = Home.list[v]
      BY <1>3, DispatchedHome
    <3>2. Home' = k /\ list' = k.list
      BY <1>1, <1>3, <2>1 DEF Home
    <3> HIDE DEF k
    <3> QED BY <1>3, <3>1, <3>2
  <2>2. CASE UNCHANGED list
    BY <1>1, <1>3, <2>2 DEF Home
  <2> QED BY <1>1, <2>1, <2>2
<1>5. Agrees(Home)'
  <2>1. Agrees(Home') <=> Agrees(Home)'
    OBVIOUS
  <2> QED BY <1>4, <2>1
<1>6. flow' \in FlowState /\ flow'.pc = "events"
  BY <1>1, <1>3 DEF FlowState
<1>7. FlowInvariant' /\ Stage' = "events"
  <2>1. Between'
    BY <1>6 DEF Between
  <2> QED BY <1>1, <1>2, <1>4, <1>6, <2>1, StaysBetween, ListNames DEF In
<1>8. ASSUME NEW m \in Node PROVE NodeInvariant(m)'
  <2>0. NodeInvariant(m)
    BY <1>2, BetweenParts
  <2>1. In(m, "waiting")' <=> In(m, "waiting")
    BY <1>4, ListNames DEF In
  <2>2. Apart /\ m \in Calling => ~ node'[m].runFlag
    BY <1>1, <2>0 DEF NodeInvariant, CallingNode, InFunction, At
  <2>3. Apart /\ call'[m] # None => ~ node'[m].skip /\ ChartOf[m] \in running' /\ node'[m].status = "Running"
    BY <1>1, <2>0 DEF NodeInvariant, PendingCall
  <2>4. m \in Steady => Quiet(m)' /\ Linked(m)'
    BY <1>1, <2>0 DEF NodeInvariant, Quiet, Linked
  <2>5. Spared(m)
    BY <1>1, <2>1, <2>2, <2>3, <2>4 DEF Spared
  <2> QED BY <2>0, <2>5, NodeSpared
<1> QED BY <1>1, <1>4, <1>5, <1>6, <1>7, <1>8, StepKeeps DEF AsyncInvariant, TypeOK

LEMMA StopStep ==
  ASSUME AsyncInvariant, NEW c \in Chart, Stop(c)
  PROVE  AsyncInvariant'
<1> DEFINE S == NodesOf(c)
           h == Removed(Home, S)
<1>1. /\ node' = Stopped(node, S) /\ Become(h)
      /\ running' = running \ {c} /\ CallsEnd(S)
      /\ UNCHANGED <<nodesSet, debugged, breakpoints, continueFlag, flow, resumed>>
      /\ InFlow => InFunction /\ flow.chart # c
  BY DEF Stop, MayStop, Idle, InFunction, InFlow, At
<1>2. /\ TypeOK /\ Home \in HomeSet /\ Agrees(Home) /\ FlowInvariant /\ node \in [Node -> NodeState]
      /\ \A m \in Node : NodeInvariant(m)
      /\ \A m \in Node, v \in List : Has(Home, m, v) <=> In(m, v)
  BY HomeTyped DEF AsyncInvariant, TypeOK, Has, In, Home
<1>3. /\ S \subseteq Node /\ \A m \in Node : m \in S <=> ChartOf[m] = c
  BY DEF NodesOf
<1> HIDE DEF S
<1>4. /\ h \in HomeSet /\ Agrees(h)
      /\ \A m \in Node \ S : Same(Home, h, m)
      /\ \A m \in Node \cap S : h.container[m] = None
      /\ \A w \in List, m \in Node : Has(h, m, w) => Has(Home, m, w)
  BY <1>2, RemovedHome
<1> HIDE DEF h
<1>5. Home' = h /\ Home' \in HomeSet /\ container' = h.container
  BY <1>1, <1>4, Became
<1>6. Agrees(Home)'
  <2>1. Agrees(Home') <=> Agrees(Home)'
    OBVIOUS
  <2> QED BY <1>4, <1>5, <2>1
<1>7. StoppedFrom(node, S, node')
  BY <1>1, <1>2, StoppedNodes
<1>8. /\ held' \in [Contexts -> Node \cup {None}] /\ call' \in [Node -> Contexts \cup {None}]
      /\ \A m \in Node \ S : call'[m] = call[m]
      /\ \A m \in Node \cap S : call'[m] = None
      /\ \A x \in Contexts : held'[x] # None => held'[x] \in Calling
  BY <1>1, CallsEnded DEF AsyncInvariant
<1>9. \A m \in Node, v \in List : In(m, v)' => In(m, v)
  <2>1. \A m \in Node, v \in List : Has(Home', m, v) <=> In(m, v)'
    BY DEF Has, In, Home
  <2> QED BY <1>2, <1>4, <1>5, <2>1
<1>10. FlowInvariant'
  <2>1. InFlow => flow.chart \in running'
    BY <1>1, <1>2 DEF FlowInvariant
  <2>2. ASSUME NEW n \in Node, InFunction, n = flow.current PROVE InGame(n)'
    <3>1. InGame(n) /\ flow.chart # c
      BY <1>1, <1>2, <2>2 DEF FlowInvariant, InFunction, InFlow, At
    <3>2. n \notin S
      BY <1>3, <3>1 DEF InGame
    <3>3. Same(Home, h, n) /\ node'[n] = node[n]
      BY <1>4, <1>7, <3>2 DEF StoppedFrom
    <3>4. container'[n] = container[n]
      BY <1>5, <3>3 DEF Same, Home
    <3> QED BY <1>1, <3>1, <3>3, <3>4 DEF InGame
  <2> QED BY <1>1, <1>5, <1>9, <2>1, <2>2, FlowKept, ListNames
<1>11. ASSUME NEW m \in Node PROVE NodeInvariant(m)'
  <2>0. NodeInvariant(m)
    BY <1>2
  <2>1. CASE m \in S
    <3>1. /\ container'[m] = None /\ call'[m] = None
          /\ node'[m].status = "Idle" /\ node'[m].runFlag = FALSE
      BY <1>4, <1>5, <1>7, <1>8, <2>1 DEF StoppedFrom
    <3>2. Quiet(m)' /\ Linked(m)'
      BY <3>1, ListNames DEF Quiet, Linked
    <3>3. Spared(m)
      BY <1>1, <1>9, <3>1, <3>2, ListNames DEF Spared
    <3> QED BY <2>0, <3>3, NodeSpared
  <2>2. CASE m \notin S
    <3>1. Same(Home, h, m) /\ call'[m] = call[m] /\ node'[m] = node[m]
      BY <1>4, <1>7, <1>8, <2>2 DEF StoppedFrom
    <3>2. ChartOf[m] \in running' <=> ChartOf[m] \in running
      BY <1>1, <1>3, <2>2
    <3> QED BY <1>1, <1>5, <2>0, <3>1, <3>2, NodeLeft
  <2> QED BY <2>1, <2>2
<1>12. node' \in [Node -> NodeState]
  BY <1>7 DEF StoppedFrom
<1> QED BY <1>1, <1>5, <1>6, <1>8, <1>10, <1>11, <1>12, StepKeeps DEF AsyncInvariant, TypeOK

LEMMA StartStep ==
  ASSUME AsyncInvariant, NEW c \in Chart, Start(c)
  PROVE  AsyncInvariant'
<1>0. StartNode[c] \in Node /\ ChartOf[StartNode[c]] = c
  BY AsyncAssumption
<1> SUFFICES ASSUME NEW s \in Node, s = StartNode[c], ChartOf[s] = c PROVE AsyncInvariant'
  BY <1>0
<1> DEFINE nodes == [node EXCEPT ![s].skip = TRUE, ![s].result = "rTRUE"]
<1>1. /\ flow.pc = "idle" /\ c \notin running /\ running' = running \cup {c}
      /\ RunFlow(s, Home, nodes, running', "idle")
      /\ UNCHANGED <<nodesSet, debugged, breakpoints, continueFlag, held, call, resumed>>
  BY DEF Start, Idle, At, calls
<1>2. Between
  BY <1>1 DEF Between
<1>3. /\ nodes \in [Node -> NodeState] /\ \A m \in Node \ {s} : nodes[m] = node[m]
      /\ nodes[s].runFlag = node[s].runFlag
  <2> DEFINE j == [node EXCEPT ![s].skip = TRUE]
  <2>1. node \in [Node -> NodeState] /\ "rTRUE" \in Result
    BY <1>2, BetweenParts, ResultNames
  <2>2. nodes = [j EXCEPT ![s].result = "rTRUE"]
    BY <2>1 DEF NodeState
  <2>3. /\ j \in [Node -> NodeState] /\ \A m \in Node \ {s} : j[m] = node[m]
        /\ j[s].runFlag = node[s].runFlag
    BY <2>1 DEF NodeState
  <2> HIDE DEF j, nodes
  <2> QED BY <2>1, <2>2, <2>3 DEF NodeState
<1> HIDE DEF nodes
<1>4. Home \in HomeSet /\ Agrees(Home) /\ Home.list["stack"] = <<>> /\ Home.list["handling"] = <<>> /\ running \subseteq Chart
  BY <1>1, <1>2, BetweenParts DEF TypeOK
<1>5. FlowEffect(s, Home, nodes, running', "idle")
  BY <1>1, <1>3, <1>4, RunFlowParts
<1>6. FlowInvariant' /\ Stage' = "idle"
  BY <1>1, <1>4, <1>5, FlowBegins
<1>7. /\ Home' \in HomeSet /\ Agrees(Home)' /\ node' \in [Node -> NodeState] /\ flow' \in FlowState
      /\ container'[s] = "stack" /\ node'[s].runFlag = node[s].runFlag
  BY <1>1, <1>3, <1>5 DEF FlowEffect
<1>8. \A m \in Node : In(m, "waiting")' => In(m, "waiting")
  <2>1. \A m \in Node, v \in List : Has(Home', m, v) <=> In(m, v)'
    BY DEF Has, In, Home
  <2> QED BY <1>2, <1>5, <2>1, BetweenParts, ListNames DEF FlowEffect
<1>10. ASSUME NEW m \in Node \ {s} PROVE NodeInvariant(m)'
  <2>1. Same(Home, Home', m) /\ node'[m] = node[m] /\ NodeInvariant(m)
    BY <1>2, <1>3, <1>5, BetweenParts DEF FlowEffect
  <2> QED BY <1>1, <2>1, NodeLeft
<1>11. NodeInvariant(s)'
  <2>0. NodeInvariant(s)
    BY <1>2, BetweenParts
  <2>1. Apart => call'[s] = None
    BY <1>1, <2>0 DEF NodeInvariant, PendingCall
  <2>2. Apart /\ s \in Calling => ~ node'[s].runFlag
    BY <1>1, <1>7, <2>0 DEF NodeInvariant, CallingNode, InFunction, At
  <2>3. Quiet(s)' /\ Linked(s)'
    BY <1>1, <1>7, ListNames DEF Quiet, Linked
  <2>4. Spared(s)
    BY <1>1, <1>7, <1>8, <2>1, <2>2, <2>3 DEF Spared
  <2> QED BY <2>0, <2>4, NodeSpared
<1>12. \A m \in Node : NodeInvariant(m)'
  BY <1>10, <1>11
<1>13. running' \subseteq Chart
  BY <1>1, <1>4
<1> QED BY <1>1, <1>6, <1>7, <1>12, <1>13, StepKeeps DEF AsyncInvariant, TypeOK

-----------------------------------------------------------------------------
(* The game calls back.                                                    *)

\* The node leaves waiting_nodes_, and is linked into the active list if the answer
\* is to go on: w is the list, or None.
CallbackEffect(n, w) ==
  /\ Home' \in HomeSet /\ Agrees(Home)'
  /\ \A m \in Node \ {n} : Same(Home, Home', m)
  /\ ~ In(n, "waiting")' /\ container'[n] = w
  /\ \A m \in Node, v \in List : In(m, v)' => In(m, v) \/ (m = n /\ v = w)

LEMMA CallbackParts ==
  ASSUME AsyncInvariant, NEW n \in Calling, n \in nodesSet
  PROVE  /\ Become(TakenOff(Home, n)) => CallbackEffect(n, None)
         /\ Become(Activated(TakenOff(Home, n), n)) => CallbackEffect(n, "active")
<1> DEFINE k == TakenOff(Home, n)
           j == Pushed(k, "active", n)
<1>1. n \in Node
  BY DEF Calling
<1>2. /\ Home \in HomeSet /\ Agrees(Home) /\ Home.container = container /\ NodeInvariant(n)
      /\ \A m \in Node, v \in List : Has(Home, m, v) <=> In(m, v)
  BY <1>1, HomeTyped DEF AsyncInvariant, Has, In, Home
<1>3. n \in Loose \/ container[n] \notin {"active", "event"}
  BY <1>2 DEF NodeInvariant, CallingNode, Loose
<1>6. Lifted(Home, k, n) /\ Agrees(k) /\ ~ Has(k, n, "waiting")
  BY <1>1, <1>2, <1>3, TakenOffHome
<1> HIDE DEF k
<1>7. /\ k \in HomeSet /\ k.container[n] = None
      /\ \A m \in Node \ {n} : Same(Home, k, m)
      /\ \A v \in List, m \in Node : Has(k, m, v) => Has(Home, m, v)
  BY <1>6 DEF Lifted
<1>8. "active" \in PushLists /\ "active" # None
  BY ListNames DEF PushLists, List
<1>9. /\ j \in HomeSet /\ Agrees(j)
      /\ \A m \in Node \ {n} : Same(k, j, m)
      /\ j.container[n] = "active"
      /\ \A v \in List, m \in Node : Has(j, m, v) => Has(k, m, v) \/ (m = n /\ v = "active")
  BY <1>1, <1>6, <1>7, <1>8, PushedHome
<1>10. Activated(k, n) = j
  BY <1>7, <1>8 DEF Activated
<1> HIDE DEF j
<1>11. /\ (Agrees(Home') <=> Agrees(Home)')
       /\ \A m \in Node, v \in List : Has(Home', m, v) <=> In(m, v)'
  BY DEF Has, In, Home
<1>12. ASSUME Become(k) PROVE CallbackEffect(n, None)
  <2>1. Home' = k /\ container' = k.container
    BY <1>7, <1>12, Became
  <2> QED BY <1>1, <1>2, <1>6, <1>7, <1>11, <2>1, ListNames DEF CallbackEffect
<1>13. ASSUME Become(j) PROVE CallbackEffect(n, "active")
  <2>1. Home' = j /\ container' = j.container
    BY <1>9, <1>13, Became
  <2>2. \A m \in Node \ {n} : Same(Home, Home', m)
    BY <1>7, <1>9, <2>1 DEF Same
  <2>3. ~ In(n, "waiting")'
    BY <1>1, <1>6, <1>9, <1>11, <2>1, ListNames
  <2> QED BY <1>2, <1>7, <1>9, <1>11, <2>1, <2>2, <2>3 DEF CallbackEffect
<1> QED BY <1>10, <1>12, <1>13 DEF k

LEMMA CallbackKeeps ==
  ASSUME AsyncInvariant, NEW n \in Calling, Careful => call[n] # None,
         NEW w \in {None, "active"}, CallbackEffect(n, w), nodesSet' = nodesSet \ {n}, CallsEnd({n}),
         node' \in [Node -> NodeState], \A m \in Node \ {n} : node'[m] = node[m],
         node'[n].status = node[n].status, node'[n].runFlag = node[n].runFlag,
         UNCHANGED <<control, flow, resumed>>
  PROVE  AsyncInvariant'
<1>0. n \in Node /\ Kind[n] # "game"
  BY DEF Calling
<1>1. UNCHANGED <<running, debugged, breakpoints, continueFlag, flow, resumed>>
  BY DEF control
<1>2. TypeOK /\ FlowInvariant /\ \A m \in Node : NodeInvariant(m)
  BY DEF AsyncInvariant
<1>3. /\ held' \in [Contexts -> Node \cup {None}] /\ call' \in [Node -> Contexts \cup {None}]
      /\ \A m \in Node \ {n} : call'[m] = call[m]
      /\ call'[n] = None
      /\ \A x \in Contexts : held'[x] # None => held'[x] \in Calling
  BY <1>0, <1>2, CallsEnded DEF AsyncInvariant
<1>4. /\ Home' \in HomeSet /\ Agrees(Home)'
      /\ \A m \in Node \ {n} : Same(Home, Home', m)
      /\ ~ In(n, "waiting")' /\ container'[n] = w
      /\ \A m \in Node, v \in {"stack", "handling"} : In(m, v)' => In(m, v)
  <2>1. "stack" # w /\ "handling" # w
    BY ListNames DEF List
  <2> QED BY <2>1, ListNames DEF CallbackEffect
<1>5. FlowInvariant'
  <2>1. InFlow => flow.chart \in running'
    BY <1>1, <1>2 DEF FlowInvariant
  <2>2. ASSUME NEW m \in Node, InFunction, m = flow.current PROVE InGame(m)'
    <3>1. InGame(m)
      BY <1>2, <2>2 DEF FlowInvariant
    <3>2. node'[m].status = node[m].status
      BY <1>0
    <3>3. m # n => container'[m] = container[m]
      BY <1>4 DEF Same, Home
    <3> QED BY <1>0, <1>1, <3>1, <3>2, <3>3 DEF InGame
  <2> QED BY <1>1, <1>4, <2>1, <2>2, FlowKept
<1>6. NodeInvariant(n)'
  <2>0. NodeInvariant(n)
    BY <1>0, <1>2
  <2>1. PendingCall(n)'
    BY <1>3 DEF PendingCall
  <2>2. CallingNode(n)'
    BY <1>1, <1>4, <2>0, ListNames DEF CallingNode, NodeInvariant, InFunction, At, Apart, Calling
  <2>3. (n \in Steady)' => Quiet(n)' /\ Linked(n)'
    <3>1. (n \in Steady)' => Careful /\ Apart
      BY DEF Steady, Apart, Calling
    <3>2. Careful /\ Apart => ChartOf[n] \in running /\ node[n].status = "Running"
      BY <2>0 DEF NodeInvariant, PendingCall
    <3> QED BY <1>1, <3>1, <3>2 DEF Quiet, Linked
  <2> QED BY <1>4, <2>1, <2>2, <2>3 DEF NodeInvariant
<1>7. ASSUME NEW m \in Node \ {n} PROVE NodeInvariant(m)'
  BY <1>1, <1>2, <1>3, <1>4, NodeLeft
<1> QED BY <1>1, <1>2, <1>3, <1>4, <1>5, <1>6, <1>7, StepKeeps DEF AsyncInvariant, TypeOK

\* The context the game uses.
LEMMA UsesParts ==
  ASSUME AsyncInvariant, NEW x \in Contexts, Uses(x)
  PROVE  /\ held[x] \in Node /\ held[x] \in Calling
         /\ Careful => call[held[x]] = x /\ call[held[x]] # None
BY ListNames DEF Uses, AsyncInvariant, TypeOK

LEMMA ContinueStep ==
  ASSUME AsyncInvariant, NEW x \in Contexts, NEW r \in Results, Continue(x, r)
  PROVE  AsyncInvariant'
<1>0. Uses(x) /\ held[x] \in Node
  BY UsesParts DEF Continue
<1> SUFFICES ASSUME NEW n \in Node, n = held[x] PROVE AsyncInvariant'
  BY <1>0
<1>1. n \in Calling /\ (Careful => call[n] # None)
  BY <1>0, UsesParts
<1>2. /\ n \in nodesSet /\ nodesSet' = nodesSet \ {n} /\ Become(Activated(TakenOff(Home, n), n))
      /\ node' = [node EXCEPT ![n].skip = TRUE, ![n].result = r] /\ CallsEnd({n})
      /\ UNCHANGED <<control, flow, resumed>>
  BY DEF Continue, IsNodeWaiting, Answered
<1>3. CallbackEffect(n, "active")
  BY <1>1, <1>2, CallbackParts
<1>4. /\ node' \in [Node -> NodeState] /\ \A m \in Node \ {n} : node'[m] = node[m]
      /\ node'[n].status = node[n].status /\ node'[n].runFlag = node[n].runFlag
  <2> DEFINE j == [node EXCEPT ![n].skip = TRUE]
  <2>1. node \in [Node -> NodeState] /\ r \in Result
    BY AsyncAssumption DEF AsyncInvariant, TypeOK, Result
  <2>2. node' = [j EXCEPT ![n].result = r]
    BY <1>2, <2>1 DEF NodeState
  <2>3. /\ j \in [Node -> NodeState] /\ \A m \in Node \ {n} : j[m] = node[m]
        /\ j[n].status = node[n].status /\ j[n].runFlag = node[n].runFlag
    BY <2>1 DEF NodeState
  <2> HIDE DEF j
  <2> QED BY <2>1, <2>2, <2>3 DEF NodeState
<1> QED BY <1>1, <1>2, <1>3, <1>4, CallbackKeeps

LEMMA CancelStep ==
  ASSUME AsyncInvariant, NEW x \in Contexts, NEW stop \in Cancels, Cancel(x, stop)
  PROVE  AsyncInvariant'
<1>0. Uses(x) /\ held[x] \in Node
  BY UsesParts DEF Cancel
<1> SUFFICES ASSUME NEW n \in Node, n = held[x] PROVE AsyncInvariant'
  BY <1>0
<1>1. n \in Calling /\ (Careful => call[n] # None)
  BY <1>0, UsesParts
<1>2. /\ n \in nodesSet /\ nodesSet' = nodesSet \ {n} /\ CallsEnd({n})
      /\ IF stop THEN Become(TakenOff(Home, n)) /\ UNCHANGED node
          ELSE /\ Become(Activated(TakenOff(Home, n), n))
               /\ node' = [node EXCEPT ![n].skip = TRUE, ![n].result = "rFALSE"]
      /\ UNCHANGED <<control, flow, resumed>>
  BY DEF Cancel, IsNodeWaiting, Answered
<1>3. node \in [Node -> NodeState]
  BY DEF AsyncInvariant, TypeOK
<1>4. CASE stop
  <2>1. CallbackEffect(n, None)
    BY <1>1, <1>2, <1>4, CallbackParts
  <2> QED BY <1>1, <1>2, <1>3, <1>4, <2>1, CallbackKeeps
<1>5. CASE ~ stop
  <2>1. CallbackEffect(n, "active")
    BY <1>1, <1>2, <1>5, CallbackParts
  <2>2. /\ node' \in [Node -> NodeState] /\ \A m \in Node \ {n} : node'[m] = node[m]
        /\ node'[n].status = node[n].status /\ node'[n].runFlag = node[n].runFlag
    <3> DEFINE j == [node EXCEPT ![n].skip = TRUE]
    <3>2. node' = [j EXCEPT ![n].result = "rFALSE"]
      BY <1>2, <1>3, <1>5 DEF NodeState
    <3>3. /\ j \in [Node -> NodeState] /\ \A m \in Node \ {n} : j[m] = node[m]
          /\ j[n].status = node[n].status /\ j[n].runFlag = node[n].runFlag
      BY <1>3 DEF NodeState
    <3> HIDE DEF j
    <3> QED BY <1>3, <3>2, <3>3, ResultNames DEF NodeState
  <2> QED BY <1>1, <1>2, <2>1, <2>2, CallbackKeeps
<1> QED BY <1>4, <1>5

-----------------------------------------------------------------------------
(* The debugger continues nodes.                                           *)

\* Those that the walk along waiting_nodes_ finds.
LEMMA WalkedParts ==
  ASSUME TypeOK, NEW S \in SUBSET Node, NEW s \in Walked(S)
  PROVE  s \in Seq(Node) /\ \A m \in Elements(s) : m \in S /\ In(m, "waiting")
<1> DEFINE found == Without(list["waiting"], Node \ S)
<1>1. list["waiting"] \in Seq(Node)
  BY DEF TypeOK, List
<1>2. found \in Seq(Node) /\ Elements(found) = Elements(list["waiting"]) \ (Node \ S)
  BY <1>1, WithoutType, WithoutElements
<1>3. Elements(list["waiting"]) \subseteq Node
  BY <1>1, ElementsType
<1>4. \A m \in Elements(found) : m \in S /\ In(m, "waiting")
  BY <1>2, <1>3 DEF In
<1>5. found # <<>> => Head(found) \in Elements(found)
  <2> HIDE DEF found
  <2> QED BY <1>2, TailElements
<1>6. s = <<>> \/ s = found \/ (found # <<>> /\ s = <<Head(found)>>)
  BY DEF Walked
<1> HIDE DEF found
<1>7. CASE s = <<>>
  BY <1>7 DEF Elements
<1>8. CASE s = found
  BY <1>2, <1>4, <1>8
<1>9. CASE found # <<>> /\ s = <<Head(found)>>
  <2> SUFFICES ASSUME NEW n \in Elements(found), s = <<n>>
               PROVE  s \in Seq(Node) /\ \A m \in Elements(s) : m \in S /\ In(m, "waiting")
    BY <1>5, <1>9
  <2>1. n \in Node /\ s \in Seq(Node)
    BY <1>4
  <2>2. \A m \in Elements(s) : m = n
    BY DEF Elements
  <2> QED BY <1>4, <2>1, <2>2
<1> QED BY <1>6, <1>7, <1>8, <1>9

\* They are linked into the active list and their functions are to be called.
ActivateEffect(s) ==
  /\ Home' \in HomeSet /\ Agrees(Home)' /\ node' \in [Node -> NodeState]
  /\ \A m \in Node \ Elements(s) : Same(Home, Home', m) /\ node'[m] = node[m]
  /\ \A m \in Elements(s) : container'[m] = "active" /\ In(m, "active")' /\ node'[m] = [node[m] EXCEPT !.skip = FALSE]
  /\ \A m \in Node, v \in List : In(m, v)' => In(m, v) \/ (v = "active" /\ m \in Elements(s))
  /\ held' = held /\ call' = call

LEMMA ActivateParts ==
  ASSUME AsyncInvariant, NEW s \in Seq(Node), ActivateAll(s)
  PROVE  ActivateEffect(s)
<1> DEFINE h == PushedAll(Home, "active", s)
           T == Elements(s)
<1>1. /\ Become(h) /\ held' = held /\ call' = call
      /\ node' = [n \in Node |-> IF n \in T THEN [node[n] EXCEPT !.skip = FALSE] ELSE node[n]]
  BY DEF ActivateAll, calls
<1>2. Home \in HomeSet /\ Agrees(Home) /\ node \in [Node -> NodeState] /\ "active" \in PushLists
  BY HomeTyped DEF AsyncInvariant, TypeOK, PushLists, List
<1>3. /\ h \in HomeSet /\ Agrees(h)
      /\ \A m \in Node \ T : Same(Home, h, m)
      /\ \A m \in T : h.container[m] = "active" /\ Has(h, m, "active")
      /\ \A v \in List, m \in Node : Has(h, m, v) => Has(Home, m, v) \/ (v = "active" /\ m \in T)
  BY <1>2, PushedAllHome
<1> HIDE DEF h
<1>4. T \subseteq Node
  BY ElementsType
<1> HIDE DEF T
<1>5. Home' = h /\ container' = h.container
  BY <1>1, <1>3, Became
<1>6. /\ Agrees(Home') <=> Agrees(Home)'
      /\ \A m \in Node, v \in List : (Has(Home', m, v) <=> In(m, v)') /\ (Has(Home, m, v) <=> In(m, v))
  BY DEF Has, In, Home
<1>7. \A m \in Node : [node[m] EXCEPT !.skip = FALSE] \in NodeState
  BY <1>2 DEF NodeState
<1>8. node' \in [Node -> NodeState]
  BY <1>1, <1>2, <1>7
<1>9. \A m \in Node \ T : node'[m] = node[m]
  BY <1>1
<1>10. \A m \in T : node'[m] = [node[m] EXCEPT !.skip = FALSE]
  BY <1>1, <1>4
<1> QED BY <1>1, <1>3, <1>4, <1>5, <1>6, <1>8, <1>9, <1>10, ListNames DEF ActivateEffect, T

LEMMA ActivateKeeps ==
  ASSUME AsyncInvariant, InDebug, NEW s \in Seq(Node), ActivateAll(s),
         \A m \in Elements(s) : In(m, "waiting") /\ DataOf[m] \in breakpoints,
         breakpoints' \subseteq breakpoints, continueFlag' \subseteq NodeData,
         UNCHANGED <<nodesSet, running, debugged, flow, resumed>>
  PROVE  AsyncInvariant'
<1>1. Between /\ flow.pc = "debug"
  BY DEF InDebug, At, Between
<1>2. /\ Home \in HomeSet /\ Agrees(Home) /\ TypeOK /\ list["handling"] = <<>> /\ node \in [Node -> NodeState]
      /\ \A m \in Node : NodeInvariant(m)
  BY <1>1, BetweenParts
<1>3. ActivateEffect(s)
  BY ActivateParts
<1>4. /\ Home' \in HomeSet /\ Agrees(Home)' /\ node' \in [Node -> NodeState]
      /\ \A m \in Node, v \in List : In(m, v)' => In(m, v) \/ (v = "active" /\ m \in Elements(s))
      /\ held' = held /\ call' = call
  BY <1>3 DEF ActivateEffect
<1>5. \A m \in Node, v \in {"stack", "handling", "waiting"} : In(m, v)' => In(m, v)
  BY <1>4, ListNames
<1>6. FlowInvariant'
  BY <1>1, <1>4, <1>5, FlowKept DEF InFlow, InFunction, At
<1>7. ASSUME NEW m \in Elements(s) PROVE NodeInvariant(m)'
  <2>1. /\ m \in Node /\ In(m, "waiting") /\ DataOf[m] \in Breakable
    BY ElementsType DEF AsyncInvariant
  <2>2. /\ container'[m] = "active" /\ node'[m] = [node[m] EXCEPT !.skip = FALSE]
    BY <1>3 DEF ActivateEffect
  <2>3. node'[m].status = node[m].status
    BY <1>2, <2>1, <2>2 DEF NodeState
  <2>4. Apart => m \notin Calling
    BY <2>1 DEF Apart
  <2>5. PendingCall(m)'
    BY <1>2, <1>4, <2>1, <2>4 DEF NodeInvariant, PendingCall, Apart
  <2>6. CallingNode(m)'
    BY <2>4 DEF CallingNode, Apart, Calling
  <2>7. (m \in Steady)' => Quiet(m)' /\ Linked(m)'
    <3>1. (m \in Steady)' => m \in Steady /\ m \notin Loose
      BY DEF Steady, Loose, Apart, Calling
    <3>2. m \in Steady => container[m] = "waiting"
      BY <1>2, <2>1, <3>1, ListNames DEF Agrees, In, Home, Sure, Steady, Loose
    <3>3. m \in Steady => Quiet(m) /\ Linked(m)
      BY <1>2, <2>1 DEF NodeInvariant
    <3> QED BY <2>3, <3>1, <3>2, <3>3, ListNames DEF Quiet, Linked
  <2>8. In(m, "waiting")' => m \in nodesSet'
    BY <1>2, <2>1 DEF NodeInvariant
  <2> QED BY <2>5, <2>6, <2>7, <2>8 DEF NodeInvariant
<1>8. ASSUME NEW m \in Node \ Elements(s) PROVE NodeInvariant(m)'
  <2>1. Same(Home, Home', m) /\ node'[m] = node[m] /\ call' = call /\ NodeInvariant(m)
    BY <1>2, <1>3 DEF ActivateEffect
  <2> QED BY <2>1, NodeLeft
<1>9. \A m \in Node : NodeInvariant(m)'
  BY <1>7, <1>8
<1> QED BY <1>2, <1>4, <1>6, <1>9, StepKeeps DEF AsyncInvariant, TypeOK

LEMMA ContinueChartStep ==
  ASSUME AsyncInvariant, NEW c \in Chart, ContinueChart(c)
  PROVE  AsyncInvariant'
<1> DEFINE S == {n \in NodesOf(c) : DataOf[n] \in breakpoints}
<1>1. PICK s \in Walked(S) : continueFlag' = continueFlag \cup {DataOf[n] : n \in Elements(s)} /\ ActivateAll(s)
  BY DEF ContinueChart
<1>2. InDebug /\ UNCHANGED <<nodesSet, running, debugged, breakpoints, flow, resumed>>
  BY DEF ContinueChart
<1>3. S \in SUBSET Node /\ TypeOK /\ \A m \in S : DataOf[m] \in breakpoints
  BY DEF NodesOf, AsyncInvariant
<1> HIDE DEF S
<1>4. s \in Seq(Node) /\ \A m \in Elements(s) : m \in S /\ In(m, "waiting")
  BY <1>3, WalkedParts
<1>5. continueFlag' \subseteq NodeData
  <2>1. continueFlag \subseteq NodeData /\ DataOf \in [Node -> NodeData] /\ Elements(s) \subseteq Node
    BY <1>3, <1>4, AsyncAssumption DEF TypeOK
  <2> QED BY <1>1, <2>1
<1> QED BY <1>1, <1>2, <1>3, <1>4, <1>5, ActivateKeeps

LEMMA DeleteBreakpointStep ==
  ASSUME AsyncInvariant, NEW d \in NodeData, DeleteBreakpoint(d)
  PROVE  AsyncInvariant'
<1> DEFINE S == {n \in Node : DataOf[n] = d}
<1>1. PICK s \in Walked(S) : ActivateAll(s)
  BY DEF DeleteBreakpoint
<1>2. /\ InDebug /\ d \in breakpoints /\ breakpoints' = breakpoints \ {d}
      /\ continueFlag' = continueFlag \ {d} /\ UNCHANGED <<nodesSet, running, debugged, flow, resumed>>
  BY DEF DeleteBreakpoint
<1>3. S \in SUBSET Node /\ TypeOK /\ \A m \in S : DataOf[m] = d
  BY DEF AsyncInvariant
<1> HIDE DEF S
<1>4. s \in Seq(Node) /\ \A m \in Elements(s) : m \in S /\ In(m, "waiting")
  BY <1>3, WalkedParts
<1>5. breakpoints' \subseteq breakpoints /\ continueFlag' \subseteq NodeData
  BY <1>2, <1>3 DEF TypeOK
<1> QED BY <1>1, <1>2, <1>3, <1>4, <1>5, ActivateKeeps

-----------------------------------------------------------------------------
(* The next step resumes the nodes that have been activated.               *)

\* A round resumes n: skip_ and result_ survive, and its flow begins unless its chart
\* has stopped.
ResumeEffect(n) ==
  /\ n \in Node /\ In(n, "active") /\ Between /\ flow.pc = "async"
  /\ Home' \in HomeSet /\ Agrees(Home)' /\ node' \in [Node -> NodeState] /\ flow' \in FlowState
  /\ \A m \in Node \ {n} : Same(Home, Home', m) /\ node'[m] = node[m]
  /\ ~ In(n, "waiting")' /\ container'[n] = IF ChartOf[n] \in running THEN "stack" ELSE None
  /\ node'[n].skip = node[n].skip /\ node'[n].result = node[n].result
  /\ node'[n].runFlag = FALSE /\ node'[n].status = "Idle"
  /\ ChartOf[n] \in running => At("loop")'
  /\ \A m \in Node : In(m, "stack")' => m = n
  /\ resumed' = IF ChartOf[n] \in running THEN <<n, node[n].skip, node[n].result>> ELSE <<>>
  /\ nodesSet' = nodesSet \ {n}
  /\ UNCHANGED <<running, debugged, breakpoints, continueFlag, held, call>>
  /\ FlowInvariant' /\ Stage' = "async"

LEMMA AsyncStepParts ==
  ASSUME AsyncInvariant, AsyncStep
  PROVE  ResumeEffect(Head(list["active"]))
<1> SUFFICES ASSUME NEW n, n = Head(list["active"]) PROVE ResumeEffect(n)
  OBVIOUS
<1> DEFINE k == Popped(Home, "active")
           h == TakenOff(k, n)
           j == Stopped(node, {n})
           kept == [j EXCEPT ![n].skip = node[n].skip, ![n].result = node[n].result]
<1>1. Between /\ flow.pc = "async" /\ list["active"] # <<>>
  BY DEF AsyncStep, At, Between
<1>2. /\ Home \in HomeSet /\ Agrees(Home) /\ TypeOK /\ list["handling"] = <<>> /\ list["stack"] = <<>>
      /\ node \in [Node -> NodeState] /\ resumed = <<>>
      /\ Home.list = list /\ Home.container = container
      /\ \A m \in Node : NodeInvariant(m)
      /\ \A m \in Node, v \in List : Has(Home, m, v) <=> In(m, v)
  BY <1>1, BetweenParts
<1>3. k = [list |-> [list EXCEPT !["active"] = Tail(@)], container |-> [container EXCEPT ![n] = None]]
  BY <1>2 DEF Popped
<1>4. /\ RunFlow(n, h, kept, running, "async")
      /\ resumed' = IF ChartOf[n] \in running THEN <<n, node[n].skip, node[n].result>> ELSE <<>>
      /\ nodesSet' = nodesSet \ {n}
      /\ UNCHANGED <<running, debugged, breakpoints, continueFlag, held, call>>
  BY <1>3 DEF AsyncStep, Resumes, control, calls
<1>5. n \in Node /\ Has(Home, n, "active") /\ Lifted(Home, k, n) /\ Agrees(k)
  BY <1>1, <1>2, PoppedHome
<1> HIDE DEF k
<1>6. k \in HomeSet /\ k.container[n] = None
  BY <1>5 DEF Lifted
<1>7. Lifted(k, h, n) /\ Agrees(h) /\ ~ Has(h, n, "waiting")
  BY <1>5, <1>6, ListNames, TakenOffHome DEF List
<1> HIDE DEF h
<1>8. /\ h \in HomeSet /\ h.container[n] = None
      /\ \A m \in Node \ {n} : Same(Home, h, m)
      /\ \A v \in List, m \in Node : Has(h, m, v) => Has(Home, m, v)
  BY <1>5, <1>7 DEF Lifted, Same
<1>9. h.list["stack"] = <<>> /\ h.list["handling"] = <<>>
  <2>1. \A m \in Node : ~ Has(h, m, "stack") /\ ~ Has(h, m, "handling")
    BY <1>2, <1>8, ListNames DEF In, Elements
  <2>2. h.list["stack"] \in Seq(Node) /\ h.list["handling"] \in Seq(Node)
    BY <1>8, HomeParts, ListNames
  <2> QED BY <2>1, <2>2, EmptyList DEF Has
<1>10. StoppedFrom(node, {n}, j)
  BY <1>2, StoppedNodes
<1> HIDE DEF j
<1>11. /\ kept \in [Node -> NodeState] /\ \A m \in Node \ {n} : kept[m] = node[m]
       /\ kept[n].skip = node[n].skip /\ kept[n].result = node[n].result
       /\ kept[n].runFlag = FALSE /\ kept[n].status = "Idle"
  <2> DEFINE i == [j EXCEPT ![n].skip = node[n].skip]
  <2>1. j \in [Node -> NodeState] /\ \A m \in Node \ {n} : j[m] = node[m]
    BY <1>10 DEF StoppedFrom
  <2>2. j[n].runFlag = FALSE /\ j[n].status = "Idle"
    BY <1>5, <1>10 DEF StoppedFrom
  <2>3. kept = [i EXCEPT ![n].result = node[n].result]
    BY <1>5, <2>1 DEF NodeState
  <2>4. /\ i \in [Node -> NodeState] /\ \A m \in Node \ {n} : i[m] = node[m]
        /\ i[n].skip = node[n].skip /\ i[n].runFlag = FALSE /\ i[n].status = "Idle"
    BY <1>2, <1>5, <2>1, <2>2 DEF NodeState
  <2> HIDE DEF i, kept
  <2> QED BY <1>2, <1>5, <2>3, <2>4 DEF NodeState
<1> HIDE DEF kept
<1>12. FlowEffect(n, h, kept, running, "async")
  BY <1>2, <1>4, <1>5, <1>7, <1>8, <1>9, <1>11, RunFlowParts DEF TypeOK
<1>13. FlowInvariant' /\ Stage' = "async"
  BY <1>4, <1>5, <1>8, <1>9, <1>12, FlowBegins
<1>14. /\ Home' \in HomeSet /\ Agrees(Home)' /\ node' \in [Node -> NodeState] /\ flow' \in FlowState
       /\ \A m \in Node \ {n} : Same(Home, Home', m) /\ node'[m] = node[m]
  BY <1>8, <1>11, <1>12 DEF FlowEffect, Same
<1>15. /\ node'[n].skip = node[n].skip /\ node'[n].result = node[n].result
       /\ node'[n].runFlag = FALSE /\ node'[n].status = "Idle"
  BY <1>11, <1>12 DEF FlowEffect
<1>16. container'[n] = IF ChartOf[n] \in running THEN "stack" ELSE None
  <2>1. ChartOf[n] \in running => container'[n] = "stack"
    BY <1>12 DEF FlowEffect
  <2>2. ChartOf[n] \notin running => Home' = h
    BY <1>12 DEF FlowEffect
  <2> QED BY <1>8, <2>1, <2>2 DEF Home
<1>17. ~ In(n, "waiting")'
  <2>1. Has(Home', n, "waiting") => Has(h, n, "waiting")
    BY <1>5, <1>12, ListNames DEF FlowEffect
  <2> QED BY <1>7, <2>1 DEF Has, In, Home
<1>18. In(n, "active")
  BY <1>2, <1>5, ListNames
<1>19. ChartOf[n] \in running => At("loop")'
  BY <1>12 DEF FlowEffect, At
<1>20. \A m \in Node : In(m, "stack")' => m = n
  <2>1. \A m \in Node : Has(Home', m, "stack") => Has(h, m, "stack") \/ m = n
    BY <1>12, ListNames DEF FlowEffect
  <2>2. \A m \in Node : ~ Has(h, m, "stack")
    BY <1>9 DEF Has, Elements
  <2> QED BY <2>1, <2>2 DEF Has, In, Home
<1> QED BY <1>1, <1>4, <1>5, <1>13, <1>14, <1>15, <1>16, <1>17, <1>18, <1>19, <1>20 DEF ResumeEffect

LEMMA AsyncStepStep ==
  ASSUME AsyncInvariant, AsyncStep
  PROVE  AsyncInvariant'
<1> SUFFICES ASSUME NEW n, ResumeEffect(n) PROVE AsyncInvariant'
  BY AsyncStepParts
<1>1. n \in Node /\ Between /\ In(n, "active") /\ flow.pc = "async"
  BY DEF ResumeEffect
<1>2. Agrees(Home) /\ TypeOK /\ \A m \in Node : NodeInvariant(m)
  BY <1>1, BetweenParts
<1>3. Apart => container[n] = "active"
  BY <1>1, <1>2, ListNames DEF Agrees, In, Home, Sure, Loose
<1>4. NodeInvariant(n)'
  <2>1. container'[n] \in {"stack", None} /\ container'[n] \notin {"waiting", "active", "event"}
    BY ListNames DEF ResumeEffect, List
  <2>2. Apart => call'[n] = None
    BY <1>1, <1>2, <1>3, ListNames DEF NodeInvariant, PendingCall, ResumeEffect, List
  <2>3. PendingCall(n)' /\ CallingNode(n)'
    BY <2>1, <2>2 DEF PendingCall, CallingNode, Apart, ResumeEffect
  <2>4. Quiet(n)' /\ Linked(n)'
    BY <2>1, ListNames DEF ResumeEffect, Quiet, Linked
  <2> QED BY <2>3, <2>4 DEF NodeInvariant, ResumeEffect
<1>5. ASSUME NEW m \in Node \ {n} PROVE NodeInvariant(m)'
  <2>1. /\ Same(Home, Home', m) /\ node'[m] = node[m] /\ call'[m] = call[m] /\ running' = running
        /\ m \in nodesSet' <=> m \in nodesSet
    BY <1>1 DEF ResumeEffect
  <2> QED BY <1>1, <1>2, <2>1, NodeLeft
<1>6. \A m \in Node : NodeInvariant(m)'
  BY <1>4, <1>5
<1> QED BY <1>2, <1>6, StepKeeps DEF AsyncInvariant, TypeOK, ResumeEffect

-----------------------------------------------------------------------------
(* A node that waits for an event gets it.                                 *)

\* The flow of n begins, unless its chart has stopped.
DispatchEffect(n) ==
  /\ n \in Node /\ Between /\ In(n, "handling") /\ flow.pc = "events"
  /\ Home' \in HomeSet /\ Agrees(Home)' /\ node' \in [Node -> NodeState] /\ flow' \in FlowState
  /\ \A m \in Node \ {n} : Same(Home, Home', m) /\ node'[m] = node[m]
  /\ node'[n].skip = node[n].skip /\ node'[n].runFlag = node[n].runFlag
  /\ node'[n].status = "Idle"
  /\ container'[n] = IF ChartOf[n] \in running THEN "stack" ELSE None
  /\ In(n, "waiting")' => In(n, "waiting")
  /\ UNCHANGED <<nodesSet, running, debugged, breakpoints, continueFlag, held, call, resumed>>
  /\ FlowInvariant' /\ Stage' = Stage

LEMMA DispatchParts ==
  ASSUME AsyncInvariant, DispatchNode
  PROVE  DispatchEffect(Head(list["handling"]))
<1> SUFFICES ASSUME NEW n, n = Head(list["handling"]) PROVE DispatchEffect(n)
  OBVIOUS
<1> DEFINE k == Popped(Home, "handling")
           nodes == [node EXCEPT ![n].status = "Idle"]
<1>1. Between /\ flow.pc = "events" /\ list["handling"] # <<>>
  BY DEF DispatchNode, At, Between
<1>2. /\ Home \in HomeSet /\ Agrees(Home) /\ TypeOK /\ list["stack"] = <<>>
      /\ node \in [Node -> NodeState] /\ resumed = <<>> /\ Stage = "events"
      /\ Home.list = list /\ Home.container = container
      /\ \A m \in Node : NodeInvariant(m) /\ container[m] # "stack"
      /\ \A m \in Node, v \in List : Has(Home, m, v) <=> In(m, v)
  BY <1>1, BetweenParts
<1>3. k = [list |-> [list EXCEPT !["handling"] = Tail(@)], container |-> [container EXCEPT ![n] = None]]
  BY <1>2 DEF Popped
<1>4. /\ RunFlow(n, k, nodes, running, "events")
      /\ UNCHANGED <<nodesSet, running, debugged, breakpoints, continueFlag, held, call, resumed>>
  BY <1>3 DEF DispatchNode, control, calls
<1>5. n \in Node /\ In(n, "handling")
  <2>1. list["handling"] \in Seq(Node)
    BY <1>2 DEF TypeOK, List
  <2> QED BY <1>1, <2>1, TailElements DEF In
<1>7. Lifted(Home, k, n) /\ Agrees(k)
  BY <1>1, <1>2, PoppedHome
<1> HIDE DEF k
<1>8. /\ k \in HomeSet /\ k.container[n] = None
      /\ \A m \in Node \ {n} : Same(Home, k, m)
      /\ \A v \in List, m \in Node : Has(k, m, v) => Has(Home, m, v)
  BY <1>7 DEF Lifted
<1>9. k.list["stack"] = <<>>
  <2>1. \A m \in Node : ~ Has(k, m, "stack")
    BY <1>2, <1>8, ListNames DEF In, Elements
  <2>2. k.list["stack"] \in Seq(Node)
    BY <1>8, HomeParts, ListNames
  <2> QED BY <2>1, <2>2, EmptyList DEF Has
<1>10. /\ nodes \in [Node -> NodeState] /\ \A m \in Node \ {n} : nodes[m] = node[m]
       /\ nodes[n].skip = node[n].skip /\ nodes[n].runFlag = node[n].runFlag /\ nodes[n].status = "Idle"
  BY <1>2, <1>5 DEF NodeState
<1> HIDE DEF nodes
<1>11. FlowEffect(n, k, nodes, running, "events")
  BY <1>2, <1>4, <1>5, <1>7, <1>8, <1>9, <1>10, RunFlowParts DEF TypeOK
<1>12. FlowInvariant' /\ Stage' = "events" /\ Stage' = Stage
  BY <1>2, <1>4, <1>5, <1>8, <1>9, <1>11, FlowBegins
<1>13. /\ Home' \in HomeSet /\ Agrees(Home)' /\ node' \in [Node -> NodeState] /\ flow' \in FlowState
       /\ \A m \in Node \ {n} : Same(Home, Home', m) /\ node'[m] = node[m]
  BY <1>8, <1>10, <1>11 DEF FlowEffect, Same
<1>14. node'[n].skip = node[n].skip /\ node'[n].runFlag = node[n].runFlag
  BY <1>10, <1>11 DEF FlowEffect
<1>15. ChartOf[n] \in running => container'[n] = "stack"
  BY <1>11 DEF FlowEffect
<1>16. ChartOf[n] \notin running => container'[n] = None
  <2>1. ChartOf[n] \notin running => Home' = k
    BY <1>11 DEF FlowEffect
  <2> QED BY <1>8, <2>1 DEF Home
<1>18. node'[n].status = "Idle"
  BY <1>10, <1>11 DEF FlowEffect
<1>17. In(n, "waiting")' => In(n, "waiting")
  <2>1. Has(Home', n, "waiting") => Has(Home, n, "waiting")
    BY <1>5, <1>8, <1>11, ListNames DEF FlowEffect
  <2>2. Has(Home', n, "waiting") <=> In(n, "waiting")'
    BY DEF Has, In, Home
  <2> QED BY <1>2, <1>5, <2>1, <2>2, ListNames
<1> QED BY <1>1, <1>4, <1>5, <1>12, <1>13, <1>14, <1>15, <1>16, <1>17, <1>18, <1>2 DEF DispatchEffect

LEMMA DispatchNodeStep ==
  ASSUME AsyncInvariant, DispatchNode
  PROVE  AsyncInvariant'
<1> SUFFICES ASSUME NEW n, DispatchEffect(n) PROVE AsyncInvariant'
  BY DispatchParts
<1>1. /\ n \in Node /\ Between /\ In(n, "handling") /\ flow.pc = "events"
      /\ call' = call /\ running' = running /\ nodesSet' = nodesSet
  BY DEF DispatchEffect
<1>2. /\ Agrees(Home) /\ TypeOK /\ \A m \in Node : NodeInvariant(m)
  BY <1>1, BetweenParts
<1>3. ASSUME NEW m \in Node \ {n} PROVE NodeInvariant(m)'
  <2>1. Same(Home, Home', m) /\ node'[m] = node[m]
    BY DEF DispatchEffect
  <2> QED BY <1>1, <1>2, <2>1, NodeLeft
<1>4. NodeInvariant(n)'
  <2>1. Apart => container[n] = "event"
    BY <1>1, <1>2 DEF Agrees, In, Home, Loose
  <2>2. Apart => n \notin Calling
    BY <1>1, <1>2, <2>1 DEF NodeInvariant, CallingNode
  <2>3. PendingCall(n)' /\ CallingNode(n)'
    BY <1>1, <1>2, <2>2 DEF NodeInvariant, PendingCall, CallingNode, Apart, Calling
  <2>4. Quiet(n)' /\ Linked(n)'
    BY ListNames DEF Quiet, Linked, DispatchEffect
  <2> QED BY <1>1, <1>2, <2>3, <2>4 DEF NodeInvariant, DispatchEffect
<1>5. \A m \in Node : NodeInvariant(m)'
  BY <1>3, <1>4
<1> QED BY <1>2, <1>5, StepKeeps DEF AsyncInvariant, TypeOK, DispatchEffect

-----------------------------------------------------------------------------
(* The end of a flow.                                                      *)

\* The nodes of T, those that have ended and, when nothing of the chart runs, all of
\* the chart's, are stopped.
EndEffect(T) ==
  /\ T \subseteq Node /\ Home' \in HomeSet /\ Agrees(Home)' /\ node' \in [Node -> NodeState]
  /\ \A m \in Node \ T :
       /\ Same(Home, Home', m) /\ call'[m] = call[m] /\ node'[m].skip = node[m].skip
       /\ node'[m].result = node[m].result /\ node'[m].status = node[m].status
       /\ node'[m].runFlag = node[m].runFlag \/ node'[m].runFlag = FALSE
       /\ ChartOf[m] \in running' <=> ChartOf[m] \in running
  /\ \A m \in T :
       /\ container'[m] = None /\ call'[m] = None
       /\ node'[m].status = "Idle" /\ node'[m].runFlag = FALSE
       /\ \A v \in List : m \in Sure(v) => ~ In(m, v)'
  /\ \A m \in Node, v \in List : In(m, v)' => In(m, v)
  /\ flow' = [NoFlow EXCEPT !.pc = flow.caller] /\ resumed' = <<>>
  /\ running' \subseteq running /\ debugged' \subseteq debugged
  /\ UNCHANGED <<nodesSet, breakpoints, continueFlag>>
  /\ held' \in [Contexts -> Node \cup {None}] /\ call' \in [Node -> Contexts \cup {None}]
  /\ \A x \in Contexts : held'[x] # None => held'[x] \in Calling
  /\ At("loop") /\ list["stack"] = <<>>

LEMMA FlowEndParts ==
  ASSUME AsyncInvariant, FlowEnd
  PROVE  \E T \in SUBSET Node : EndEffect(T)
<1> DEFINE c == flow.chart
           ended == {n \in flow.history : node[n].status = "EndRun"}
           reset == [n \in Node |-> IF n \in flow.history
                                    THEN [node[n] EXCEPT !.runFlag = FALSE] ELSE node[n]]
           restored == Stopped(reset, ended)
           over == ~flow.hasRunning /\ ~CheckRunning(restored, c)
           S == IF over /\ c \in running THEN NodesOf(c) ELSE {}
           T == ended \cup S
           h == Removed(Home, T)
<1>1. /\ At("loop") /\ (list["stack"] = <<>> \/ c \notin running)
      /\ node' = Stopped(restored, S) /\ Become(h) /\ CallsEnd(T)
      /\ running' = IF over THEN running \ {c} ELSE running
      /\ debugged' = IF over THEN debugged \ {c} ELSE debugged
      /\ flow' = [NoFlow EXCEPT !.pc = flow.caller] /\ resumed' = <<>>
      /\ UNCHANGED <<nodesSet, breakpoints, continueFlag>>
  BY DEF FlowEnd
<1>2. /\ Home \in HomeSet /\ Agrees(Home) /\ TypeOK /\ node \in [Node -> NodeState] /\ flow \in FlowState
      /\ \A m \in Node, v \in List : Has(Home, m, v) <=> In(m, v)
  BY HomeTyped DEF AsyncInvariant, TypeOK, Has, In, Home
<1>3. c \in running /\ list["stack"] = <<>>
  BY <1>1 DEF AsyncInvariant, FlowInvariant, InFlow, At
<1>4. /\ reset \in [Node -> NodeState]
      /\ \A m \in Node : /\ reset[m].skip = node[m].skip /\ reset[m].result = node[m].result
                         /\ reset[m].status = node[m].status
                         /\ reset[m].runFlag = node[m].runFlag \/ reset[m].runFlag = FALSE
  BY <1>2 DEF NodeState
<1> HIDE DEF reset
<1>5. StoppedFrom(reset, ended, restored)
  BY <1>4, StoppedNodes
<1>6. ended \subseteq Node
  BY <1>2 DEF FlowState
<1> HIDE DEF ended, restored
<1>7. /\ S \subseteq Node /\ \A m \in Node : m \in S <=> over /\ ChartOf[m] = c
  BY <1>3 DEF NodesOf
<1> HIDE DEF S, over
<1>8. StoppedFrom(restored, S, node')
  <2>1. restored \in [Node -> NodeState]
    BY <1>5 DEF StoppedFrom
  <2> QED BY <1>1, <2>1, StoppedNodes
<1>9. /\ node' \in [Node -> NodeState]
      /\ \A m \in Node \ T : node'[m] = reset[m]
      /\ \A m \in T : node'[m].status = "Idle" /\ node'[m].runFlag = FALSE
  BY <1>5, <1>6, <1>7, <1>8 DEF StoppedFrom
<1>10. T \subseteq Node
  BY <1>6, <1>7
<1>11. \A m \in Node \ T : ChartOf[m] \in running' <=> ChartOf[m] \in running
  BY <1>1, <1>7
<1>12. running' \subseteq running /\ debugged' \subseteq debugged
  BY <1>1
<1> HIDE DEF T
<1>13. /\ held' \in [Contexts -> Node \cup {None}] /\ call' \in [Node -> Contexts \cup {None}]
       /\ \A m \in Node \ T : call'[m] = call[m]
       /\ \A m \in Node \cap T : call'[m] = None
       /\ \A x \in Contexts : held'[x] # None => held'[x] \in Calling
  BY <1>1, <1>2, CallsEnded DEF AsyncInvariant
<1>14. /\ h \in HomeSet /\ Agrees(h)
       /\ \A m \in Node \ T : Same(Home, h, m)
       /\ \A m \in Node \cap T : h.container[m] = None
       /\ \A v \in List : \A m \in Sure(v) \cap T : ~ Has(h, m, v)
       /\ \A v \in List, m \in Node : Has(h, m, v) => Has(Home, m, v)
  BY <1>2, RemovedHome
<1> HIDE DEF h
<1>15. Home' = h /\ container' = h.container
  BY <1>1, <1>14, Became
<1>16. /\ (Agrees(Home') <=> Agrees(Home)')
       /\ \A m \in Node, v \in List : Has(Home', m, v) <=> In(m, v)'
  BY DEF Has, In, Home
<1>17. \A m \in T : \A v \in List : m \in Sure(v) => ~ In(m, v)'
  BY <1>10, <1>14, <1>15, <1>16
<1>18. \A m \in Node, v \in List : In(m, v)' => In(m, v)
  BY <1>2, <1>14, <1>15, <1>16
<1>19. \A m \in T : /\ container'[m] = None /\ call'[m] = None
                    /\ node'[m].status = "Idle" /\ node'[m].runFlag = FALSE
  BY <1>9, <1>10, <1>13, <1>14, <1>15
<1>20. \A m \in Node \ T :
       /\ Same(Home, Home', m) /\ call'[m] = call[m] /\ node'[m].skip = node[m].skip
       /\ node'[m].result = node[m].result /\ node'[m].status = node[m].status
       /\ node'[m].runFlag = node[m].runFlag \/ node'[m].runFlag = FALSE
       /\ ChartOf[m] \in running' <=> ChartOf[m] \in running
  BY <1>4, <1>9, <1>11, <1>13, <1>14, <1>15
<1> QED BY <1>1, <1>3, <1>9, <1>10, <1>12, <1>13, <1>14, <1>15, <1>16, <1>17, <1>18, <1>19, <1>20 DEF EndEffect

LEMMA FlowEndStep ==
  ASSUME AsyncInvariant, FlowEnd
  PROVE  AsyncInvariant'
<1>1. PICK T \in SUBSET Node : EndEffect(T)
  BY FlowEndParts
<1>2. /\ TypeOK /\ Agrees(Home) /\ flow \in FlowState /\ flow.pc = "loop" /\ Stage = flow.caller
      /\ \A m \in Node : NodeInvariant(m)
  BY <1>1 DEF AsyncInvariant, TypeOK, EndEffect, Stage, InFlow, At
<1>3. /\ flow' \in FlowState /\ flow'.pc = flow.caller /\ flow.caller \in {"idle", "async", "events"}
  BY <1>1, <1>2 DEF EndEffect, FlowState, NoFlow
<1>4. ~ InFlow' /\ Stage' = Stage
  BY <1>2, <1>3 DEF InFlow, Stage
<1>5. FlowInvariant'
  <2>1. Home'.list = list' /\ Home' \in HomeSet
    BY <1>1 DEF Home, EndEffect
  <2>2. list'["stack"] \in Seq(Node) /\ list'["handling"] \in Seq(Node)
    BY <2>1, HomeParts, ListNames
  <2>3. list'["stack"] = <<>>
    <3>1. \A m \in Node : ~ In(m, "stack")'
      BY <1>1, ListNames DEF EndEffect, In, Elements
    <3> QED BY <2>2, <3>1, EmptyList DEF In
  <2>4. Stage' # "events" => list'["handling"] = <<>>
    <3> SUFFICES ASSUME Stage' # "events" PROVE list'["handling"] = <<>>
      OBVIOUS
    <3>1. list["handling"] = <<>>
      BY <1>4 DEF AsyncInvariant, FlowInvariant
    <3>2. \A m \in Node : ~ In(m, "handling")'
      BY <1>1, <3>1, ListNames DEF EndEffect, In, Elements
    <3> QED BY <2>2, <3>2, EmptyList DEF In
  <2> QED BY <1>1, <1>4, <2>3, <2>4 DEF FlowInvariant, InFlow, InFunction, At, EndEffect
<1>6. ASSUME NEW m \in Node PROVE NodeInvariant(m)'
  <2>0. NodeInvariant(m) /\ (In(m, "waiting")' => In(m, "waiting")) /\ nodesSet' = nodesSet
    BY <1>1, <1>2, ListNames DEF EndEffect
  <2>1. CASE m \in T
    <3>1. /\ container'[m] = None /\ call'[m] = None
          /\ node'[m].status = "Idle" /\ node'[m].runFlag = FALSE
      BY <1>1, <2>1 DEF EndEffect
    <3>2. Quiet(m)' /\ Linked(m)'
      BY <3>1, ListNames DEF Quiet, Linked
    <3>3. Spared(m)
      BY <2>0, <3>1, <3>2 DEF Spared
    <3> QED BY <2>0, <3>3, NodeSpared
  <2>2. CASE m \notin T
    <3>1. /\ Same(Home, Home', m) /\ call'[m] = call[m] /\ node'[m].skip = node[m].skip
          /\ node'[m].result = node[m].result /\ node'[m].status = node[m].status
          /\ node'[m].runFlag = node[m].runFlag \/ node'[m].runFlag = FALSE
          /\ ChartOf[m] \in running' <=> ChartOf[m] \in running
      BY <1>1, <2>2 DEF EndEffect
    <3> QED BY <1>2, <2>0, <3>1, NodeLeft
  <2> QED BY <2>1, <2>2
<1> QED BY <1>1, <1>2, <1>3, <1>5, <1>6, StepKeeps DEF AsyncInvariant, TypeOK, EndEffect

-----------------------------------------------------------------------------
(* The invariant.                                                          *)

LEMMA InitHolds ==
  ASSUME Init
  PROVE  AsyncInvariant
<1>1. /\ node = [n \in Node |-> FreshNode] /\ list = [w \in List |-> <<>>] /\ container = [n \in Node |-> None]
      /\ nodesSet = {} /\ running = {} /\ debugged = {} /\ breakpoints = {} /\ continueFlag = {}
      /\ flow = NoFlow /\ held = [x \in Contexts |-> None] /\ call = [n \in Node |-> None] /\ resumed = <<>>
  BY DEF Init
<1>2. FreshNode \in NodeState /\ FreshNode.status = "Idle" /\ FreshNode.runFlag = FALSE
  BY DEF FreshNode, NodeState, Result
<1>3. NoFlow \in FlowState /\ NoFlow.pc = "idle"
  BY DEF NoFlow, FlowState
<1>4. TypeOK
  BY <1>1, <1>2, <1>3 DEF TypeOK
<1>5. \A w \in List : list[w] = <<>> /\ Elements(list[w]) = {}
  BY <1>1 DEF Elements
<1>6. \A n \in Node : ~ In(n, "waiting") /\ ~ In(n, "active")
  BY <1>5, ListNames DEF In
<1>7. Agrees(Home)
  <2>1. \A w \in List : \A n \in Sure(w) : container[n] = None /\ n \notin Elements(list[w])
    BY <1>1, <1>5 DEF Sure
  <2>2. \A n \in Node \ Loose : n \notin Elements(list["event"]) /\ n \notin Elements(list["handling"]) /\ container[n] = None
    BY <1>1, <1>5, ListNames
  <2>3. \A w \in List : Once(list[w], Sure(w))
    BY <1>5 DEF Once
  <2>4. Home.list = list /\ Home.container = container
    BY DEF Home
  <2>5. \A w \in List : w # None
    BY ListNames
  <2>6. \A n \in Node : container[n] # "stack"
    BY <1>1, <2>5, ListNames
  <2> QED BY <2>1, <2>2, <2>3, <2>4, <2>5, <2>6, ListNames DEF Agrees
<1>8. FlowInvariant
  BY <1>1, <1>3, <1>5, ListNames DEF FlowInvariant, InFlow, InFunction, At
<1>9. ASSUME NEW n \in Node PROVE NodeInvariant(n)
  <2>1. call[n] = None /\ node[n].status # "Running" /\ container[n] = None /\ ~ node[n].runFlag
    BY <1>1, <1>2
  <2> QED BY <1>6, <2>1, ListNames DEF NodeInvariant, PendingCall, CallingNode, Quiet, Linked
<1>10. \A x \in Contexts : held[x] # None => held[x] \in Calling
  BY <1>1
<1> QED BY <1>1, <1>4, <1>7, <1>8, <1>9, <1>10 DEF AsyncInvariant

LEMMA StutterHolds ==
  ASSUME AsyncInvariant, UNCHANGED vars
  PROVE  AsyncInvariant'
<1>1. /\ UNCHANGED <<node, list, container, nodesSet, running, debugged, breakpoints, continueFlag>>
      /\ UNCHANGED <<flow, held, call, resumed>>
  BY DEF vars, lists, control, calls
<1>2. Home' = Home /\ Agrees(Home)' /\ Home' \in HomeSet
  <2>1. Home' = Home /\ (Agrees(Home') <=> Agrees(Home)')
    BY <1>1 DEF Home
  <2> QED BY <2>1, HomeTyped DEF AsyncInvariant
<1>3. FlowInvariant'
  BY <1>1 DEF AsyncInvariant, FlowInvariant, InFlow, InFunction, InGame, Stage, At
<1>4. ASSUME NEW m \in Node PROVE NodeInvariant(m)'
  <2>1. Same(Home, Home', m) /\ NodeInvariant(m)
    BY <1>2 DEF Same, AsyncInvariant
  <2> QED BY <1>1, <2>1, NodeLeft
<1> QED BY <1>1, <1>2, <1>3, <1>4, StepKeeps DEF AsyncInvariant, TypeOK

LEMMA EveryStep ==
  ASSUME AsyncInvariant, [Next]_vars
  PROVE  AsyncInvariant'
<1>1. CASE Game
  <2>1. ASSUME NEW c \in Chart, Start(c) \/ Stop(c) PROVE AsyncInvariant'
    BY <2>1, StartStep, StopStep
  <2>2. ASSUME NEW x \in Contexts, NEW r \in Results, Continue(x, r) PROVE AsyncInvariant'
    BY <2>2, ContinueStep
  <2>3. ASSUME NEW x \in Contexts, NEW stop \in Cancels, Cancel(x, stop) PROVE AsyncInvariant'
    BY <2>3, CancelStep
  <2>4. CASE \E x \in Contexts : Forget(x)
    BY <2>4, BookkeepingStep
  <2>5. CASE BeginStep
    BY <2>5, PassingStep
  <2> QED BY <1>1, <2>1, <2>2, <2>3, <2>4, <2>5 DEF Game
<1>2. CASE Debugger
  <2>1. ASSUME NEW c \in Chart, ContinueChart(c) PROVE AsyncInvariant'
    BY <2>1, ContinueChartStep
  <2>2. ASSUME NEW d \in NodeData, DeleteBreakpoint(d) PROVE AsyncInvariant'
    BY <2>2, DeleteBreakpointStep
  <2>3. CASE (\E c \in Chart : DebugChart(c)) \/ (\E d \in NodeData : SetBreakpoint(d))
    BY <2>3, BookkeepingStep
  <2> QED BY <1>2, <2>1, <2>2, <2>3 DEF Debugger
<1>3. CASE Runtime
  <2>1. ASSUME NEW r \in Results, Returns(r) PROVE AsyncInvariant'
    BY <2>1, ReturnsStep
  <2>2. CASE EndDebug \/ EndStep
    BY <2>2, PassingStep
  <2>3. CASE AsyncStep \/ EndAsync \/ DispatchNode \/ FlowEnd
    BY <2>3, AsyncStepStep, EndAsyncStep, DispatchNodeStep, FlowEndStep
  <2>4. CASE SkipRunning \/ WaitTick \/ RunSkipped \/ HoldAtBreakpoint
    BY <2>4, SkipRunningStep, WaitTickStep, RunSkippedStep, HoldStep
  <2>5. CASE CallFunc \/ CallSuspend \/ CallEcho \/ CallGame \/ CallWaitEvent \/ CallStop
    BY <2>5, CallFuncStep, CallSuspendStep, CallEchoStep, CallGameStep, CallWaitEventStep, CallStopStep
  <2> QED BY <1>3, <2>1, <2>2, <2>3, <2>4, <2>5 DEF Runtime
<1>4. CASE UNCHANGED vars
  BY <1>4, StutterHolds
<1> QED BY <1>1, <1>2, <1>3, <1>4 DEF Next

-----------------------------------------------------------------------------
(* What a step is to a node.                                               *)

\* It leaves the node, its call and its answer alone;
Untouched(m) ==
  /\ container'[m] = container[m] /\ call'[m] = call[m]
  /\ node'[m].skip = node[m].skip /\ node'[m].result = node[m].result

\* the node is neither suspended nor answered after it, but for a call it has had before.
Dropped(m) == container'[m] \notin {"waiting", "active"} /\ call'[m] \in {call[m], None}

\* It pops the node, which another path has pushed.
Unstacked(m) == container[m] = "stack" /\ container'[m] = None /\ call'[m] = call[m]

\* A step that neither suspends, nor answers, nor resumes a node;
Passive ==
  /\ \A m \in Node : Untouched(m) \/ Dropped(m)
  /\ resumed' \in {resumed, <<>>}

\* one that suspends n;
Suspends(n) ==
  /\ container[n] \notin {"waiting", "active"} /\ container'[n] = "waiting"
  /\ \A m \in Node \ {n} : Untouched(m) \/ Unstacked(m)
  /\ resumed' = resumed

\* one that answers the nodes of S with a.
Replies(S, a) ==
  /\ \A m \in S : /\ container[m] # "active" /\ container'[m] = "active"
                  /\ container[m] = "waiting" \/ call[m] # None
                  /\ IF a = "call" THEN ~ node'[m].skip ELSE node'[m].skip /\ node'[m].result = a
  /\ \A m \in Node \ S : Untouched(m)
  /\ resumed' = resumed

Classified ==
  \/ Passive
  \/ \E n \in Node : Suspends(n)
  \/ \E S \in SUBSET Node, a \in Answers : Replies(S, a)
  \/ \E n \in Node : ResumeEffect(n)

\* The nodes of a careful game whose debugger leaves nodes that suspend alone.
LEMMA Settled ==
  ASSUME Careful, Apart
  PROVE  /\ Steady = Node /\ Loose = {}
         /\ \A w \in List \ {"stack"} : Sure(w) = Node
BY DEF Steady, Loose, Sure

\* A node that is where it was and the same.
LEMMA SameUntouched ==
  ASSUME NEW m \in Node, Same(Home, Home', m), call'[m] = call[m],
         node'[m].skip = node[m].skip, node'[m].result = node[m].result
  PROVE  Untouched(m)
BY DEF Same, Home, Untouched

\* What running n is to the nodes.
LEMMA RunPassive ==
  ASSUME AsyncInvariant, NEW n, Runner(n), NEW h \in HomeSet, Agrees(h),
         NEW nodes \in [Node -> NodeState], AfterRun(n, h, nodes), resumed' = resumed,
         h.container[n] \notin {"waiting", "active"}, call'[n] \in {call[n], None},
         \A m \in Node \ {n} :
           \/ Same(Home, h, m) /\ nodes[m] = node[m] /\ call'[m] = call[m]
           \/ h.container[m] = None /\ call'[m] = None
  PROVE  Passive
<1>1. n \in Node /\ flow \in FlowState
  BY RunnerParts
<1> DEFINE S == Successors(n, nodes)
<1>2. RunEffect(n, h, nodes, S)
  BY <1>1, AfterRunParts
<1> HIDE DEF S
<1>3. {"stack", None} \cap {"waiting", "active"} = {}
  BY ListNames DEF List
<1>4. Dropped(n)
  <2>1. n \in S => container'[n] = "stack"
    BY <1>1, <1>2 DEF RunEffect
  <2>2. n \notin S => container'[n] \in {h.container[n], None}
    BY <1>1, <1>2 DEF RunEffect, Stays, Home
  <2> QED BY <1>3, <2>1, <2>2 DEF Dropped
<1>5. ASSUME NEW m \in Node \ {n} PROVE Untouched(m) \/ Dropped(m)
  <2>1. CASE m \in S
    <3>1. container'[m] = "stack"
      BY <1>2, <2>1 DEF RunEffect
    <3> QED BY <3>1 DEF Dropped
  <2>2. CASE m \notin S
    <3>1. container'[m] \in {h.container[m], None} /\ node'[m] = nodes[m]
      BY <1>2, <2>2 DEF RunEffect, Stays, Home
    <3>2. CASE Same(Home, h, m) /\ nodes[m] = node[m] /\ call'[m] = call[m]
      <4>1. container'[m] \in {container[m], None}
        BY <3>1, <3>2 DEF Same, Home
      <4> QED BY <1>3, <3>1, <3>2, <4>1 DEF Untouched, Dropped
    <3>3. CASE h.container[m] = None /\ call'[m] = None
      <4>1. container'[m] = None
        BY <3>1, <3>3
      <4> QED BY <1>3, <3>3, <4>1 DEF Dropped
    <3> QED BY <3>2, <3>3
  <2> QED BY <2>1, <2>2
<1> QED BY <1>4, <1>5 DEF Passive

\* The node that runs is suspended.
LEMMA RunSuspends ==
  ASSUME AsyncInvariant, Careful, Apart, NEW n, Visit(n), NEW nodes \in [Node -> NodeState],
         AfterRun(n, Pushed(Home, "waiting", n), nodes), resumed' = resumed, nodes[n].status = "Running",
         \A m \in Node \ {n} : nodes[m] = node[m] /\ call'[m] = call[m]
  PROVE  n \in Node /\ Suspends(n)
<1>1. /\ n \in Node /\ flow \in FlowState /\ Home \in HomeSet /\ Agrees(Home)
      /\ container[n] \notin {"waiting", "active"}
  BY VisitParts, VisitFree, Settled DEF AsyncInvariant, TypeOK
<1> DEFINE h == Pushed(Home, "waiting", n)
           S == Successors(n, nodes)
<1>2. h \in HomeSet /\ Agrees(h) /\ h.container[n] = "waiting" /\ \A m \in Node \ {n} : Same(Home, h, m)
  <2>1. "waiting" \in PushLists
    BY DEF PushLists, List
  <2> QED BY <1>1, <2>1, PushedHome
<1> HIDE DEF h
<1>3. RunEffect(n, h, nodes, S)
  BY <1>1, <1>2, AfterRunParts DEF h
<1>4. S = {}
  BY DEF Successors
<1> HIDE DEF S
<1>5. container'[n] = "waiting"
  BY <1>1, <1>2, <1>3, <1>4 DEF RunEffect, Stays, Home
<1>6. ASSUME NEW m \in Node \ {n} PROVE Untouched(m) \/ Unstacked(m)
  <2>1. Stays(h, Home', m) /\ node'[m] = nodes[m] /\ Same(Home, h, m)
    BY <1>2, <1>3, <1>4 DEF RunEffect
  <2>2. container'[m] = container[m] \/ (container[m] = "stack" /\ container'[m] = None)
    BY <2>1 DEF Stays, Same, Home
  <2> QED BY <2>1, <2>2 DEF Untouched, Unstacked
<1> QED BY <1>1, <1>5, <1>6 DEF Suspends

\* The functions and breakpoints.
LEMMA RunClassified ==
  ASSUME AsyncInvariant, Careful, Apart,
         RunSkipped \/ HoldAtBreakpoint \/ CallFunc \/ CallSuspend \/ CallWaitEvent \/ CallStop
  PROVE  Classified
<1>0. TypeOK
  BY DEF AsyncInvariant
<1>1. ASSUME NEW n \in Node, Visit(n)
      PROVE  /\ Home \in HomeSet /\ Agrees(Home) /\ Home.container = container
             /\ container[n] \notin {"waiting", "active"} /\ Runner(n)
             /\ node \in [Node -> NodeState] /\ node[n].skip \in BOOLEAN
             /\ \A m \in Node : Same(Home, Home, m)
  BY <1>0, <1>1, VisitParts, VisitFree, Settled, HomeTyped DEF TypeOK, NodeState, Same
<1>2. CASE RunSkipped
  <2>1. PICK n \in Node : Visit(n) /\ AfterRun(n, Home, [node EXCEPT ![n].skip = FALSE])
                          /\ call' = call /\ resumed' = resumed
    BY <1>2 DEF RunSkipped, calls
  <2> DEFINE nodes == [node EXCEPT ![n].skip = FALSE]
  <2>2. nodes \in [Node -> NodeState] /\ \A m \in Node \ {n} : nodes[m] = node[m]
    BY <1>1, <2>1 DEF NodeState
  <2>3. AfterRun(n, Home, nodes)
    BY <2>1
  <2> HIDE DEF nodes
  <2> QED BY <1>1, <2>1, <2>2, <2>3, RunPassive DEF Classified
<1>3. CASE HoldAtBreakpoint
  <2>1. PICK n \in Node :
          /\ Visit(n) /\ call' = call /\ resumed' = resumed
          /\ AfterRun(n, Pushed(Home, "waiting", n),
                      [Entered(n) EXCEPT ![n].status = "Running", ![n].result = "rTRUE"])
    BY <1>3 DEF HoldAtBreakpoint, calls
  <2> DEFINE nodes == [Entered(n) EXCEPT ![n].status = "Running", ![n].result = "rTRUE"]
  <2>2. nodes \in [Node -> NodeState] /\ (\A m \in Node \ {n} : nodes[m] = node[m]) /\ nodes[n].status = "Running"
    BY <1>0, ResultNames, SuspendedNode DEF CalledAs
  <2>3. AfterRun(n, Pushed(Home, "waiting", n), nodes)
    BY <2>1
  <2> HIDE DEF nodes
  <2> QED BY <2>1, <2>2, <2>3, RunSuspends DEF Classified
<1>4. CASE CallFunc
  <2>1. PICK n \in Node, r \in Results :
          Visit(n) /\ AfterRun(n, Home, [Entered(n) EXCEPT ![n].result = r]) /\ call' = call /\ resumed' = resumed
    BY <1>4 DEF CallFunc, CallsFunction, calls
  <2> DEFINE nodes == [Entered(n) EXCEPT ![n].result = r]
  <2>2. nodes \in [Node -> NodeState] /\ \A m \in Node \ {n} : nodes[m] = node[m]
    <3>1. r \in Result
      BY ResultNames
    <3> QED BY <1>0, <3>1, ReturnedNode DEF CalledAs
  <2>3. AfterRun(n, Home, nodes)
    BY <2>1
  <2> HIDE DEF nodes
  <2> QED BY <1>1, <2>1, <2>2, <2>3, RunPassive DEF Classified
<1>5. CASE CallSuspend
  <2>1. PICK n \in Node, r \in Results, x \in Unused :
          /\ Visit(n) /\ call' = [call EXCEPT ![n] = x] /\ resumed' = resumed
          /\ AfterRun(n, Pushed(Home, "waiting", n),
                      [Entered(n) EXCEPT ![n].status = "Running", ![n].result = r])
    BY <1>5 DEF CallSuspend, CallsFunction
  <2> DEFINE nodes == [Entered(n) EXCEPT ![n].status = "Running", ![n].result = r]
  <2>2. nodes \in [Node -> NodeState] /\ (\A m \in Node \ {n} : nodes[m] = node[m]) /\ nodes[n].status = "Running"
    <3>1. r \in Result
      BY ResultNames
    <3> QED BY <1>0, <3>1, SuspendedNode DEF CalledAs
  <2>3. AfterRun(n, Pushed(Home, "waiting", n), nodes)
    BY <2>1
  <2> HIDE DEF nodes
  <2>4. \A m \in Node \ {n} : call'[m] = call[m]
    BY <1>0, <2>1 DEF TypeOK
  <2> QED BY <2>1, <2>2, <2>3, <2>4, RunSuspends DEF Classified
<1>6. CASE CallWaitEvent
  <2>1. PICK n \in Node :
          /\ Visit(n) /\ call' = call /\ resumed' = resumed
          /\ AfterRun(n, Pushed(Home, "event", n),
                      [Entered(n) EXCEPT ![n].status = "Running", ![n].skip = TRUE, ![n].result = "rTRUE"])
    BY <1>6 DEF CallWaitEvent, CallsFunction, calls
  <2> DEFINE nodes == [Entered(n) EXCEPT ![n].status = "Running", ![n].skip = TRUE, ![n].result = "rTRUE"]
             h == Pushed(Home, "event", n)
  <2>2. /\ h \in HomeSet /\ Agrees(h) /\ h.container[n] = "event" /\ \A m \in Node \ {n} : Same(Home, h, m)
    <3>1. "event" \in PushLists
      BY DEF PushLists, List
    <3> QED BY <1>1, <2>1, <3>1, PushedHome
  <2>3. nodes \in [Node -> NodeState] /\ \A m \in Node \ {n} : nodes[m] = node[m]
    BY <1>0, ResultNames, AnsweredNode DEF CalledAs
  <2>4. AfterRun(n, h, nodes)
    BY <2>1
  <2> HIDE DEF nodes, h
  <2>5. h.container[n] \notin {"waiting", "active"}
    BY <2>2
  <2> QED BY <1>1, <2>1, <2>2, <2>3, <2>4, <2>5, RunPassive DEF Classified
<1>7. CASE CallStop
  <2>1. PICK n \in Node :
          /\ CallsFunction(n, "stop")
          /\ LET S == Target[n]
                 nodes == Stopped(Entered(n), S)
             IN  AfterRun(n, Removed(Home, S), IF n \in S THEN nodes ELSE [nodes EXCEPT ![n].result = "rTRUE"])
          /\ CallsEnd(Target[n])
    BY <1>7 DEF CallStop
  <2> DEFINE S == Target[n]
             e == Entered(n)
             j == Stopped(e, S)
             nodes == IF n \in S THEN j ELSE [j EXCEPT ![n].result = "rTRUE"]
             h == Removed(Home, S)
  <2>2. Visit(n) /\ resumed' = resumed /\ CallsEnd(S)
    BY <2>1 DEF CallsFunction
  <2>3. e \in [Node -> NodeState] /\ \A m \in Node \ {n} : e[m] = node[m]
    BY <1>0, EnteredNode DEF CalledAs
  <2>4. AfterRun(n, h, nodes)
    BY <2>1
  <2> HIDE DEF S, e
  <2>5. j \in [Node -> NodeState] /\ \A m \in Node \ S : j[m] = e[m]
    BY <2>3, StoppedNodes DEF StoppedFrom
  <2> HIDE DEF j
  <2>6. nodes \in [Node -> NodeState] /\ \A m \in Node \ {n} : nodes[m] = j[m]
    BY <2>5, ResultNames DEF NodeState
  <2>7. /\ h \in HomeSet /\ Agrees(h)
        /\ \A m \in Node \ S : Same(Home, h, m)
        /\ \A m \in Node \cap S : h.container[m] = None
    BY <1>1, <2>2, RemovedHome
  <2> HIDE DEF nodes, h
  <2>8. /\ \A m \in Node \ S : call'[m] = call[m]
        /\ \A m \in Node \cap S : call'[m] = None
    BY <2>2 DEF CallsEnd
  <2>9. h.container[n] \notin {"waiting", "active"} /\ call'[n] \in {call[n], None} /\ Runner(n)
    BY <1>1, <2>2, <2>7, <2>8, ListNames DEF Same, List
  <2>10. ASSUME NEW m \in Node \ {n}
         PROVE  \/ Same(Home, h, m) /\ nodes[m] = node[m] /\ call'[m] = call[m]
                \/ h.container[m] = None /\ call'[m] = None
    BY <2>3, <2>5, <2>6, <2>7, <2>8
  <2> QED BY <2>2, <2>4, <2>6, <2>7, <2>9, <2>10, RunPassive DEF Classified
<1> QED BY <1>2, <1>3, <1>4, <1>5, <1>6, <1>7

\* The game: starting, stopping and calling back.
LEMMA StartClassified ==
  ASSUME AsyncInvariant, NEW c \in Chart, Start(c)
  PROVE  Passive
<1>0. StartNode[c] \in Node /\ ChartOf[StartNode[c]] = c
  BY AsyncAssumption
<1> SUFFICES ASSUME NEW s \in Node, s = StartNode[c], ChartOf[s] = c PROVE Passive
  BY <1>0
<1> DEFINE nodes == [node EXCEPT ![s].skip = TRUE, ![s].result = "rTRUE"]
           h == Pushed(Home, "stack", s)
<1>1. /\ flow.pc = "idle" /\ running' = running \cup {c} /\ call' = call /\ resumed' = resumed
      /\ RunFlow(s, Home, nodes, running', "idle")
  BY DEF Start, Idle, At, calls
<1>2. Between
  BY <1>1 DEF Between
<1>3. Home \in HomeSet /\ Agrees(Home) /\ node \in [Node -> NodeState] /\ Home.list["stack"] = <<>>
  BY <1>2, BetweenParts
<1>4. [Home EXCEPT !.list["stack"] = <<>>] = Home
  <2>1. Home.list = [Home.list EXCEPT !["stack"] = <<>>]
    BY <1>3, HomeParts
  <2> QED BY <2>1 DEF Home
<1>5. Become(h) /\ node' = [nodes EXCEPT ![s].status = "Idle"]
  BY <1>1, <1>4 DEF RunFlow
<1>6. h \in HomeSet /\ h.container[s] = "stack" /\ \A m \in Node \ {s} : Same(Home, h, m)
  <2>1. "stack" \in PushLists
    BY DEF PushLists, List
  <2> QED BY <1>3, <2>1, PushedHome
<1> HIDE DEF h
<1>7. Home' = h /\ container' = h.container
  BY <1>5, <1>6, Became
<1>8. \A m \in Node \ {s} : node'[m] = node[m]
  <2>1. \A m \in Node \ {s} : nodes[m] = node[m]
    BY <1>3
  <2>2. \A m \in Node : m \in DOMAIN nodes
    BY <1>3
  <2> HIDE DEF nodes
  <2> QED BY <1>5, <2>1, <2>2
<1>9. Dropped(s)
  BY <1>1, <1>6, <1>7 DEF Dropped
<1>10. ASSUME NEW m \in Node \ {s} PROVE Untouched(m)
  BY <1>1, <1>6, <1>7, <1>8, SameUntouched
<1> QED BY <1>1, <1>9, <1>10 DEF Passive

LEMMA StopClassified ==
  ASSUME AsyncInvariant, NEW c \in Chart, Stop(c)
  PROVE  Passive
<1> DEFINE S == NodesOf(c)
           h == Removed(Home, S)
<1>1. /\ node' = Stopped(node, S) /\ Become(h) /\ CallsEnd(S) /\ resumed' = resumed
  BY DEF Stop
<1>2. Home \in HomeSet /\ Agrees(Home) /\ node \in [Node -> NodeState]
  BY HomeTyped DEF AsyncInvariant, TypeOK
<1> HIDE DEF S
<1>3. /\ h \in HomeSet
      /\ \A m \in Node \ S : Same(Home, h, m)
      /\ \A m \in Node \cap S : h.container[m] = None
  BY <1>2, RemovedHome
<1> HIDE DEF h
<1>4. Home' = h /\ container' = h.container
  BY <1>1, <1>3, Became
<1>5. StoppedFrom(node, S, node')
  BY <1>1, <1>2, StoppedNodes
<1>6. /\ \A m \in Node \ S : call'[m] = call[m]
      /\ \A m \in Node \cap S : call'[m] = None
  BY <1>1 DEF CallsEnd
<1>7. ASSUME NEW m \in Node PROVE Untouched(m) \/ Dropped(m)
  <2>1. CASE m \in S
    <3>1. container'[m] = None /\ call'[m] = None
      BY <1>3, <1>4, <1>6, <2>1
    <3> QED BY <3>1, ListNames DEF Dropped, List
  <2>2. CASE m \notin S
    BY <1>3, <1>4, <1>5, <1>6, <2>2, SameUntouched DEF StoppedFrom
  <2> QED BY <2>1, <2>2
<1> QED BY <1>1, <1>7 DEF Passive

LEMMA NodeAnswered ==
  ASSUME NEW nodes \in [Node -> NodeState], NEW n \in Node, NEW r \in Result,
         NEW k, k = [nodes EXCEPT ![n].skip = TRUE, ![n].result = r]
  PROVE  k[n].skip = TRUE /\ k[n].result = r /\ \A m \in Node \ {n} : k[m] = nodes[m]
<1> DEFINE j == [nodes EXCEPT ![n].skip = TRUE]
<1>1. k = [j EXCEPT ![n].result = r]
  BY DEF NodeState
<1>2. j \in [Node -> NodeState] /\ j[n] = [nodes[n] EXCEPT !.skip = TRUE] /\ \A m \in Node \ {n} : j[m] = nodes[m]
  BY DEF NodeState
<1> HIDE DEF j
<1>3. k[n] = [j[n] EXCEPT !.result = r] /\ \A m \in Node \ {n} : k[m] = j[m]
  BY <1>1, <1>2
<1> HIDE DEF j
<1> QED BY <1>2, <1>3 DEF NodeState

LEMMA CallbackClassified ==
  ASSUME AsyncInvariant, Careful, Apart, NEW x \in Contexts, Uses(x),
         NEW n, n = held[x], n \in nodesSet, CallsEnd({n}), resumed' = resumed,
         NEW r \in Results \cup {"rFALSE"},
         \/ Become(TakenOff(Home, n)) /\ node' = node
         \/ /\ Become(Activated(TakenOff(Home, n), n))
            /\ node' = [node EXCEPT ![n].skip = TRUE, ![n].result = r]
  PROVE  Classified
<1>1. n \in Node /\ n \in Calling /\ call[n] # None
  BY UsesParts
<1>2. /\ call'[n] = None /\ \A m \in Node \ {n} : call'[m] = call[m]
  BY <1>1 DEF CallsEnd
<1>3. node \in [Node -> NodeState]
  BY DEF AsyncInvariant, TypeOK
<1>4. ASSUME Become(TakenOff(Home, n)) /\ node' = node PROVE Classified
  <2>1. CallbackEffect(n, None)
    BY <1>1, <1>4, CallbackParts
  <2>2. Dropped(n)
    BY <1>2, <2>1, ListNames DEF CallbackEffect, Dropped, List
  <2>3. \A m \in Node \ {n} : Untouched(m)
    BY <1>2, <1>4, <2>1, SameUntouched DEF CallbackEffect
  <2> QED BY <2>2, <2>3 DEF Classified, Passive
<1>5. ASSUME Become(Activated(TakenOff(Home, n), n)),
             node' = [node EXCEPT ![n].skip = TRUE, ![n].result = r]
      PROVE  Classified
  <2>1. CallbackEffect(n, "active")
    BY <1>1, <1>5, CallbackParts
  <2>2. /\ node'[n].skip = TRUE /\ node'[n].result = r /\ \A m \in Node \ {n} : node'[m] = node[m]
    <3>1. r \in Result
      BY ResultNames
    <3> QED BY <1>1, <1>3, <1>5, <3>1, NodeAnswered
  <2>3. container[n] # "active"
    BY <1>1, ListNames DEF AsyncInvariant, NodeInvariant, PendingCall, List
  <2>4. r \in Answers /\ r # "call"
    BY AsyncAssumption DEF Answers
  <2>5. \A m \in Node \ {n} : Untouched(m)
    BY <1>2, <2>1, <2>2, SameUntouched DEF CallbackEffect
  <2>6. Replies({n}, r)
    BY <1>1, <2>1, <2>2, <2>3, <2>4, <2>5 DEF Replies, CallbackEffect
  <2> QED BY <1>1, <2>4, <2>6 DEF Classified
<1> QED BY <1>4, <1>5

\* The debugger continues nodes.
LEMMA ActivateClassified ==
  ASSUME AsyncInvariant, Careful, Apart, NEW S \in SUBSET Node, NEW s \in Walked(S), ActivateAll(s), resumed' = resumed
  PROVE  Classified
<1>1. s \in Seq(Node) /\ \A m \in Elements(s) : m \in Node /\ In(m, "waiting")
  BY WalkedParts DEF AsyncInvariant
<1>2. ActivateEffect(s)
  BY <1>1, ActivateParts
<1> DEFINE T == Elements(s)
<1>3. \A m \in T : container[m] = "waiting"
  BY <1>1, Settled, ListNames DEF AsyncInvariant, Agrees, In, Home, List
<1>4. \A m \in T : container'[m] = "active" /\ node'[m] = [node[m] EXCEPT !.skip = FALSE]
  BY <1>2 DEF ActivateEffect
<1>5. \A m \in T : ~ node'[m].skip
  <2>1. node \in [Node -> NodeState]
    BY DEF AsyncInvariant, TypeOK
  <2>2. \A m \in Node : ~ [node[m] EXCEPT !.skip = FALSE].skip
    BY <2>1 DEF NodeState
  <2> QED BY <1>1, <1>4, <2>2
<1>6. ASSUME NEW m \in Node \ T PROVE Untouched(m)
  <2>1. Same(Home, Home', m) /\ node'[m] = node[m] /\ call' = call
    BY <1>2 DEF ActivateEffect
  <2> QED BY <2>1, SameUntouched
<1>7. Replies(T, "call")
  BY <1>3, <1>4, <1>5, <1>6 DEF Replies
<1>8. T \in SUBSET Node /\ "call" \in Answers
  BY <1>1 DEF Answers
<1> QED BY <1>7, <1>8 DEF Classified

\* The rest of Manager::Step and of a flow.
LEMMA DispatchClassified ==
  ASSUME AsyncInvariant, DispatchNode
  PROVE  Passive
<1> SUFFICES ASSUME NEW n, DispatchEffect(n) PROVE Passive
  BY DispatchParts
<1>1. n \in Node /\ call' = call /\ resumed' = resumed
  BY DEF DispatchEffect
<1>2. container'[n] \in {"stack", None}
  BY DEF DispatchEffect
<1>3. Dropped(n)
  BY <1>1, <1>2, ListNames DEF Dropped, List
<1>4. ASSUME NEW m \in Node \ {n} PROVE Untouched(m)
  BY <1>1, SameUntouched DEF DispatchEffect
<1> QED BY <1>1, <1>3, <1>4 DEF Passive

LEMMA FlowEndClassified ==
  ASSUME AsyncInvariant, FlowEnd
  PROVE  Passive
<1>1. PICK T \in SUBSET Node : EndEffect(T)
  BY FlowEndParts
<1>2. ASSUME NEW m \in T PROVE Dropped(m)
  BY <1>1, ListNames DEF EndEffect, Dropped, List
<1>3. ASSUME NEW m \in Node \ T PROVE Untouched(m)
  BY <1>1, SameUntouched DEF EndEffect
<1>4. resumed' = <<>>
  BY <1>1 DEF EndEffect
<1> QED BY <1>2, <1>3, <1>4 DEF Passive

LEMMA LoopClassified ==
  ASSUME AsyncInvariant, SkipRunning \/ WaitTick
  PROVE  Passive
<1> SUFFICES ASSUME NEW n, n = Top PROVE Passive
  OBVIOUS
<1>0. /\ n \in Node /\ list["stack"] # <<>> /\ n = Last(list["stack"])
      /\ Home \in HomeSet /\ Agrees(Home) /\ Home.list = list /\ Home.container = container
      /\ node \in [Node -> NodeState]
  BY TopParts, HomeTyped DEF SkipRunning, WaitTick, AsyncInvariant, TypeOK, Top
<1>1. CASE SkipRunning
  <2> DEFINE h == PoppedOff(Home)
  <2>1. Become(h) /\ node' = node /\ call' = call /\ resumed' = resumed
    BY <1>1 DEF SkipRunning, calls
  <2>2. /\ h \in HomeSet /\ h.container[n] \in {container[n], None}
        /\ \A m \in Node \ {n} : Same(Home, h, m)
    BY <1>0, TopHome
  <2> HIDE DEF h
  <2>3. Home' = h /\ container' = h.container
    BY <2>1, <2>2, Became
  <2>4. Untouched(n) \/ Dropped(n)
    BY <1>0, <2>1, <2>2, <2>3, ListNames DEF Untouched, Dropped, List
  <2>5. \A m \in Node \ {n} : Untouched(m)
    BY <1>0, <2>1, <2>2, <2>3, SameUntouched
  <2> QED BY <2>1, <2>4, <2>5 DEF Passive
<1>2. CASE WaitTick
  <2> DEFINE h == Pushed(Home, "event", n)
  <2>1. /\ Become(h) /\ node' = [node EXCEPT ![n].status = "Running"]
        /\ call' = call /\ resumed' = resumed
    BY <1>2 DEF WaitTick, calls
  <2>2. h \in HomeSet /\ h.container[n] = "event" /\ \A m \in Node \ {n} : Same(Home, h, m)
    <3>1. "event" \in PushLists
      BY DEF PushLists, List
    <3> QED BY <1>0, <3>1, PushedHome
  <2> HIDE DEF h
  <2>3. Home' = h /\ container' = h.container
    BY <2>1, <2>2, Became
  <2>4. Dropped(n)
    BY <2>1, <2>2, <2>3 DEF Dropped
  <2>5. ASSUME NEW m \in Node \ {n} PROVE Untouched(m)
    BY <1>0, <2>1, <2>2, <2>3, SameUntouched
  <2> QED BY <2>1, <2>4, <2>5 DEF Passive
<1> QED BY <1>1, <1>2

LEMMA QuietClassified ==
  ASSUME \/ BeginStep \/ EndDebug \/ EndStep \/ EndAsync
         \/ \E x \in Contexts : Forget(x)
         \/ \E c \in Chart : DebugChart(c)
         \/ \E d \in NodeData : SetBreakpoint(d)
         \/ UNCHANGED vars
  PROVE  Passive
<1>1. UNCHANGED <<node, container, call, resumed>>
  <2>1. CASE BeginStep \/ EndDebug \/ EndStep \/ EndAsync
    BY <2>1 DEF BeginStep, EndDebug, EndStep, EndAsync, lists, calls
  <2>2. ASSUME NEW x \in Contexts, Forget(x) PROVE UNCHANGED <<node, container, call, resumed>>
    BY <2>2 DEF Forget, lists
  <2>3. ASSUME NEW c \in Chart, DebugChart(c) PROVE UNCHANGED <<node, container, call, resumed>>
    BY <2>3 DEF DebugChart, lists, calls
  <2>4. ASSUME NEW d \in NodeData, SetBreakpoint(d) PROVE UNCHANGED <<node, container, call, resumed>>
    BY <2>4 DEF SetBreakpoint, lists, calls
  <2>5. CASE UNCHANGED vars
    BY <2>5 DEF vars, lists, calls
  <2> QED BY <2>1, <2>2, <2>3, <2>4, <2>5
<1> QED BY <1>1 DEF Passive, Untouched

\* The game's code runs in a function, and the function returns.
LEMMA CallGameClassified ==
  ASSUME AsyncInvariant, CallGame
  PROVE  Passive
<1>1. PICK n \in Node : /\ CallsFunction(n, "game") /\ node' = Entered(n)
                        /\ UNCHANGED <<container, call, resumed>>
  BY DEF CallGame, CallsFunction, lists, calls
<1>2. Visit(n) /\ n \notin Calling /\ TypeOK
  BY <1>1, ListNames DEF CallsFunction, Calling, AsyncInvariant
<1>3. container[n] \notin {"waiting", "active"}
  BY <1>2, VisitFree
<1>4. Dropped(n)
  BY <1>1, <1>3 DEF Dropped
<1>5. ASSUME NEW m \in Node \ {n} PROVE Untouched(m)
  <2>1. node'[m] = node[m]
    BY <1>1, <1>2, EnteredNode DEF CalledAs
  <2> QED BY <1>1, <2>1 DEF Untouched
<1> QED BY <1>1, <1>4, <1>5 DEF Passive

LEMMA CallEchoClassified ==
  ASSUME AsyncInvariant, Careful, Apart, CallEcho
  PROVE  Classified
<1>1. PICK n \in Node, x \in Unused :
        /\ CallsFunction(n, "echo") /\ Become(Pushed(Home, "waiting", n))
        /\ node' = [Entered(n) EXCEPT ![n].status = "Running"]
        /\ call' = [call EXCEPT ![n] = x]
  BY DEF CallEcho
<1> DEFINE h == Pushed(Home, "waiting", n)
<1>2. /\ Visit(n) /\ TypeOK /\ Home \in HomeSet /\ Agrees(Home) /\ resumed' = resumed
      /\ container[n] \notin {"waiting", "active"}
  BY <1>1, VisitParts, VisitFree, Settled DEF CallsFunction, AsyncInvariant
<1>3. h \in HomeSet /\ h.container[n] = "waiting" /\ \A m \in Node \ {n} : Same(Home, h, m)
  <2>1. "waiting" \in PushLists
    BY DEF PushLists, List
  <2> QED BY <1>2, <2>1, PushedHome
<1>4. Home' = h /\ container' = h.container
  BY <1>1, <1>3, Became
<1>5. ASSUME NEW m \in Node \ {n} PROVE Untouched(m)
  <2>1. Entered(n)[m] = node[m]
    BY <1>2, EnteredNode DEF CalledAs
  <2>2. node'[m] = node[m]
    <3>1. Entered(n) \in [Node -> NodeState]
      BY <1>2, EnteredNode DEF CalledAs
    <3> QED BY <1>1, <2>1, <3>1
  <2>3. call'[m] = call[m]
    BY <1>1, <1>2 DEF TypeOK
  <2> QED BY <1>3, <1>4, <2>2, <2>3, SameUntouched
<1>6. Suspends(n)
  BY <1>2, <1>3, <1>4, <1>5 DEF Suspends
<1> QED BY <1>6 DEF Classified

\* A function that has called back returns.
Echoes == InFunction /\ Kind[flow.current] = "echo" /\ \E r \in Results : Returns(r)

LEMMA ReturnsClassified ==
  ASSUME AsyncInvariant, NEW r \in Results, Returns(r), ~ Echoes
  PROVE  Passive
<1> SUFFICES ASSUME NEW n, n = flow.current PROVE Passive
  OBVIOUS
<1>1. /\ InFunction /\ Runner(n) /\ InGame(n) /\ resumed' = resumed /\ call' = call
      /\ AfterRun(n, Home, [node EXCEPT ![n].result = IF @ = "rSTOP" THEN @ ELSE r])
  BY DEF Returns, Runner, AsyncInvariant, FlowInvariant, calls
<1>2. n \in Node /\ Kind[n] = "game" /\ container[n] \notin {"waiting", "active"}
  BY <1>1 DEF InGame, Echoes
<1> DEFINE s == IF node[n].result = "rSTOP" THEN "rSTOP" ELSE r
           nodes == [node EXCEPT ![n].result = s]
<1>3. Home \in HomeSet /\ Agrees(Home) /\ Home.container = container /\ node \in [Node -> NodeState]
  BY HomeTyped DEF AsyncInvariant, TypeOK
<1>4. AfterRun(n, Home, nodes)
  <2>1. nodes = [node EXCEPT ![n].result = IF @ = "rSTOP" THEN @ ELSE r]
    BY <1>2, <1>3
  <2> QED BY <1>1, <2>1
<1>5. nodes \in [Node -> NodeState] /\ \A m \in Node \ {n} : nodes[m] = node[m]
  <2>1. s \in Result
    BY <1>2, <1>3, ResultNames DEF NodeState
  <2> HIDE DEF s
  <2> QED BY <1>3, <2>1 DEF NodeState
<1> HIDE DEF nodes
<1>6. \A m \in Node : Same(Home, Home, m)
  BY DEF Same
<1> QED BY <1>1, <1>2, <1>3, <1>4, <1>5, <1>6, RunPassive

LEMMA SilentSteps ==
  ASSUME AsyncInvariant, Silent
  PROVE  ~Echoes
BY DEF Echoes, AsyncInvariant, FlowInvariant, InGame, Silent

\* So every other step is one of these.
LEMMA StepsClassified ==
  ASSUME AsyncInvariant, [Next]_vars, Careful, Apart, ~Echoes
  PROVE  Classified
<1>1. Passive => Classified
  BY DEF Classified
<1>2. CASE Game
  <2>1. ASSUME NEW c \in Chart, Start(c) \/ Stop(c) PROVE Passive
    BY <2>1, StartClassified, StopClassified
  <2>2. ASSUME NEW x \in Contexts, NEW r \in Results, Continue(x, r) PROVE Classified
    <3> SUFFICES ASSUME NEW n, n = held[x] PROVE Classified
      OBVIOUS
    <3> QED BY <2>2, CallbackClassified DEF Continue, IsNodeWaiting, Answered
  <2>3. ASSUME NEW x \in Contexts, NEW stop \in Cancels, Cancel(x, stop) PROVE Classified
    <3> SUFFICES ASSUME NEW n, n = held[x] PROVE Classified
      OBVIOUS
    <3> QED BY <2>3, CallbackClassified DEF Cancel, IsNodeWaiting, Answered
  <2>4. CASE (\E x \in Contexts : Forget(x)) \/ BeginStep
    BY <1>1, <2>4, QuietClassified
  <2> QED BY <1>1, <1>2, <2>1, <2>2, <2>3, <2>4 DEF Game
<1>3. CASE Debugger
  <2>1. ASSUME NEW c \in Chart, ContinueChart(c) PROVE Classified
    <3> DEFINE S == {n \in NodesOf(c) : DataOf[n] \in breakpoints}
    <3>1. PICK s \in Walked(S) : ActivateAll(s) /\ resumed' = resumed
      BY <2>1 DEF ContinueChart
    <3>2. S \in SUBSET Node
      BY DEF NodesOf
    <3> HIDE DEF S
    <3> QED BY <3>1, <3>2, ActivateClassified
  <2>2. ASSUME NEW d \in NodeData, DeleteBreakpoint(d) PROVE Classified
    <3> DEFINE S == {n \in Node : DataOf[n] = d}
    <3>1. PICK s \in Walked(S) : ActivateAll(s) /\ resumed' = resumed
      BY <2>2 DEF DeleteBreakpoint
    <3>2. S \in SUBSET Node
      OBVIOUS
    <3> HIDE DEF S
    <3> QED BY <3>1, <3>2, ActivateClassified
  <2>3. CASE (\E c \in Chart : DebugChart(c)) \/ (\E d \in NodeData : SetBreakpoint(d))
    BY <1>1, <2>3, QuietClassified
  <2> QED BY <1>1, <1>3, <2>1, <2>2, <2>3 DEF Debugger
<1>4. CASE Runtime
  <2>1. CASE CallEcho \/ CallGame \/ \E r \in Results : Returns(r)
    BY <1>1, <2>1, CallEchoClassified, CallGameClassified, ReturnsClassified
  <2>2. CASE EndDebug \/ EndAsync \/ EndStep
    BY <1>1, <2>2, QuietClassified
  <2>3. CASE AsyncStep
    <3>1. ResumeEffect(Head(list["active"]))
      BY <2>3, AsyncStepParts
    <3>2. Head(list["active"]) \in Node
      BY <3>1 DEF ResumeEffect
    <3> QED BY <3>1, <3>2 DEF Classified
  <2>4. CASE DispatchNode \/ FlowEnd
    BY <1>1, <2>4, DispatchClassified, FlowEndClassified
  <2>5. CASE SkipRunning \/ WaitTick
    BY <1>1, <2>5, LoopClassified
  <2>6. CASE RunSkipped \/ HoldAtBreakpoint \/ CallFunc \/ CallSuspend \/ CallWaitEvent \/ CallStop
    BY <2>6, RunClassified
  <2> QED BY <1>1, <1>4, <2>1, <2>2, <2>3, <2>4, <2>5, <2>6 DEF Runtime
<1>5. CASE UNCHANGED vars
  BY <1>1, <1>5, QuietClassified
<1> QED BY <1>2, <1>3, <1>4, <1>5 DEF Next

\* It leaves alone a node that stays in the active list.
LEMMA ActiveUntouched ==
  ASSUME Classified, NEW n \in Node, container[n] = "active", container'[n] = "active"
  PROVE  Untouched(n)
<1>1. CASE Passive
  BY <1>1 DEF Passive, Dropped
<1>2. CASE \E m \in Node : Suspends(m)
  BY <1>2, ListNames DEF Suspends, Unstacked, List
<1>3. CASE \E S \in SUBSET Node, a \in Answers : Replies(S, a)
  BY <1>3 DEF Replies
<1>4. ASSUME NEW m \in Node, ResumeEffect(m) PROVE Untouched(n)
  <2>1. container'[m] \in {"stack", None}
    BY <1>4 DEF ResumeEffect
  <2>2. n # m
    BY <2>1, ListNames DEF List
  <2> QED BY <1>4, <2>2, SameUntouched DEF ResumeEffect
<1> QED BY <1>1, <1>2, <1>3, <1>4 DEF Classified

-----------------------------------------------------------------------------
(* AsyncCalls implements SuspendedCalls.                                   *)

\* Nothing has happened to the call of m, for the game;
KeptCall(m) == Phase(m)' = Phase(m) /\ AnswerOf(m)' = AnswerOf(m)

\* or it is given up.
GivenUp(m) == Phase(m)' = "none" /\ AnswerOf(m)' = None

\* In a careful game the lists are what the pointers say.
LEMMA PhaseByPointer ==
  ASSUME Careful, Apart, AsyncInvariant, AsyncInvariant', NEW m \in Node
  PROVE  /\ (In(m, "active") <=> container[m] = "active") /\ (In(m, "waiting") <=> container[m] = "waiting")
         /\ (In(m, "active")' <=> container'[m] = "active") /\ (In(m, "waiting")' <=> container'[m] = "waiting")
         /\ NodeInvariant(m) /\ NodeInvariant(m)'
<1>1. /\ m \in Sure("active") /\ m \in Sure("waiting") /\ (Sure("active") = Node)' /\ (Sure("waiting") = Node)'
      /\ {"active", "waiting"} \subseteq List \ {"event", "handling"}
  BY DEF Sure, Loose, List, Apart, Calling
<1>2. (In(m, "active") <=> container[m] = "active") /\ (In(m, "waiting") <=> container[m] = "waiting")
  BY <1>1 DEF AsyncInvariant, Agrees, In, Home
<1>3. (In(m, "active")' <=> container'[m] = "active") /\ (In(m, "waiting")' <=> container'[m] = "waiting")
  <2>1. Agrees(Home)' /\ Home' = [list |-> list', container |-> container']
    BY DEF AsyncInvariant, Home
  <2>2. \A w \in {"active", "waiting"} : m \in Elements(list'[w]) <=> container'[m] = w
    BY <1>1, <2>1 DEF Agrees, Home
  <2> QED BY <2>2 DEF In
<1> QED BY <1>2, <1>3 DEF AsyncInvariant

LEMMA UntouchedKept ==
  ASSUME Careful, Apart, AsyncInvariant, AsyncInvariant', NEW m \in Node, Untouched(m)
  PROVE  KeptCall(m)
<1>1. (In(m, "active")' <=> In(m, "active")) /\ (Suspended(m)' <=> Suspended(m))
  BY PhaseByPointer DEF Untouched, Suspended
<1>2. Phase(m)' = Phase(m)
  BY <1>1 DEF Phase
<1>3. AnswerOf(m)' = AnswerOf(m)
  BY <1>1 DEF Untouched, AnswerOf
<1> QED BY <1>2, <1>3 DEF KeptCall

LEMMA UnstackedKept ==
  ASSUME Careful, Apart, AsyncInvariant, AsyncInvariant', NEW m \in Node, Unstacked(m)
  PROVE  KeptCall(m)
<1>1. /\ ~ In(m, "active")' /\ ~ In(m, "waiting")' /\ ~ In(m, "active") /\ ~ In(m, "waiting")
      /\ call'[m] = call[m]
  BY PhaseByPointer, ListNames DEF Unstacked, List
<1> QED BY <1>1 DEF KeptCall, Phase, Suspended, AnswerOf

LEMMA DroppedCall ==
  ASSUME Careful, Apart, AsyncInvariant, AsyncInvariant', NEW m \in Node, Dropped(m)
  PROVE  KeptCall(m) \/ GivenUp(m)
<1>1. ~ In(m, "active")' /\ ~ In(m, "waiting")' /\ AnswerOf(m)' = None
  BY PhaseByPointer DEF Dropped, AnswerOf
<1>2. CASE call'[m] = None
  BY <1>1, <1>2 DEF GivenUp, Phase, Suspended
<1>3. CASE call'[m] # None
  <2>1. call[m] # None
    BY <1>3 DEF Dropped
  <2>2. ~ In(m, "active")
    BY <2>1, PhaseByPointer, ListNames DEF NodeInvariant, PendingCall, List
  <2> QED BY <1>1, <1>3, <2>1, <2>2 DEF KeptCall, Phase, Suspended, AnswerOf
<1> QED BY <1>2, <1>3

\* What the step does to the calls is a step of SuspendedCalls.
LEMMA PromiseStep ==
  ASSUME Careful, Apart, Silent, AsyncInvariant, AsyncInvariant', [Next]_vars
  PROVE  [Promise!Next]_(Promise!vars)
<1> DEFINE phase == [n \in Node |-> Phase(n)]
           answer == [n \in Node |-> AnswerOf(n)]
<1>1. Classified
  BY SilentSteps, StepsClassified
<1>2. ASSUME Passive PROVE Promise!Next
  <2> DEFINE S == {m \in Node : GivenUp(m)}
  <2>1. \A m \in Node : KeptCall(m) \/ GivenUp(m)
    BY <1>2, UntouchedKept, DroppedCall DEF Passive
  <2>2. /\ \A m \in Node : Phase(m)' = IF m \in S THEN "none" ELSE Phase(m)
        /\ \A m \in Node : AnswerOf(m)' = IF m \in S THEN None ELSE AnswerOf(m)
    BY <2>1 DEF KeptCall, GivenUp
  <2>3. Resumed' \in {Resumed, <<>>}
    BY <1>2 DEF Passive, Resumed
  <2>4. S \in SUBSET Node
    OBVIOUS
  <2> HIDE DEF S
  <2>5. Promise!GiveUp(S)
    BY <2>2, <2>3 DEF Promise!GiveUp
  <2> QED BY <2>4, <2>5 DEF Promise!Next
<1>3. ASSUME NEW n \in Node, Suspends(n) PROVE Promise!Next
  <2>1. \A m \in Node \ {n} : KeptCall(m)
    BY <1>3, UntouchedKept, UnstackedKept DEF Suspends
  <2>2. ~ In(n, "active") /\ ~ In(n, "waiting") /\ ~ In(n, "active")' /\ In(n, "waiting")'
    BY <1>3, PhaseByPointer DEF Suspends
  <2>3. Phase(n)' = "suspended" /\ AnswerOf(n)' = None /\ AnswerOf(n) = None
    BY <2>2 DEF Phase, Suspended, AnswerOf
  <2>4. Resumed' = Resumed
    BY <1>3 DEF Suspends, Resumed
  <2>5. CASE call[n] = None
    <3>1. Phase(n) = "none"
      BY <2>2, <2>5 DEF Phase, Suspended
    <3>2. /\ \A m \in Node : Phase(m)' = IF m = n THEN "suspended" ELSE Phase(m)
          /\ \A m \in Node : AnswerOf(m)' = AnswerOf(m)
      BY <2>1, <2>3 DEF KeptCall
    <3>3. phase' = [phase EXCEPT ![n] = "suspended"] /\ answer' = answer /\ phase[n] = "none"
      BY <3>1, <3>2
    <3>4. Promise!Suspend(n)
      BY <2>4, <3>3 DEF Promise!Suspend
    <3> QED BY <3>4 DEF Promise!Next
  <2>6. CASE call[n] # None
    <3>1. Phase(n) = "suspended"
      BY <2>2, <2>6 DEF Phase, Suspended
    <3>2. \A m \in Node : Phase(m)' = Phase(m) /\ AnswerOf(m)' = AnswerOf(m)
      BY <2>1, <2>3, <3>1 DEF KeptCall
    <3>3. Promise!GiveUp({})
      BY <2>4, <3>2 DEF Promise!GiveUp
    <3> QED BY <3>3 DEF Promise!Next
  <2> QED BY <2>5, <2>6
<1>4. ASSUME NEW S \in SUBSET Node, NEW a \in Answers, Replies(S, a) PROVE Promise!Next
  <2>1. \A m \in Node \ S : KeptCall(m)
    BY <1>4, UntouchedKept DEF Replies
  <2>2. ASSUME NEW m \in S PROVE Phase(m) = "suspended" /\ Phase(m)' = "answered" /\ AnswerOf(m)' = a
    <3>1. m \in Node /\ ~ In(m, "active") /\ In(m, "active")' /\ (In(m, "waiting") \/ call[m] # None)
      BY <1>4, PhaseByPointer DEF Replies
    <3>2. IF a = "call" THEN ~ node'[m].skip ELSE node'[m].skip /\ node'[m].result = a
      BY <1>4 DEF Replies
    <3> QED BY <3>1, <3>2 DEF Phase, Suspended, AnswerOf
  <2>3. Resumed' = Resumed
    BY <1>4 DEF Replies, Resumed
  <2>4. /\ \A m \in Node : Phase(m)' = IF m \in S THEN "answered" ELSE Phase(m)
        /\ \A m \in Node : AnswerOf(m)' = IF m \in S THEN a ELSE AnswerOf(m)
    BY <2>1, <2>2 DEF KeptCall
  <2>5. Promise!Reply(S, a)
    BY <2>2, <2>3, <2>4 DEF Promise!Reply
  <2> QED BY <2>5 DEF Promise!Next
<1>5. ASSUME NEW n \in Node, ResumeEffect(n) PROVE Promise!Next
  <2>1. /\ In(n, "active") /\ Between /\ call' = call
        /\ container'[n] = IF ChartOf[n] \in running THEN "stack" ELSE None
        /\ resumed' = IF ChartOf[n] \in running THEN <<n, node[n].skip, node[n].result>> ELSE <<>>
    BY <1>5 DEF ResumeEffect
  <2>2. \A m \in Node \ {n} : KeptCall(m)
    <3>1. \A m \in Node \ {n} : Untouched(m)
      BY <1>5, <2>1, SameUntouched DEF ResumeEffect
    <3> QED BY <3>1, UntouchedKept
  <2>3. container[n] = "active" /\ call[n] = None /\ ChartOf[n] \in running
    <3>1. container[n] = "active"
      BY <2>1, PhaseByPointer
    <3>2. Quiet(n)
      BY Settled, PhaseByPointer DEF NodeInvariant
    <3> QED BY <3>1, <3>2, PhaseByPointer, ListNames DEF NodeInvariant, PendingCall, Quiet, List
  <2>4. ~ In(n, "active")' /\ ~ In(n, "waiting")'
    BY <2>1, <2>3, PhaseByPointer
  <2>5. Phase(n) = "answered" /\ Phase(n)' = "none" /\ AnswerOf(n)' = None
    BY <2>1, <2>3, <2>4 DEF Phase, Suspended, AnswerOf
  <2>6. Resumed = <<>> /\ Resumed' = <<n, AnswerOf(n)>>
    <3>1. resumed = <<>>
      BY <2>1, BetweenParts
    <3>2. resumed' # <<>> /\ resumed'[1] = n /\ resumed'[2] = node[n].skip /\ resumed'[3] = node[n].result
      BY <2>1, <2>3
    <3> QED BY <2>1, <3>1, <3>2 DEF Resumed, AnswerOf
  <2>7. /\ \A m \in Node : Phase(m)' = IF m = n THEN "none" ELSE Phase(m)
        /\ \A m \in Node : AnswerOf(m)' = IF m = n THEN None ELSE AnswerOf(m)
    BY <2>2, <2>5 DEF KeptCall
  <2>8. /\ phase' = [phase EXCEPT ![n] = "none"] /\ answer' = [answer EXCEPT ![n] = None]
        /\ phase[n] = "answered" /\ answer[n] = AnswerOf(n)
    BY <2>5, <2>7
  <2>9. Promise!Resume(n)
    BY <2>6, <2>8 DEF Promise!Resume
  <2> QED BY <2>9 DEF Promise!Next
<1> QED BY <1>1, <1>2, <1>3, <1>4, <1>5 DEF Classified

LEMMA PromiseInit ==
  ASSUME Init
  PROVE  Promise!Init
<1>1. ASSUME NEW n \in Node PROVE Phase(n) = "none" /\ AnswerOf(n) = None
  <2>1. \A w \in List : list[w] = <<>>
    BY DEF Init
  <2>2. ~ In(n, "active") /\ ~ In(n, "waiting") /\ call[n] = None
    BY <2>1, ListNames DEF Init, In, Elements
  <2> QED BY <2>2 DEF Phase, AnswerOf, Suspended
<1>2. Resumed = <<>>
  BY DEF Init, Resumed
<1> QED BY <1>1, <1>2 DEF Promise!Init

-----------------------------------------------------------------------------
(* What wakes a node that runs.                                            *)

\* No two nodes with the same data can have a breakpoint: there is one object with
\* their chart.
Single == \A m, n \in Node : DataOf[m] = DataOf[n] /\ DataOf[m] \in Breakable => m = n

\* What wakes a node, by its pointer.
Woken(m) ==
  \/ call[m] # None
  \/ container[m] = "waiting" /\ DataOf[m] \in breakpoints
  \/ container[m] \in {"active", "event"}

\* The step leaves a node that begins to run, or runs and can be woken, something that
\* wakes it, or pushes it on the stack.
Wakes(m) ==
  node'[m].status = "Running" /\ (node[m].status = "Running" => Woken(m))
  => Woken(m)' \/ container'[m] = "stack"

\* A node with nothing done to it.
LEMMA SameWakes ==
  ASSUME NEW m \in Node, Same(Home, Home', m), call'[m] = call[m],
         node'[m].status = node[m].status, breakpoints \subseteq breakpoints'
  PROVE  Wakes(m)
<1>1. container'[m] = container[m]
  BY DEF Same, Home
<1> QED BY <1>1 DEF Wakes, Woken

\* What running n leaves to wake the nodes.
LEMMA RunWakes ==
  ASSUME AsyncInvariant,
         NEW n, Runner(n), NEW h \in HomeSet, Agrees(h),
         NEW nodes \in [Node -> NodeState], AfterRun(n, h, nodes), breakpoints' = breakpoints,
         nodes[n].status = "Running" =>
           \/ call'[n] # None
           \/ h.container[n] = "waiting" /\ DataOf[n] \in breakpoints
           \/ h.container[n] = "event"
           \/ Same(Home, h, n) /\ nodes[n].status = node[n].status /\ call'[n] = call[n],
         \A m \in Node \ {n} :
           \/ Same(Home, h, m) /\ nodes[m].status = node[m].status /\ call'[m] = call[m]
           \/ nodes[m].status # "Running"
  PROVE  \A m \in Node : Wakes(m)
<1>1. n \in Node /\ flow \in FlowState
  BY RunnerParts
<1> DEFINE S == Successors(n, nodes)
<1>2. RunEffect(n, h, nodes, S)
  BY <1>1, AfterRunParts
<1>3. nodes[n].status = "Running" => S = {}
  BY DEF Successors
<1> HIDE DEF S
<1>4. Wakes(n)
  <2>1. CASE nodes[n].status = "Running"
    <3>1. h.container[n] # "stack" => container'[n] = h.container[n]
      BY <1>1, <1>2, <1>3, <2>1 DEF RunEffect, Stays, Home
    <3>2. Same(Home, h, n) => h.container[n] = container[n]
      BY DEF Same, Home
    <3> QED BY <2>1, <3>1, <3>2, ListNames DEF Wakes, Woken
  <2>2. CASE nodes[n].status # "Running"
    BY <1>2, <2>2 DEF RunEffect, Wakes, Woken
  <2> QED BY <2>1, <2>2
<1>5. ASSUME NEW m \in Node \ {n} PROVE Wakes(m)
  <2> SUFFICES ASSUME node'[m].status = "Running" PROVE Wakes(m)
    BY DEF Wakes, Woken
  <2>1. nodes[m].status = "Running"
    BY <1>2 DEF RunEffect
  <2>2. Same(Home, h, m) /\ node[m].status = "Running" /\ call'[m] = call[m]
    BY <2>1
  <2>3. CASE m \in S
    <3>1. container'[m] = "stack"
      BY <1>2, <2>3 DEF RunEffect
    <3> QED BY <3>1 DEF Wakes
  <2>4. CASE m \notin S
    <3>1. container'[m] = container[m] \/ container[m] = "stack"
      BY <1>2, <2>2, <2>4 DEF RunEffect, Stays, Same, Home
    <3> QED BY <2>2, <3>1, ListNames DEF Wakes, Woken
  <2> QED BY <2>3, <2>4
<1> QED BY <1>4, <1>5

\* The functions and breakpoints.
LEMMA CallsWake ==
  ASSUME AsyncInvariant,
         RunSkipped \/ HoldAtBreakpoint \/ CallFunc \/ CallSuspend \/ CallWaitEvent \/ CallStop
  PROVE  \A m \in Node : Wakes(m)
<1>0. TypeOK
  BY DEF AsyncInvariant
<1>1. ASSUME NEW n \in Node, Visit(n)
      PROVE  /\ Home \in HomeSet /\ Agrees(Home)
             /\ node \in [Node -> NodeState] /\ node[n].status # "Running" /\ Runner(n)
             /\ \A m \in Node : Same(Home, Home, m)
  BY <1>0, <1>1, VisitParts DEF TypeOK, Same, Runner
<1>2. CASE RunSkipped
  <2>1. PICK n \in Node : Visit(n) /\ AfterRun(n, Home, [node EXCEPT ![n].skip = FALSE])
                          /\ call' = call /\ breakpoints' = breakpoints
    BY <1>2 DEF RunSkipped, calls, control
  <2> DEFINE nodes == [node EXCEPT ![n].skip = FALSE]
  <2>2. nodes \in [Node -> NodeState] /\ (\A m \in Node \ {n} : nodes[m] = node[m]) /\ nodes[n].status = node[n].status
    BY <1>1, <2>1 DEF NodeState
  <2>3. AfterRun(n, Home, nodes)
    BY <2>1
  <2> HIDE DEF nodes
  <2> QED BY <1>1, <2>1, <2>2, <2>3, RunWakes
<1>3. CASE HoldAtBreakpoint
  <2>1. PICK n \in Node :
          /\ Visit(n) /\ Breaks(n) /\ call' = call /\ breakpoints' = breakpoints
          /\ AfterRun(n, Pushed(Home, "waiting", n),
                      [Entered(n) EXCEPT ![n].status = "Running", ![n].result = "rTRUE"])
    BY <1>3 DEF HoldAtBreakpoint, calls, control
  <2> DEFINE nodes == [Entered(n) EXCEPT ![n].status = "Running", ![n].result = "rTRUE"]
             h == Pushed(Home, "waiting", n)
  <2>2. nodes \in [Node -> NodeState] /\ (\A m \in Node \ {n} : nodes[m] = node[m])
    BY <1>0, ResultNames, SuspendedNode DEF CalledAs
  <2>3. AfterRun(n, h, nodes)
    BY <2>1
  <2>4. /\ h \in HomeSet /\ Agrees(h) /\ h.container[n] = "waiting" /\ \A m \in Node \ {n} : Same(Home, h, m)
    <3>1. "waiting" \in PushLists
      BY DEF PushLists, List
    <3> QED BY <1>1, <2>1, <3>1, PushedHome
  <2>5. DataOf[n] \in breakpoints /\ Runner(n)
    BY <2>1 DEF Breaks, Runner
  <2> HIDE DEF nodes, h
  <2> QED BY <2>1, <2>2, <2>3, <2>4, <2>5, RunWakes
<1>4. CASE CallFunc
  <2>1. PICK n \in Node, r \in Results :
          /\ Visit(n) /\ AfterRun(n, Home, [Entered(n) EXCEPT ![n].result = r])
          /\ call' = call /\ breakpoints' = breakpoints
    BY <1>4 DEF CallFunc, CallsFunction, calls
  <2> DEFINE nodes == [Entered(n) EXCEPT ![n].result = r]
  <2>2. nodes \in [Node -> NodeState] /\ (\A m \in Node \ {n} : nodes[m] = node[m]) /\ nodes[n].status = node[n].status
    <3>1. r \in Result
      BY ResultNames
    <3> QED BY <1>0, <3>1, ReturnedNode DEF CalledAs
  <2>3. AfterRun(n, Home, nodes)
    BY <2>1
  <2> HIDE DEF nodes
  <2> QED BY <1>1, <2>1, <2>2, <2>3, RunWakes
<1>5. CASE CallSuspend
  <2>1. PICK n \in Node, r \in Results, x \in Unused :
          /\ Visit(n) /\ call' = [call EXCEPT ![n] = x] /\ breakpoints' = breakpoints
          /\ AfterRun(n, Pushed(Home, "waiting", n),
                      [Entered(n) EXCEPT ![n].status = "Running", ![n].result = r])
    BY <1>5 DEF CallSuspend, CallsFunction
  <2> DEFINE nodes == [Entered(n) EXCEPT ![n].status = "Running", ![n].result = r]
             h == Pushed(Home, "waiting", n)
  <2>2. nodes \in [Node -> NodeState] /\ (\A m \in Node \ {n} : nodes[m] = node[m])
    <3>1. r \in Result
      BY ResultNames
    <3> QED BY <1>0, <3>1, SuspendedNode DEF CalledAs
  <2>3. AfterRun(n, h, nodes)
    BY <2>1
  <2>4. /\ h \in HomeSet /\ Agrees(h) /\ \A m \in Node \ {n} : Same(Home, h, m)
    <3>1. "waiting" \in PushLists
      BY DEF PushLists, List
    <3> QED BY <1>1, <2>1, <3>1, PushedHome
  <2>5. (\A m \in Node \ {n} : call'[m] = call[m]) /\ call'[n] # None
    <3>1. x # None
      BY ListNames DEF Unused
    <3> QED BY <1>0, <2>1, <3>1 DEF TypeOK
  <2>6. Runner(n)
    BY <2>1 DEF Runner
  <2> HIDE DEF nodes, h
  <2> QED BY <2>1, <2>2, <2>3, <2>4, <2>5, <2>6, RunWakes
<1>6. CASE CallWaitEvent
  <2>1. PICK n \in Node :
          /\ Visit(n) /\ call' = call /\ breakpoints' = breakpoints
          /\ AfterRun(n, Pushed(Home, "event", n),
                      [Entered(n) EXCEPT ![n].status = "Running", ![n].skip = TRUE, ![n].result = "rTRUE"])
    BY <1>6 DEF CallWaitEvent, CallsFunction, calls
  <2> DEFINE nodes == [Entered(n) EXCEPT ![n].status = "Running", ![n].skip = TRUE, ![n].result = "rTRUE"]
             h == Pushed(Home, "event", n)
  <2>2. /\ h \in HomeSet /\ Agrees(h) /\ h.container[n] = "event" /\ \A m \in Node \ {n} : Same(Home, h, m)
    <3>1. "event" \in PushLists
      BY DEF PushLists, List
    <3> QED BY <1>1, <2>1, <3>1, PushedHome
  <2>3. nodes \in [Node -> NodeState] /\ \A m \in Node \ {n} : nodes[m] = node[m]
    BY <1>0, ResultNames, AnsweredNode DEF CalledAs
  <2>4. AfterRun(n, h, nodes)
    BY <2>1
  <2>5. Runner(n)
    BY <2>1 DEF Runner
  <2> HIDE DEF nodes, h
  <2> QED BY <2>1, <2>2, <2>3, <2>4, <2>5, RunWakes
<1>7. CASE CallStop
  <2>1. PICK n \in Node :
          /\ CallsFunction(n, "stop")
          /\ LET S == Target[n]
                 nodes == Stopped(Entered(n), S)
             IN  AfterRun(n, Removed(Home, S), IF n \in S THEN nodes ELSE [nodes EXCEPT ![n].result = "rTRUE"])
          /\ CallsEnd(Target[n])
    BY <1>7 DEF CallStop
  <2> DEFINE S == Target[n]
             e == Entered(n)
             j == Stopped(e, S)
             nodes == IF n \in S THEN j ELSE [j EXCEPT ![n].result = "rTRUE"]
             h == Removed(Home, S)
  <2>2. Visit(n) /\ breakpoints' = breakpoints /\ CallsEnd(S)
    BY <2>1 DEF CallsFunction
  <2>3. e \in [Node -> NodeState] /\ (\A m \in Node \ {n} : e[m] = node[m]) /\ e[n].status = node[n].status
    BY <1>0, EnteredNode DEF CalledAs
  <2>4. AfterRun(n, h, nodes)
    BY <2>1
  <2> HIDE DEF S, e
  <2>5. StoppedFrom(e, S, j)
    BY <2>3, StoppedNodes
  <2> HIDE DEF j
  <2>6. nodes \in [Node -> NodeState] /\ \A m \in Node : nodes[m].status = j[m].status
    BY <2>5, ResultNames DEF NodeState, StoppedFrom
  <2>7. h \in HomeSet /\ Agrees(h) /\ \A m \in Node \ S : Same(Home, h, m)
    BY <1>1, <2>2, RemovedHome
  <2> HIDE DEF nodes, h
  <2>8. \A m \in Node \ S : call'[m] = call[m]
    BY <2>2 DEF CallsEnd
  <2>9. nodes[n].status # "Running" /\ Runner(n)
    BY <1>1, <2>2, <2>3, <2>5, <2>6 DEF StoppedFrom
  <2>10. ASSUME NEW m \in Node \ {n}
         PROVE  \/ Same(Home, h, m) /\ nodes[m].status = node[m].status /\ call'[m] = call[m]
                \/ nodes[m].status # "Running"
    BY <2>3, <2>5, <2>6, <2>7, <2>8 DEF StoppedFrom
  <2> QED BY <2>2, <2>4, <2>6, <2>7, <2>9, <2>10, RunWakes
<1> QED BY <1>2, <1>3, <1>4, <1>5, <1>6, <1>7

\* The game's code runs in a function, and the function returns.
LEMMA GameWakes ==
  ASSUME AsyncInvariant, CallEcho \/ CallGame \/ \E r \in Results : Returns(r)
  PROVE  \A m \in Node : Wakes(m)
<1>0. TypeOK /\ Home \in HomeSet /\ Agrees(Home) /\ node \in [Node -> NodeState]
  BY HomeTyped DEF AsyncInvariant, TypeOK
<1>1. CASE CallEcho
  <2>1. PICK n \in Node, x \in Unused :
          /\ Visit(n) /\ Become(Pushed(Home, "waiting", n)) /\ call' = [call EXCEPT ![n] = x]
          /\ breakpoints' = breakpoints /\ node' = [Entered(n) EXCEPT ![n].status = "Running"]
    BY <1>1 DEF CallEcho, CallsFunction
  <2> DEFINE h == Pushed(Home, "waiting", n)
  <2>2. h \in HomeSet /\ \A m \in Node \ {n} : Same(Home, h, m)
    <3>1. "waiting" \in PushLists
      BY DEF PushLists, List
    <3> QED BY <1>0, <3>1, PushedHome
  <2>3. Home' = h
    BY <2>1, <2>2, Became
  <2> HIDE DEF h
  <2>4. x # None /\ call'[n] # None /\ \A m \in Node \ {n} : call'[m] = call[m]
    <3>1. x # None
      BY ListNames DEF Unused
    <3> QED BY <1>0, <2>1, <3>1 DEF TypeOK
  <2>5. \A m \in Node \ {n} : node'[m] = node[m]
    <3>1. Entered(n) \in [Node -> NodeState] /\ \A m \in Node \ {n} : Entered(n)[m] = node[m]
      BY <1>0, EnteredNode DEF CalledAs
    <3> QED BY <2>1, <3>1
  <2>6. Wakes(n)
    BY <2>4 DEF Wakes, Woken
  <2>7. ASSUME NEW m \in Node \ {n} PROVE Wakes(m)
    BY <2>1, <2>2, <2>3, <2>4, <2>5, SameWakes
  <2> QED BY <2>6, <2>7
<1>2. CASE CallGame
  <2>1. PICK n \in Node : Visit(n) /\ node' = Entered(n) /\ UNCHANGED <<list, container, call, breakpoints>>
    BY <1>2 DEF CallGame, CallsFunction, lists, calls
  <2>2. \A m \in Node : node'[m].status = node[m].status
    BY <1>0, <2>1, EnteredNode DEF CalledAs
  <2>3. \A m \in Node : Same(Home, Home', m)
    <3>1. Home' = Home
      BY <2>1 DEF Home
    <3> QED BY <3>1 DEF Same
  <2> QED BY <2>1, <2>2, <2>3, SameWakes
<1>3. ASSUME NEW r \in Results, Returns(r) PROVE \A m \in Node : Wakes(m)
  <2> SUFFICES ASSUME NEW n, n = flow.current PROVE \A m \in Node : Wakes(m)
    OBVIOUS
  <2>1. /\ InFunction /\ Runner(n) /\ InGame(n) /\ call' = call /\ breakpoints' = breakpoints
        /\ AfterRun(n, Home, [node EXCEPT ![n].result = IF @ = "rSTOP" THEN @ ELSE r])
    BY <1>3 DEF Returns, Runner, AsyncInvariant, FlowInvariant, calls, control
  <2> DEFINE t == IF node[n].result = "rSTOP" THEN "rSTOP" ELSE r
             nodes == [node EXCEPT ![n].result = t]
  <2>2. n \in Node
    BY <2>1 DEF InGame
  <2>3. AfterRun(n, Home, nodes)
    <3>1. nodes = [node EXCEPT ![n].result = IF @ = "rSTOP" THEN @ ELSE r]
      BY <1>0, <2>2
    <3> QED BY <2>1, <3>1
  <2>4. nodes \in [Node -> NodeState] /\ \A m \in Node : nodes[m].status = node[m].status
    <3>1. t \in Result
      BY <1>0, <2>2, ResultNames DEF NodeState
    <3> HIDE DEF t
    <3> QED BY <1>0, <2>2, <3>1 DEF NodeState
  <2> HIDE DEF nodes
  <2>5. \A m \in Node : Same(Home, Home, m)
    BY DEF Same
  <2> QED BY <1>0, <2>1, <2>2, <2>3, <2>4, <2>5, RunWakes
<1> QED BY <1>1, <1>2, <1>3

\* What is started, stopped or answered by the game.
LEMMA StartWakes ==
  ASSUME AsyncInvariant, NEW c \in Chart, Start(c)
  PROVE  \A m \in Node : Wakes(m)
<1>0. StartNode[c] \in Node /\ ChartOf[StartNode[c]] = c
  BY AsyncAssumption
<1> SUFFICES ASSUME NEW s \in Node, s = StartNode[c], ChartOf[s] = c PROVE \A m \in Node : Wakes(m)
  BY <1>0
<1> DEFINE nodes == [node EXCEPT ![s].skip = TRUE, ![s].result = "rTRUE"]
<1>1. /\ Between /\ running' = running \cup {c} /\ RunFlow(s, Home, nodes, running', "idle")
      /\ call' = call /\ breakpoints' = breakpoints
  BY DEF Start, Idle, At, Between, calls
<1>2. /\ Home \in HomeSet /\ Agrees(Home) /\ Home.list["stack"] = <<>> /\ node \in [Node -> NodeState]
      /\ running' \subseteq Chart
  BY <1>1, BetweenParts DEF TypeOK
<1>3. nodes \in [Node -> NodeState] /\ \A m \in Node \ {s} : nodes[m] = node[m]
  <2> DEFINE j == [node EXCEPT ![s].skip = TRUE]
  <2>1. nodes = [j EXCEPT ![s].result = "rTRUE"]
    BY <1>2 DEF NodeState
  <2>2. j \in [Node -> NodeState] /\ \A m \in Node \ {s} : j[m] = node[m]
    BY <1>2 DEF NodeState
  <2> HIDE DEF j, nodes
  <2> QED BY <2>1, <2>2, ResultNames DEF NodeState
<1> HIDE DEF nodes
<1>4. FlowEffect(s, Home, nodes, running', "idle")
  BY <1>1, <1>2, <1>3, RunFlowParts
<1>5. Wakes(s)
  BY <1>1, <1>4 DEF FlowEffect, Wakes, Woken
<1>6. ASSUME NEW m \in Node \ {s} PROVE Wakes(m)
  BY <1>1, <1>3, <1>4, SameWakes DEF FlowEffect
<1> QED BY <1>5, <1>6

LEMMA StopWakes ==
  ASSUME AsyncInvariant, NEW c \in Chart, Stop(c)
  PROVE  \A m \in Node : Wakes(m)
<1> DEFINE S == NodesOf(c)
           h == Removed(Home, S)
<1>1. /\ node' = Stopped(node, S) /\ Become(h) /\ CallsEnd(S) /\ breakpoints' = breakpoints
      /\ Home \in HomeSet /\ Agrees(Home) /\ node \in [Node -> NodeState]
  BY HomeTyped DEF Stop, AsyncInvariant, TypeOK
<1> HIDE DEF S
<1>2. h \in HomeSet /\ \A m \in Node \ S : Same(Home, h, m)
  BY <1>1, RemovedHome
<1> HIDE DEF h
<1>3. Home' = h
  BY <1>1, <1>2, Became
<1>4. StoppedFrom(node, S, node')
  BY <1>1, StoppedNodes
<1>5. \A m \in Node \ S : call'[m] = call[m]
  BY <1>1 DEF CallsEnd
<1>6. ASSUME NEW m \in Node PROVE Wakes(m)
  <2>1. CASE m \in S
    BY <1>4, <2>1 DEF StoppedFrom, Wakes, Woken
  <2>2. CASE m \notin S
    BY <1>1, <1>2, <1>3, <1>4, <1>5, <2>2, SameWakes DEF StoppedFrom
  <2> QED BY <2>1, <2>2
<1> QED BY <1>6

LEMMA AnswerWakes ==
  ASSUME AsyncInvariant, Careful, NEW x \in Contexts, Uses(x),
         NEW n, n = held[x], n \in nodesSet, CallsEnd({n}), breakpoints' = breakpoints,
         NEW r \in Result, Become(Activated(TakenOff(Home, n), n)),
         node' = [node EXCEPT ![n].skip = TRUE, ![n].result = r]
  PROVE  \A m \in Node : Wakes(m)
<1>1. n \in Node /\ n \in Calling
  BY UsesParts
<1>2. \A m \in Node \ {n} : call'[m] = call[m]
  BY DEF CallsEnd
<1>3. \A m \in Node \ {n} : node'[m] = node[m]
  <2>1. node \in [Node -> NodeState]
    BY DEF AsyncInvariant, TypeOK
  <2> QED BY <1>1, <2>1, NodeAnswered
<1>4. CallbackEffect(n, "active")
  BY <1>1, CallbackParts
<1>5. Wakes(n)
  BY <1>4 DEF CallbackEffect, Wakes, Woken
<1>6. ASSUME NEW m \in Node \ {n} PROVE Wakes(m)
  BY <1>2, <1>3, <1>4, SameWakes DEF CallbackEffect
<1> QED BY <1>5, <1>6

\* What the debugger continues.  When a breakpoint is deleted, the one node that may be
\* held there is.
LEMMA ActivateWakes ==
  ASSUME AsyncInvariant, NEW s \in Seq(Node), ActivateAll(s),
         \A m \in Node \ Elements(s) : container[m] = "waiting" /\ DataOf[m] \in breakpoints => DataOf[m] \in breakpoints'
  PROVE  \A m \in Node : Wakes(m)
<1>1. ActivateEffect(s)
  BY ActivateParts
<1>2. ASSUME NEW m \in Node PROVE Wakes(m)
  <2>1. CASE m \in Elements(s)
    BY <1>1, <2>1 DEF ActivateEffect, Wakes, Woken
  <2>2. CASE m \notin Elements(s)
    <3>1. Same(Home, Home', m) /\ node'[m] = node[m] /\ call' = call
      BY <1>1, <2>2 DEF ActivateEffect
    <3> QED BY <2>2, <3>1 DEF Same, Home, Wakes, Woken
  <2> QED BY <2>1, <2>2
<1> QED BY <1>2

LEMMA DeletedWakes ==
  ASSUME AsyncInvariant, Careful, Apart, Single, NEW d \in NodeData, DeleteBreakpoint(d)
  PROVE  \A m \in Node : Wakes(m)
<1> DEFINE S == {n \in Node : DataOf[n] = d}
           found == Without(list["waiting"], Node \ S)
<1>1. PICK s \in Walked(S) : ActivateAll(s)
  BY DEF DeleteBreakpoint
<1>2. d \in breakpoints /\ breakpoints' = breakpoints \ {d} /\ TypeOK /\ breakpoints \subseteq Breakable
  BY DEF DeleteBreakpoint, AsyncInvariant
<1>3. s \in Seq(Node) /\ \A m \in Elements(s) : m \in S
  BY <1>1, <1>2, WalkedParts
<1>4. ASSUME NEW m \in Node \ Elements(s), container[m] = "waiting", DataOf[m] \in breakpoints
      PROVE  DataOf[m] \in breakpoints'
  <2> SUFFICES ASSUME m \in S PROVE FALSE
    BY <1>2, <1>4
  <2>1. list["waiting"] \in Seq(Node) /\ m \in Elements(list["waiting"])
    <3>1. "waiting" \in List \ {"event", "handling"} /\ Sure("waiting") = Node
      BY Settled, ListNames
    <3> QED BY <1>2, <1>4, <3>1 DEF AsyncInvariant, TypeOK, Agrees, Home
  <2>2. found \in Seq(Node) /\ m \in Elements(found)
    BY <2>1, WithoutType, WithoutElements
  <2>3. found # <<>>
    BY <2>2 DEF Elements
  <2>4. s = found \/ s = <<Head(found)>>
    BY <1>1, <2>3 DEF Walked
  <2> HIDE DEF found
  <2>5. s # <<>> /\ Head(s) \in Elements(s)
    <3>1. s # <<>>
      BY <2>3, <2>4
    <3> QED BY <1>3, <3>1, TailElements
  <2>6. Head(s) = m
    BY <1>2, <1>3, <2>5 DEF Single
  <2> QED BY <1>4, <2>5, <2>6
<1> HIDE DEF S
<1> QED BY <1>1, <1>3, <1>4, ActivateWakes

\* The rest of a flow and of Manager::Step.
LEMMA LoopWakes ==
  ASSUME AsyncInvariant, SkipRunning \/ WaitTick
  PROVE  \A m \in Node : Wakes(m)
<1> SUFFICES ASSUME NEW n, n = Top PROVE \A m \in Node : Wakes(m)
  OBVIOUS
<1>0. /\ n \in Node /\ Home \in HomeSet /\ Agrees(Home)
      /\ node \in [Node -> NodeState] /\ container \in [Node -> List \cup {None}]
  BY TopParts DEF SkipRunning, WaitTick, AsyncInvariant, TypeOK
<1>1. CASE SkipRunning
  <2>1. /\ container' = [container EXCEPT ![n] = IF @ = "stack" THEN None ELSE @]
        /\ node' = node /\ call' = call /\ breakpoints' = breakpoints
    BY <1>1 DEF SkipRunning, Become, PoppedOff, Top, Home, calls, control
  <2>2. \A m \in Node : container'[m] = container[m] \/ container[m] = "stack"
    BY <1>0, <2>1
  <2> QED BY <2>1, <2>2, ListNames DEF Wakes, Woken
<1>2. CASE WaitTick
  <2> DEFINE h == Pushed(Home, "event", n)
  <2>1. /\ Become(h) /\ node' = [node EXCEPT ![n].status = "Running"]
        /\ call' = call /\ breakpoints' = breakpoints
    BY <1>2 DEF WaitTick, calls, control
  <2>2. h \in HomeSet /\ h.container[n] = "event" /\ \A m \in Node \ {n} : Same(Home, h, m)
    <3>1. "event" \in PushLists
      BY DEF PushLists, List
    <3> QED BY <1>0, <3>1, PushedHome
  <2> HIDE DEF h
  <2>3. Home' = h /\ container' = h.container
    BY <2>1, <2>2, Became
  <2>4. Wakes(n)
    BY <2>2, <2>3 DEF Wakes, Woken
  <2>5. \A m \in Node \ {n} : node'[m] = node[m]
    BY <1>0, <2>1
  <2>6. ASSUME NEW m \in Node \ {n} PROVE Wakes(m)
    BY <2>1, <2>2, <2>3, <2>5, SameWakes
  <2> QED BY <2>4, <2>6
<1> QED BY <1>1, <1>2

LEMMA FlowWakes ==
  ASSUME AsyncInvariant, AsyncStep \/ DispatchNode \/ FlowEnd
  PROVE  \A m \in Node : Wakes(m)
<1>1. ASSUME NEW n, ResumeEffect(n) PROVE \A m \in Node : Wakes(m)
  <2>1. Wakes(n)
    BY <1>1 DEF ResumeEffect, Wakes, Woken
  <2>2. ASSUME NEW m \in Node \ {n} PROVE Wakes(m)
    BY <1>1, SameWakes DEF ResumeEffect
  <2> QED BY <2>1, <2>2
<1>2. ASSUME NEW n, DispatchEffect(n) PROVE \A m \in Node : Wakes(m)
  <2>1. Wakes(n)
    BY <1>2 DEF DispatchEffect, Wakes, Woken
  <2>2. ASSUME NEW m \in Node \ {n} PROVE Wakes(m)
    BY <1>2, SameWakes DEF DispatchEffect
  <2> QED BY <2>1, <2>2
<1>3. ASSUME NEW T \in SUBSET Node, EndEffect(T) PROVE \A m \in Node : Wakes(m)
  <2>1. ASSUME NEW m \in T PROVE Wakes(m)
    BY <1>3 DEF EndEffect, Wakes, Woken
  <2>2. ASSUME NEW m \in Node \ T PROVE Wakes(m)
    BY <1>3, SameWakes DEF EndEffect
  <2> QED BY <2>1, <2>2
<1> QED BY <1>1, <1>2, <1>3, AsyncStepParts, DispatchParts, FlowEndParts

LEMMA QuietWakes ==
  ASSUME \/ BeginStep \/ EndDebug \/ EndStep \/ EndAsync
         \/ \E x \in Contexts : Forget(x)
         \/ \E c \in Chart : DebugChart(c)
         \/ \E d \in NodeData : SetBreakpoint(d)
         \/ UNCHANGED vars
  PROVE  \A m \in Node : Wakes(m)
<1>1. UNCHANGED <<node, container, call>> /\ breakpoints \subseteq breakpoints'
  <2>1. CASE BeginStep \/ EndDebug \/ EndStep \/ EndAsync
    BY <2>1 DEF BeginStep, EndDebug, EndStep, EndAsync, lists, calls, control
  <2>2. ASSUME NEW x \in Contexts, Forget(x) PROVE UNCHANGED <<node, container, call>> /\ breakpoints \subseteq breakpoints'
    BY <2>2 DEF Forget, lists, control
  <2>3. ASSUME NEW c \in Chart, DebugChart(c) PROVE UNCHANGED <<node, container, call>> /\ breakpoints \subseteq breakpoints'
    BY <2>3 DEF DebugChart, lists, calls
  <2>4. ASSUME NEW d \in NodeData, SetBreakpoint(d) PROVE UNCHANGED <<node, container, call>> /\ breakpoints \subseteq breakpoints'
    BY <2>4 DEF SetBreakpoint, lists, calls
  <2>5. CASE UNCHANGED vars
    BY <2>5 DEF vars, lists, calls, control
  <2> QED BY <2>1, <2>2, <2>3, <2>4, <2>5
<1> QED BY <1>1 DEF Wakes, Woken

LEMMA EveryWakes ==
  ASSUME AsyncInvariant, [Next]_vars, Careful, Apart, Single, NEW m \in Node
  PROVE  Wakes(m) \/ \E x \in Contexts : held[x] = m /\ Cancel(x, TRUE)
<1>1. CASE Game
  <2>1. ASSUME NEW c \in Chart, Start(c) \/ Stop(c) PROVE Wakes(m)
    BY <2>1, StartWakes, StopWakes
  <2>2. ASSUME NEW x \in Contexts, NEW r \in Results, Continue(x, r) PROVE Wakes(m)
    <3> SUFFICES ASSUME NEW n, n = held[x] PROVE Wakes(m)
      OBVIOUS
    <3>1. r \in Result
      BY ResultNames
    <3> QED BY <2>2, <3>1, AnswerWakes DEF Continue, IsNodeWaiting, Answered, control
  <2>3. ASSUME NEW x \in Contexts, NEW stop \in Cancels, Cancel(x, stop)
        PROVE  Wakes(m) \/ \E y \in Contexts : held[y] = m /\ Cancel(y, TRUE)
    <3> SUFFICES ASSUME NEW n, n = held[x] PROVE Wakes(m) \/ \E y \in Contexts : held[y] = m /\ Cancel(y, TRUE)
      OBVIOUS
    <3>1. CASE stop
      <4>1. stop = TRUE
        BY <3>1, AsyncAssumption
      <4>2. n \in Node /\ n \in Calling /\ n \in nodesSet /\ CallsEnd({n}) /\ breakpoints' = breakpoints
            /\ Become(TakenOff(Home, n)) /\ node' = node
        BY <2>3, <3>1, UsesParts DEF Cancel, IsNodeWaiting, Answered, control
      <4>3. CASE m = n
        BY <2>3, <4>1, <4>3
      <4>4. CASE m # n
        <5>1. CallbackEffect(n, None) /\ call'[m] = call[m]
          BY <4>2, <4>4, CallbackParts DEF CallsEnd
        <5> QED BY <4>2, <4>4, <5>1, SameWakes DEF CallbackEffect
      <4> QED BY <4>3, <4>4
    <3>2. CASE ~stop
      <4>1. "rFALSE" \in Result
        BY ResultNames
      <4> QED BY <2>3, <3>2, <4>1, AnswerWakes DEF Cancel, IsNodeWaiting, Answered, control
    <3> QED BY <3>1, <3>2
  <2>4. CASE (\E x \in Contexts : Forget(x)) \/ BeginStep
    BY <2>4, QuietWakes
  <2> QED BY <1>1, <2>1, <2>2, <2>3, <2>4 DEF Game
<1>2. CASE Debugger
  <2>1. ASSUME NEW c \in Chart, ContinueChart(c) PROVE Wakes(m)
    <3> DEFINE S == {n \in NodesOf(c) : DataOf[n] \in breakpoints}
    <3>1. PICK s \in Walked(S) : ActivateAll(s) /\ breakpoints' = breakpoints
      BY <2>1 DEF ContinueChart
    <3>2. S \in SUBSET Node
      BY DEF NodesOf
    <3> HIDE DEF S
    <3>3. s \in Seq(Node)
      BY <3>1, <3>2, WalkedParts DEF AsyncInvariant
    <3> QED BY <3>1, <3>3, ActivateWakes
  <2>2. ASSUME NEW d \in NodeData, DeleteBreakpoint(d) PROVE Wakes(m)
    BY <2>2, DeletedWakes
  <2>3. CASE (\E c \in Chart : DebugChart(c)) \/ (\E d \in NodeData : SetBreakpoint(d))
    BY <2>3, QuietWakes
  <2> QED BY <1>2, <2>1, <2>2, <2>3 DEF Debugger
<1>3. CASE Runtime
  <2>1. CASE CallEcho \/ CallGame \/ \E r \in Results : Returns(r)
    BY <2>1, GameWakes
  <2>2. CASE EndDebug \/ EndAsync \/ EndStep
    BY <2>2, QuietWakes
  <2>3. CASE AsyncStep \/ DispatchNode \/ FlowEnd
    BY <2>3, FlowWakes
  <2>4. CASE SkipRunning \/ WaitTick
    BY <2>4, LoopWakes
  <2>5. CASE RunSkipped \/ HoldAtBreakpoint \/ CallFunc \/ CallSuspend \/ CallWaitEvent \/ CallStop
    BY <2>5, CallsWake
  <2> QED BY <1>3, <2>1, <2>2, <2>3, <2>4, <2>5 DEF Runtime
<1>4. CASE UNCHANGED vars
  BY <1>4, QuietWakes
<1> QED BY <1>1, <1>2, <1>3, <1>4 DEF Next

\* Where the pointers say of a node what the lists do.
LEMMA WokenByLists ==
  ASSUME AsyncInvariant, Careful, Apart, NEW m \in Node
  PROVE  (Woken(m) <=> CanWake(m)) /\ (container[m] = "stack" => In(m, "stack"))
<1>1. Agrees(Home) /\ Home.list = list /\ Home.container = container
  BY DEF AsyncInvariant, Home
<1>2. m \in Sure("waiting") /\ m \in Sure("active") /\ m \in Node \ Loose
  BY Settled, ListNames
<1>3. /\ (In(m, "waiting") <=> container[m] = "waiting") /\ (In(m, "active") <=> container[m] = "active")
      /\ (In(m, "event") \/ In(m, "handling")) <=> container[m] = "event"
  BY <1>1, <1>2, ListNames DEF Agrees, In
<1>4. container[m] = "stack" => In(m, "stack")
  BY <1>1 DEF Agrees, In
<1> QED BY <1>3, <1>4 DEF Woken, CanWake

LEMMA WokenAfter ==
  ASSUME AsyncInvariant', Careful, Apart, NEW m \in Node
  PROVE  (Woken(m)' <=> CanWake(m)') /\ (container'[m] = "stack" => In(m, "stack")')
<1>1. /\ Agrees(Home)' /\ Home' = [list |-> list', container |-> container']
      /\ (Sure("waiting") = Node)' /\ (Sure("active") = Node)' /\ (Loose = {})'
  BY ListNames DEF AsyncInvariant, Home, Sure, Loose, Apart, Calling, List
<1>3. /\ (m \in Elements(list'["waiting"]) <=> container'[m] = "waiting")
      /\ (m \in Elements(list'["active"]) <=> container'[m] = "active")
      /\ (m \in Elements(list'["event"]) \cup Elements(list'["handling"])) <=> container'[m] = "event"
      /\ container'[m] = "stack" => m \in Elements(list'["stack"])
  BY <1>1, ListNames DEF Agrees, Home
<1> QED BY <1>3 DEF Woken, CanWake, In

-----------------------------------------------------------------------------
(* Breakpoints.                                                            *)

\* A node that the debugger has continued leaves the active list before its turn.
LosesContinued ==
  ~AsyncStep /\ \E n \in Node : DataOf[n] \in continueFlag /\ In(n, "active") /\ ~In(n, "active")'

\* The flow of n, which the debugger has continued, begins.
Begins(n) ==
  /\ At("loop") /\ In(n, "stack") /\ \A m \in Node \ {n} : ~ In(m, "stack")
  /\ node[n].status = "Idle" /\ ~node[n].runFlag /\ ~node[n].skip
  /\ resumed # <<>> /\ resumed[1] = n /\ ~resumed[2]

\* A node that the debugger has continued is to be resumed in this step, or is resumed.
Continued(n) ==
  \/ container[n] = "active" /\ ~node[n].skip /\ Stage \in {"debug", "async"}
  \/ Begins(n) /\ Stage = "async"

FlagInvariant ==
  /\ AsyncInvariant
  /\ continueFlag \subseteq breakpoints
  /\ \A n \in Node : DataOf[n] \in continueFlag => Continued(n)

\* A node at the top of the stack that is neither skipped nor runs is held or run.
LEMMA VisitSteps ==
  ASSUME AsyncInvariant, Next, NEW n, Visit(n), ~node[n].skip
  PROVE  HoldAtBreakpoint \/ \E kind \in Kinds : CallsFunction(n, kind)
<1>1. /\ flow.pc = "loop" /\ InLoop /\ n = Top /\ list["stack"] # <<>> /\ flow.chart \in running
      /\ node[n].status # "Running" /\ ~node[n].runFlag /\ n \in Node
  BY VisitParts DEF Visit, InLoop, At
<1>2. ~Game
  <2>1. \A c \in Chart : ~Start(c) /\ ~Stop(c)
    BY <1>1 DEF Start, Stop, MayStop, Idle, InFunction, At
  <2>2. \A x \in Contexts : ~Uses(x) /\ ~Forget(x)
    BY <1>1 DEF Uses, Forget, Idle, InFunction, At
  <2>3. ~BeginStep
    BY <1>1 DEF BeginStep, Idle, At
  <2> QED BY <2>1, <2>2, <2>3 DEF Game, Continue, Cancel
<1>3. ~Debugger
  BY <1>1 DEF Debugger, DebugChart, ContinueChart, SetBreakpoint, DeleteBreakpoint, InDebug, At
<1>4. /\ ~EndDebug /\ ~AsyncStep /\ ~EndAsync /\ ~DispatchNode /\ ~EndStep /\ ~FlowEnd
      /\ ~SkipRunning /\ ~WaitTick /\ \A r \in Results : ~Returns(r)
  BY <1>1 DEF EndDebug, AsyncStep, EndAsync, DispatchNode, EndStep, FlowEnd, SkipRunning, WaitTick,
              Returns, InFunction, At
<1>5. ASSUME NEW m, Visit(m) PROVE m = n
  BY <1>1, <1>5 DEF Visit
<1>6. ~RunSkipped
  BY <1>5 DEF RunSkipped
<1>7. CASE CallFunc \/ CallSuspend \/ CallEcho \/ CallGame \/ CallWaitEvent \/ CallStop
  <2>1. PICK m \in Node, kind \in Kinds : CallsFunction(m, kind)
    BY <1>7 DEF CallFunc, CallSuspend, CallEcho, CallGame, CallWaitEvent, CallStop, Kinds
  <2>2. m = n
    BY <1>5, <2>1 DEF CallsFunction
  <2> QED BY <2>1, <2>2
<1> QED BY <1>2, <1>3, <1>4, <1>6, <1>7 DEF Next, Runtime

\* The flow of a node that begins is its first visit.
LEMMA BeginVisits ==
  ASSUME AsyncInvariant, NEW n \in Node, Begins(n)
  PROVE  Visit(n)
<1>1. n \in Elements(list["stack"])
  BY DEF Begins, In
<1>2. list["stack"] # <<>> /\ flow.chart \in running
  BY <1>1 DEF Elements, AsyncInvariant, FlowInvariant, InFlow, Begins, At
<1>3. InLoop
  BY <1>2 DEF InLoop, Begins
<1>4. Top = n
  <2>1. list["stack"] \in Seq(Node)
    BY ListNames DEF AsyncInvariant, TypeOK
  <2>2. Top \in Node /\ In(Top, "stack")
    BY <1>2, <2>1, LastType DEF Top, In
  <2> QED BY <2>2 DEF Begins
<1> QED BY <1>3, <1>4 DEF Begins, Visit

\* Only continuing a chart sets flags, each of a node that is held; and the flag goes
\* with the breakpoint.
LEMMA FlagsFall ==
  ASSUME Next, ~\E c \in Chart : ContinueChart(c)
  PROVE  /\ continueFlag' \subseteq continueFlag
         /\ continueFlag \subseteq breakpoints => continueFlag' \subseteq breakpoints'
<1>1. CASE Game
  BY <1>1 DEF Game, Start, Stop, Continue, Cancel, Forget, BeginStep, control
<1>2. CASE Debugger
  <2>1. ASSUME NEW c \in Chart, DebugChart(c) PROVE continueFlag' = continueFlag /\ breakpoints' = breakpoints
    BY <2>1 DEF DebugChart
  <2>2. ASSUME NEW d \in NodeData, SetBreakpoint(d)
        PROVE  continueFlag' = continueFlag /\ breakpoints \subseteq breakpoints'
    BY <2>2 DEF SetBreakpoint
  <2>3. ASSUME NEW d \in NodeData, DeleteBreakpoint(d)
        PROVE  continueFlag' = continueFlag \ {d} /\ breakpoints' = breakpoints \ {d}
    BY <2>3 DEF DeleteBreakpoint
  <2> QED BY <1>2, <2>1, <2>2, <2>3 DEF Debugger
<1>3. CASE Runtime
  <2>1. CASE EndDebug \/ EndAsync \/ DispatchNode \/ EndStep \/ SkipRunning \/ WaitTick \/ RunSkipped \/ HoldAtBreakpoint
    BY <2>1 DEF EndDebug, EndAsync, DispatchNode, EndStep, SkipRunning, WaitTick, RunSkipped, HoldAtBreakpoint, control
  <2>2. CASE AsyncStep \/ FlowEnd \/ \E r \in Results : Returns(r)
    BY <2>2 DEF AsyncStep, Resumes, FlowEnd, Returns, control
  <2>3. CASE CallFunc \/ CallSuspend \/ CallEcho \/ CallGame \/ CallWaitEvent \/ CallStop
    BY <2>3 DEF CallFunc, CallSuspend, CallEcho, CallGame, CallWaitEvent, CallStop, CallsFunction
  <2> QED BY <1>3, <2>1, <2>2, <2>3 DEF Runtime
<1> QED BY <1>1, <1>2, <1>3 DEF Next

\* Manager::Step goes on from the debugger to the activated nodes, and from them when
\* there are none left.
LEMMA StageStays ==
  ASSUME AsyncInvariant, Next, Stage \in {"debug", "async"}
  PROVE  Stage' \in {"debug", "async"} \/ (EndAsync /\ list["active"] = <<>>)
<1>0. flow \in FlowState
  BY DEF AsyncInvariant, TypeOK
<1>1. CASE Game
  <2>1. ~ Idle
    BY DEF Idle, At, Stage, InFlow
  <2>2. flow' = flow
    BY <1>1, <2>1 DEF Game, Start, Stop, Continue, Cancel, Forget, BeginStep
  <2> QED BY <2>2 DEF Stage, InFlow
<1>2. CASE Debugger
  <2>1. flow' = flow
    BY <1>2 DEF Debugger, DebugChart, ContinueChart, SetBreakpoint, DeleteBreakpoint
  <2> QED BY <2>1 DEF Stage, InFlow
<1>3. CASE Runtime
  <2>1. CASE EndDebug
    BY <1>0, <2>1 DEF EndDebug, Stage, InFlow, FlowState
  <2>2. CASE EndAsync
    BY <2>2 DEF EndAsync
  <2>3. CASE DispatchNode \/ EndStep
    BY <2>3 DEF DispatchNode, EndStep, At, Stage, InFlow
  <2>4. CASE AsyncStep
    BY <2>4, AsyncStepParts DEF ResumeEffect
  <2>5. CASE FlowEnd
    <3>1. flow' = [NoFlow EXCEPT !.pc = flow.caller] /\ Stage = flow.caller
      BY <2>5 DEF FlowEnd, At, Stage, InFlow
    <3> QED BY <3>1 DEF NoFlow, Stage, InFlow
  <2>6. CASE \/ RunSkipped \/ HoldAtBreakpoint \/ CallFunc \/ CallSuspend \/ CallWaitEvent \/ CallStop
             \/ \E r \in Results : Returns(r)
    <3>1. PICK n, h, nodes : AfterRun(n, h, nodes)
      BY <2>6 DEF RunSkipped, HoldAtBreakpoint, CallFunc, CallSuspend, CallWaitEvent, CallStop, Returns
    <3>2. flow'.pc = "loop" /\ flow'.caller = flow.caller
      BY <1>0, <3>1 DEF AfterRun, FlowState
    <3>3. flow.pc \in {"loop", "called"}
      BY <2>6 DEF RunSkipped, HoldAtBreakpoint, CallFunc, CallSuspend, CallWaitEvent, CallStop, CallsFunction,
                  Visit, InLoop, Returns, InFunction, At
    <3> QED BY <3>2, <3>3 DEF Stage, InFlow
  <2>7. CASE SkipRunning \/ WaitTick
    <3>1. flow'.pc = flow.pc /\ flow'.caller = flow.caller
      BY <1>0, <2>7 DEF SkipRunning, WaitTick, FlowState
    <3> QED BY <3>1 DEF Stage, InFlow
  <2>8. CASE CallEcho \/ CallGame
    <3>1. flow.pc = "loop" /\ flow'.pc = "called" /\ flow'.caller = flow.caller
      BY <1>0, <2>8 DEF CallEcho, CallGame, CallsFunction, Visit, InLoop, EntersGame, At, FlowState
    <3> QED BY <3>1 DEF Stage, InFlow
  <2> QED BY <1>3, <2>1, <2>2, <2>3, <2>4, <2>5, <2>6, <2>7, <2>8 DEF Runtime
<1> QED BY <1>1, <1>2, <1>3 DEF Next

\* The node at the top of the stack is the one a breakpoint holds.
LEMMA HoldSuspends ==
  ASSUME AsyncInvariant, Careful, Apart, NEW n, Visit(n), HoldAtBreakpoint
  PROVE  Suspends(n)
<1>1. PICK m \in Node :
        /\ Visit(m) /\ call' = call /\ resumed' = resumed
        /\ AfterRun(m, Pushed(Home, "waiting", m),
                    [Entered(m) EXCEPT ![m].status = "Running", ![m].result = "rTRUE"])
  BY DEF HoldAtBreakpoint, calls
<1>2. m = n
  BY <1>1 DEF Visit
<1> DEFINE nodes == [Entered(m) EXCEPT ![m].status = "Running", ![m].result = "rTRUE"]
<1>3. nodes \in [Node -> NodeState] /\ (\A k \in Node \ {m} : nodes[k] = node[k]) /\ nodes[m].status = "Running"
  BY ResultNames, SuspendedNode DEF CalledAs, AsyncInvariant
<1>4. AfterRun(m, Pushed(Home, "waiting", m), nodes)
  BY <1>1
<1> HIDE DEF nodes
<1> QED BY <1>1, <1>2, <1>3, <1>4, RunSuspends

\* A node that stays in the active list keeps its skip, whoever calls back.
LEMMA ActiveKeepsSkip ==
  ASSUME AsyncInvariant, [Next]_vars, Careful, Apart,
         NEW n \in Node, container[n] = "active", container'[n] = "active"
  PROVE  node'[n].skip = node[n].skip
<1>0. TypeOK
  BY DEF AsyncInvariant
<1>1. CASE ~Echoes
  BY <1>1, StepsClassified, ActiveUntouched DEF Untouched
<1>2. ASSUME NEW r \in Results, Returns(r) PROVE node'[n].skip = node[n].skip
  <2> SUFFICES ASSUME NEW m, m = flow.current PROVE node'[n].skip = node[n].skip
    OBVIOUS
  <2> DEFINE t == IF node[m].result = "rSTOP" THEN "rSTOP" ELSE r
             nodes == [node EXCEPT ![m].result = t]
  <2>1. /\ m \in Node /\ flow \in FlowState /\ Home \in HomeSet /\ Agrees(Home) /\ node \in [Node -> NodeState]
        /\ AfterRun(m, Home, [node EXCEPT ![m].result = IF @ = "rSTOP" THEN @ ELSE r])
    BY <1>0, <1>2, HomeTyped DEF Returns, AsyncInvariant, FlowInvariant, InGame, TypeOK
  <2>2. AfterRun(m, Home, nodes)
    <3>1. nodes = [node EXCEPT ![m].result = IF @ = "rSTOP" THEN @ ELSE r]
      BY <2>1
    <3> QED BY <2>1, <3>1
  <2>3. nodes \in [Node -> NodeState] /\ \A k \in Node : nodes[k].skip = node[k].skip
    <3>1. t \in Result
      BY <2>1, ResultNames DEF NodeState
    <3> HIDE DEF t
    <3> QED BY <2>1, <3>1 DEF NodeState
  <2> HIDE DEF nodes
  <2>4. node'[n].skip = nodes[n].skip
    <3> HIDE DEF t
    <3>1. Successors(m, nodes) \subseteq Node /\ RunEffect(m, Home, nodes, Successors(m, nodes))
      <4>1. RunEffect(m, Home, nodes, Successors(m, nodes))
        BY <2>1, <2>2, <2>3, AfterRunParts
      <4> QED BY <4>1 DEF RunEffect
    <3>2. /\ \A k \in Node \ {m} : node'[k] = nodes[k]
          /\ node'[m].skip = nodes[m].skip
      BY <3>1 DEF RunEffect
    <3> QED BY <3>2
  <2> QED BY <2>3, <2>4
<1> QED BY <1>1, <1>2 DEF Echoes

\* The debugger continues the nodes of a chart.
LEMMA ChartContinues ==
  ASSUME FlagInvariant, Single, NEW c \in Chart, ContinueChart(c)
  PROVE  /\ continueFlag' \subseteq breakpoints'
         /\ \A n \in Node : DataOf[n] \in continueFlag' => Continued(n)'
<1>1. AsyncInvariant /\ TypeOK /\ breakpoints \subseteq Breakable /\ continueFlag \subseteq breakpoints
  BY DEF FlagInvariant, AsyncInvariant
<1> DEFINE S == {n \in NodesOf(c) : DataOf[n] \in breakpoints}
<1>2. PICK s \in Walked(S) :
        continueFlag' = continueFlag \cup {DataOf[n] : n \in Elements(s)} /\ ActivateAll(s)
  BY DEF ContinueChart
<1>3. S \in SUBSET Node /\ \A n \in S : DataOf[n] \in breakpoints
  BY DEF NodesOf
<1> HIDE DEF S
<1>4. s \in Seq(Node) /\ \A n \in Elements(s) : n \in Node /\ DataOf[n] \in breakpoints
  BY <1>1, <1>2, <1>3, WalkedParts
<1>5. ActivateEffect(s) /\ flow.pc = "debug" /\ flow' = flow /\ breakpoints' = breakpoints
  BY <1>1, <1>2, <1>4, ActivateParts DEF ContinueChart, InDebug, At
<1>6. Stage = "debug" /\ Stage' = "debug"
  BY <1>5 DEF Stage, InFlow
<1>7. ASSUME NEW n \in Node, DataOf[n] \in continueFlag' PROVE Continued(n)'
  <2>1. CASE n \in Elements(s)
    <3>1. container'[n] = "active" /\ node'[n] = [node[n] EXCEPT !.skip = FALSE] /\ node[n] \in NodeState
      BY <1>1, <1>5, <2>1 DEF ActivateEffect, TypeOK
    <3> QED BY <1>6, <3>1 DEF Continued, NodeState
  <2>2. CASE n \notin Elements(s)
    <3>1. DataOf[n] \in continueFlag
      <4> SUFFICES ASSUME NEW m \in Elements(s), DataOf[n] = DataOf[m] PROVE FALSE
        BY <1>2, <1>7
      <4>1. m \in Node /\ DataOf[n] \in Breakable
        BY <1>1, <1>4
      <4> QED BY <2>2, <4>1 DEF Single
    <3>2. Continued(n)
      BY <3>1 DEF FlagInvariant
    <3>3. container[n] = "active" /\ ~node[n].skip
      BY <1>5, <3>2 DEF Continued, Begins, At
    <3>4. container'[n] = container[n] /\ node'[n] = node[n]
      BY <1>5, <2>2 DEF ActivateEffect, Same, Home
    <3> QED BY <1>6, <3>3, <3>4 DEF Continued
  <2> QED BY <2>1, <2>2
<1> QED BY <1>1, <1>2, <1>4, <1>5, <1>7

\* A continued node stays in the active list, or its flow begins.
LEMMA ActiveContinues ==
  ASSUME AsyncInvariant, AsyncInvariant', Next, Careful, Apart, NEW n \in Node,
         container[n] = "active", ~node[n].skip, Stage \in {"debug", "async"},
         AsyncStep \/ In(n, "active")'
  PROVE  Continued(n)'
<1>1. (In(n, "active") <=> container[n] = "active") /\ (In(n, "active")' <=> container'[n] = "active")
  BY PhaseByPointer
<1>2. CASE In(n, "active")'
  <2>1. container'[n] = "active" /\ ~node'[n].skip
    BY <1>1, <1>2, ActiveKeepsSkip
  <2>2. list["active"] # <<>>
    BY <1>1 DEF In, Elements
  <2> QED BY <2>1, <2>2, StageStays DEF Continued
<1>3. CASE AsyncStep /\ ~In(n, "active")'
  <2> DEFINE h == Head(list["active"])
  <2>1. ResumeEffect(h)
    BY <1>3, AsyncStepParts
  <2> HIDE DEF h
  <2>2. h = n
    <3> SUFFICES ASSUME h # n PROVE FALSE
      OBVIOUS
    <3>1. container'[n] = container[n]
      BY <2>1 DEF ResumeEffect, Same, Home
    <3> QED BY <1>1, <1>3, <3>1
  <2>3. ChartOf[n] \in running
    <3>1. Quiet(n)
      BY Settled DEF AsyncInvariant, NodeInvariant
    <3> QED BY <3>1, ListNames DEF Quiet, List
  <2>4. \A m \in Node \ {n} : ~ In(m, "stack")'
    BY <2>1, <2>2 DEF ResumeEffect
  <2>5. /\ At("loop")' /\ In(n, "stack")' /\ node'[n].status = "Idle" /\ ~node'[n].runFlag /\ ~node'[n].skip
        /\ resumed' = <<n, node[n].skip, node[n].result>> /\ Stage' = "async"
    <3>1. container'[n] = "stack" => In(n, "stack")'
      BY <2>1 DEF ResumeEffect, Agrees, In, Home
    <3> QED BY <2>1, <2>2, <2>3, <3>1 DEF ResumeEffect
  <2> QED BY <2>4, <2>5 DEF Continued, Begins
<1> QED BY <1>2, <1>3

LEMMA FlagStep ==
  ASSUME FlagInvariant, [Next]_vars, [~LosesContinued]_vars, Careful, Apart, Single
  PROVE  FlagInvariant'
<1>0. AsyncInvariant /\ AsyncInvariant'
  BY EveryStep DEF FlagInvariant
<1>1. CASE UNCHANGED vars
  <2>1. /\ \A n \in Node : Continued(n)' <=> Continued(n)
        /\ UNCHANGED <<continueFlag, breakpoints>>
    BY <1>1 DEF vars, lists, control, Continued, Begins, Stage, InFlow, At, In
  <2> QED BY <1>0, <2>1 DEF FlagInvariant
<1>2. ASSUME NEW c \in Chart, ContinueChart(c) PROVE FlagInvariant'
  BY <1>0, <1>2, ChartContinues DEF FlagInvariant
<1>3. CASE Next /\ ~LosesContinued /\ ~\E c \in Chart : ContinueChart(c)
  <2>1. continueFlag' \subseteq continueFlag /\ continueFlag' \subseteq breakpoints'
    BY <1>3, FlagsFall DEF FlagInvariant
  <2>2. ASSUME NEW n \in Node, DataOf[n] \in continueFlag' PROVE Continued(n)'
    <3>1. DataOf[n] \in continueFlag /\ Continued(n)
      BY <2>1, <2>2 DEF FlagInvariant
    <3>2. CASE container[n] = "active" /\ ~node[n].skip /\ Stage \in {"debug", "async"}
      <4>1. In(n, "active")
        BY <1>0, <3>2, PhaseByPointer
      <4>2. AsyncStep \/ In(n, "active")'
        BY <1>3, <3>1, <4>1 DEF LosesContinued
      <4> QED BY <1>0, <1>3, <3>2, <4>2, ActiveContinues
    <3>3. CASE Begins(n)
      <4>1. Visit(n) /\ ~node[n].skip
        BY <1>0, <3>3, BeginVisits DEF Begins
      <4>2. CASE HoldAtBreakpoint
        <5>1. PICK m \in Node : Visit(m) /\ Breaks(m)
          BY <4>2 DEF HoldAtBreakpoint
        <5> QED BY <3>1, <4>1, <5>1 DEF Visit, Breaks
      <4>3. ASSUME NEW kind \in Kinds, CallsFunction(n, kind) PROVE FALSE
        BY <2>2, <4>3 DEF CallsFunction
      <4> QED BY <1>0, <1>3, <4>1, <4>2, <4>3, VisitSteps
    <3> QED BY <3>1, <3>2, <3>3 DEF Continued
  <2> QED BY <1>0, <2>1, <2>2 DEF FlagInvariant
<1> QED BY <1>1, <1>2, <1>3

-----------------------------------------------------------------------------
(* The theorems.                                                           *)

\* The inductive invariant holds in every reachable state, whatever the game and
\* the debugger do (async_manager.cpp:9-79, manager.cpp:649-694).
THEOREM AsyncInvariantHolds == Spec => []AsyncInvariant
<1>1. AsyncInvariant /\ [Next]_vars => AsyncInvariant'
  BY EveryStep
<1> QED BY <1>1, InitHolds, PTL DEF Spec

\* Every variable keeps its type, a container pointer names a list
\* (async_manager.h:32-34, node.h:62).
THEOREM AsyncTypes == Spec => []TypeOK
<1>1. AsyncInvariant => TypeOK
  BY DEF AsyncInvariant
<1> QED BY <1>1, AsyncInvariantHolds, PTL

\* However often and however late the game calls back, also from the functions of
\* nodes, a node is activated once, and one that waits in the list is in the set, if the
\* debugger keeps away from the nodes that suspend (async_manager.cpp:25-49).
THEOREM NodesActivateOnce ==
  ASSUME Apart
  PROVE  Spec => []ActiveOnce
<1>1. ASSUME AsyncInvariant PROVE ActiveOnce
  <2>1. {"active", "waiting"} \subseteq List /\ Sure("active") = Node
    BY DEF List, Sure, Loose
  <2>2. list["active"] \in Seq(Node) /\ list["waiting"] \in Seq(Node)
    BY <1>1, <2>1 DEF AsyncInvariant, TypeOK
  <2>3. Once(list["active"], Node)
    BY <1>1, <2>1 DEF AsyncInvariant, Agrees, Home
  <2>4. NoRepeats(list["active"])
    <3>1. \A i \in 1..Len(list["active"]) : list["active"][i] \in Node
      BY <2>2
    <3> QED BY <2>3, <3>1 DEF Once, NoRepeats
  <2>5. Elements(list["waiting"]) \subseteq Node
    BY <2>2, ElementsType
  <2>6. \A n \in Node : In(n, "waiting") => n \in nodesSet
    BY <1>1 DEF AsyncInvariant, NodeInvariant
  <2> QED BY <2>4, <2>5, <2>6 DEF ActiveOnce, In
<1> QED BY <1>1, AsyncInvariantHolds, PTL

\* The answer to a call that is pending is never refused when the debugger keeps away
\* from the nodes that suspend: nodes_set_ has the node until the call ends
\* (async_manager.cpp:25-34, manager.cpp:667).
THEOREM PendingCallsAreAccepted ==
  ASSUME Apart
  PROVE  Spec => []PendingIsAccepted
<1>1. AsyncInvariant => PendingIsAccepted
  BY DEF AsyncInvariant, NodeInvariant, PendingCall, PendingIsAccepted, IsNodeWaiting
<1> QED BY <1>1, AsyncInvariantHolds, PTL

\* Nor does the debugger, then, continue a node that waits for the game's answer
\* (async_manager.cpp:70-79).
THEOREM SuspendedNodesStay ==
  ASSUME Apart
  PROVE  Spec => []SuspendedNodesStaySuspended
<1>1. ASSUME AsyncInvariant PROVE SuspendedNodesStaySuspended
  <2>1. "active" \in List \ {"event", "handling"} /\ Sure("active") = Node
    BY DEF List, Sure, Loose
  <2>2. \A n \in Node : In(n, "active") <=> container[n] = "active"
    BY <1>1, <2>1 DEF AsyncInvariant, Agrees, In, Home
  <2> QED BY <1>1, <2>2, ListNames DEF AsyncInvariant, NodeInvariant, PendingCall, SuspendedNodesStaySuspended, List
<1> QED BY <1>1, AsyncInvariantHolds, PTL

\* A node is in the list its container pointer names, once, and in no other but the
\* stack, whenever the game calls back, if the debugger keeps away from the nodes that
\* suspend (custom_struct.cpp:33, async_manager.cpp:37).
THEOREM NodesInTheirList ==
  ASSUME Apart
  PROVE  Spec => []ContainersAgree
<1>1. ASSUME AsyncInvariant PROVE ContainersAgree
  <2>1. Node \ Loose = Node /\ \A w \in List \ {"stack"} : Sure(w) = Node
    BY DEF Loose, Sure
  <2>2. \A w \in List \ {"stack"} : NoRepeats(list[w])
    <3> TAKE w \in List \ {"stack"}
    <3>1. list[w] \in Seq(Node) /\ Once(list[w], Node)
      BY <1>1, <2>1 DEF AsyncInvariant, TypeOK, Agrees, Home
    <3>2. \A i \in 1..Len(list[w]) : list[w][i] \in Node
      BY <3>1
    <3> QED BY <3>1, <3>2 DEF Once, NoRepeats
  <2>3. \A n \in Node : \A w \in {"waiting", "active"} : In(n, w) <=> container[n] = w
    BY <1>1, <2>1, ListNames DEF AsyncInvariant, Agrees, Home, In
  <2>4. \A n \in Node :
          /\ (In(n, "event") \/ In(n, "handling")) <=> container[n] = "event"
          /\ ~(In(n, "event") /\ In(n, "handling"))
    <3> TAKE n \in Node
    <3>1. /\ n \in Elements(list["event"]) \cup Elements(list["handling"]) <=> container[n] = "event"
          /\ n \notin Elements(list["event"]) \cap Elements(list["handling"])
      BY <1>1, <2>1 DEF AsyncInvariant, Agrees, Home
    <3> QED BY <3>1 DEF In
  <2>6. \A n \in Node : container[n] = "stack" => In(n, "stack")
    BY <1>1 DEF AsyncInvariant, Agrees, Home, In
  <2>7. \A n \in Node : (In(n, "event") \/ In(n, "handling")) <=> container[n] = "event"
    BY <2>4
  <2>8. \A n \in Node : ~(In(n, "event") /\ In(n, "handling"))
    BY <2>4
  <2> QED BY <2>2, <2>3, <2>6, <2>7, <2>8, Zenon DEF ContainersAgree
<1> QED BY <1>1, AsyncInvariantHolds, PTL

\* A callback cannot wake a chart that was stopped: it has no node that runs, waits or
\* is about to be resumed, if the game calls back only for calls that are pending and
\* the debugger keeps away from the nodes that suspend (chart.cpp:76, manager.cpp:664).
THEOREM StoppedChartsAreQuiet ==
  ASSUME Careful, Apart
  PROVE  Spec => []StoppedChartIsQuiet
<1>1. AsyncInvariant => StoppedChartIsQuiet
  BY Settled DEF AsyncInvariant, NodeInvariant, Quiet, StoppedChartIsQuiet
<1> QED BY <1>1, AsyncInvariantHolds, PTL

\* What the game or the debugger has decided for a node it activates stays until the
\* node runs (async_manager.h:33, node.cpp:68, async_manager.cpp:16-18).
THEOREM AnswersAreKept ==
  ASSUME Careful, Apart, Silent
  PROVE  Spec => AnswerIsKept
<1> DEFINE Decided(n) == In(n, "active") /\ In(n, "active")' =>
                        node'[n].skip = node[n].skip /\ node'[n].result = node[n].result
<1>1. ASSUME AsyncInvariant, AsyncInvariant', [Next]_vars, NEW n \in Node,
             In(n, "active"), In(n, "active")'
      PROVE  node'[n].skip = node[n].skip /\ node'[n].result = node[n].result
  <2>1. Classified
    BY <1>1, SilentSteps, StepsClassified
  <2>2. container[n] = "active" /\ container'[n] = "active"
    BY <1>1, PhaseByPointer
  <2> QED BY <2>1, <2>2, ActiveUntouched DEF Untouched
<1>2. AsyncInvariant /\ AsyncInvariant' /\ [Next]_vars => \A n \in Node : Decided(n)
  BY <1>1
<1> QED BY <1>2, AsyncInvariantHolds, PTL DEF Spec, AnswerIsKept

\* Every suspended node is answered at most once, and resumed after that with that
\* answer, whatever is stopped meanwhile: what the nodes are kept in implements
\* SuspendedCalls (manager.cpp:649-694, async_manager.cpp:9-49).
THEOREM CallsKeepTheirPromise ==
  ASSUME Careful, Apart, Silent
  PROVE  Spec => KeepsPromise
<1>1. AsyncInvariant /\ AsyncInvariant' /\ [Next]_vars => [Promise!Next]_(Promise!vars)
  BY PromiseStep
<1> QED BY <1>1, PromiseInit, AsyncInvariantHolds, PTL DEF Spec, KeepsPromise, Promise!Spec

\* A node that begins to run can be woken by a callback, an event or the debugger, and
\* stays so until it is resumed or stopped, its call is cancelled with stop, or a second
\* path pushes it on the stack, if no two objects share a breakpoint
\* (async_manager.cpp:11-23, 52-79, executor.cpp:19).
THEOREM SuspendedNodesWake ==
  ASSUME Careful, Apart, Single
  PROVE  Spec => NodesStayWakeable
<1> DEFINE Lives(n) ==
      node'[n].status = "Running" /\ (node[n].status = "Running" => CanWake(n))
      => CanWake(n)' \/ In(n, "stack")' \/ \E x \in Contexts : held[x] = n /\ Cancel(x, TRUE)
<1>1. ASSUME AsyncInvariant, AsyncInvariant', [Next]_vars, NEW n \in Node
      PROVE  Lives(n)
  <2>1. Wakes(n) \/ \E x \in Contexts : held[x] = n /\ Cancel(x, TRUE)
    BY <1>1, EveryWakes
  <2>2. Woken(n) <=> CanWake(n)
    BY <1>1, WokenByLists
  <2>3. (Woken(n)' <=> CanWake(n)') /\ (container'[n] = "stack" => In(n, "stack")')
    BY <1>1, WokenAfter
  <2> QED BY <2>1, <2>2, <2>3 DEF Wakes
<1>2. AsyncInvariant /\ AsyncInvariant' /\ [Next]_vars => \A n \in Node : Lives(n)
  BY <1>1
<1> QED BY <1>2, AsyncInvariantHolds, PTL DEF Spec, NodesStayWakeable

\* A node at a breakpoint of a chart that is debugged runs its function only if it is
\* the node the debugger has continued (node_func.cpp:20-39).  It can run through its
\* breakpoint only when it has left the active list before its turn, which leaves its
\* continue flag set, or when two objects share a breakpoint.
THEOREM BreakpointsHold ==
  ASSUME Careful, Apart, Single
  PROVE  Spec /\ [][~LosesContinued]_vars => BreakpointHolds
<1>1. Init => FlagInvariant
  <2>1. ASSUME Init PROVE continueFlag = {}
    BY <2>1 DEF Init
  <2> QED BY <2>1, InitHolds DEF FlagInvariant
<1>2. FlagInvariant /\ [Next]_vars /\ [~LosesContinued]_vars => FlagInvariant'
  BY FlagStep
<1>3. ASSUME FlagInvariant, [Next]_vars
      PROVE  [\A n \in Node :
                /\ Visit(n) /\ ~node[n].skip /\ DataOf[n] \in breakpoints /\ ChartOf[n] \in debugged
                /\ ~In(n, "waiting")'
                => resumed # <<>> /\ resumed[1] = n /\ ~resumed[2]]_vars
  <2> SUFFICES ASSUME Next, NEW n \in Node, Visit(n), ~node[n].skip,
                      DataOf[n] \in breakpoints, ChartOf[n] \in debugged, ~In(n, "waiting")'
               PROVE  resumed # <<>> /\ resumed[1] = n /\ ~resumed[2]
    BY <1>3
  <2>1. AsyncInvariant /\ AsyncInvariant'
    BY <1>3, EveryStep DEF FlagInvariant
  <2>2. ~HoldAtBreakpoint
    <3> SUFFICES ASSUME HoldAtBreakpoint PROVE FALSE
      OBVIOUS
    <3>1. Suspends(n)
      BY <2>1, HoldSuspends
    <3>2. In(n, "waiting")'
      BY <2>1, <3>1, PhaseByPointer DEF Suspends
    <3> QED BY <3>2
  <2>3. PICK kind \in Kinds : CallsFunction(n, kind)
    BY <2>1, <2>2, VisitSteps
  <2>4. DataOf[n] \in continueFlag
    BY <2>3 DEF CallsFunction, Breaks
  <2>5. Continued(n) /\ container[n] # "active"
    BY <1>3, <2>1, <2>4, VisitFree, Settled DEF FlagInvariant
  <2> QED BY <2>5 DEF Continued, Begins
<1> QED BY <1>1, <1>2, <1>3, PTL DEF Spec, BreakpointHolds
=============================================================================
