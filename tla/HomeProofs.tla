----------------------------- MODULE HomeProofs -----------------------------
(***************************************************************************)
(* Every node has one home: in FlowExecutor a node is in the list that its *)
(* container pointer names, once, and in no other; an executor pops the    *)
(* node it has run; the current event is that of the innermost dispatch;   *)
(* and if the stack has room for them, an event runs the nodes it wakes.   *)
(***************************************************************************)
EXTENDS FlowProofs

-----------------------------------------------------------------------------
(* The inductive invariant behind ContainersAgree and PopsWhatItRan.       *)

\* The loop of flow k is over.
Done(k) == level[k].pc \in {"restore", "end"} \/ level[k].caller = "end"

\* An executor that runs no nodes holds none; a dispatch has its list only.
Tidy(k) ==
  /\ k = 0 \/ k > index \/ Done(k) => stack[k] = <<>>
  /\ level[k].pc # "dispatch" => handling[k] = <<>>
  /\ level[k].caller # "idle" => level[k].pc \in {"dispatch", "return", "returned"}
  /\ level[k].caller = "end" => level[k].pc # "dispatch"

\* The node whose function is being called is on top, if it is still on the stack;
\* once its chart has stopped, it has nothing to go on with.
CurrentOnTop(k) ==
  InCall(k) =>
    /\ container[level[k].current] = k => Last(stack[k]) = level[k].current
    /\ ~IsRunning(ChartOf[level[k].current]) => node[level[k].current].result = "rSTOP"

\* A flow returns from its own chart; a flow that the return has called is the owner's.
ReturnsOwnChart(k) ==
  level[k].pc \in {"return", "returned"} =>
    /\ level[k].returning = level[k].chart
    /\ level[k].pc = "returned" /\ k < index =>
         /\ OwnerNode[level[k].chart] \in Node
         /\ level[k + 1].chart = ChartOf[OwnerNode[level[k].chart]]

\* The nodes of a stopped chart are nowhere.
StoppedNodesAreOut == \A n \in Node : ~IsRunning(ChartOf[n]) => container[n] = 0

HomeInvariant ==
  /\ QuietInvariant /\ ContainersAgree /\ StoppedNodesAreOut
  /\ \A k \in Level : Tidy(k) /\ (k \in 1..index => CurrentOnTop(k) /\ ReturnsOwnChart(k))

-----------------------------------------------------------------------------
(* Moving nodes between lists.                                             *)

\* Taking nodes out of all lists, each by its container pointer, leaves the others.
LEMMA WithoutParts ==
  ASSUME ListsTyped, ContainersAgree, NEW S
  PROVE  /\ \A k \in Level :
              /\ Elements(StackWithout(S)[k]) = Elements(stack[k]) \ S
              /\ NoRepeats(StackWithout(S)[k])
              /\ stack[k] = <<>> => StackWithout(S)[k] = <<>>
              /\ stack[k] # <<>> /\ Last(stack[k]) \notin S =>
                   StackWithout(S)[k] # <<>> /\ Last(StackWithout(S)[k]) = Last(stack[k])
         /\ \A k \in Level :
              /\ Elements(HandlingWithout(S)[k]) = Elements(handling[k]) \ S
              /\ NoRepeats(HandlingWithout(S)[k])
              /\ handling[k] = <<>> => HandlingWithout(S)[k] = <<>>
         /\ \A w \in Wait :
              /\ Elements(WaitingWithout(S)[w]) = Elements(waiting[w]) \ S
              /\ NoRepeats(WaitingWithout(S)[w])
<1>1. \A s \in Seq(Node) : \A U :
        s = <<>> => Without(s, U) = <<>>
  <2> TAKE s \in Seq(Node)
  <2> TAKE U
  <2> HAVE s = <<>>
  <2>1. Elements(s) = {}
    BY DEF Elements
  <2> QED BY <2>1, WithoutNone
<1>2. ASSUME NEW k \in Level
      PROVE  /\ Elements(StackWithout(S)[k]) = Elements(stack[k]) \ S
             /\ NoRepeats(StackWithout(S)[k])
             /\ stack[k] = <<>> => StackWithout(S)[k] = <<>>
             /\ stack[k] # <<>> /\ Last(stack[k]) \notin S =>
                  StackWithout(S)[k] # <<>> /\ Last(StackWithout(S)[k]) = Last(stack[k])
  <2> DEFINE s == stack[k]
             U == InStack(S, k)
  <2>1. s \in Seq(Node) /\ NoRepeats(s) /\ StackWithout(S)[k] = Without(s, U) /\ U \subseteq S
    BY DEF ListsTyped, ContainersAgree, StackWithout, InStack
  <2>2. Elements(s) \subseteq Node /\ Elements(s) \cap S \subseteq U
    <3>1. Elements(s) \subseteq Node
      BY <2>1, ElementsType
    <3>2. \A n \in Elements(s) : container[n] = k
      BY <3>1 DEF ContainersAgree, Holds
    <3> QED BY <3>1, <3>2 DEF InStack
  <2> HIDE DEF s, U
  <2>3. Elements(Without(s, U)) = Elements(s) \ U /\ NoRepeats(Without(s, U))
    BY <2>1, WithoutElements, WithoutOnly
  <2>4. s # <<>> /\ Last(s) \notin S => Without(s, U) # <<>> /\ Last(Without(s, U)) = Last(s)
    BY <2>1, WithoutLast
  <2>5. s = <<>> => Without(s, U) = <<>>
    BY <1>1, <2>1
  <2> QED BY <2>1, <2>2, <2>3, <2>4, <2>5 DEF s
<1>3. ASSUME NEW k \in Level
      PROVE  /\ Elements(HandlingWithout(S)[k]) = Elements(handling[k]) \ S
             /\ NoRepeats(HandlingWithout(S)[k])
             /\ handling[k] = <<>> => HandlingWithout(S)[k] = <<>>
  <2> DEFINE s == handling[k]
             U == InEventList(S)
  <2>1. s \in Seq(Node) /\ NoRepeats(s) /\ HandlingWithout(S)[k] = Without(s, U) /\ U \subseteq S
    BY DEF ListsTyped, ContainersAgree, HandlingWithout, InEventList
  <2>2. Elements(s) \subseteq Node /\ Elements(s) \cap S \subseteq U
    <3>1. Elements(s) \subseteq Node
      BY <2>1, ElementsType
    <3>2. \A n \in Elements(s) : container[n] = EventList
      BY <3>1 DEF ContainersAgree, Holds
    <3> QED BY <3>1, <3>2 DEF InEventList
  <2> HIDE DEF s, U
  <2>3. Elements(Without(s, U)) = Elements(s) \ U /\ NoRepeats(Without(s, U))
    BY <2>1, WithoutElements, WithoutOnly
  <2>4. s = <<>> => Without(s, U) = <<>>
    BY <1>1, <2>1
  <2> QED BY <2>1, <2>2, <2>3, <2>4 DEF s
<1>4. ASSUME NEW w \in Wait
      PROVE  Elements(WaitingWithout(S)[w]) = Elements(waiting[w]) \ S /\ NoRepeats(WaitingWithout(S)[w])
  <2> DEFINE s == waiting[w]
             U == InEventList(S)
  <2>1. s \in Seq(Node) /\ NoRepeats(s) /\ WaitingWithout(S)[w] = Without(s, U) /\ U \subseteq S
    BY DEF ListsTyped, ContainersAgree, WaitingWithout, InEventList
  <2>2. Elements(s) \subseteq Node /\ Elements(s) \cap S \subseteq U
    <3>1. Elements(s) \subseteq Node
      BY <2>1, ElementsType
    <3>2. \A n \in Elements(s) : container[n] = EventList
      BY <3>1 DEF ContainersAgree, Holds
    <3> QED BY <3>1, <3>2 DEF InEventList
  <2> HIDE DEF s, U
  <2>3. Elements(Without(s, U)) = Elements(s) \ U /\ NoRepeats(Without(s, U))
    BY <2>1, WithoutElements, WithoutOnly
  <2> QED BY <2>1, <2>2, <2>3 DEF s
<1> QED BY <1>2, <1>3, <1>4

\* The nodes of T leave their lists, and those of A among them go to the stack k.
ToStack(T, A, k) ==
  /\ \A j \in Level : /\ Elements(stack'[j]) = (Elements(stack[j]) \ T) \cup (IF j = k THEN A ELSE {})
                      /\ NoRepeats(stack'[j])
  /\ \A j \in Level : Elements(handling'[j]) = Elements(handling[j]) \ T /\ NoRepeats(handling'[j])
  /\ \A w \in Wait : Elements(waiting'[w]) = Elements(waiting[w]) \ T /\ NoRepeats(waiting'[w])
  /\ \A m \in Node : container'[m] = IF m \in A THEN k ELSE IF m \in T THEN 0 ELSE container[m]

LEMMA MovedToStack ==
  ASSUME ContainersAgree, NEW T, NEW A, A \subseteq T, NEW k \in Level \ {0}, ToStack(T, A, k)
  PROVE  ContainersAgree'
<1>1. EventList \notin Level /\ k # EventList /\ 0 # EventList /\ k > 0 /\ k \in Int
  BY LevelFacts DEF Level, EventList
<1>2. \A j \in Level : NoRepeats(stack'[j]) /\ NoRepeats(handling'[j])
  BY DEF ToStack
<1>3. \A w \in Wait : NoRepeats(waiting'[w])
  BY DEF ToStack
<1>4. ASSUME NEW n \in Node
      PROVE  /\ \A j \in Level : Holds(n, stack[j])' <=> j > 0 /\ container'[n] = j
             /\ container'[n] = EventList <=> \/ \E w \in Wait : Holds(n, waiting[w])'
                                              \/ \E j \in Level : Holds(n, handling[j])'
             /\ \A w, v \in Wait : Holds(n, waiting[w])' /\ Holds(n, waiting[v])' => w = v
             /\ \A i, j \in Level : Holds(n, handling[j])' /\ Holds(n, handling[i])' => i = j
             /\ \A w \in Wait, j \in Level : ~(Holds(n, waiting[w])' /\ Holds(n, handling[j])')
  <2>1. /\ \A j \in Level : Holds(n, stack[j]) <=> j > 0 /\ container[n] = j
        /\ container[n] = EventList <=> \/ \E w \in Wait : Holds(n, waiting[w])
                                        \/ \E j \in Level : Holds(n, handling[j])
        /\ \A w, v \in Wait : Holds(n, waiting[w]) /\ Holds(n, waiting[v]) => w = v
        /\ \A i, j \in Level : Holds(n, handling[j]) /\ Holds(n, handling[i]) => i = j
        /\ \A w \in Wait, j \in Level : ~(Holds(n, waiting[w]) /\ Holds(n, handling[j]))
    BY DEF ContainersAgree
  <2>2. /\ \A j \in Level : Holds(n, stack[j])' <=> (Holds(n, stack[j]) /\ n \notin T) \/ (j = k /\ n \in A)
        /\ \A j \in Level : Holds(n, handling[j])' <=> Holds(n, handling[j]) /\ n \notin T
        /\ \A w \in Wait : Holds(n, waiting[w])' <=> Holds(n, waiting[w]) /\ n \notin T
        /\ container'[n] = IF n \in A THEN k ELSE IF n \in T THEN 0 ELSE container[n]
    BY DEF ToStack, Holds
  <2>3. \A j \in Level : Holds(n, stack[j])' <=> j > 0 /\ container'[n] = j
    BY <1>1, <2>1, <2>2
  <2>4. container'[n] = EventList <=> container[n] = EventList /\ n \notin T
    BY <1>1, <2>2
  <2> HIDE DEF Holds
  <2> QED BY <2>1, <2>2, <2>3, <2>4
<1> QED BY <1>2, <1>3, <1>4 DEF ContainersAgree

\* The nodes of T leave their lists, and n among them goes to the event list w.
ToEvent(T, n, w) ==
  /\ \A j \in Level : Elements(stack'[j]) = Elements(stack[j]) \ T /\ NoRepeats(stack'[j])
  /\ \A j \in Level : Elements(handling'[j]) = Elements(handling[j]) \ T /\ NoRepeats(handling'[j])
  /\ \A v \in Wait : /\ Elements(waiting'[v]) = (Elements(waiting[v]) \ T) \cup (IF v = w THEN {n} ELSE {})
                     /\ NoRepeats(waiting'[v])
  /\ \A m \in Node : container'[m] = IF m = n THEN EventList ELSE IF m \in T THEN 0 ELSE container[m]

LEMMA MovedToEvent ==
  ASSUME ContainersAgree, NEW T, NEW n \in T, NEW w \in Wait, ToEvent(T, n, w)
  PROVE  ContainersAgree'
<1>1. EventList \notin Level /\ 0 # EventList
  BY LevelFacts DEF Level, EventList
<1>2. \A j \in Level : NoRepeats(stack'[j]) /\ NoRepeats(handling'[j])
  BY DEF ToEvent
<1>3. \A v \in Wait : NoRepeats(waiting'[v])
  BY DEF ToEvent
<1>4. ASSUME NEW m \in Node
      PROVE  /\ \A j \in Level : Holds(m, stack[j])' <=> j > 0 /\ container'[m] = j
             /\ container'[m] = EventList <=> \/ \E v \in Wait : Holds(m, waiting[v])'
                                              \/ \E j \in Level : Holds(m, handling[j])'
             /\ \A u, v \in Wait : Holds(m, waiting[u])' /\ Holds(m, waiting[v])' => u = v
             /\ \A i, j \in Level : Holds(m, handling[j])' /\ Holds(m, handling[i])' => i = j
             /\ \A v \in Wait, j \in Level : ~(Holds(m, waiting[v])' /\ Holds(m, handling[j])')
  <2>1. /\ \A j \in Level : Holds(m, stack[j]) <=> j > 0 /\ container[m] = j
        /\ container[m] = EventList <=> \/ \E v \in Wait : Holds(m, waiting[v])
                                        \/ \E j \in Level : Holds(m, handling[j])
        /\ \A u, v \in Wait : Holds(m, waiting[u]) /\ Holds(m, waiting[v]) => u = v
        /\ \A i, j \in Level : Holds(m, handling[j]) /\ Holds(m, handling[i]) => i = j
        /\ \A v \in Wait, j \in Level : ~(Holds(m, waiting[v]) /\ Holds(m, handling[j]))
    BY DEF ContainersAgree
  <2>2. /\ \A j \in Level : Holds(m, stack[j])' <=> Holds(m, stack[j]) /\ m \notin T
        /\ \A j \in Level : Holds(m, handling[j])' <=> Holds(m, handling[j]) /\ m \notin T
        /\ \A v \in Wait : Holds(m, waiting[v])' <=> (Holds(m, waiting[v]) /\ m \notin T) \/ (v = w /\ m = n)
        /\ container'[m] = IF m = n THEN EventList ELSE IF m \in T THEN 0 ELSE container[m]
    BY DEF ToEvent, Holds
  <2>3. \A j \in Level : Holds(m, stack[j])' <=> j > 0 /\ container'[m] = j
    BY <1>1, <2>1, <2>2, LevelFacts
  <2>4. container'[m] = EventList <=> m = n \/ (container[m] = EventList /\ m \notin T)
    BY <1>1, <2>2
  <2> HIDE DEF Holds
  <2> QED BY <2>1, <2>2, <2>3, <2>4
<1> QED BY <1>2, <1>3, <1>4 DEF ContainersAgree

\* The stack of level k stays empty, and the node on top of it stays there.
TopKept(k) ==
  /\ stack[k] = <<>> => stack'[k] = <<>>
  /\ k # 0 => \A n \in Node : (container[n] = k => Last(stack[k]) = n)
                                => (container'[n] = k => Last(stack'[k]) = n)
HandlingKept(k) == handling[k] = <<>> => handling'[k] = <<>>

\* A stack from which the nodes of S are taken.
LEMMA TopStays ==
  ASSUME ListsTyped, ContainersAgree, NEW S, NEW k \in Level,
         stack'[k] = StackWithout(S)[k],
         \A m \in Node : container'[m] = k => k = 0 \/ (container[m] = k /\ m \notin S)
  PROVE  TopKept(k)
<1>1. stack[k] = <<>> => stack'[k] = <<>>
  BY WithoutParts
<1>2. ASSUME k # 0, NEW n \in Node, container[n] = k => Last(stack[k]) = n, container'[n] = k
      PROVE  Last(stack'[k]) = n
  <2>1. container[n] = k /\ n \notin S /\ Last(stack[k]) = n
    BY <1>2
  <2>2. k > 0
    BY <1>2, LevelFacts
  <2>3. n \in Elements(stack[k])
    BY <2>1, <2>2 DEF ContainersAgree, Holds
  <2>4. stack[k] # <<>>
    BY <2>3 DEF Elements
  <2> QED BY <2>1, <2>4, WithoutParts
<1> QED BY <1>1, <1>2 DEF TopKept

LEMMA UnlinkHome ==
  ASSUME ListsTyped, ContainersAgree, NEW S, Unlink(S)
  PROVE  /\ ContainersAgree'
         /\ \A k \in Level : TopKept(k) /\ HandlingKept(k)
         /\ \A m \in Node : container'[m] = IF m \in S THEN 0 ELSE container[m]
<1>1. /\ waiting' = WaitingWithout(S) /\ handling' = HandlingWithout(S) /\ stack' = StackWithout(S)
      /\ \A m \in Node : container'[m] = IF m \in S THEN 0 ELSE container[m]
  BY DEF Unlink, Contain
<1>2. /\ \A j \in Level : Elements(stack'[j]) = Elements(stack[j]) \ S /\ NoRepeats(stack'[j])
      /\ \A j \in Level : Elements(handling'[j]) = Elements(handling[j]) \ S /\ NoRepeats(handling'[j])
      /\ \A w \in Wait : Elements(waiting'[w]) = Elements(waiting[w]) \ S /\ NoRepeats(waiting'[w])
  BY <1>1, WithoutParts
<1>3. ContainersAgree'
  <2>1. CASE Level = {0}
    <3>1. EventList # 0 /\ \A j \in Level : j = 0 /\ ~ (j > 0)
      BY <2>1 DEF EventList
    <3>2. ASSUME NEW n \in Node
          PROVE  /\ \A j \in Level : Holds(n, stack[j])' <=> j > 0 /\ container'[n] = j
                 /\ container'[n] = EventList <=> \/ \E w \in Wait : Holds(n, waiting[w])'
                                                  \/ \E j \in Level : Holds(n, handling[j])'
                 /\ \A w, v \in Wait : Holds(n, waiting[w])' /\ Holds(n, waiting[v])' => w = v
                 /\ \A i, j \in Level : Holds(n, handling[j])' /\ Holds(n, handling[i])' => i = j
                 /\ \A w \in Wait, j \in Level : ~(Holds(n, waiting[w])' /\ Holds(n, handling[j])')
      <4>1. /\ \A j \in Level : Holds(n, stack[j]) <=> j > 0 /\ container[n] = j
            /\ container[n] = EventList <=> \/ \E w \in Wait : Holds(n, waiting[w])
                                            \/ \E j \in Level : Holds(n, handling[j])
            /\ \A w, v \in Wait : Holds(n, waiting[w]) /\ Holds(n, waiting[v]) => w = v
            /\ \A i, j \in Level : Holds(n, handling[j]) /\ Holds(n, handling[i]) => i = j
            /\ \A w \in Wait, j \in Level : ~(Holds(n, waiting[w]) /\ Holds(n, handling[j]))
        BY DEF ContainersAgree
      <4>2. /\ \A j \in Level : Holds(n, stack[j])' <=> Holds(n, stack[j]) /\ n \notin S
            /\ \A j \in Level : Holds(n, handling[j])' <=> Holds(n, handling[j]) /\ n \notin S
            /\ \A w \in Wait : Holds(n, waiting[w])' <=> Holds(n, waiting[w]) /\ n \notin S
        BY <1>2 DEF Holds
      <4> HIDE DEF Holds
      <4> QED BY <1>1, <3>1, <4>1, <4>2
    <3> QED BY <1>2, <3>2 DEF ContainersAgree
  <2>2. ASSUME NEW k \in Level \ {0} PROVE ContainersAgree'
    <3>1. ToStack(S, {}, k)
      BY <1>1, <1>2 DEF ToStack
    <3> QED BY <3>1, MovedToStack
  <2> QED BY <2>1, <2>2, LevelFacts
<1>4. ASSUME NEW k \in Level PROVE TopKept(k) /\ HandlingKept(k)
  <2>1. HandlingKept(k)
    BY <1>1, WithoutParts DEF HandlingKept
  <2>2. \A m \in Node : container'[m] = k => k = 0 \/ (container[m] = k /\ m \notin S)
    BY <1>1
  <2> QED BY <1>1, <2>1, <2>2, TopStays
<1> QED BY <1>1, <1>3, <1>4

LEMMA PushHome ==
  ASSUME ListsTyped, ContainersAgree, NEW S, NEW n \in Node,
         NEW k \in Level \ {0}, NEW clear \in BOOLEAN, clear => stack[k] = <<>>,
         UnlinkAndPush(S, n, k, clear)
  PROVE  /\ ContainersAgree'
         /\ \A j \in Level : HandlingKept(j)
         /\ \A j \in Level \ {k} : TopKept(j)
         /\ \A m \in Node : container'[m] = IF m = n THEN k ELSE IF m \in S THEN 0 ELSE container[m]
         /\ Last(stack'[k]) = n
<1> DEFINE T == S \cup {n}
<1>1. /\ waiting' = WaitingWithout(T) /\ handling' = HandlingWithout(T)
      /\ stack' = [StackWithout(T) EXCEPT ![k] = Append(IF clear THEN <<>> ELSE @, n)]
      /\ container' = [Contain(S, 0) EXCEPT ![n] = k]
  BY DEF UnlinkAndPush
<1>2. S \subseteq T /\ n \in T /\ T = S \cup {n}
  OBVIOUS
<1> HIDE DEF T
<1>3. \A m \in Node : container'[m] = IF m = n THEN k ELSE IF m \in S THEN 0 ELSE container[m]
  BY <1>1 DEF Contain
<1>4. StackWithout(T) \in [Level -> Seq(Node)]
  BY WithoutTypes
<1> DEFINE s == StackWithout(T)[k]
<1>5. s \in Seq(Node) /\ (clear => s = <<>>) /\ Elements(s) = Elements(stack[k]) \ T /\ NoRepeats(s)
  BY <1>2, <1>4, WithoutParts
<1>6. stack'[k] = Append(s, n) /\ \A j \in Level \ {k} : stack'[j] = StackWithout(T)[j]
  BY <1>1, <1>4, <1>5
<1> HIDE DEF s
<1>7. Elements(Append(s, n)) = Elements(s) \cup {n} /\ NoRepeats(Append(s, n))
  BY <1>2, <1>5, AppendElements, AppendNoRepeats
<1>8. Last(stack'[k]) = n
  BY <1>5, <1>6 DEF Last
<1>9. ToStack(T, {n}, k)
  <2>1. /\ \A j \in Level : /\ Elements(stack'[j]) = (Elements(stack[j]) \ T) \cup (IF j = k THEN {n} ELSE {})
                            /\ NoRepeats(stack'[j])
    <3>1. Elements(stack'[k]) = (Elements(stack[k]) \ T) \cup {n} /\ NoRepeats(stack'[k])
      BY <1>5, <1>6, <1>7
    <3>2. \A j \in Level \ {k} : Elements(stack'[j]) = Elements(stack[j]) \ T /\ NoRepeats(stack'[j])
      BY <1>2, <1>6, WithoutParts
    <3> QED BY <3>1, <3>2
  <2>2. /\ \A j \in Level : Elements(handling'[j]) = Elements(handling[j]) \ T /\ NoRepeats(handling'[j])
        /\ \A w \in Wait : Elements(waiting'[w]) = Elements(waiting[w]) \ T /\ NoRepeats(waiting'[w])
    BY <1>1, <1>2, WithoutParts
  <2> QED BY <1>2, <1>3, <2>1, <2>2 DEF ToStack
<1>10. ContainersAgree'
  BY <1>2, <1>9, MovedToStack
<1>11. \A j \in Level : HandlingKept(j)
  BY <1>1, <1>2, WithoutParts DEF HandlingKept
<1>12. ASSUME NEW j \in Level \ {k} PROVE TopKept(j)
  <2>1. \A m \in Node : container'[m] = j => j = 0 \/ (container[m] = j /\ m \notin T)
    BY <1>2, <1>3
  <2> QED BY <1>2, <1>6, <2>1, TopStays
<1> QED BY <1>3, <1>8, <1>10, <1>11, <1>12

\* n is on top of stack k, and the nodes of S are in no list.
PutOnTop(S, n, k) ==
  /\ \A m \in Node : container'[m] = IF m = n THEN k ELSE IF m \in S THEN 0 ELSE container[m]
  /\ Last(stack'[k]) = n

LEMMA ContinueHome ==
  ASSUME ListsTyped, ContainersAgree, NEW S, NEW n \in Node, NEW k \in Level \ {0},
         UnlinkAndPush(S, n, k, FALSE)
  PROVE  /\ ContainersAgree'
         /\ \A j \in Level : HandlingKept(j)
         /\ \A j \in Level \ {k} : TopKept(j)
         /\ PutOnTop(S, n, k)
<1> SUFFICES ASSUME NEW clear \in BOOLEAN, clear = FALSE, UnlinkAndPush(S, n, k, clear)
             PROVE  /\ ContainersAgree'
                    /\ \A j \in Level : HandlingKept(j)
                    /\ \A j \in Level \ {k} : TopKept(j)
                    /\ PutOnTop(S, n, k)
  OBVIOUS
<1> QED BY PushHome DEF PutOnTop

LEMMA WaitHome ==
  ASSUME ListsTyped, ContainersAgree, NEW S, NEW n \in Node, NEW w \in Wait,
         UnlinkAndWait(S, n, w)
  PROVE  /\ ContainersAgree'
         /\ \A k \in Level : TopKept(k) /\ HandlingKept(k)
         /\ \A m \in Node : container'[m] = IF m = n THEN EventList ELSE IF m \in S THEN 0 ELSE container[m]
<1> DEFINE T == S \cup {n}
<1>1. /\ waiting' = [WaitingWithout(T) EXCEPT ![w] = Append(@, n)]
      /\ handling' = HandlingWithout(T) /\ stack' = StackWithout(T)
      /\ container' = [Contain(S, 0) EXCEPT ![n] = EventList]
  BY DEF UnlinkAndWait
<1>2. S \subseteq T /\ n \in T /\ T = S \cup {n}
  OBVIOUS
<1> HIDE DEF T
<1>3. \A m \in Node : container'[m] = IF m = n THEN EventList ELSE IF m \in S THEN 0 ELSE container[m]
  BY <1>1 DEF Contain
<1>4. WaitingWithout(T) \in [Wait -> Seq(Node)]
  BY WithoutTypes
<1> DEFINE s == WaitingWithout(T)[w]
<1>5. s \in Seq(Node) /\ Elements(s) = Elements(waiting[w]) \ T /\ NoRepeats(s)
  BY <1>2, <1>4, WithoutParts
<1>6. waiting'[w] = Append(s, n) /\ \A v \in Wait \ {w} : waiting'[v] = WaitingWithout(T)[v]
  BY <1>1, <1>4
<1> HIDE DEF s
<1>7. Elements(Append(s, n)) = Elements(s) \cup {n} /\ NoRepeats(Append(s, n))
  BY <1>2, <1>5, AppendElements, AppendNoRepeats
<1>8. ToEvent(T, n, w)
  <2>1. \A v \in Wait : /\ Elements(waiting'[v]) = (Elements(waiting[v]) \ T) \cup (IF v = w THEN {n} ELSE {})
                        /\ NoRepeats(waiting'[v])
    <3>1. Elements(waiting'[w]) = (Elements(waiting[w]) \ T) \cup {n} /\ NoRepeats(waiting'[w])
      BY <1>5, <1>6, <1>7
    <3>2. \A v \in Wait \ {w} : Elements(waiting'[v]) = Elements(waiting[v]) \ T /\ NoRepeats(waiting'[v])
      BY <1>2, <1>6, WithoutParts
    <3> QED BY <3>1, <3>2
  <2>2. /\ \A j \in Level : Elements(handling'[j]) = Elements(handling[j]) \ T /\ NoRepeats(handling'[j])
        /\ \A j \in Level : Elements(stack'[j]) = Elements(stack[j]) \ T /\ NoRepeats(stack'[j])
    BY <1>1, <1>2, WithoutParts
  <2> QED BY <1>2, <1>3, <2>1, <2>2 DEF ToEvent
<1>9. ContainersAgree'
  BY <1>2, <1>8, MovedToEvent
<1>10. ASSUME NEW k \in Level PROVE TopKept(k) /\ HandlingKept(k)
  <2>1. HandlingKept(k)
    BY <1>1, <1>2, WithoutParts DEF HandlingKept
  <2>2. \A m \in Node : container'[m] = k => k = 0 \/ (container[m] = k /\ m \notin T)
    BY <1>2, <1>3, LevelFacts DEF Level, EventList
  <2> QED BY <1>1, <1>2, <2>1, <2>2, TopStays
<1> QED BY <1>3, <1>9, <1>10

\* A node, and nothing else, changes lists.
LEMMA JustWaitHome ==
  ASSUME ListsTyped, ContainersAgree, NEW n \in Node, NEW w \in Wait, UnlinkAndWait({}, n, w)
  PROVE  /\ ContainersAgree'
         /\ \A k \in Level : TopKept(k) /\ HandlingKept(k)
         /\ \A m \in Node : container'[m] = IF m = n THEN EventList ELSE container[m]
<1>1. /\ ContainersAgree'
      /\ \A k \in Level : TopKept(k) /\ HandlingKept(k)
      /\ \A m \in Node : container'[m] = IF m = n THEN EventList ELSE IF m \in {} THEN 0 ELSE container[m]
  BY WaitHome
<1> QED BY <1>1

-----------------------------------------------------------------------------
(* The invariant, level by level.                                          *)

Home(k) == Tidy(k) /\ (k \in 1..index => CurrentOnTop(k) /\ ReturnsOwnChart(k))

\* A node that has nothing to go on with once its chart has stopped stays so.
StopKept(n) ==
  (~ IsRunning(ChartOf[n]) => node[n].result = "rSTOP")
    => (~ IsRunning(ChartOf[n])' => node'[n].result = "rSTOP")

\* What a step leaves to the levels it does not change.
HomesKept ==
  /\ \A k \in Level : TopKept(k) /\ HandlingKept(k)
  /\ \A n \in Node : StopKept(n)

LEMMA HomeParts ==
  HomeInvariant <=> QuietInvariant /\ ContainersAgree /\ StoppedNodesAreOut /\ \A k \in Level : Home(k)
BY DEF HomeInvariant, Home

LEMMA HomePartsNext ==
  ASSUME QuietInvariant', ContainersAgree', StoppedNodesAreOut', \A k \in Level : Home(k)'
  PROVE  HomeInvariant'
BY DEF HomeInvariant, Home

\* The node whose function is being called.
LEMMA CurrentIsNode ==
  ASSUME QuietInvariant, NEW k \in 1..index, InCall(k)
  PROVE  level[k].current \in Node
BY DEF QuietInvariant, FlowsStayInChart, FlowOf, ChartNodes

\* A level that the step leaves alone.
LEMMA LevelStaysHome ==
  ASSUME QuietInvariant, NEW k \in Level, Home(k), level'[k] = level[k],
         TopKept(k), HandlingKept(k), \A n \in Node : StopKept(n),
         index \in Level, index' \in Level,
         k > index' => k > index,
         k \in 1..index' => k \in 1..index,
         level[k].pc = "returned" /\ k < index' => k < index /\ level'[k + 1].chart = level[k + 1].chart
  PROVE  Home(k)'
<1>1. Tidy(k)'
  BY DEF Home, Tidy, Done, TopKept, HandlingKept
<1>2. ASSUME k \in 1..index' PROVE CurrentOnTop(k)'
  <2>1. k \in 1..index /\ k # 0 /\ CurrentOnTop(k)
    BY <1>2 DEF Home
  <2>2. ASSUME InCall(k)'
        PROVE  /\ container'[level[k].current] = k => Last(stack'[k]) = level[k].current
               /\ ~ IsRunning(ChartOf[level[k].current])' => node'[level[k].current].result = "rSTOP"
    <3>1. InCall(k)
      BY <2>2 DEF InCall
    <3>2. level[k].current \in Node
      BY <2>1, <3>1, CurrentIsNode
    <3> QED BY <2>1, <3>1, <3>2 DEF CurrentOnTop, TopKept, StopKept
  <2> QED BY <2>2 DEF CurrentOnTop
<1>3. ASSUME k \in 1..index' PROVE ReturnsOwnChart(k)'
  BY <1>3 DEF Home, ReturnsOwnChart
<1> QED BY <1>1, <1>2, <1>3 DEF Home

\* Only a dispatch and a return have a place to go back to.
CallerFits(x) ==
  /\ x.caller # "idle" => x.pc \in {"dispatch", "return", "returned"}
  /\ x.caller = "end" => x.pc # "dispatch"

\* The level on top when it goes on with the node it has been calling, if any.
LEMMA TopStaysBelow ==
  ASSUME QuietInvariant, NEW k \in Level, k = index, Home(k), index' \in Level, k <= index',
         TopKept(k), \A n \in Node : StopKept(n),
         level'[k].chart = level[k].chart,
         level'[k].current = level[k].current,
         InCall(k)' => InCall(k),
         Done(k)' => Done(k) \/ stack'[k] = <<>>,
         level'[k].pc # "dispatch" => handling'[k] = <<>>,
         CallerFits(level'[k]),
         level'[k].pc \in {"return", "returned"} => level'[k].returning = level[k].chart,
         level'[k].pc = "returned" /\ k < index' =>
           /\ OwnerNode[level[k].chart] \in Node
           /\ level'[k + 1].chart = ChartOf[OwnerNode[level[k].chart]]
  PROVE  Home(k)'
<1>1. Tidy(k)'
  BY LevelFacts DEF Home, Tidy, TopKept, CallerFits
<1>2. ASSUME k \in 1..index' PROVE CurrentOnTop(k)'
  <2>1. k # 0 /\ CurrentOnTop(k) /\ k \in 1..index
    BY <1>2, LevelFacts DEF Home
  <2>2. ASSUME InCall(k)'
        PROVE  /\ container'[level[k].current] = k => Last(stack'[k]) = level[k].current
               /\ ~ IsRunning(ChartOf[level[k].current])' => node'[level[k].current].result = "rSTOP"
    <3>1. InCall(k)
      BY <2>2
    <3>2. level[k].current \in Node
      BY <2>1, <3>1, CurrentIsNode
    <3> QED BY <2>1, <3>1, <3>2 DEF CurrentOnTop, TopKept, StopKept
  <2> QED BY <2>2 DEF CurrentOnTop
<1>3. ReturnsOwnChart(k)'
  BY DEF ReturnsOwnChart
<1> QED BY <1>1, <1>2, <1>3 DEF Home

LEMMA TopStaysHome ==
  ASSUME QuietInvariant, Home(index), index \in Level, index' = index,
         TopKept(index), HandlingKept(index), \A n \in Node : StopKept(n),
         level'[index].chart = level[index].chart,
         level'[index].current = level[index].current,
         InCall(index)' => InCall(index),
         Done(index)' => Done(index) \/ stack'[index] = <<>>,
         level'[index].pc # "dispatch" => level[index].pc # "dispatch" \/ handling'[index] = <<>>,
         CallerFits(level'[index]),
         level'[index].pc \in {"return", "returned"} => level'[index].returning = level[index].chart
  PROVE  Home(index)'
<1>1. index <= index' /\ ~(index < index')
  BY LevelFacts
<1>2. level'[index].pc # "dispatch" => handling'[index] = <<>>
  BY DEF Home, Tidy, HandlingKept
<1>3. \A k \in Level : k = index => Home(k)'
  BY <1>1, <1>2, TopStaysBelow
<1> QED BY <1>3

\* A step of the level on top.
LEMMA OthersStayHome ==
  ASSUME HomeInvariant, QuietInvariant', ContainersAgree', StoppedNodesAreOut',
         \A k \in Level \ {index} : TopKept(k) /\ HandlingKept(k), \A n \in Node : StopKept(n),
         index' = index, \A k \in Level \ {index} : level'[k] = level[k], Home(index)',
         level'[index].chart = level[index].chart
  PROVE  HomeInvariant'
<1>1. index \in Level /\ QuietInvariant /\ \A k \in Level : Home(k)
  BY HomeParts, AtTop
<1>2. ASSUME NEW k \in Level \ {index} PROVE Home(k)'
  <2>1. level'[k] = level[k]
    BY <1>2
  <2>2. k < index => k + 1 \in Level /\ level'[k + 1].chart = level[k + 1].chart
    <3>1. k < index => k + 1 \in Level
      BY <1>1, LevelFacts DEF Level
    <3> QED BY <3>1
  <2> QED BY <1>1, <2>1, <2>2, LevelStaysHome
<1> QED BY <1>2, HomePartsNext

LEMMA TopGoesOn ==
  ASSUME HomeInvariant, QuietInvariant', ContainersAgree', StoppedNodesAreOut', HomesKept,
         index' = index, \A k \in Level \ {index} : level'[k] = level[k], Home(index)',
         level'[index].chart = level[index].chart
  PROVE  HomeInvariant'
BY OthersStayHome DEF HomesKept

\* Lists that nothing changes.
LEMMA ListsHome ==
  ASSUME ContainersAgree, UNCHANGED lists
  PROVE  ContainersAgree' /\ \A k \in Level : TopKept(k) /\ HandlingKept(k)
<1>1. stack' = stack /\ container' = container /\ waiting' = waiting /\ handling' = handling
  BY DEF lists
<1>2. ContainersAgree'
  BY <1>1 DEF ContainersAgree, Holds
<1> QED BY <1>1, <1>2 DEF TopKept, HandlingKept

\* Nodes of charts that are stopped and not started do not go anywhere.
LEMMA OutStays ==
  ASSUME StoppedNodesAreOut,
         \A n \in Node :
           \/ ChartOf[n] \in running' \/ container'[n] = 0
           \/ ChartOf[n] \notin running /\ container'[n] = container[n]
  PROVE  StoppedNodesAreOut'
BY DEF StoppedNodesAreOut, IsRunning

\* Results that nothing changes but in charts that run.
LEMMA ResultsKept ==
  ASSUME \A n \in Node :
           \/ ChartOf[n] \in running' \/ node'[n].result = "rSTOP"
           \/ ChartOf[n] \notin running /\ node'[n].result = node[n].result
  PROVE  \A n \in Node : StopKept(n)
BY DEF StopKept, IsRunning

\* The level on top when it goes on at p.
LEMMA GotoTop ==
  ASSUME QuietInvariant, Home(index), TopKept(index), HandlingKept(index), \A n \in Node : StopKept(n),
         NEW p \in Pcs, Goto(p),
         p \in {"call", "callEnd", "ran"} => InCall(index),
         p \in {"restore", "end"} => stack'[index] = <<>>,
         At("dispatch") => p = "dispatch",
         p \in {"return", "returned"} <=> level[index].pc \in {"return", "returned"}
  PROVE  /\ Home(index)' /\ index' = index /\ \A k \in Level \ {index} : level'[k] = level[k]
         /\ level'[index].chart = level[index].chart
<1>1. index \in Level /\ level \in [Level -> LevelState]
  BY AtTop DEF QuietInvariant, TypeOK, LevelsTyped
<1>2. /\ index' = index /\ \A k \in Level \ {index} : level'[k] = level[k]
      /\ level'[index] = [level[index] EXCEPT !.pc = p] /\ level[index] \in LevelState
  BY <1>1 DEF Goto
<1>3. /\ level'[index].pc = p /\ level'[index].chart = level[index].chart
      /\ level'[index].current = level[index].current /\ level'[index].caller = level[index].caller
      /\ level'[index].returning = level[index].returning
  BY <1>2 DEF LevelState
<1>4. Home(index)'
  <2>1. InCall(index)' => InCall(index)
    BY <1>2, <1>3 DEF InCall
  <2>2. Done(index)' => Done(index) \/ stack'[index] = <<>>
    BY <1>2, <1>3 DEF Done
  <2>3. level'[index].pc # "dispatch" => level[index].pc # "dispatch" \/ handling'[index] = <<>>
    BY <1>3 DEF At
  <2>4. CallerFits(level'[index])
    BY <1>1, <1>3 DEF Home, Tidy, CallerFits, At
  <2>5. level'[index].pc \in {"return", "returned"} => level'[index].returning = level[index].chart
    <3>1. level'[index].pc \in {"return", "returned"} => index # 0
      BY <1>1, <1>3, AtTop DEF ManagerPcs
    <3>2. index # 0 => ReturnsOwnChart(index)
      BY <1>1, AtTop DEF Home
    <3> QED BY <1>3, <3>1, <3>2 DEF ReturnsOwnChart
  <2> QED BY <1>1, <1>2, <1>3, <2>1, <2>2, <2>3, <2>4, <2>5, TopStaysHome
<1> QED BY <1>2, <1>3, <1>4

\* It does so after what it has done to lists and nodes.
LEMMA GotoHome ==
  ASSUME HomeInvariant, QuietInvariant', ContainersAgree', StoppedNodesAreOut', HomesKept,
         NEW p \in Pcs, Goto(p),
         p \in {"call", "callEnd", "ran"} => InCall(index),
         p \in {"restore", "end"} => stack'[index] = <<>>,
         At("dispatch") => p = "dispatch",
         p \in {"return", "returned"} <=> level[index].pc \in {"return", "returned"}
  PROVE  HomeInvariant'
<1>1. QuietInvariant /\ Home(index) /\ TopKept(index) /\ HandlingKept(index) /\ \A n \in Node : StopKept(n)
  BY HomeParts, AtTop DEF HomesKept
<1>2. /\ Home(index)' /\ index' = index /\ \A k \in Level \ {index} : level'[k] = level[k]
      /\ level'[index].chart = level[index].chart
  BY <1>1, GotoTop
<1> QED BY <1>2, TopGoesOn

\* It goes on at p and has done nothing to lists and charts, and to nodes at most what
\* leaves the results of stopped charts alone.
LEMMA PlainGoto ==
  ASSUME HomeInvariant, QuietInvariant', UNCHANGED <<lists, running>>,
         \A n \in Node : ChartOf[n] \in running \/ node'[n].result \in {"rSTOP", node[n].result},
         NEW p \in Pcs, Goto(p),
         p \in {"call", "callEnd", "ran"} => InCall(index),
         p \in {"restore", "end"} => stack'[index] = <<>>,
         At("dispatch") => p = "dispatch",
         p \in {"return", "returned"} <=> level[index].pc \in {"return", "returned"}
  PROVE  HomeInvariant'
<1>1. ContainersAgree' /\ \A k \in Level : TopKept(k) /\ HandlingKept(k)
  BY HomeParts, ListsHome
<1>2. running' = running /\ container' = container
  BY DEF lists
<1>3. StoppedNodesAreOut'
  BY <1>2, HomeParts, OutStays
<1>4. \A n \in Node : StopKept(n)
  BY <1>2 DEF StopKept, IsRunning
<1> QED BY <1>1, <1>3, <1>4, GotoHome DEF HomesKept

\* Nothing at all changes but events and queues.
LEMMA NothingMoves ==
  ASSUME HomeInvariant, QuietInvariant', UNCHANGED <<node, running, index, level, lists>>
  PROVE  HomeInvariant'
<1>1. ContainersAgree' /\ \A k \in Level : TopKept(k) /\ HandlingKept(k)
  BY HomeParts, ListsHome
<1>2. running' = running /\ container' = container /\ node' = node /\ level' = level /\ index' = index
      /\ stack' = stack /\ handling' = handling
  BY DEF lists
<1>3. StoppedNodesAreOut'
  BY <1>2, HomeParts, OutStays
<1>4. \A k \in Level : Home(k)'
  BY <1>2, HomeParts DEF Home, Tidy, CurrentOnTop, ReturnsOwnChart, InCall, Done, IsRunning
<1> QED BY <1>1, <1>3, <1>4, HomePartsNext

-----------------------------------------------------------------------------
(* Steps that move no node.                                                *)

LEMMA RaiseHome ==
  ASSUME HomeInvariant, QuietInvariant', NEW w, Raise(w)
  PROVE  HomeInvariant'
BY NothingMoves DEF Raise, charts

LEMMA FireAgentTimerHome ==
  ASSUME HomeInvariant, QuietInvariant', NEW a, FireAgentTimer(a)
  PROVE  HomeInvariant'
BY NothingMoves DEF FireAgentTimer, charts

LEMMA BeginStepHome ==
  ASSUME HomeInvariant, QuietInvariant', NEW due, BeginStep(due)
  PROVE  HomeInvariant'
<1>1. At("idle") /\ Goto("timers") /\ UNCHANGED <<lists, running>>
  BY DEF BeginStep, AtRest, charts
<1>2. node \in [Node -> NodeState]
  BY HomeParts, Parts DEF NodesTyped
<1>3. \A n \in Node : node'[n].result = node[n].result
  BY <1>2 DEF BeginStep, NodeState
<1> QED BY <1>1, <1>3, PlainGoto DEF At, Pcs

LEMMA EndStepHome ==
  ASSUME HomeInvariant, QuietInvariant', EndStep
  PROVE  HomeInvariant'
<1>1. At("events") /\ Goto("idle") /\ UNCHANGED <<node, lists, running>>
  BY DEF EndStep, charts
<1> QED BY <1>1, PlainGoto DEF At, Pcs

LEMMA SwitchQueuesHome ==
  ASSUME HomeInvariant, QuietInvariant', SwitchQueues
  PROVE  HomeInvariant'
<1>1. At("timers") /\ Goto("events") /\ UNCHANGED <<node, lists, running>>
  BY DEF SwitchQueues, charts
<1> QED BY <1>1, PlainGoto DEF At, Pcs

\* A flow whose chart has stopped has no nodes left: they have been stopped with it.
LEMMA LoopExitHome ==
  ASSUME HomeInvariant, QuietInvariant', LoopExit
  PROVE  HomeInvariant'
<1>1. /\ At("loop") /\ Goto("restore") /\ UNCHANGED <<node, lists, running>>
      /\ stack[index] = <<>> \/ ~ IsRunning(level[index].chart)
  BY DEF LoopExit, charts
<1>2. index # 0 /\ FlowOf(index) /\ index \in Level /\ index > 0
  BY <1>1, HomeParts, AtTop, LevelFacts DEF At, ManagerPcs
<1>3. stack[index] = <<>>
  <2>1. CASE ~ IsRunning(level[index].chart) /\ stack[index] # <<>>
    <3>1. Last(stack[index]) \in ChartNodes({level[index].chart}) /\ Last(stack[index]) \in Elements(stack[index])
      BY <1>2, <2>1, LastType DEF FlowOf
    <3>2. container[Last(stack[index])] = index /\ container[Last(stack[index])] = 0
      BY <1>2, <2>1, <3>1, HomeParts DEF ContainersAgree, Holds, StoppedNodesAreOut, ChartNodes
    <3> QED BY <1>2, <3>2
  <2> QED BY <1>1, <2>1
<1>4. stack'[index] = <<>>
  BY <1>1, <1>3 DEF lists
<1> QED BY <1>1, <1>4, PlainGoto DEF At, Pcs

LEMMA ReturnOfRootHome ==
  ASSUME HomeInvariant, QuietInvariant', ReturnOfRoot
  PROVE  HomeInvariant'
<1>1. At("return") /\ Goto("returned") /\ UNCHANGED <<node, lists, running>>
  BY DEF ReturnOfRoot, charts
<1> QED BY <1>1, PlainGoto DEF At, Pcs

LEMMA CallFuncHome ==
  ASSUME HomeInvariant, QuietInvariant', CallFunc
  PROVE  HomeInvariant'
<1>1. At("call") /\ Goto("callEnd") /\ UNCHANGED <<node, lists, running>>
  BY DEF CallFunc, Calls, charts
<1> QED BY <1>1, PlainGoto DEF At, Pcs, InCall

LEMMA CallRaiseHome ==
  ASSUME HomeInvariant, QuietInvariant', CallRaise
  PROVE  HomeInvariant'
<1>1. At("call") /\ Goto("callEnd") /\ UNCHANGED <<node, lists, running>>
  BY DEF CallRaise, Calls, charts
<1> QED BY <1>1, PlainGoto DEF At, Pcs, InCall

LEMMA CallEndHome ==
  ASSUME HomeInvariant, QuietInvariant', NEW r, CallEnd(r)
  PROVE  HomeInvariant'
<1>1. At("callEnd") /\ Goto("ran") /\ UNCHANGED <<lists, running>>
  BY DEF CallEnd, charts
<1>2. index \in 1..index /\ InCall(index) /\ QuietInvariant /\ CurrentOnTop(index)
  <2>1. InCall(index) /\ index # 0
    BY <1>1 DEF At, InCall, CallEnd
  <2>2. index \in Level /\ index \in 1..index
    BY <2>1, HomeParts, AtTop
  <2> QED BY <2>1, <2>2, HomeParts DEF Home
<1> DEFINE n == level[index].current
<1>3. n \in Node /\ node \in [Node -> NodeState]
  BY <1>2, CurrentIsNode, Parts DEF NodesTyped
<1>4. /\ node' = [node EXCEPT ![n].result = IF @ = "rSTOP" THEN @ ELSE r]
      /\ ~ IsRunning(ChartOf[n]) => node[n].result = "rSTOP"
  BY <1>2 DEF CallEnd, CurrentOnTop
<1> HIDE DEF n
<1>5. \A m \in Node : ChartOf[m] \in running \/ node'[m].result \in {"rSTOP", node[m].result}
  BY <1>3, <1>4 DEF NodeState, IsRunning
<1> QED BY <1>1, <1>2, <1>5, PlainGoto DEF At, Pcs

\* A function changes its own node only, whose chart runs, and calls no flow.
LEMMA CallOfNodeHome ==
  ASSUME HomeInvariant, QuietInvariant', NEW n, NEW kind, Calls(n, kind),
         \A m \in Node \ {n} : node'[m] = node[m],
         Goto("callEnd"), UNCHANGED <<lists, running>>
  PROVE  HomeInvariant'
<1>1. At("call") /\ ChartOf[n] \in running
  BY HomeParts, CallerFacts DEF Calls, IsRunning
<1> QED BY <1>1, PlainGoto DEF At, Pcs, InCall

LEMMA CallWaitHome ==
  ASSUME HomeInvariant, QuietInvariant', CallWait
  PROVE  HomeInvariant'
<1>1. node \in [Node -> NodeState]
  BY HomeParts, Parts DEF NodesTyped
<1>2. PICK n \in Node :
        /\ Calls(n, "wait") /\ Goto("callEnd") /\ UNCHANGED <<lists, running>>
        /\ node' = [node EXCEPT ![n].timer = "armed", ![n].skip = TRUE, ![n].result = "rTRUE",
                                ![n].status = "Running"]
  BY DEF CallWait, charts
<1> QED BY <1>1, <1>2, CallOfNodeHome

LEMMA CallWaitAllHome ==
  ASSUME HomeInvariant, QuietInvariant', CallWaitAll
  PROVE  HomeInvariant'
<1>1. node \in [Node -> NodeState]
  BY HomeParts, Parts DEF NodesTyped
<1>2. PICK n \in Node :
        /\ Calls(n, "waitall") /\ Goto("callEnd") /\ UNCHANGED <<lists, running>>
        /\ \A m \in Node \ {n} : node'[m] = node[m]
  BY <1>1 DEF CallWaitAll, charts
<1> QED BY <1>2, CallOfNodeHome

LEMMA CallReturnHome ==
  ASSUME HomeInvariant, QuietInvariant', CallReturn
  PROVE  HomeInvariant'
<1>1. PICK n \in Node : /\ Calls(n, "ret") /\ UNCHANGED <<node, running, lists, index>>
                        /\ level' = IF IsRunning(ChartOf[n])
                             THEN [level EXCEPT ![index].pc = "return", ![index].returning = ChartOf[n],
                                                ![index].caller = "callEnd"]
                             ELSE [level EXCEPT ![index].pc = "callEnd"]
  BY DEF CallReturn, charts
<1>2. /\ index \in Level /\ QuietInvariant /\ Home(index) /\ level \in [Level -> LevelState]
      /\ IsRunning(ChartOf[n]) /\ ChartOf[n] = level[index].chart /\ InCall(index) /\ At("call")
  BY <1>1, HomeParts, AtTop, CallerFacts DEF QuietInvariant, TypeOK, LevelsTyped, Calls
<1>3. /\ \A k \in Level \ {index} : level'[k] = level[k]
      /\ level'[index].pc = "return" /\ level'[index].caller = "callEnd"
      /\ level'[index].returning = level[index].chart
      /\ level'[index].chart = level[index].chart /\ level'[index].current = level[index].current
  BY <1>1, <1>2 DEF LevelState
<1>4. ContainersAgree' /\ StoppedNodesAreOut' /\ HomesKept
  <2>1. ContainersAgree' /\ \A k \in Level : TopKept(k) /\ HandlingKept(k)
    BY <1>1, HomeParts, ListsHome
  <2>2. StoppedNodesAreOut' /\ \A m \in Node : StopKept(m)
    BY <1>1, HomeParts, OutStays DEF StopKept, IsRunning, lists
  <2> QED BY <2>1, <2>2 DEF HomesKept
<1>5. Home(index)'
  <2>1. Done(index)' => Done(index) \/ stack'[index] = <<>>
    BY <1>1, <1>3 DEF Done
  <2> QED BY <1>1, <1>2, <1>3, <1>4, <2>1, TopStaysHome DEF HomesKept, CallerFits, At
<1> QED BY <1>1, <1>3, <1>4, <1>5, TopGoesOn

-----------------------------------------------------------------------------
(* The loop of an executor.                                                *)

LEMMA FrontNoRepeats ==
  ASSUME NEW T, NEW s \in Seq(T), s # <<>>, NoRepeats(s)
  PROVE  Elements(Front(s)) = Elements(s) \ {Last(s)} /\ NoRepeats(Front(s)) /\ Last(s) \in Elements(s)
<1>1. Once(s, T)
  BY DEF NoRepeats, Once
<1>2. Last(s) \in T /\ Last(s) \in Elements(s) /\ Front(s) \in Seq(T)
  BY LastType, FrontType
<1>3. /\ Once(Front(s), T) /\ Last(s) \notin Elements(Front(s))
      /\ Elements(s) = Elements(Front(s)) \cup {Last(s)}
  BY <1>1, <1>2, FrontOnce
<1>4. \A i \in 1..Len(Front(s)) : Front(s)[i] \in T
  BY <1>2
<1>5. NoRepeats(Front(s))
  BY <1>3, <1>4 DEF Once, NoRepeats
<1> QED BY <1>2, <1>3, <1>5

\* The executor takes the nodes of S off its stack and touches nothing else.
LEMMA TakenOffTop ==
  ASSUME ListsTyped, ContainersAgree, index \in Level \ {0}, NEW S, S \subseteq Elements(stack[index]),
         UNCHANGED <<waiting, handling>>, \A k \in Level \ {index} : stack'[k] = stack[k],
         Elements(stack'[index]) = Elements(stack[index]) \ S, NoRepeats(stack'[index]),
         Last(stack[index]) \in S,
         container' = Contain(InStack(S, index), 0)
  PROVE  /\ ContainersAgree'
         /\ \A k \in Level \ {index} : TopKept(k)
         /\ stack[index] # <<>> => TopKept(index)
         /\ \A k \in Level : HandlingKept(k)
         /\ \A m \in Node : container'[m] \in {0, container[m]}
<1>1. S \subseteq Node /\ \A m \in S : container[m] = index
  <2>1. Elements(stack[index]) \subseteq Node
    BY ElementsType DEF ListsTyped
  <2>2. \A m \in Elements(stack[index]) : container[m] = index
    BY <2>1 DEF ContainersAgree, Holds
  <2> QED BY <2>1, <2>2
<1>2. index \in Int /\ index > 0 /\ index # EventList
  BY LevelFacts DEF Level, EventList
<1>3. \A m \in Node : container'[m] = IF m \in S THEN 0 ELSE container[m]
  BY <1>1 DEF Contain, InStack
<1>4. /\ \A k \in Level \ {index} : Elements(stack[k]) \cap S = {}
      /\ \A k \in Level : Elements(handling[k]) \cap S = {}
      /\ \A w \in Wait : Elements(waiting[w]) \cap S = {}
  BY <1>1, <1>2 DEF ContainersAgree, Holds
<1>5. ToStack(S, {}, index)
  <2>1. \A j \in Level : /\ Elements(stack'[j]) = Elements(stack[j]) \ S
                         /\ NoRepeats(stack'[j])
    BY <1>4 DEF ContainersAgree
  <2>2. \A j \in Level : Elements(handling'[j]) = Elements(handling[j]) \ S /\ NoRepeats(handling'[j])
    BY <1>4 DEF ContainersAgree
  <2>3. \A w \in Wait : Elements(waiting'[w]) = Elements(waiting[w]) \ S /\ NoRepeats(waiting'[w])
    BY <1>4 DEF ContainersAgree
  <2> QED BY <1>3, <2>1, <2>2, <2>3 DEF ToStack
<1>6. ContainersAgree'
  BY <1>5, MovedToStack
<1>7. \A k \in Level \ {index} : TopKept(k)
  BY <1>3 DEF TopKept
<1>8. stack[index] # <<>> => TopKept(index)
  BY <1>1, <1>3 DEF TopKept
<1> QED BY <1>3, <1>6, <1>7, <1>8 DEF HandlingKept

LEMMA SkipRunningHome ==
  ASSUME HomeInvariant, QuietInvariant', SkipRunning
  PROVE  HomeInvariant'
<1>1. PICK n \in Node :
        /\ Visit(n)
        /\ level' = [level EXCEPT ![index].count = @ + 1, ![index].hasRunning = TRUE,
                                  ![index].history = @ \cup {n}]
        /\ stack' = [stack EXCEPT ![index] = Front(@)]
        /\ container' = Contain(InStack({n}, index), 0)
        /\ UNCHANGED <<node, running, index, waiting, handling>>
  BY DEF SkipRunning, charts
<1>2. /\ index \in Level \ {0} /\ QuietInvariant /\ Home(index) /\ level \in [Level -> LevelState]
      /\ n = Last(stack[index]) /\ stack[index] # <<>> /\ stack \in [Level -> Seq(Node)]
      /\ ContainersAgree /\ ListsTyped
  BY <1>1, HomeParts, AtTop, Parts, VisitFacts DEF QuietInvariant, TypeOK, LevelsTyped, ListsTyped
<1>3. /\ Elements(stack'[index]) = Elements(stack[index]) \ {n} /\ NoRepeats(stack'[index])
      /\ n \in Elements(stack[index]) /\ \A k \in Level \ {index} : stack'[k] = stack[k]
  BY <1>1, <1>2, FrontNoRepeats DEF ContainersAgree
<1>4. /\ ContainersAgree' /\ \A k \in Level : TopKept(k) /\ HandlingKept(k)
      /\ \A m \in Node : container'[m] \in {0, container[m]}
  BY <1>1, <1>2, <1>3, TakenOffTop
<1>5. StoppedNodesAreOut' /\ HomesKept
  BY <1>1, <1>4, HomeParts, OutStays DEF HomesKept, StopKept, IsRunning
<1>6. /\ \A k \in Level \ {index} : level'[k] = level[k]
      /\ level'[index].pc = level[index].pc /\ level'[index].caller = level[index].caller
      /\ level'[index].returning = level[index].returning
      /\ level'[index].chart = level[index].chart /\ level'[index].current = level[index].current
  BY <1>1, <1>2 DEF LevelState
<1>7. At("loop")
  BY <1>1 DEF Visit, InLoop
<1>8. Home(index)'
  <2>1. Done(index)' => Done(index) \/ stack'[index] = <<>>
    BY <1>1, <1>6 DEF Done
  <2>2. InCall(index)' => InCall(index)
    BY <1>1, <1>6 DEF InCall
  <2> QED BY <1>1, <1>2, <1>5, <1>6, <1>7, <2>1, <2>2, TopStaysHome DEF HomesKept, CallerFits, At, Home, Tidy
<1> QED BY <1>1, <1>4, <1>5, <1>6, <1>8, TopGoesOn

\* The flow has used up its nodes: the whole stack is given up.
LEMMA TruncateHome ==
  ASSUME HomeInvariant, QuietInvariant', Truncate
  PROVE  HomeInvariant'
<1> DEFINE S == Elements(stack[index])
<1>1. /\ InLoop /\ stack' = [stack EXCEPT ![index] = <<>>]
      /\ level' = [level EXCEPT ![index].pc = "restore", ![index].history = @ \cup S]
      /\ container' = Contain(InStack(S, index), 0)
      /\ UNCHANGED <<running, index, waiting, handling>>
      /\ node' = [n \in Node |-> IF n \in S THEN [node[n] EXCEPT !.status = "EndRun"] ELSE node[n]]
  BY DEF Truncate, charts
<1>2. /\ index \in Level \ {0} /\ QuietInvariant /\ Home(index) /\ level \in [Level -> LevelState]
      /\ stack \in [Level -> Seq(Node)] /\ ContainersAgree /\ ListsTyped /\ node \in [Node -> NodeState]
  <2>1. At("loop")
    BY <1>1 DEF InLoop
  <2>2. index \in Level /\ index # 0
    BY <2>1, HomeParts, AtTop DEF At, ManagerPcs
  <2> QED BY <2>2, HomeParts, Parts DEF QuietInvariant, TypeOK, LevelsTyped, ListsTyped, NodesTyped
<1>3. Last(stack[index]) \in S /\ stack[index] # <<>>
  BY <1>1, <1>2, LastType DEF InLoop
<1>4. \A n \in Node : node'[n].result = node[n].result
  BY <1>1, <1>2 DEF NodeState
<1>5. /\ \A k \in Level \ {index} : level'[k] = level[k]
      /\ level'[index].pc = "restore" /\ level'[index].caller = level[index].caller
      /\ level'[index].chart = level[index].chart /\ level'[index].current = level[index].current
  BY <1>1, <1>2 DEF LevelState
<1>6. /\ ContainersAgree' /\ \A k \in Level : TopKept(k) /\ HandlingKept(k)
      /\ \A m \in Node : container'[m] \in {0, container[m]}
  <2>1. stack'[index] = <<>> /\ \A k \in Level \ {index} : stack'[k] = stack[k]
    BY <1>1, <1>2
  <2>2. Elements(stack'[index]) = S \ S /\ NoRepeats(stack'[index])
    BY <2>1 DEF Elements, NoRepeats
  <2> HIDE DEF S
  <2>3. S = Elements(stack[index])
    BY DEF S
  <2> QED BY <1>1, <1>2, <1>3, <2>1, <2>2, <2>3, TakenOffTop
<1> HIDE DEF S
<1>7. StoppedNodesAreOut' /\ HomesKept
  BY <1>1, <1>4, <1>6, HomeParts, OutStays DEF HomesKept, StopKept, IsRunning
<1>8. At("loop") /\ stack'[index] = <<>>
  BY <1>1, <1>2 DEF InLoop
<1>9. Home(index)'
  <2>1. InCall(index)' => InCall(index)
    BY <1>1, <1>5 DEF InCall
  <2> QED BY <1>1, <1>2, <1>5, <1>7, <1>8, <2>1, TopStaysHome DEF HomesKept, CallerFits, At, Home, Tidy
<1> QED BY <1>1, <1>5, <1>6, <1>7, <1>9, TopGoesOn

\* The node goes to the list of the tick.
LEMMA WaitTickHome ==
  ASSUME HomeInvariant, QuietInvariant', WaitTick
  PROVE  HomeInvariant'
<1>1. PICK n \in Node :
        /\ Visit(n)
        /\ UnlinkAndWait({}, n, <<AgentOf[level[index].chart], TICK>>)
        /\ node' = [node EXCEPT ![n].status = "Running"]
        /\ level' = [level EXCEPT ![index].count = @ + 1, ![index].hasRunning = TRUE]
        /\ UNCHANGED <<running, index>>
  BY DEF WaitTick, charts
<1>2. /\ index \in Level \ {0} /\ QuietInvariant /\ Home(index) /\ level \in [Level -> LevelState]
      /\ ContainersAgree /\ ListsTyped /\ node \in [Node -> NodeState]
      /\ IsRunning(ChartOf[n]) /\ ChartOf[n] = level[index].chart
  BY <1>1, HomeParts, AtTop, Parts, VisitFacts DEF QuietInvariant, TypeOK, LevelsTyped, NodesTyped
<1>3. <<AgentOf[level[index].chart], TICK>> \in Wait
  BY <1>2, ChartOfType, ConstantsAssumption DEF Wait
<1>4. /\ ContainersAgree' /\ \A k \in Level : TopKept(k) /\ HandlingKept(k)
      /\ \A m \in Node : container'[m] = IF m = n THEN EventList ELSE container[m]
  BY <1>1, <1>2, <1>3, JustWaitHome
<1>5. \A m \in Node : node'[m].result = node[m].result
  BY <1>1, <1>2 DEF NodeState
<1>6. StoppedNodesAreOut' /\ HomesKept
  <2>1. StoppedNodesAreOut'
    BY <1>1, <1>2, <1>4, HomeParts DEF StoppedNodesAreOut, IsRunning
  <2> QED BY <1>1, <1>4, <1>5, <2>1 DEF HomesKept, StopKept, IsRunning
<1>7. /\ \A k \in Level \ {index} : level'[k] = level[k]
      /\ level'[index].pc = level[index].pc /\ level'[index].caller = level[index].caller
      /\ level'[index].returning = level[index].returning
      /\ level'[index].chart = level[index].chart /\ level'[index].current = level[index].current
  BY <1>1, <1>2 DEF LevelState
<1>8. At("loop")
  BY <1>1 DEF Visit, InLoop
<1>9. Home(index)'
  <2>1. Done(index)' => Done(index) \/ stack'[index] = <<>>
    BY <1>1, <1>7 DEF Done
  <2>2. InCall(index)' => InCall(index)
    BY <1>1, <1>7 DEF InCall
  <2> QED BY <1>1, <1>2, <1>6, <1>7, <1>8, <2>1, <2>2, TopStaysHome DEF HomesKept, CallerFits, At, Home, Tidy
<1> QED BY <1>1, <1>4, <1>6, <1>7, <1>9, TopGoesOn

\* The node that is run is the one on top.
LEMMA RunNodeHome ==
  ASSUME HomeInvariant, QuietInvariant', RunNode
  PROVE  HomeInvariant'
<1>1. PICK n \in Node :
        /\ Visit(n)
        /\ level' = [level EXCEPT ![index].count = @ + 1, ![index].current = n,
                                  ![index].pc = IF node[n].skip THEN "ran" ELSE "call"]
        /\ node' = IF node[n].skip THEN [node EXCEPT ![n].skip = FALSE]
                   ELSE [node EXCEPT ![n].runFlag = TRUE, ![n].result = "rFALSE"]
        /\ UNCHANGED <<running, index, lists>>
  BY DEF RunNode, charts
<1>2. /\ index \in Level \ {0} /\ QuietInvariant /\ Home(index) /\ level \in [Level -> LevelState]
      /\ ContainersAgree /\ node \in [Node -> NodeState]
      /\ IsRunning(ChartOf[n]) /\ ChartOf[n] = level[index].chart
      /\ n = Last(stack[index]) /\ index \in 1..index
  BY <1>1, HomeParts, AtTop, Parts, VisitFacts DEF QuietInvariant, TypeOK, LevelsTyped, NodesTyped
<1>3. ContainersAgree' /\ \A k \in Level : TopKept(k) /\ HandlingKept(k)
  BY <1>1, HomeParts, ListsHome
<1>4. \A m \in Node \ {n} : node'[m] = node[m]
  BY <1>1, <1>2
<1>5. StoppedNodesAreOut' /\ HomesKept
  <2>1. StoppedNodesAreOut'
    BY <1>1, HomeParts, OutStays DEF lists
  <2> QED BY <1>1, <1>2, <1>3, <1>4, <2>1 DEF HomesKept, StopKept, IsRunning
<1>6. /\ \A k \in Level \ {index} : level'[k] = level[k]
      /\ level'[index].pc \in {"ran", "call"} /\ level'[index].caller = level[index].caller
      /\ level'[index].chart = level[index].chart /\ level'[index].current = n
  BY <1>1, <1>2 DEF LevelState
<1>7. At("loop") /\ level[index].caller = "idle"
  BY <1>1, <1>2 DEF Visit, InLoop, Home, Tidy, At
<1>8. Home(index)'
  <2>1. Tidy(index)'
    <3>1. handling'[index] = <<>>
      BY <1>1, <1>2, <1>7 DEF Home, Tidy, lists, At
    <3> QED BY <1>1, <1>2, <1>6, <1>7, <3>1 DEF Tidy, Done
  <2>2. CurrentOnTop(index)'
    BY <1>1, <1>2, <1>6 DEF CurrentOnTop, IsRunning, lists
  <2>3. ReturnsOwnChart(index)'
    BY <1>1, <1>6 DEF ReturnsOwnChart
  <2> QED BY <2>1, <2>2, <2>3 DEF Home
<1> QED BY <1>1, <1>3, <1>5, <1>6, <1>8, TopGoesOn

LEMMA CallWaitEventHome ==
  ASSUME HomeInvariant, QuietInvariant', CallWaitEvent
  PROVE  HomeInvariant'
<1>1. PICK n \in Node :
        /\ Calls(n, "event") /\ UnlinkAndWait({}, n, Names[n]) /\ Goto("callEnd")
        /\ node' = [node EXCEPT ![n].skip = TRUE, ![n].result = "rTRUE", ![n].status = "Running"]
        /\ UNCHANGED running
  BY DEF CallWaitEvent, charts
<1>2. /\ At("call") /\ ChartOf[n] \in running /\ InCall(index)
      /\ ContainersAgree /\ ListsTyped /\ node \in [Node -> NodeState]
  BY <1>1, HomeParts, Parts, CallerFacts DEF Calls, IsRunning, NodesTyped
<1>3. Names[n] \in Wait
  BY ConstantsAssumption
<1>4. /\ ContainersAgree' /\ \A k \in Level : TopKept(k) /\ HandlingKept(k)
      /\ \A m \in Node : container'[m] = IF m = n THEN EventList ELSE container[m]
  BY <1>1, <1>2, <1>3, JustWaitHome
<1>5. \A m \in Node \ {n} : node'[m] = node[m]
  BY <1>1, <1>2
<1>6. StoppedNodesAreOut' /\ HomesKept
  <2>1. StoppedNodesAreOut'
    BY <1>1, <1>2, <1>4, HomeParts DEF StoppedNodesAreOut, IsRunning
  <2> QED BY <1>1, <1>2, <1>4, <1>5, <2>1 DEF HomesKept, StopKept, IsRunning
<1> QED BY <1>1, <1>2, <1>4, <1>6, GotoHome DEF At, Pcs

-----------------------------------------------------------------------------
(* Stopping nodes and charts.                                              *)

\* The nodes of S are stopped, and the charts of C with all their nodes.
LEMMA NodesStopHome ==
  ASSUME HomeInvariant, NEW S, NEW C, ChartNodes(C) \subseteq S,
         Unlink(S), running' = running \ C,
         NEW nodes \in [Node -> NodeState], node' = StoppedNodes(nodes, S),
         \A m \in Node : nodes[m].result = node[m].result
  PROVE  ContainersAgree' /\ StoppedNodesAreOut' /\ HomesKept
<1>1. /\ ContainersAgree' /\ \A k \in Level : TopKept(k) /\ HandlingKept(k)
      /\ \A m \in Node : container'[m] = IF m \in S THEN 0 ELSE container[m]
  BY HomeParts, Parts, UnlinkHome
<1>2. \A m \in Node \ S : ChartOf[m] \notin C
  BY DEF ChartNodes
<1>3. StoppedNodesAreOut'
  <2>1. ASSUME NEW m \in Node
        PROVE  \/ ChartOf[m] \in running' \/ container'[m] = 0
               \/ ChartOf[m] \notin running /\ container'[m] = container[m]
    BY <1>1, <1>2
  <2> QED BY <2>1, HomeParts, OutStays
<1>4. \A m \in Node : StopKept(m)
  <2>1. ASSUME NEW m \in Node \ S PROVE node'[m].result = node[m].result
    BY DEF StoppedNodes
  <2>2. ASSUME NEW m \in Node, m \in S PROVE node'[m].result = "rSTOP"
    <3>1. nodes[m] \in NodeState
      OBVIOUS
    <3> QED BY <2>2, <3>1 DEF StoppedNodes, NodeState
  <2>3. ASSUME NEW m \in Node
        PROVE  \/ ChartOf[m] \in running' \/ node'[m].result = "rSTOP"
               \/ ChartOf[m] \notin running /\ node'[m].result = node[m].result
    BY <1>2, <2>1, <2>2
  <2> QED BY <2>3, ResultsKept
<1> QED BY <1>1, <1>3, <1>4 DEF HomesKept

\* The nodes of a chart, and those of the charts below it.
LEMMA ChartStopHome ==
  ASSUME HomeInvariant, NEW c, StopChart(c)
  PROVE  ContainersAgree' /\ StoppedNodesAreOut' /\ HomesKept
<1>1. node \in [Node -> NodeState]
  BY HomeParts, Parts DEF NodesTyped
<1>2. /\ Unlink(ChartNodes(ChartTree(c))) /\ running' = running \ ChartTree(c)
      /\ node' = StoppedNodes(node, ChartNodes(ChartTree(c)))
  BY DEF StopChart
<1> QED BY <1>1, <1>2, NodesStopHome

\* Levels that the step leaves alone, all of them.
LEMMA LevelsStayHome ==
  ASSUME HomeInvariant, QuietInvariant', ContainersAgree', StoppedNodesAreOut', HomesKept,
         UNCHANGED <<index, level>>
  PROVE  HomeInvariant'
<1>1. index \in Level /\ QuietInvariant /\ \A k \in Level : Home(k)
  BY HomeParts, AtTop
<1>2. ASSUME NEW k \in Level PROVE Home(k)'
  <2>1. level'[k] = level[k] /\ index' = index /\ level'[k + 1].chart = level[k + 1].chart
    OBVIOUS
  <2> QED BY <1>1, <2>1, LevelStaysHome DEF HomesKept
<1> QED BY <1>2, HomePartsNext

LEMMA StopHome ==
  ASSUME HomeInvariant, QuietInvariant', NEW c, Stop(c)
  PROVE  HomeInvariant'
<1>1. StopChart(c) /\ UNCHANGED <<index, level>>
  BY DEF Stop
<1> QED BY <1>1, ChartStopHome, LevelsStayHome

LEMMA StopObjectHome ==
  ASSUME HomeInvariant, QuietInvariant', NEW a, StopObject(a)
  PROVE  HomeInvariant'
<1> DEFINE C == HostedTrees(a)
           S == ChartNodes(C)
<1>1. /\ UNCHANGED <<index, level>> /\ node \in [Node -> NodeState]
      /\ node' = StoppedNodes(node, S) /\ Unlink(S) /\ running' = running \ C
  BY HomeParts, Parts DEF StopObject, NodesTyped
<1>2. ContainersAgree' /\ StoppedNodesAreOut' /\ HomesKept
  BY <1>1, NodesStopHome
<1> QED BY <1>1, <1>2, LevelsStayHome

LEMMA CallStopHome ==
  ASSUME HomeInvariant, QuietInvariant', CallStop
  PROVE  HomeInvariant'
<1>1. PICK kind, T : (\E n \in Node : Calls(n, kind)) /\ StopNodes(T)
  BY DEF CallStop
<1>2. At("call") /\ Goto("callEnd")
  BY <1>1 DEF CallStop, Calls
<1>3. ChartNodes(SubchartsOf(T)) \subseteq WithSubcharts(T)
  BY DEF WithSubcharts
<1>4. /\ Unlink(WithSubcharts(T)) /\ running' = running \ SubchartsOf(T)
      /\ node' = StoppedNodes(node, WithSubcharts(T)) /\ node \in [Node -> NodeState]
  BY <1>1, HomeParts, Parts DEF StopNodes, NodesTyped
<1>5. ContainersAgree' /\ StoppedNodesAreOut' /\ HomesKept
  BY <1>3, <1>4, NodesStopHome
<1> QED BY <1>2, <1>5, GotoHome DEF At, Pcs, InCall

\* The Stop that ends a return leaves the level where the return was called.
LEMMA ReturnStopHome ==
  ASSUME HomeInvariant, QuietInvariant', ReturnStop
  PROVE  HomeInvariant'
<1>1. /\ At("returned") /\ StopChart(level[index].returning) /\ UNCHANGED index
      /\ level' = [level EXCEPT ![index].pc = level[index].caller, ![index].caller = "idle",
                                ![index].returning = None]
  BY DEF ReturnStop
<1>2. /\ index \in Level /\ QuietInvariant /\ Home(index) /\ level \in [Level -> LevelState]
      /\ level[index] \in LevelState
  BY HomeParts, AtTop DEF QuietInvariant, TypeOK, LevelsTyped
<1>3. /\ \A k \in Level \ {index} : level'[k] = level[k]
      /\ level'[index].pc = level[index].caller /\ level'[index].caller = "idle"
      /\ level'[index].chart = level[index].chart /\ level'[index].current = level[index].current
      /\ level[index].caller \in {"idle", "events", "callEnd", "end"}
  BY <1>1, <1>2 DEF LevelState
<1>4. ContainersAgree' /\ StoppedNodesAreOut' /\ HomesKept
  BY <1>1, ChartStopHome
<1>5. Home(index)'
  <2>1. InCall(index)' => InCall(index)
    BY <1>1, <1>3 DEF InCall
  <2>2. Done(index)' => Done(index)
    BY <1>1, <1>3 DEF Done
  <2>3. level[index].pc # "dispatch"
    BY <1>1 DEF At
  <2> QED BY <1>1, <1>2, <1>3, <1>4, <2>1, <2>2, <2>3, TopStaysHome DEF HomesKept, CallerFits
<1> QED BY <1>1, <1>3, <1>4, <1>5, TopGoesOn

\* The loop is over: the stack is empty, and the chart that returns is the flow's own.
LEMMA RestoreHome ==
  ASSUME HomeInvariant, QuietInvariant', Restore
  PROVE  HomeInvariant'
<1> DEFINE h == level[index].history
           c == level[index].chart
           ended == {n \in h : Status(n) = "EndRun"}
           S == WithSubcharts(ended)
           finished == /\ ~level[index].hasRunning
                       /\ ~CheckRunning(c, S)
                       /\ IsRunning(c)
<1>1. /\ At("restore") /\ node' = StoppedNodes(Unflagged(h), S) /\ Unlink(S)
      /\ running' = running \ SubchartsOf(ended) /\ UNCHANGED index
      /\ level' = [level EXCEPT ![index].history = {},
                                ![index].pc = IF finished THEN "return" ELSE "end",
                                ![index].returning = IF finished THEN c ELSE None,
                                ![index].caller = IF finished THEN "end" ELSE "idle"]
  BY DEF Restore
<1>2. ChartNodes(SubchartsOf(ended)) \subseteq S
  BY DEF WithSubcharts
<1> HIDE DEF S, ended, finished
<1>3. /\ index \in Level /\ QuietInvariant /\ Home(index) /\ level \in [Level -> LevelState]
      /\ level[index] \in LevelState /\ node \in [Node -> NodeState]
  BY HomeParts, AtTop, Parts DEF QuietInvariant, TypeOK, LevelsTyped, NodesTyped
<1>4. /\ \A k \in Level \ {index} : level'[k] = level[k]
      /\ level'[index].pc = (IF finished THEN "return" ELSE "end")
      /\ level'[index].caller = (IF finished THEN "end" ELSE "idle")
      /\ level'[index].returning = (IF finished THEN c ELSE None)
      /\ level'[index].chart = c /\ level'[index].current = level[index].current
  BY <1>1, <1>3 DEF LevelState
<1>5. /\ Unflagged(h) \in [Node -> NodeState]
      /\ \A m \in Node : Unflagged(h)[m].result = node[m].result
  <2>1. \A y \in NodeState : LET z == [y EXCEPT !.runFlag = FALSE]
                             IN  z \in NodeState /\ z.result = y.result
    BY DEF NodeState
  <2> HIDE DEF h
  <2> QED BY <1>3, <2>1 DEF Unflagged
<1>6. ContainersAgree' /\ StoppedNodesAreOut' /\ HomesKept
  <2> HIDE DEF h
  <2> QED BY <1>1, <1>2, <1>5, NodesStopHome
<1>7. Home(index)'
  <2>1. ~InCall(index)'
    BY <1>1, <1>4 DEF InCall
  <2>2. Done(index) /\ level[index].pc # "dispatch"
    BY <1>1 DEF Done, At
  <2> QED BY <1>1, <1>3, <1>4, <1>6, <2>1, <2>2, TopStaysHome DEF HomesKept, CallerFits
<1> QED BY <1>1, <1>4, <1>6, <1>7, TopGoesOn

\* A flow that is over leaves an executor with nothing on its stack.
LEMMA FlowEndHome ==
  ASSUME HomeInvariant, QuietInvariant', FlowEnd
  PROVE  HomeInvariant'
<1>1. /\ index > 0 /\ At("end") /\ index' = index - 1
      /\ level' = [level EXCEPT ![index] = FreshLevel]
      /\ UNCHANGED <<node, running, lists>>
  BY DEF FlowEnd, charts
<1>2. /\ index \in Level \ {0} /\ QuietInvariant /\ level \in [Level -> LevelState]
      /\ \A k \in Level : Home(k)
  BY <1>1, HomeParts, AtTop DEF QuietInvariant, TypeOK, LevelsTyped
<1>3. index' \in Level /\ index \in Int /\ index' < index
  BY <1>1, <1>2, LevelFacts
<1>4. /\ \A k \in Level \ {index} : level'[k] = level[k]
      /\ level'[index] = FreshLevel
  BY <1>1, <1>2
<1>5. ContainersAgree' /\ StoppedNodesAreOut' /\ HomesKept
  <2>1. ContainersAgree' /\ \A k \in Level : TopKept(k) /\ HandlingKept(k)
    BY <1>1, HomeParts, ListsHome
  <2> QED BY <1>1, <2>1, HomeParts, OutStays DEF HomesKept, StopKept, IsRunning, lists
<1>6. ASSUME NEW k \in Level, k = index PROVE Home(k)'
  <2>1. stack'[k] = <<>> /\ handling'[k] = <<>> /\ level'[k] = FreshLevel
    BY <1>1, <1>2, <1>4, <1>6 DEF Home, Tidy, Done, At, lists
  <2>2. k \notin 1..index'
    BY <1>3, <1>6
  <2> QED BY <2>1, <2>2 DEF Home, Tidy, FreshLevel
<1>7. ASSUME NEW k \in Level \ {index} PROVE Home(k)'
  <2>1. k \in Int
    BY LevelFacts
  <2>2. (k > index' => k > index) /\ (k \in 1..index' => k \in 1..index)
    BY <1>1, <1>3, <2>1
  <2>3. k < index' => k < index /\ level'[k + 1].chart = level[k + 1].chart
    <3>1. k < index' => k + 1 \in Level \ {index} /\ k < index
      BY <1>1, <1>2, <1>3, <2>1, LevelFacts DEF Level
    <3> QED BY <1>4, <3>1
  <2> QED BY <1>2, <1>3, <1>4, <1>5, <2>2, <2>3, LevelStaysHome DEF HomesKept
<1> QED BY <1>5, <1>6, <1>7, HomePartsNext

-----------------------------------------------------------------------------
(* Dispatching events.                                                     *)

\* The nodes that wait for the event move to the list of the dispatch, which is empty.
LEMMA DispatchedContainers ==
  ASSUME ContainersAgree, NEW ev \in Wait, NEW k \in Level, ListsTyped, handling[k] = <<>>,
         handling' = [handling EXCEPT ![k] = waiting[ev]],
         waiting' = [waiting EXCEPT ![ev] = <<>>],
         UNCHANGED <<stack, container>>
  PROVE  ContainersAgree'
<1>1. /\ waiting \in [Wait -> Seq(Node)] /\ handling \in [Level -> Seq(Node)]
      /\ handling'[k] = waiting[ev] /\ \A j \in Level \ {k} : handling'[j] = handling[j]
      /\ waiting'[ev] = <<>> /\ \A w \in Wait \ {ev} : waiting'[w] = waiting[w]
  BY DEF ListsTyped
<1>2. Elements(<<>>) = {} /\ NoRepeats(<<>>)
  BY DEF Elements, NoRepeats
<1>3. \A j \in Level : NoRepeats(stack'[j]) /\ NoRepeats(handling'[j])
  BY <1>1 DEF ContainersAgree
<1>4. \A w \in Wait : NoRepeats(waiting'[w])
  BY <1>1, <1>2 DEF ContainersAgree
<1>5. ASSUME NEW n \in Node
      PROVE  /\ \A j \in Level : Holds(n, stack[j])' <=> j > 0 /\ container'[n] = j
             /\ container'[n] = EventList <=> \/ \E w \in Wait : Holds(n, waiting[w])'
                                              \/ \E j \in Level : Holds(n, handling[j])'
             /\ \A w, v \in Wait : Holds(n, waiting[w])' /\ Holds(n, waiting[v])' => w = v
             /\ \A i, j \in Level : Holds(n, handling[j])' /\ Holds(n, handling[i])' => i = j
             /\ \A w \in Wait, j \in Level : ~(Holds(n, waiting[w])' /\ Holds(n, handling[j])')
  <2>1. /\ \A j \in Level : Holds(n, stack[j]) <=> j > 0 /\ container[n] = j
        /\ container[n] = EventList <=> \/ \E w \in Wait : Holds(n, waiting[w])
                                        \/ \E j \in Level : Holds(n, handling[j])
        /\ \A w, v \in Wait : Holds(n, waiting[w]) /\ Holds(n, waiting[v]) => w = v
        /\ \A i, j \in Level : Holds(n, handling[j]) /\ Holds(n, handling[i]) => i = j
        /\ \A w \in Wait, j \in Level : ~(Holds(n, waiting[w]) /\ Holds(n, handling[j]))
    BY DEF ContainersAgree
  <2>2. /\ \A j \in Level : Holds(n, stack[j])' <=> Holds(n, stack[j])
        /\ Holds(n, handling[k])' <=> Holds(n, waiting[ev])
        /\ \A j \in Level \ {k} : Holds(n, handling[j])' <=> Holds(n, handling[j])
        /\ ~Holds(n, handling[k])
        /\ ~Holds(n, waiting[ev])'
        /\ \A w \in Wait \ {ev} : Holds(n, waiting[w])' <=> Holds(n, waiting[w])
        /\ container'[n] = container[n]
    BY <1>1, <1>2 DEF Holds
  <2> HIDE DEF Holds
  <2> QED BY <2>1, <2>2
<1> QED BY <1>3, <1>4, <1>5 DEF ContainersAgree

LEMMA StartDispatchHome ==
  ASSUME HomeInvariant, QuietInvariant', NEW ev \in Wait, NEW after,
         NEW p \in {"idle", "events", "callEnd"}, StartDispatch(ev, after, p),
         UNCHANGED <<node, running, stack, container>>,
         level[index].pc \notin {"dispatch", "return", "returned", "restore", "end"},
         p = "callEnd" => InCall(index)
  PROVE  HomeInvariant'
<1>1. /\ handling' = [handling EXCEPT ![index] = waiting[ev]]
      /\ waiting' = [waiting EXCEPT ![ev] = <<>>]
      /\ level' = [level EXCEPT ![index].pc = "dispatch", ![index].caller = p,
                                ![index].event = ev, ![index].prevEvent = after]
      /\ UNCHANGED index
  BY DEF StartDispatch
<1>2. /\ index \in Level /\ QuietInvariant /\ Home(index) /\ level \in [Level -> LevelState]
      /\ ContainersAgree /\ ListsTyped /\ handling \in [Level -> Seq(Node)]
  BY HomeParts, AtTop, Parts DEF QuietInvariant, TypeOK, LevelsTyped, ListsTyped
<1>3. /\ \A k \in Level \ {index} : level'[k] = level[k]
      /\ level'[index].pc = "dispatch" /\ level'[index].caller = p
      /\ level'[index].chart = level[index].chart /\ level'[index].current = level[index].current
  BY <1>1, <1>2 DEF LevelState
<1>4. level[index].caller = "idle" /\ handling[index] = <<>>
  BY <1>2 DEF Home, Tidy
<1>5. ContainersAgree'
  BY <1>1, <1>2, <1>4, DispatchedContainers
<1>6. /\ StoppedNodesAreOut'
      /\ \A k \in Level : TopKept(k)
      /\ \A k \in Level \ {index} : HandlingKept(k)
      /\ \A m \in Node : StopKept(m)
  BY <1>1, <1>2, HomeParts, OutStays DEF TopKept, HandlingKept, StopKept, IsRunning
<1>7. Home(index)'
  <2>1. InCall(index)' => InCall(index)
    BY <1>1, <1>3 DEF InCall
  <2>2. ~Done(index)'
    BY <1>1, <1>3 DEF Done
  <2>3. index <= index' /\ index' \in Level /\ ~(index < index')
    BY <1>1, <1>2, LevelFacts
  <2>4. \A k \in Level : k = index => Home(k)'
    BY <1>1, <1>2, <1>3, <1>6, <2>1, <2>2, <2>3, TopStaysBelow DEF CallerFits
  <2> QED BY <1>1, <1>2, <2>4
<1> QED BY <1>1, <1>3, <1>5, <1>6, <1>7, OthersStayHome

LEMMA HandleEventHome ==
  ASSUME HomeInvariant, QuietInvariant', HandleEvent
  PROVE  HomeInvariant'
<1> DEFINE ev == Head(outQueue)
<1>1. /\ index = 0 /\ At("events") /\ outQueue # <<>>
      /\ IF waiting[ev] = <<>>
         THEN UNCHANGED <<index, level, waiting, handling, currentEvent>>
         ELSE StartDispatch(ev, NoEvent, "events")
      /\ UNCHANGED <<node, running, stack, container>>
  BY DEF HandleEvent, charts
<1>2. ev \in Wait
  BY <1>1, HomeParts, Parts DEF QueuesTyped
<1> HIDE DEF ev
<1>3. CASE waiting[ev] = <<>>
  BY <1>1, <1>3, NothingMoves DEF lists
<1>4. CASE waiting[ev] # <<>>
  BY <1>1, <1>2, <1>4, StartDispatchHome DEF At
<1> QED BY <1>3, <1>4

\* Manager::Event with trigger, called by the game or by a node.
LEMMA EventTriggeredHome ==
  ASSUME HomeInvariant, QuietInvariant', NEW ev \in Wait, NEW p \in {"idle", "callEnd"},
         TriggerEvent(ev, p), p = "idle" => At("idle"), p = "callEnd" => At("call")
  PROVE  HomeInvariant'
<1>1. UNCHANGED <<node, running, stack, container>>
  BY DEF TriggerEvent, charts
<1>2. p = "callEnd" => InCall(index)
  BY DEF InCall, At
<1>3. CASE Goto(p) /\ UNCHANGED <<waiting, handling>>
  <2>1. UNCHANGED <<lists, running>> /\ p \in Pcs
    BY <1>1, <1>3 DEF lists, Pcs
  <2> QED BY <1>1, <1>2, <1>3, <2>1, PlainGoto DEF At
<1>4. CASE StartDispatch(ev, currentEvent, p)
  BY <1>1, <1>2, <1>4, StartDispatchHome DEF At
<1> QED BY <1>3, <1>4 DEF TriggerEvent

LEMMA TriggerHome ==
  ASSUME HomeInvariant, QuietInvariant', NEW w \in Wait, Trigger(w)
  PROVE  HomeInvariant'
<1>1. At("idle") /\ TriggerEvent(w, "idle")
  BY DEF Trigger, CallsIn, AtRest
<1> QED BY <1>1, EventTriggeredHome

LEMMA CallTriggerHome ==
  ASSUME HomeInvariant, QuietInvariant', CallTrigger
  PROVE  HomeInvariant'
<1>1. PICK n \in Node : Calls(n, "trigger") /\ TriggerEvent(Names[n], "callEnd")
  BY DEF CallTrigger
<1>2. Names[n] \in Wait /\ At("call")
  BY <1>1, ConstantsAssumption DEF Calls
<1> QED BY <1>1, <1>2, EventTriggeredHome

LEMMA DispatchEndHome ==
  ASSUME HomeInvariant, QuietInvariant', DispatchEnd
  PROVE  HomeInvariant'
<1>1. /\ At("dispatch") /\ handling[index] = <<>> /\ UNCHANGED <<node, running, index, lists>>
      /\ level' = [level EXCEPT ![index].pc = level[index].caller, ![index].caller = "idle",
                                ![index].event = NoEvent, ![index].prevEvent = NoEvent]
  BY DEF DispatchEnd, charts
<1>2. /\ index \in Level /\ QuietInvariant /\ Home(index) /\ level \in [Level -> LevelState]
      /\ level[index] \in LevelState
  BY HomeParts, AtTop DEF QuietInvariant, TypeOK, LevelsTyped
<1>3. /\ \A k \in Level \ {index} : level'[k] = level[k]
      /\ level'[index].pc = level[index].caller /\ level'[index].caller = "idle"
      /\ level'[index].chart = level[index].chart /\ level'[index].current = level[index].current
      /\ level[index].caller \in {"idle", "events", "callEnd", "end"}
  BY <1>1, <1>2 DEF LevelState
<1>4. level[index].caller # "end"
  BY <1>1, <1>2 DEF Home, Tidy, At
<1>5. ContainersAgree' /\ StoppedNodesAreOut' /\ HomesKept
  <2>1. ContainersAgree' /\ \A k \in Level : TopKept(k) /\ HandlingKept(k)
    BY <1>1, HomeParts, ListsHome
  <2> QED BY <1>1, <2>1, HomeParts, OutStays DEF HomesKept, StopKept, IsRunning, lists
<1>6. Home(index)'
  <2>1. InCall(index)' => InCall(index)
    BY <1>1, <1>3 DEF InCall
  <2>2. ~Done(index)'
    BY <1>1, <1>3, <1>4 DEF Done
  <2>3. handling'[index] = <<>>
    BY <1>1 DEF lists
  <2> QED BY <1>1, <1>2, <1>3, <1>5, <2>1, <2>2, <2>3, TopStaysHome DEF HomesKept, CallerFits
<1> QED BY <1>1, <1>3, <1>5, <1>6, TopGoesOn

-----------------------------------------------------------------------------
(* Calling a flow.                                                         *)

\* The flow of n, whose chart runs, is called on the next executor, which holds no
\* node; the charts that have stopped have had their nodes taken out.
LEMMA FlowCalledHome ==
  ASSUME HomeInvariant, QuietInvariant', ~StackFull, NEW S, NEW n \in Node, NEW p \in CallerPcs,
         UnlinkAndPush(S, n, index + 1, TRUE), CallFlow(n, p),
         ChartOf[n] \in running',
         \A m \in Node : ChartOf[m] \in running' \/ m \in S \/ ChartOf[m] \notin running,
         \A m \in Node : StopKept(m),
         p = "callEnd" => InCall(index),
         p = "dispatch" <=> At("dispatch"),
         p = "returned" <=> level[index].pc \in {"return", "returned"},
         p = "returned" => OwnerNode[level[index].chart] = n
  PROVE  HomeInvariant'
<1>1. /\ index \in Level /\ QuietInvariant /\ level \in [Level -> LevelState]
      /\ ContainersAgree /\ ListsTyped /\ \A k \in Level : Home(k)
  BY HomeParts, AtTop, Parts DEF QuietInvariant, TypeOK, LevelsTyped
<1> SUFFICES ASSUME NEW i, i = index, NEW j, j = index + 1 PROVE HomeInvariant'
  OBVIOUS
<1>2. i \in Level /\ j \in Level \ {0} /\ i \in Int /\ j = i + 1 /\ i # j /\ i < j /\ i >= 0
  BY <1>1, LevelFacts DEF StackFull
<1>3. /\ index' = j
      /\ level' = [level EXCEPT ![i].pc = p, ![j].pc = "loop", ![j].chart = ChartOf[n]]
      /\ UnlinkAndPush(S, n, j, TRUE)
  BY DEF CallFlow
<1>4. level[j] = FreshLevel /\ stack[j] = <<>> /\ handling[j] = <<>>
  <2>1. j > index
    BY <1>2
  <2>2. level[j] = FreshLevel
    BY <1>1, <1>2, <2>1 DEF QuietInvariant, LevelsNest
  <2> QED BY <1>1, <1>2, <2>1, <2>2 DEF Home, Tidy, FreshLevel
<1>5. i = index
  OBVIOUS
<1>6. /\ \A k \in Level \ {i, j} : level'[k] = level[k]
      /\ level'[i] = [level[i] EXCEPT !.pc = p]
      /\ level'[j] = [FreshLevel EXCEPT !.pc = "loop", !.chart = ChartOf[n]]
  BY <1>1, <1>2, <1>3, <1>4
<1>7. /\ level'[i].pc = p /\ level'[i].chart = level[i].chart
      /\ level'[i].current = level[i].current /\ level'[i].caller = level[i].caller
      /\ level'[i].returning = level[i].returning
      /\ level'[j].pc = "loop" /\ level'[j].chart = ChartOf[n] /\ level'[j].caller = "idle"
  BY <1>1, <1>2, <1>6 DEF LevelState, FreshLevel
<1>8. /\ ContainersAgree'
      /\ \A k \in Level : HandlingKept(k)
      /\ \A k \in Level \ {j} : TopKept(k)
      /\ \A m \in Node : container'[m] = IF m = n THEN j ELSE IF m \in S THEN 0 ELSE container[m]
  BY <1>1, <1>2, <1>3, <1>4, PushHome
<1>9. StoppedNodesAreOut'
  BY <1>8, HomeParts DEF StoppedNodesAreOut, IsRunning
<1>10. Home(j)'
  <2>1. handling'[j] = <<>>
    BY <1>2, <1>4, <1>8 DEF HandlingKept
  <2>2. Tidy(j)'
    BY <1>2, <1>3, <1>7, <2>1 DEF Tidy, Done
  <2> QED BY <1>7, <2>2 DEF Home, CurrentOnTop, InCall, ReturnsOwnChart
<1>11. Home(i)'
  <2>1. InCall(i)' => InCall(i)
    BY <1>5, <1>7 DEF InCall, CallerPcs
  <2>2. Done(i)' => Done(i)
    BY <1>7 DEF Done, CallerPcs
  <2>3. level'[i].pc # "dispatch" => handling'[i] = <<>>
    BY <1>1, <1>2, <1>5, <1>7, <1>8 DEF HandlingKept, Home, Tidy, At
  <2>4. CallerFits(level'[i])
    BY <1>1, <1>2, <1>5, <1>7 DEF Home, Tidy, CallerFits, At
  <2>5. level'[i].pc \in {"return", "returned"} =>
          /\ level'[i].returning = level[i].chart
          /\ OwnerNode[level[i].chart] = n
    <3>1. ASSUME p \in {"return", "returned"} PROVE i \in 1..index
      <4>1. level[i].pc \in {"return", "returned"}
        BY <1>5, <3>1 DEF CallerPcs
      <4>2. i # 0
        BY <1>1, <1>5, <4>1, AtTop DEF ManagerPcs
      <4> QED BY <1>2, <1>5, <4>2
    <3> QED BY <1>1, <1>2, <1>5, <1>7, <3>1 DEF Home, ReturnsOwnChart, CallerPcs
  <2>6. index' \in Level /\ i <= index' /\ level'[i + 1].chart = ChartOf[n]
    BY <1>2, <1>3, <1>7
  <2> QED BY <1>1, <1>2, <1>5, <1>7, <1>8, <2>1, <2>2, <2>3, <2>4, <2>5, <2>6, TopStaysBelow
<1>12. ASSUME NEW k \in Level \ {i, j} PROVE Home(k)'
  <2>1. k \in Int
    BY LevelFacts
  <2>2. (k > index' => k > index) /\ (k \in 1..index' => k \in 1..index)
    BY <1>2, <1>3, <1>5, <2>1
  <2>3. k < index' => k < index /\ level'[k + 1].chart = level[k + 1].chart
    <3>1. k < index' => k < index /\ k + 1 \in Level /\ k + 1 # j
      BY <1>1, <1>2, <1>3, <1>5, <2>1, LevelFacts DEF Level
    <3> QED BY <1>6, <1>7, <3>1
  <2> QED BY <1>1, <1>2, <1>3, <1>6, <1>8, <2>2, <2>3, LevelStaysHome
<1> QED BY <1>8, <1>9, <1>10, <1>11, <1>12, HomePartsNext

\* Chart::StartFlow and its kind: nothing else is stopped or moved.
LEMMA JustFlowCalledHome ==
  ASSUME HomeInvariant, QuietInvariant', ~StackFull, NEW n \in Node, NEW p \in CallerPcs \ {"returned"},
         UnlinkAndPush({}, n, index + 1, TRUE), CallFlow(n, p),
         ChartOf[n] \in running', running \subseteq running',
         \A m \in Node : ChartOf[m] \in running \/ ChartOf[m] \in running' \/ node'[m].result = node[m].result,
         p = "callEnd" => InCall(index),
         p = "dispatch" <=> At("dispatch"),
         level[index].pc \notin {"return", "returned"}
  PROVE  HomeInvariant'
<1>1. \A m \in Node : ChartOf[m] \in running' \/ m \in {} \/ ChartOf[m] \notin running
  OBVIOUS
<1>2. \A m \in Node : StopKept(m)
  BY DEF StopKept, IsRunning
<1> QED BY <1>1, <1>2, FlowCalledHome

LEMMA DispatchNodeHome ==
  ASSUME HomeInvariant, QuietInvariant', DispatchNode
  PROVE  HomeInvariant'
<1> DEFINE n == Head(handling[index])
<1>1. /\ At("dispatch") /\ handling[index] # <<>> /\ UNCHANGED running
      /\ node' = [node EXCEPT ![n].status = "Idle"]
      /\ IF ~StackFull /\ IsRunning(ChartOf[n])
         THEN UnlinkAndPush({}, n, index + 1, TRUE) /\ CallFlow(n, "dispatch")
         ELSE Unlink({n}) /\ Goto("dispatch")
  BY DEF DispatchNode, charts
<1>2. n \in Node /\ node \in [Node -> NodeState] /\ ContainersAgree /\ ListsTyped
  <2>1. index \in Level /\ handling \in [Level -> Seq(Node)] /\ node \in [Node -> NodeState]
    BY HomeParts, Parts, AtTop DEF ListsTyped, NodesTyped
  <2> QED BY <1>1, <2>1, HomeParts, Parts
<1> HIDE DEF n
<1>3. \A m \in Node : node'[m].result = node[m].result
  BY <1>1, <1>2 DEF NodeState
<1>4. CASE ~StackFull /\ IsRunning(ChartOf[n])
  <2>1. UnlinkAndPush({}, n, index + 1, TRUE) /\ CallFlow(n, "dispatch") /\ ChartOf[n] \in running'
    BY <1>1, <1>4 DEF IsRunning
  <2> QED BY <1>1, <1>2, <1>3, <1>4, <2>1, JustFlowCalledHome DEF At, CallerPcs
<1>5. CASE ~(~StackFull /\ IsRunning(ChartOf[n]))
  <2>1. Unlink({n}) /\ Goto("dispatch")
    BY <1>1, <1>5
  <2>2. /\ ContainersAgree' /\ \A k \in Level : TopKept(k) /\ HandlingKept(k)
        /\ \A m \in Node : container'[m] = IF m \in {n} THEN 0 ELSE container[m]
    BY <1>2, <2>1, UnlinkHome
  <2>3. StoppedNodesAreOut' /\ HomesKept
    BY <1>1, <1>3, <2>2, HomeParts, OutStays DEF HomesKept, StopKept, IsRunning
  <2> QED BY <1>1, <2>1, <2>2, <2>3, GotoHome DEF At, Pcs
<1> QED BY <1>4, <1>5

\* A timer that is due belongs to a node of a chart that runs.
LEMMA FireNodeTimerHome ==
  ASSUME HomeInvariant, QuietInvariant', NEW n \in Node, FireNodeTimer(n)
  PROVE  HomeInvariant'
<1> DEFINE now == ~StackFull /\ IsRunning(ChartOf[n])
<1>1. /\ index = 0 /\ At("timers") /\ node[n].timer = "due" /\ UNCHANGED running
      /\ \A m \in Node \ {n} : node'[m] = node[m]
      /\ IF now THEN UnlinkAndPush({}, n, 1, TRUE) /\ CallFlow(n, "timers")
                ELSE Goto("timers") /\ UNCHANGED lists
  <2>1. node \in [Node -> NodeState]
    BY HomeParts, Parts DEF NodesTyped
  <2> QED BY <2>1 DEF FireNodeTimer, charts
<1>2. ChartOf[n] \in running
  BY <1>1, HomeParts, Parts DEF StoppedChartIsQuiet, IsRunning
<1>3. CASE now
  <2>1. UnlinkAndPush({}, n, index + 1, TRUE) /\ CallFlow(n, "timers") /\ ~StackFull
    <3>1. index + 1 = 1
      BY <1>1
    <3> QED BY <1>1, <1>3, <3>1
  <2> QED BY <1>1, <1>2, <2>1, JustFlowCalledHome DEF At, CallerPcs
<1>4. CASE ~now
  <2>1. Goto("timers") /\ UNCHANGED <<lists, running>>
    BY <1>1, <1>4
  <2> QED BY <1>1, <1>2, <2>1, PlainGoto DEF At, Pcs
<1> QED BY <1>3, <1>4

\* Agent::StartChart: the start node runs at once, or waits for its event.
LEMMA StartChartHome ==
  ASSUME HomeInvariant, QuietInvariant', NEW c \in Chart, NEW sync \in BOOLEAN,
         NEW nodes \in [Node -> NodeState], NEW p \in {"idle", "callEnd"}, StartChart(c, sync, nodes, p),
         \A m \in Node : ChartOf[m] \notin running => nodes[m] = node[m],
         p = "idle" => At("idle"), p = "callEnd" => At("call")
  PROVE  HomeInvariant'
<1> DEFINE s == StartNode[c]
           now == sync /\ ~StackFull
           w == <<AgentOf[c], START>>
<1>1. s \in Node /\ ChartOf[s] = c /\ w \in Wait
  BY ConstantsAssumption DEF Wait
<1>2. /\ running' = running \cup {c}
      /\ node' = [nodes EXCEPT ![s].skip = TRUE, ![s].result = "rTRUE",
                               ![s].status = IF now THEN "Idle" ELSE "Running"]
      /\ IF now THEN UnlinkAndPush({}, s, index + 1, TRUE) /\ CallFlow(s, p)
                ELSE UnlinkAndWait({}, s, w) /\ Goto(p)
  BY DEF StartChart
<1>3. sync /\ ~StackFull <=> now
  OBVIOUS
<1> HIDE DEF s, w, now
<1>4. /\ ChartOf[s] \in running' /\ running \subseteq running'
      /\ \A m \in Node : ChartOf[m] \in running \/ ChartOf[m] \in running' \/ node'[m].result = node[m].result
  <2>1. \A m \in Node \ {s} : node'[m] = nodes[m]
    BY <1>2
  <2> QED BY <1>1, <1>2, <2>1
<1>5. p = "callEnd" => InCall(index)
  BY DEF InCall, At
<1>6. CASE now
  <2>1. UnlinkAndPush({}, s, index + 1, TRUE) /\ CallFlow(s, p) /\ ~StackFull
    BY <1>2, <1>3, <1>6
  <2>2. p \in CallerPcs \ {"returned"}
    BY DEF CallerPcs
  <2> QED BY <1>1, <1>4, <1>5, <2>1, <2>2, JustFlowCalledHome DEF At
<1>7. CASE ~now
  <2>1. UnlinkAndWait({}, s, w) /\ Goto(p)
    BY <1>2, <1>7
  <2>2. /\ ContainersAgree' /\ \A k \in Level : TopKept(k) /\ HandlingKept(k)
        /\ \A m \in Node : container'[m] = IF m = s THEN EventList ELSE container[m]
    BY <1>1, <2>1, HomeParts, Parts, JustWaitHome
  <2>3. StoppedNodesAreOut' /\ HomesKept
    <3>1. StoppedNodesAreOut'
      BY <1>4, <2>2, HomeParts DEF StoppedNodesAreOut, IsRunning
    <3>2. \A m \in Node : StopKept(m)
      BY <1>4 DEF StopKept, IsRunning
    <3> QED BY <2>2, <3>1, <3>2 DEF HomesKept
  <2> QED BY <1>5, <2>1, <2>2, <2>3, GotoHome DEF At, Pcs
<1> QED BY <1>6, <1>7

LEMMA StartHome ==
  ASSUME HomeInvariant, QuietInvariant', NEW c \in Chart, Start(c)
  PROVE  HomeInvariant'
<1>1. At("idle") /\ StartChart(c, ~DeferEvent, node, "idle")
  BY DEF Start, CallsIn, AtRest
<1>2. (~DeferEvent) \in BOOLEAN /\ node \in [Node -> NodeState]
  BY ConstantsAssumption, HomeParts, Parts DEF NodesTyped
<1> QED BY <1>1, <1>2, StartChartHome

LEMMA CallSubchartHome ==
  ASSUME HomeInvariant, QuietInvariant', CallSubchart
  PROVE  HomeInvariant'
<1>1. PICK n \in Node, c \in Chart :
        /\ Calls(n, "sub")
        /\ LET nodes == [node EXCEPT ![n].status = "Running"] IN
           IF IsRunning(c)
           THEN node' = nodes /\ Goto("callEnd") /\ UNCHANGED <<running, lists, inQueue>>
           ELSE StartChart(c, TRUE, nodes, "callEnd")
  BY DEF CallSubchart
<1> DEFINE nodes == [node EXCEPT ![n].status = "Running"]
<1>2. At("call") /\ node \in [Node -> NodeState] /\ ChartOf[n] \in running
  BY <1>1, HomeParts, Parts, CallerFacts DEF Calls, NodesTyped, IsRunning
<1>3. nodes \in [Node -> NodeState] /\ \A m \in Node \ {n} : nodes[m] = node[m]
  <2>1. \A y \in NodeState : [y EXCEPT !.status = "Running"] \in NodeState
    BY DEF NodeState
  <2> QED BY <1>2, <2>1
<1>4. CASE IsRunning(c)
  <2>1. Calls(n, "sub") /\ (\A m \in Node \ {n} : node'[m] = node[m]) /\ Goto("callEnd") /\ UNCHANGED <<lists, running>>
    BY <1>1, <1>3, <1>4
  <2> QED BY <2>1, CallOfNodeHome
<1>5. CASE ~IsRunning(c)
  <2>1. StartChart(c, TRUE, nodes, "callEnd")
    BY <1>1, <1>5
  <2>2. \A m \in Node : ChartOf[m] \notin running => nodes[m] = node[m]
    BY <1>2, <1>3
  <2> HIDE DEF nodes
  <2> QED BY <1>2, <1>3, <2>1, <2>2, StartChartHome
<1> QED BY <1>4, <1>5

-----------------------------------------------------------------------------
(* Going on after a node has run, and after a chart has returned.          *)

\* The node that has run is taken off the stack, if it is still there, and its
\* successors go on it, wherever they were.
LEMMA AfterRunHome ==
  ASSUME HomeInvariant, QuietInvariant', AfterRun
  PROVE  HomeInvariant'
<1> DEFINE n == level[index].current
           runs == Status(n) = "Running"
           pops == container[n] = index
           P == IF pops THEN {Top} ELSE {}
           next == Successors(n)
           E == Elements(next)
           rest == IF pops THEN Front(stack[index]) ELSE stack[index]
           C == ChartNodes({level[index].chart})
           y(m) == [node[m] EXCEPT !.status = IF m = n /\ ~runs THEN "EndRun" ELSE @,
                                   !.runFlag = IF m = n /\ runs THEN FALSE ELSE @,
                                   !.pre = IF m \in E THEN n ELSE @]
<1>1. /\ index > 0 /\ At("ran")
      /\ level' = [level EXCEPT ![index].pc = "loop", ![index].history = @ \cup P,
                                ![index].hasRunning = @ \/ runs]
      /\ node' = [m \in Node |-> y(m)]
      /\ waiting' = WaitingWithout(E) /\ handling' = HandlingWithout(E)
      /\ stack' = [StackWithout(E) EXCEPT ![index] = Without(rest, E) \o Reversed(Firsts(next))]
      /\ container' = [m \in Node |-> IF m \in E THEN index
                                      ELSE IF m \in InStack(P, index) THEN 0
                                      ELSE container[m]]
      /\ UNCHANGED <<running, index>>
  BY DEF AfterRun, charts
<1>2. /\ index \in Level \ {0} /\ index \in 1..index /\ InCall(index) /\ FlowOf(index)
      /\ QuietInvariant /\ ContainersAgree /\ ListsTyped /\ NodesTyped /\ Home(index)
      /\ level \in [Level -> LevelState] /\ node \in [Node -> NodeState]
  <2> HIDE DEF n, E, P, rest, y, next, runs, pops
  <2>1. InCall(index) /\ index # 0
    BY <1>1 DEF InCall, At
  <2> QED BY <2>1, HomeParts, AtTop, Parts DEF QuietInvariant, TypeOK, LevelsTyped, NodesTyped
<1>3. /\ n \in C /\ n \in Node /\ ChartOf[n] = level[index].chart /\ C \subseteq Node
      /\ stack[index] \in Seq(C) /\ (pops => n \in Elements(stack[index]) /\ Last(stack[index]) = n)
      /\ ~ IsRunning(ChartOf[n]) => node[n].result = "rSTOP"
  <2>1. CurrentOnTop(index)
    BY <1>2 DEF Home
  <2> QED BY <1>2, <2>1 DEF FlowOf, ChartNodes, CurrentOnTop, Holds
<1>4. next \in Seq(C) /\ E \subseteq C /\ (ChartOf[n] \notin running => E = {})
  <2>1. next \in Seq(C)
    BY <1>2, <1>3, SuccessorsType
  <2>2. ChartOf[n] \notin running => next = <<>>
    BY <1>3 DEF Successors, IsRunning
  <2> HIDE DEF next, C
  <2>3. Elements(<<>>) = {}
    BY DEF Elements
  <2> QED BY <2>1, <2>2, <2>3, ElementsType
<1>5. E = Elements(next)
  OBVIOUS
<1> HIDE DEF next, E
<1>6. /\ P \subseteq {n} /\ (n \in P <=> container[n] = index)
      /\ rest \in Seq(C) /\ NoRepeats(rest) /\ Elements(rest) = Elements(stack[index]) \ P
  <2>1. NoRepeats(stack[index])
    BY <1>2 DEF ContainersAgree
  <2>2. CASE pops
    <3>1. stack[index] # <<>>
      BY <1>3, <2>2 DEF Elements
    <3> HIDE DEF C
    <3>2. /\ Front(stack[index]) \in Seq(C) /\ NoRepeats(Front(stack[index]))
          /\ Elements(Front(stack[index])) = Elements(stack[index]) \ {Last(stack[index])}
      BY <1>3, <2>1, <3>1, FrontType, FrontNoRepeats
    <3>3. P = {n} /\ rest = Front(stack[index])
      BY <1>3, <2>2 DEF Top
    <3> QED BY <1>3, <2>2, <3>2, <3>3
  <2>3. CASE ~pops
    BY <1>3, <2>1, <2>3
  <2> QED BY <2>2, <2>3
<1>7. /\ \A k \in Level \ {index} : level'[k] = level[k]
      /\ level'[index].pc = "loop" /\ level'[index].chart = level[index].chart
      /\ level'[index].caller = level[index].caller
  <2> HIDE DEF P, runs, n
  <2> QED BY <1>1, <1>2 DEF LevelState
<1>8. \A m \in Node : node'[m].result = node[m].result
  <2> DEFINE s(m) == IF m = n /\ ~runs THEN "EndRun" ELSE node[m].status
             f(m) == IF m = n /\ runs THEN FALSE ELSE node[m].runFlag
             q(m) == IF m \in E THEN n ELSE node[m].pre
  <2> TAKE m \in Node
  <2>1. node'[m] = [node[m] EXCEPT !.status = s(m), !.runFlag = f(m), !.pre = q(m)]
    <3>1. node[m] \in NodeState
      BY <1>2
    <3> HIDE DEF runs, n
    <3> QED BY <1>1, <3>1 DEF NodeState
  <2> HIDE DEF s, f, q
  <2>2. node[m] \in NodeState
    BY <1>2
  <2> QED BY <2>1, <2>2 DEF NodeState
<1> HIDE DEF pops, P, rest, y, runs, C
<1>9. \A m \in Node : container'[m] = IF m \in E THEN index ELSE IF m \in E \cup P THEN 0 ELSE container[m]
  BY <1>1, <1>6 DEF InStack
<1>10. /\ \A k \in Level : Elements(StackWithout(E)[k]) = Elements(stack[k]) \ E /\ NoRepeats(StackWithout(E)[k])
       /\ \A k \in Level : /\ Elements(handling'[k]) = Elements(handling[k]) \ E /\ NoRepeats(handling'[k])
                           /\ handling[k] = <<>> => handling'[k] = <<>>
       /\ \A w \in Wait : Elements(waiting'[w]) = Elements(waiting[w]) \ E /\ NoRepeats(waiting'[w])
       /\ StackWithout(E) \in [Level -> Seq(Node)]
  BY <1>1, <1>2, WithoutParts, WithoutTypes
<1>11. /\ stack'[index] = Without(rest, E) \o Reversed(Firsts(next))
       /\ \A k \in Level \ {index} : stack'[k] = StackWithout(E)[k]
  BY <1>1, <1>2, <1>10
<1>12. Elements(stack'[index]) = (Elements(stack[index]) \ (E \cup P)) \cup E /\ NoRepeats(stack'[index])
  <2> DEFINE a == Without(rest, E)
             b == Firsts(next)
  <2>1. a \in Seq(C) /\ Elements(a) = Elements(rest) \ E /\ NoRepeats(a)
    BY <1>6, WithoutType, WithoutElements, WithoutOnly
  <2>2. b \in Seq(C) /\ Elements(b) = E /\ NoRepeats(b)
    BY <1>4, <1>5, FirstsParts
  <2> HIDE DEF a, b
  <2>3. Reversed(b) \in Seq(C) /\ Elements(Reversed(b)) = E /\ NoRepeats(Reversed(b))
    BY <2>2, ReversedType, ReversedSame, ReversedNoRepeats
  <2>4. Elements(a) \cap Elements(Reversed(b)) = {}
    BY <2>1, <2>3
  <2>5. NoRepeats(a \o Reversed(b)) /\ Elements(a \o Reversed(b)) = Elements(a) \cup Elements(Reversed(b))
    BY <2>1, <2>3, <2>4, ConcatElements, ConcatNoRepeats
  <2> QED BY <1>6, <1>11, <2>1, <2>3, <2>5 DEF a, b
<1>13. /\ \A k \in Level \ {index} : Elements(stack[k]) \cap P = {}
       /\ \A k \in Level : Elements(handling[k]) \cap P = {}
       /\ \A w \in Wait : Elements(waiting[w]) \cap P = {}
  <2>1. index # EventList
    BY <1>2, LevelFacts DEF EventList
  <2> QED BY <1>2, <1>3, <1>6, <2>1 DEF ContainersAgree, Holds
<1>14. ToStack(E \cup P, E, index)
  <2>1. \A k \in Level : /\ Elements(stack'[k]) = (Elements(stack[k]) \ (E \cup P)) \cup (IF k = index THEN E ELSE {})
                         /\ NoRepeats(stack'[k])
    <3>1. \A k \in Level \ {index} : Elements(stack'[k]) = Elements(stack[k]) \ (E \cup P) /\ NoRepeats(stack'[k])
      BY <1>10, <1>11, <1>13
    <3> QED BY <1>12, <3>1
  <2>2. \A k \in Level : Elements(handling'[k]) = Elements(handling[k]) \ (E \cup P) /\ NoRepeats(handling'[k])
    BY <1>10, <1>13
  <2>3. \A w \in Wait : Elements(waiting'[w]) = Elements(waiting[w]) \ (E \cup P) /\ NoRepeats(waiting'[w])
    BY <1>10, <1>13
  <2> QED BY <1>9, <2>1, <2>2, <2>3 DEF ToStack
<1>15. ContainersAgree'
  BY <1>2, <1>14, MovedToStack
<1>16. StoppedNodesAreOut'
  <2>1. ASSUME NEW m \in Node
        PROVE  \/ ChartOf[m] \in running' \/ container'[m] = 0
               \/ ChartOf[m] \notin running /\ container'[m] = container[m]
    <3>1. m \in E => ChartOf[m] \in running
      BY <1>3, <1>4 DEF C, ChartNodes
    <3> QED BY <1>1, <1>9, <3>1
  <2> QED BY <2>1, HomeParts, OutStays
<1>17. /\ \A k \in Level \ {index} : TopKept(k)
       /\ \A k \in Level : HandlingKept(k)
       /\ \A m \in Node : StopKept(m)
  <2>1. ASSUME NEW k \in Level \ {index} PROVE TopKept(k)
    <3>1. \A m \in Node : container'[m] = k => k = 0 \/ (container[m] = k /\ m \notin E)
      BY <1>9, <2>1
    <3> QED BY <1>2, <1>11, <3>1, TopStays
  <2> QED BY <1>1, <1>8, <1>10, <2>1 DEF HandlingKept, StopKept, IsRunning
<1>18. Home(index)'
  <2>1. level[index].caller = "idle" /\ handling'[index] = <<>>
    BY <1>1, <1>2, <1>17 DEF Home, Tidy, At, HandlingKept
  <2>2. Tidy(index)'
    BY <1>1, <1>2, <1>7, <2>1, LevelFacts DEF Tidy, Done
  <2> QED BY <1>1, <1>7, <2>1, <2>2 DEF Home, CurrentOnTop, InCall, ReturnsOwnChart
<1> QED BY <1>1, <1>7, <1>15, <1>16, <1>17, <1>18, OthersStayHome

\* A flow whose current node owns the chart that returns above it is not over: it
\* could only be if its own chart were returning to an owner in that chart, which
\* would then be below itself.
LEMMA CallerGoesOn ==
  ASSUME QuietInvariant, NEW k \in Level, k + 1 = index, k # 0, Home(k),
         OwnerNode[level[index].chart] \in Node,
         level[k].current = OwnerNode[level[index].chart]
  PROVE  ~Done(k)
<1> DEFINE c == level[index].chart
           d == level[k].chart
<1>1. k < index /\ k \in 1..index /\ index \in 1..index /\ index \in Level
  BY AtTop, LevelFacts DEF Level
<1>2. d \in Chart /\ c \in Chart /\ ChartOf[OwnerNode[c]] = d
  BY <1>1, ChartOfType DEF QuietInvariant, FlowsStayInChart, FlowOf, ChartNodes
<1> SUFFICES ASSUME Done(k) PROVE FALSE
  OBVIOUS
<1>3. level[k].pc \in CallerPcs
  BY <1>1 DEF QuietInvariant, LevelsNest, CallerPcs
<1>4. level[k].caller = "end"
  BY <1>3 DEF Done, CallerPcs
<1>5. level[k].pc = "returned" /\ ReturnsOwnChart(k)
  BY <1>1, <1>3, <1>4 DEF Home, Tidy, CallerPcs
<1>6. OwnerNode[d] \in Node /\ c = ChartOf[OwnerNode[d]]
  BY <1>1, <1>5 DEF ReturnsOwnChart
<1> HIDE DEF c, d
<1>7. d \notin Under[c] /\ c \in Under[c]
  BY <1>2, ChartsAssumption DEF c
<1> QED BY <1>2, <1>6, <1>7, ChartsAssumption

\* The owner of the chart that returns goes on the stack of the flow that is calling
\* it, on top; or gets a flow of its own; or waits for START.
LEMMA ReturnToOwnerHome ==
  ASSUME HomeInvariant, QuietInvariant', NEW r, ReturnToOwner(r)
  PROVE  HomeInvariant'
<1> DEFINE c == level[index].returning
           o == OwnerNode[c]
           S == WithSubcharts({o})
           home == <<AgentOf[ChartOf[o]], START>>
           queued == ~CalledBelow(o) /\ StackFull
<1>1. /\ index > 0 /\ At("return") /\ c \notin Root
      /\ node' = [StoppedNodes(node, S) EXCEPT ![o].result = r, ![o].skip = TRUE,
                                               ![o].runFlag = CalledBelow(o),
                                               ![o].status = IF queued THEN "Running" ELSE @]
      /\ running' = running \ SubchartsOf({o})
      /\ \/ CalledBelow(o) /\ UnlinkAndPush(S, o, index - 1, FALSE) /\ Goto("returned")
         \/ queued /\ UnlinkAndWait(S, o, home) /\ Goto("returned")
         \/ /\ ~CalledBelow(o) /\ ~StackFull
            /\ IF IsRunning(ChartOf[o])
               THEN UnlinkAndPush(S, o, index + 1, TRUE) /\ CallFlow(o, "returned")
               ELSE Unlink(S) /\ Goto("returned")
  BY DEF ReturnToOwner
<1>2. ChartNodes(SubchartsOf({o})) \subseteq S
  BY DEF WithSubcharts
<1>3. /\ index \in Level \ {0} /\ index \in 1..index /\ QuietInvariant /\ level \in [Level -> LevelState]
      /\ ContainersAgree /\ ListsTyped /\ node \in [Node -> NodeState] /\ \A k \in Level : Home(k)
      /\ FlowOf(index)
  <2>1. index # 0
    <3>1. index > 0
      BY DEF ReturnToOwner
    <3> QED BY <3>1
  <2> QED BY <2>1, HomeParts, AtTop, Parts DEF QuietInvariant, TypeOK, LevelsTyped, NodesTyped
<1>4. c \in Chart /\ c = level[index].chart
  BY <1>1, <1>3 DEF Home, ReturnsOwnChart, FlowOf, At
<1>5. o \in Node /\ home \in Wait
  BY <1>1, <1>4, ConstantsAssumption DEF Root, Wait
<1>6. ChartOf[o] \in running'
  <2>1. ChartOf[o] \in running
    BY <1>1, <1>3, <1>4 DEF QuietInvariant, CallsInRunningChart, SubchartNeedsOwner, IsRunning
  <2>2. ChartOf[o] \notin SubchartsOf({o})
    BY <1>5, OwnersChartStays, ChartOfType DEF ChartNodes
  <2> QED BY <1>1, <2>1, <2>2
<1>7. OwnerNode[level[index].chart] = o
  BY <1>4
<1> HIDE DEF S, queued, home, o
<1>8. \A m \in Node : ChartOf[m] \in running' \/ m \in S \/ ChartOf[m] \notin running
  BY <1>1, <1>2 DEF ChartNodes
<1>9. \A m \in Node : StopKept(m)
  <2>1. ASSUME NEW m \in Node \ {o} PROVE node'[m] = StoppedNodes(node, S)[m]
    BY <1>1 DEF StoppedNodes
  <2>2. ASSUME NEW m \in Node, m \in S PROVE StoppedNodes(node, S)[m].result = "rSTOP"
    <3>1. node[m] \in NodeState
      BY <1>3
    <3> QED BY <2>2, <3>1 DEF StoppedNodes, NodeState
  <2>3. ASSUME NEW m \in Node, m \notin S PROVE StoppedNodes(node, S)[m] = node[m]
    BY <2>3 DEF StoppedNodes
  <2>4. ASSUME NEW m \in Node
        PROVE  \/ ChartOf[m] \in running' \/ node'[m].result = "rSTOP"
               \/ ChartOf[m] \notin running /\ node'[m].result = node[m].result
    BY <1>6, <1>8, <2>1, <2>2, <2>3
  <2> QED BY <2>4, ResultsKept
<1>10. ASSUME Goto("returned"), ContainersAgree', \A k \in Level : TopKept(k) /\ HandlingKept(k),
              \A m \in Node : m = o \/ container'[m] = (IF m \in S THEN 0 ELSE container[m])
       PROVE  HomeInvariant'
  <2>1. StoppedNodesAreOut'
    BY <1>6, <1>8, <1>10, HomeParts DEF StoppedNodesAreOut, IsRunning
  <2> QED BY <1>1, <1>9, <1>10, <2>1, GotoHome DEF At, Pcs, HomesKept
<1>11. CASE CalledBelow(o) /\ UnlinkAndPush(S, o, index - 1, FALSE) /\ Goto("returned")
  <2> SUFFICES ASSUME NEW k \in Level, k = index - 1 PROVE HomeInvariant'
    BY <1>3, LevelFacts
  <2>1. k < index /\ k + 1 = index /\ k \in Int /\ index \in Int
    BY <1>3, LevelFacts
  <2>2. k # 0 /\ k \in 1..index /\ level[k].current = o
    <3>1. level[k].current = o
      BY <1>11 DEF CalledBelow
    <3>2. k # 0
      BY <1>3, <1>5, <3>1, ChartOfType DEF QuietInvariant, LevelsNest
    <3> QED BY <2>1, <3>1, <3>2, LevelFacts
  <2>3. /\ ContainersAgree'
        /\ \A j \in Level : HandlingKept(j)
        /\ \A j \in Level \ {k} : TopKept(j)
        /\ \A m \in Node : container'[m] = IF m = o THEN k ELSE IF m \in S THEN 0 ELSE container[m]
        /\ Last(stack'[k]) = o
    <3>1. ListsTyped /\ ContainersAgree /\ o \in Node /\ k \in Level \ {0} /\ UnlinkAndPush(S, o, k, FALSE)
      BY <1>3, <1>5, <1>11, <2>2
    <3>2. /\ ContainersAgree'
          /\ \A j \in Level : HandlingKept(j)
          /\ \A j \in Level \ {k} : TopKept(j)
          /\ PutOnTop(S, o, k)
      BY <3>1, ContinueHome
    <3> QED BY <3>2 DEF PutOnTop
  <2>4. StoppedNodesAreOut'
    BY <1>6, <1>8, <2>3, HomeParts DEF StoppedNodesAreOut, IsRunning
  <2>5. /\ Home(index)' /\ index' = index /\ \A j \in Level \ {index} : level'[j] = level[j]
        /\ level'[index].chart = level[index].chart
    <3>1. TopKept(index) /\ HandlingKept(index) /\ Home(index)
      BY <1>3, <2>1, <2>3
    <3> QED BY <1>1, <1>3, <1>9, <1>11, <3>1, GotoTop DEF At, Pcs
  <2>6. Home(k)'
    <3>1. level'[k] = level[k] /\ level'[k + 1].chart = level[k + 1].chart
      BY <2>1, <2>5
    <3>2. ~Done(k)
      BY <1>3, <1>5, <1>7, <2>1, <2>2, CallerGoesOn
    <3>3. Tidy(k)'
      BY <1>3, <2>1, <2>2, <2>3, <2>5, <3>1, <3>2 DEF Home, Tidy, Done, HandlingKept
    <3>4. CurrentOnTop(k)'
      BY <1>6, <2>2, <2>3, <3>1 DEF CurrentOnTop, IsRunning
    <3>5. ReturnsOwnChart(k)'
      BY <1>3, <2>2, <2>5, <3>1 DEF Home, ReturnsOwnChart
    <3> QED BY <3>3, <3>4, <3>5 DEF Home
  <2>7. ASSUME NEW j \in Level \ {index, k} PROVE Home(j)'
    <3>1. level'[j] = level[j] /\ index' = index
      BY <2>5
    <3>2. j < index => level'[j + 1].chart = level[j + 1].chart
      <4>1. j < index => j + 1 \in Level
        BY <1>3, LevelFacts DEF Level
      <4> QED BY <2>5, <4>1
    <3> QED BY <1>3, <1>9, <2>3, <3>1, <3>2, LevelStaysHome
  <2> QED BY <2>3, <2>4, <2>5, <2>6, <2>7, HomePartsNext
<1>12. CASE queued /\ UnlinkAndWait(S, o, home) /\ Goto("returned")
  <2>1. /\ ContainersAgree'
        /\ \A k \in Level : TopKept(k) /\ HandlingKept(k)
        /\ \A m \in Node : container'[m] = IF m = o THEN EventList ELSE IF m \in S THEN 0 ELSE container[m]
    BY <1>3, <1>5, <1>12, WaitHome
  <2> QED BY <1>10, <1>12, <2>1
<1>13. CASE /\ ~CalledBelow(o) /\ ~StackFull
            /\ UnlinkAndPush(S, o, index + 1, TRUE) /\ CallFlow(o, "returned")
  <2>1. "returned" \in CallerPcs /\ At("return")
    BY <1>1 DEF CallerPcs
  <2> QED BY <1>5, <1>6, <1>7, <1>8, <1>9, <1>13, <2>1, FlowCalledHome DEF At
<1>14. CASE Unlink(S) /\ Goto("returned")
  <2>1. /\ ContainersAgree'
        /\ \A k \in Level : TopKept(k) /\ HandlingKept(k)
        /\ \A m \in Node : container'[m] = IF m \in S THEN 0 ELSE container[m]
    BY <1>3, <1>14, UnlinkHome
  <2> QED BY <1>10, <1>14, <2>1
<1> QED BY <1>1, <1>11, <1>12, <1>13, <1>14

-----------------------------------------------------------------------------
(* The theorems about lists.                                               *)

LEMMA HomeBeginning ==
  ASSUME Init
  PROVE  HomeInvariant
<1>1. /\ QuietInvariant /\ index = 0
      /\ \A k \in Level : level[k] = FreshLevel /\ stack[k] = <<>> /\ handling[k] = <<>>
      /\ \A w \in Wait : waiting[w] = <<>>
      /\ \A n \in Node : container[n] = 0
  BY Beginning DEF Init
<1>2. Elements(<<>>) = {} /\ NoRepeats(<<>>)
  BY DEF Elements, NoRepeats
<1>3. ContainersAgree
  BY <1>1, <1>2, LevelFacts DEF ContainersAgree, Holds, EventList
<1>4. ASSUME NEW k \in Level PROVE Home(k)
  <2>1. k \notin 1..index
    BY <1>1
  <2> QED BY <1>1, <2>1 DEF Home, Tidy, Done, FreshLevel
<1> QED BY <1>1, <1>3, <1>4, HomeParts DEF StoppedNodesAreOut

LEMMA HomeStuttering ==
  ASSUME HomeInvariant, QuietInvariant', UNCHANGED vars
  PROVE  HomeInvariant'
BY NothingMoves DEF vars, charts

\* Every step keeps the invariant.
LEMMA EveryHomeStep ==
  ASSUME HomeInvariant, [Next]_vars
  PROVE  HomeInvariant'
<1>1. QuietInvariant'
  BY HomeParts, EveryStep
<1>2. CASE Game
  <2>1. MayStop \subseteq Chart /\ MayStopAll \subseteq Agent /\ Raised \subseteq Wait /\ Triggers \subseteq Wait
    BY ConstantsAssumption
  <2> QED BY <1>1, <1>2, <2>1, StartHome, StopHome, StopObjectHome, RaiseHome, TriggerHome, BeginStepHome
         DEF Game
<1>3. CASE Timers
  BY <1>1, <1>3, FireNodeTimerHome, FireAgentTimerHome DEF Timers
<1>4. CASE Events
  BY <1>1, <1>4, SwitchQueuesHome, HandleEventHome, EndStepHome, DispatchNodeHome, DispatchEndHome
     DEF Events
<1>5. CASE Executor
  BY <1>1, <1>5, LoopExitHome, TruncateHome, SkipRunningHome, WaitTickHome, RunNodeHome, CallEndHome,
     AfterRunHome, RestoreHome, FlowEndHome DEF Executor
<1>6. CASE Returning
  BY <1>1, <1>6, ReturnToOwnerHome, ReturnOfRootHome, ReturnStopHome DEF Returning
<1>7. CASE Calling
  BY <1>1, <1>7, CallFuncHome, CallWaitHome, CallWaitEventHome, CallSubchartHome, CallReturnHome,
     CallTriggerHome, CallRaiseHome, CallStopHome, CallWaitAllHome DEF Calling
<1>8. CASE UNCHANGED vars
  BY <1>1, <1>8, HomeStuttering
<1> QED BY <1>2, <1>3, <1>4, <1>5, <1>6, <1>7, <1>8 DEF Next, Runtime

\* The invariant of the lists holds in every state the runtime reaches.
THEOREM HomeInvariantHolds == Spec => []HomeInvariant
<1>1. Init => HomeInvariant
  BY HomeBeginning
<1>2. HomeInvariant /\ [Next]_vars => HomeInvariant'
  BY EveryHomeStep
<1> QED BY <1>1, <1>2, PTL DEF Spec

\* A node is in the list its container pointer says it is in, once, and in no other,
\* whatever events, flows, returns and stops have moved it: so the removal that every
\* Push begins with finds it (executor.cpp:17, custom_struct.cpp:64).
THEOREM NodesHaveOneHome == Spec => []ContainersAgree
<1>1. HomeInvariant => ContainersAgree
  BY DEF HomeInvariant
<1> QED BY <1>1, HomeInvariantHolds, PTL

\* What an executor pops after a run is the node it has run, although the function may
\* have run flows that put nodes on the same stack (executor.cpp:111-112).
THEOREM PopsTheNodeItRan == Spec => []PopsWhatItRan
<1>1. HomeInvariant => PopsWhatItRan
  <2> SUFFICES ASSUME HomeInvariant, NEW k \in Level \ {0}, level[k].pc = "ran",
                      container[level[k].current] = k
               PROVE  Last(stack[k]) = level[k].current
    BY DEF PopsWhatItRan
  <2>1. index \in Level /\ QuietInvariant
    BY HomeParts, AtTop
  <2>2. k \in 1..index
    <3>1. ~(k > index)
      BY <2>1 DEF QuietInvariant, LevelsNest, FreshLevel
    <3> QED BY <2>1, <3>1, LevelFacts
  <2> QED BY <2>2 DEF HomeInvariant, CurrentOnTop, InCall
<1> QED BY <1>1, HomeInvariantHolds, PTL

-----------------------------------------------------------------------------
(* Nested dispatches.                                                      *)

\* Dispatches nest: each remembers the event of the next one below it.
EventsNest ==
  /\ \A k \in Level : level[k].event # NoEvent <=> level[k].pc = "dispatch"
  /\ \A k, j \in Level :
       /\ j < k /\ level[k].event # NoEvent /\ level[j].event # NoEvent
       /\ \A i \in Level : j < i /\ i < k => level[i].event = NoEvent
       => level[k].prevEvent = level[j].event

EventsInvariant == QuietInvariant /\ EventsNest /\ CurrentEventIsInnermost

DispatchesStay ==
  /\ currentEvent' = currentEvent
  /\ \A k \in Level :
       /\ level'[k].pc = "dispatch" <=> level[k].pc = "dispatch"
       /\ level'[k].event = level[k].event
       /\ level[k].event # NoEvent => level'[k].prevEvent = level[k].prevEvent

LEMMA EventsParts ==
  ASSUME EventsInvariant
  PROVE  /\ QuietInvariant /\ level \in [Level -> LevelState] /\ index \in Level
         /\ \A k \in Level : k > index => level[k] = FreshLevel
         /\ \A k \in Level : level[k].event # NoEvent <=> level[k].pc = "dispatch"
BY DEF EventsInvariant, EventsNest, QuietInvariant, TypeOK, LevelsTyped, LevelsNest

\* A step that begins no dispatch and ends none.
LEMMA SameDispatches ==
  ASSUME EventsInvariant, QuietInvariant', DispatchesStay
  PROVE  EventsInvariant'
<1>1. EventsNest'
  <2>1. ASSUME NEW k \in Level
        PROVE  level'[k].event # NoEvent <=> level'[k].pc = "dispatch"
    BY EventsParts DEF DispatchesStay
  <2>2. ASSUME NEW k \in Level, NEW j \in Level, j < k,
               level'[k].event # NoEvent, level'[j].event # NoEvent,
               \A i \in Level : j < i /\ i < k => level'[i].event = NoEvent
        PROVE  level'[k].prevEvent = level'[j].event
    <3>1. \A i \in Level : level'[i].event = level[i].event
      BY DEF DispatchesStay
    <3>2. level[k].prevEvent = level[j].event
      BY <2>2, <3>1 DEF EventsInvariant, EventsNest
    <3> QED BY <2>2, <3>1, <3>2 DEF DispatchesStay
  <2> QED BY <2>1, <2>2 DEF EventsNest
<1>2. CurrentEventIsInnermost'
  BY DEF DispatchesStay, EventsInvariant, CurrentEventIsInnermost
<1> QED BY <1>1, <1>2 DEF EventsInvariant

\* The level that index is goes on outside dispatches.
LEMMA TopGoesOnOutside ==
  ASSUME EventsInvariant, NEW x, level' = [level EXCEPT ![index] = x],
         x.pc = "dispatch" <=> At("dispatch"),
         x.event = level[index].event, x.prevEvent = level[index].prevEvent,
         currentEvent' = currentEvent
  PROVE  DispatchesStay
BY EventsParts DEF DispatchesStay, At

LEMMA GotoKeepsDispatches ==
  ASSUME EventsInvariant, NEW p, Goto(p), p = "dispatch" <=> At("dispatch"),
         currentEvent' = currentEvent
  PROVE  DispatchesStay
<1>1. level' = [level EXCEPT ![index] = [@ EXCEPT !.pc = p]] /\ level[index] \in LevelState
  BY EventsParts DEF Goto
<1> DEFINE x == [level[index] EXCEPT !.pc = p]
<1>2. x.pc = p /\ x.event = level[index].event /\ x.prevEvent = level[index].prevEvent
  BY <1>1 DEF LevelState
<1> QED BY <1>1, <1>2, TopGoesOnOutside

LEMMA CallKeepsDispatches ==
  ASSUME EventsInvariant, QuietInvariant', NEW n, NEW p, CallFlow(n, p),
         p = "dispatch" <=> At("dispatch"), currentEvent' = currentEvent
  PROVE  DispatchesStay
<1>1. index \in Level /\ index + 1 \in Level /\ index + 1 # index
  BY EventsParts, LevelFacts DEF QuietInvariant, TypeOK, LevelsTyped, CallFlow
<1>2. level[index + 1] = FreshLevel /\ level \in [Level -> LevelState]
  BY EventsParts, <1>1, LevelFacts
<1>3. /\ level'[index] = [level[index] EXCEPT !.pc = p]
      /\ level'[index + 1] = [FreshLevel EXCEPT !.pc = "loop", !.chart = ChartOf[n]]
      /\ \A k \in Level \ {index, index + 1} : level'[k] = level[k]
  BY <1>1, <1>2 DEF CallFlow
<1>4. /\ level'[index].pc = p /\ level'[index].event = level[index].event
      /\ level'[index].prevEvent = level[index].prevEvent
  BY <1>1, <1>2, <1>3 DEF LevelState
<1>5. level'[index + 1].pc # "dispatch" /\ level'[index + 1].event = NoEvent
  BY <1>3 DEF FreshLevel
<1>6. level[index + 1].pc # "dispatch" /\ level[index + 1].event = NoEvent
  BY <1>2 DEF FreshLevel
<1> QED BY <1>3, <1>4, <1>5, <1>6 DEF DispatchesStay, At

\* A dispatch begins: it remembers the current event, which is that of the innermost
\* of those under way.
LEMMA DispatchBegins ==
  ASSUME EventsInvariant, QuietInvariant', NEW ev \in Wait, NEW after, NEW p,
         StartDispatch(ev, after, p), ~At("dispatch"), index = 0 \/ after = currentEvent
  PROVE  EventsInvariant'
<1>1. /\ index \in Level /\ level \in [Level -> LevelState] /\ index \in Int
      /\ level'[index] = [level[index] EXCEPT !.pc = "dispatch", !.caller = p,
                                              !.event = ev, !.prevEvent = after]
      /\ \A k \in Level \ {index} : level'[k] = level[k]
      /\ currentEvent' = ev
  BY EventsParts, LevelFacts DEF StartDispatch
<1>2. level'[index].pc = "dispatch" /\ level'[index].event = ev /\ level'[index].prevEvent = after
  BY <1>1 DEF LevelState
<1>3. ev # NoEvent
  BY ConstantsAssumption DEF Wait, NoEvent
<1>4. \A k \in Level : k > index => level[k].event = NoEvent
  BY EventsParts DEF FreshLevel
<1>5. level[index].event = NoEvent
  BY EventsParts, <1>1 DEF At
<1>6. EventsNest'
  <2>1. ASSUME NEW k \in Level
        PROVE  level'[k].event # NoEvent <=> level'[k].pc = "dispatch"
    BY <1>1, <1>2, <1>3, EventsParts
  <2>2. ASSUME NEW k \in Level, NEW j \in Level, j < k,
               level'[k].event # NoEvent, level'[j].event # NoEvent,
               \A i \in Level : j < i /\ i < k => level'[i].event = NoEvent
        PROVE  level'[k].prevEvent = level'[j].event
    <3>1. j \in Int /\ k \in Int
      BY LevelFacts
    <3>2. CASE k = index
      <4>1. index # 0 /\ j # index
        BY <2>2, <3>1, <3>2, LevelFacts
      <4>2. \A i \in Level : i > j => level[i].event = NoEvent
        <5> SUFFICES ASSUME NEW i \in Level, i > j PROVE level[i].event = NoEvent
          OBVIOUS
        <5>1. CASE i < index
          BY <1>1, <2>2, <3>2, <5>1, LevelFacts
        <5>2. CASE i = index
          BY <1>5, <5>2
        <5>3. CASE i > index
          BY <1>4, <5>3
        <5> QED BY <1>1, <5>1, <5>2, <5>3, LevelFacts
      <4>3. currentEvent = level[j].event
        BY <1>1, <2>2, <4>1, <4>2 DEF EventsInvariant, CurrentEventIsInnermost
      <4> QED BY <1>1, <1>2, <3>2, <4>1, <4>3
    <3>3. CASE k # index
      <4>1. k < index
        BY <1>1, <1>4, <2>2, <3>1, <3>3
      <4>2. \A i \in Level : i <= k => level'[i] = level[i]
        BY <1>1, <4>1, <3>1, LevelFacts
      <4>3. \A i \in Level : j < i /\ i < k => level[i].event = NoEvent
        BY <2>2, <4>2, <3>1, LevelFacts
      <4>4. level'[k] = level[k] /\ level'[j] = level[j]
        BY <2>2, <4>2, <3>1
      <4> QED BY <2>2, <4>3, <4>4 DEF EventsInvariant, EventsNest
    <3> QED BY <3>2, <3>3
  <2> QED BY <2>1, <2>2 DEF EventsNest
<1>7. CurrentEventIsInnermost'
  <2> SUFFICES ASSUME NEW k \in Level, level'[k].event # NoEvent,
                      \A j \in Level : j > k => level'[j].event = NoEvent
               PROVE  currentEvent' = level'[k].event
    BY DEF CurrentEventIsInnermost
  <2>1. k = index
    <3>1. ~(index > k)
      BY <1>1, <1>2, <1>3
    <3>2. ~(k > index)
      BY <1>1, <1>4
    <3> QED BY <1>1, <3>1, <3>2, LevelFacts
  <2> QED BY <1>1, <1>2, <2>1
<1> QED BY <1>6, <1>7 DEF EventsInvariant

\* A dispatch ends: the next one below is the innermost again, and its event current.
LEMMA DispatchEndEvents ==
  ASSUME EventsInvariant, QuietInvariant', DispatchEnd
  PROVE  EventsInvariant'
<1>1. /\ index \in Level /\ level \in [Level -> LevelState] /\ level[index] \in LevelState /\ index \in Int
      /\ level[index].pc = "dispatch"
      /\ level'[index] = [level[index] EXCEPT !.pc = level[index].caller, !.caller = "idle",
                                              !.event = NoEvent, !.prevEvent = NoEvent]
      /\ \A k \in Level \ {index} : level'[k] = level[k]
      /\ currentEvent' = level[index].prevEvent
  BY EventsParts, LevelFacts DEF DispatchEnd, At
<1>2. level'[index].pc # "dispatch" /\ level'[index].event = NoEvent
  BY <1>1 DEF LevelState
<1>3. \A k \in Level : k > index => level[k].event = NoEvent
  BY EventsParts DEF FreshLevel
<1>4. level[index].event # NoEvent
  BY <1>1, EventsParts
<1>5. EventsNest'
  <2>1. ASSUME NEW k \in Level
        PROVE  level'[k].event # NoEvent <=> level'[k].pc = "dispatch"
    BY <1>1, <1>2, EventsParts
  <2>2. ASSUME NEW k \in Level, NEW j \in Level, j < k,
               level'[k].event # NoEvent, level'[j].event # NoEvent,
               \A i \in Level : j < i /\ i < k => level'[i].event = NoEvent
        PROVE  level'[k].prevEvent = level'[j].event
    <3>1. j \in Int /\ k \in Int
      BY LevelFacts
    <3>2. k # index /\ j # index
      BY <1>2, <2>2
    <3>3. k < index
      BY <1>1, <1>3, <2>2, <3>1, <3>2
    <3>4. \A i \in Level : i <= k => level'[i] = level[i]
      BY <1>1, <3>3, <3>1, LevelFacts
    <3>5. \A i \in Level : j < i /\ i < k => level[i].event = NoEvent
      BY <2>2, <3>4, <3>1, LevelFacts
    <3>6. level'[k] = level[k] /\ level'[j] = level[j]
      BY <2>2, <3>4, <3>1
    <3> QED BY <2>2, <3>5, <3>6 DEF EventsInvariant, EventsNest
  <2> QED BY <2>1, <2>2 DEF EventsNest
<1>6. CurrentEventIsInnermost'
  <2> SUFFICES ASSUME NEW k \in Level, level'[k].event # NoEvent,
                      \A j \in Level : j > k => level'[j].event = NoEvent
               PROVE  currentEvent' = level'[k].event
    BY DEF CurrentEventIsInnermost
  <2>1. k \in Int /\ k # index
    BY <1>2, LevelFacts
  <2>2. k < index /\ level'[k] = level[k]
    BY <1>1, <1>3, <2>1
  <2>3. \A i \in Level : k < i /\ i < index => level[i].event = NoEvent
    BY <1>1, LevelFacts
  <2> QED BY <1>1, <1>4, <2>2, <2>3 DEF EventsInvariant, EventsNest
<1> QED BY <1>5, <1>6 DEF EventsInvariant

\* Starting a chart only begins a flow, if anything.
LEMMA StartChartEvents ==
  ASSUME EventsInvariant, QuietInvariant', NEW c, NEW sync, NEW nodes, NEW p, p # "dispatch",
         StartChart(c, sync, nodes, p), ~At("dispatch"), currentEvent' = currentEvent
  PROVE  EventsInvariant'
<1>1. Goto(p) \/ CallFlow(StartNode[c], p)
  BY DEF StartChart
<1> QED BY <1>1, GotoKeepsDispatches, CallKeepsDispatches, SameDispatches

LEMMA EventTriggeredEvents ==
  ASSUME EventsInvariant, QuietInvariant', NEW ev \in Wait, NEW p, p # "dispatch",
         TriggerEvent(ev, p), ~At("dispatch")
  PROVE  EventsInvariant'
<1>1. \/ Goto(p) /\ currentEvent' = currentEvent
      \/ StartDispatch(ev, currentEvent, p)
  BY DEF TriggerEvent, events
<1> QED BY <1>1, GotoKeepsDispatches, SameDispatches, DispatchBegins

LEMMA GameEvents ==
  ASSUME EventsInvariant, QuietInvariant', Game
  PROVE  EventsInvariant'
<1>1. ASSUME NEW p, p # "dispatch", At(p) PROVE ~At("dispatch")
  BY <1>1 DEF At
<1>2. ASSUME NEW c \in Chart, Start(c) PROVE EventsInvariant'
  <2>1. ~At("dispatch") /\ currentEvent' = currentEvent /\ StartChart(c, ~DeferEvent, node, "idle")
    BY <1>2, <1>1 DEF Start, CallsIn, AtRest, events
  <2> QED BY <2>1, StartChartEvents
<1>3. ASSUME NEW c \in MayStop, Stop(c) PROVE EventsInvariant'
  <2>1. level' = level /\ currentEvent' = currentEvent
    BY <1>3 DEF Stop, events
  <2> QED BY <2>1, SameDispatches DEF DispatchesStay
<1>7. ASSUME NEW a \in MayStopAll, StopObject(a) PROVE EventsInvariant'
  <2>1. level' = level /\ currentEvent' = currentEvent
    BY <1>7 DEF StopObject, events
  <2> QED BY <2>1, SameDispatches DEF DispatchesStay
<1>4. ASSUME NEW w \in Raised, Raise(w) PROVE EventsInvariant'
  <2>1. level' = level /\ currentEvent' = currentEvent
    BY <1>4 DEF Raise, events
  <2> QED BY <2>1, SameDispatches DEF DispatchesStay
<1>5. ASSUME NEW w \in Triggers, Trigger(w) PROVE EventsInvariant'
  <2>1. w \in Wait /\ ~At("dispatch") /\ TriggerEvent(w, "idle")
    BY <1>5, <1>1, ConstantsAssumption DEF Trigger, CallsIn, AtRest
  <2> QED BY <2>1, EventTriggeredEvents
<1>6. ASSUME NEW due \in SUBSET Armed, BeginStep(due) PROVE EventsInvariant'
  <2>1. ~At("dispatch") /\ currentEvent' = currentEvent /\ Goto("timers")
    BY <1>6, <1>1 DEF BeginStep, AtRest, events
  <2> QED BY <2>1, GotoKeepsDispatches, SameDispatches
<1> QED BY <1>2, <1>3, <1>4, <1>5, <1>6, <1>7 DEF Game

LEMMA TimerEvents ==
  ASSUME EventsInvariant, QuietInvariant', Timers
  PROVE  EventsInvariant'
<1>1. ASSUME NEW n \in Node, FireNodeTimer(n) PROVE EventsInvariant'
  <2>1. ~At("dispatch") /\ currentEvent' = currentEvent
    BY <1>1 DEF FireNodeTimer, At, events
  <2>2. CallFlow(n, "timers") \/ Goto("timers")
    BY <1>1 DEF FireNodeTimer
  <2> QED BY <2>1, <2>2, GotoKeepsDispatches, CallKeepsDispatches, SameDispatches
<1>2. ASSUME NEW a \in Agent, FireAgentTimer(a) PROVE EventsInvariant'
  <2>1. level' = level /\ currentEvent' = currentEvent
    BY <1>2 DEF FireAgentTimer, events
  <2> QED BY <2>1, SameDispatches DEF DispatchesStay
<1> QED BY <1>1, <1>2 DEF Timers

LEMMA DispatcherEvents ==
  ASSUME EventsInvariant, QuietInvariant', Events
  PROVE  EventsInvariant'
<1>1. CASE SwitchQueues \/ EndStep
  <2>1. ~At("dispatch") /\ currentEvent' = currentEvent /\ (Goto("events") \/ Goto("idle"))
    BY <1>1 DEF SwitchQueues, EndStep, At, events
  <2> QED BY <2>1, GotoKeepsDispatches, SameDispatches
<1>2. CASE HandleEvent
  <2> DEFINE ev == Head(outQueue)
  <2>1. index = 0 /\ ~At("dispatch") /\ ev \in Wait
    <3>1. outQueue \in Seq(Wait) /\ outQueue # <<>>
      BY <1>2, EventsParts DEF HandleEvent, QuietInvariant, TypeOK, QueuesTyped
    <3> QED BY <1>2, <3>1 DEF HandleEvent, At
  <2>2. (level' = level /\ currentEvent' = currentEvent) \/ StartDispatch(ev, NoEvent, "events")
    BY <1>2 DEF HandleEvent
  <2> HIDE DEF ev
  <2>3. CASE level' = level /\ currentEvent' = currentEvent
    BY <2>3, SameDispatches DEF DispatchesStay
  <2> QED BY <2>1, <2>2, <2>3, DispatchBegins
<1>3. CASE DispatchNode
  <2>1. At("dispatch") /\ currentEvent' = currentEvent
    BY <1>3 DEF DispatchNode, events
  <2>2. Goto("dispatch") \/ CallFlow(Head(handling[index]), "dispatch")
    BY <1>3 DEF DispatchNode
  <2> QED BY <2>1, <2>2, GotoKeepsDispatches, CallKeepsDispatches, SameDispatches
<1> QED BY <1>1, <1>2, <1>3, DispatchEndEvents DEF Events

LEMMA RunNodeEvents ==
  ASSUME EventsInvariant, RunNode
  PROVE  DispatchesStay
<1> DEFINE l == level[index]
<1>1. l \in LevelState /\ level \in [Level -> LevelState]
  BY EventsParts
<1> HIDE DEF l
<1>2. PICK n \in Node :
        /\ Visit(n)
        /\ level' = [level EXCEPT ![index].count = @ + 1, ![index].current = n,
                                  ![index].pc = IF node[n].skip THEN "ran" ELSE "call"]
  BY DEF RunNode
<1>3. currentEvent' = currentEvent
  BY DEF RunNode, events
<1> DEFINE x == [l EXCEPT !.count = @ + 1, !.current = n,
                          !.pc = IF node[n].skip THEN "ran" ELSE "call"]
<1>4. level' = [level EXCEPT ![index] = x]
  BY <1>1, <1>2 DEF l
<1>5. x.event = l.event /\ x.prevEvent = l.prevEvent /\ x.pc # "dispatch"
  BY <1>1 DEF LevelState
<1>6. ~At("dispatch")
  BY <1>2 DEF Visit, InLoop, At
<1> HIDE DEF x
<1> QED BY <1>4, <1>5, <1>6, <1>3, TopGoesOnOutside DEF l

LEMMA AfterRunEvents ==
  ASSUME EventsInvariant, AfterRun
  PROVE  DispatchesStay
<1> DEFINE l == level[index]
<1>1. l \in LevelState /\ level \in [Level -> LevelState]
  BY EventsParts
<1> HIDE DEF l
<1> DEFINE P == IF container[level[index].current] = index THEN {Top} ELSE {}
           runs == Status(level[index].current) = "Running"
           x == [l EXCEPT !.pc = "loop", !.history = @ \cup P, !.hasRunning = @ \/ runs]
<1>2. At("ran") /\ UNCHANGED events
  BY DEF AfterRun
<1>3. level' = [level EXCEPT ![index].pc = "loop", ![index].history = @ \cup P,
                          ![index].hasRunning = @ \/ runs]
  BY DEF AfterRun
<1> HIDE DEF P, runs
<1>4. level' = [level EXCEPT ![index] = x]
  BY <1>1, <1>3 DEF l
<1>5. x.event = l.event /\ x.prevEvent = l.prevEvent /\ x.pc = "loop"
  BY <1>1 DEF LevelState
<1>6. ~At("dispatch") /\ currentEvent' = currentEvent
  BY <1>2 DEF At, events
<1> HIDE DEF x
<1> QED BY <1>4, <1>5, <1>6, TopGoesOnOutside DEF l

LEMMA RestoreEvents ==
  ASSUME EventsInvariant, Restore
  PROVE  DispatchesStay
<1> DEFINE l == level[index]
<1>1. l \in LevelState /\ level \in [Level -> LevelState]
  BY EventsParts
<1> HIDE DEF l
<1> DEFINE c == level[index].chart
           ended == {n \in level[index].history : Status(n) = "EndRun"}
           f == /\ ~level[index].hasRunning
                /\ ~CheckRunning(c, WithSubcharts(ended))
                /\ IsRunning(c)
           x == [l EXCEPT !.history = {}, !.pc = IF f THEN "return" ELSE "end",
                          !.returning = IF f THEN c ELSE None,
                          !.caller = IF f THEN "end" ELSE "idle"]
<1>2. At("restore") /\ UNCHANGED events
  BY DEF Restore
<1>3. level' = [level EXCEPT ![index].history = {},
                          ![index].pc = IF f THEN "return" ELSE "end",
                          ![index].returning = IF f THEN c ELSE None,
                          ![index].caller = IF f THEN "end" ELSE "idle"]
  BY DEF Restore
<1> HIDE DEF f, c
<1>4. level' = [level EXCEPT ![index] = x]
  BY <1>1, <1>3 DEF l
<1>5. x.event = l.event /\ x.prevEvent = l.prevEvent /\ x.pc # "dispatch"
  BY <1>1 DEF LevelState
<1>6. ~At("dispatch") /\ currentEvent' = currentEvent
  BY <1>2 DEF At, events
<1> HIDE DEF x
<1> QED BY <1>4, <1>5, <1>6, TopGoesOnOutside DEF l

LEMMA CallReturnEvents ==
  ASSUME EventsInvariant, CallReturn
  PROVE  DispatchesStay
<1>1. PICK n \in Node :
        /\ Calls(n, "ret")
        /\ level' = IF IsRunning(ChartOf[n])
              THEN [level EXCEPT ![index].pc = "return", ![index].returning = ChartOf[n],
                                 ![index].caller = "callEnd"]
              ELSE [level EXCEPT ![index].pc = "callEnd"]
  BY DEF CallReturn
<1> DEFINE z == IF IsRunning(ChartOf[n])
                THEN [level[index] EXCEPT !.pc = "return", !.returning = ChartOf[n],
                                          !.caller = "callEnd"]
                ELSE [level[index] EXCEPT !.pc = "callEnd"]
<1>2. level' = [level EXCEPT ![index] = z] /\ ~At("dispatch")
  BY <1>1, EventsParts DEF Calls, At
<1>3. /\ z.event = level[index].event /\ z.prevEvent = level[index].prevEvent
      /\ z.pc # "dispatch"
  <2>1. level[index] \in LevelState
    BY EventsParts
  <2> QED BY <2>1 DEF LevelState
<1>4. currentEvent' = currentEvent
  BY DEF CallReturn, events
<1> HIDE DEF z
<1> QED BY <1>2, <1>3, <1>4, TopGoesOnOutside

LEMMA ReturnToOwnerEvents ==
  ASSUME NEW r, ReturnToOwner(r)
  PROVE  /\ At("return") /\ currentEvent' = currentEvent
         /\ Goto("returned") \/ CallFlow(OwnerNode[level[index].returning], "returned")
<1>1. At("return") /\ UNCHANGED events
  BY DEF ReturnToOwner
<1> DEFINE o == OwnerNode[level[index].returning]
           S == WithSubcharts({o})
           home == <<AgentOf[ChartOf[o]], START>>
           queued == ~CalledBelow(o) /\ StackFull
<1>2. \/ CalledBelow(o) /\ UnlinkAndPush(S, o, index - 1, FALSE) /\ Goto("returned")
      \/ queued /\ UnlinkAndWait(S, o, home) /\ Goto("returned")
      \/ /\ ~CalledBelow(o) /\ ~StackFull
         /\ IF IsRunning(ChartOf[o])
            THEN UnlinkAndPush(S, o, index + 1, TRUE) /\ CallFlow(o, "returned")
            ELSE Unlink(S) /\ Goto("returned")
  BY DEF ReturnToOwner
<1> HIDE DEF o, S, home, queued
<1>3. Goto("returned") \/ CallFlow(o, "returned")
  BY <1>2
<1> QED BY <1>1, <1>3 DEF events, o

LEMMA ExecutorEvents ==
  ASSUME EventsInvariant, QuietInvariant', Executor
  PROVE  EventsInvariant'
<1> DEFINE l == level[index]
<1>1. l \in LevelState /\ index \in Level /\ level \in [Level -> LevelState]
  BY EventsParts
<1>2. ASSUME NEW x, level' = [level EXCEPT ![index] = x],
             x.event = l.event /\ x.prevEvent = l.prevEvent,
             x.pc # "dispatch", ~At("dispatch"), currentEvent' = currentEvent
      PROVE  EventsInvariant'
  BY <1>2, TopGoesOnOutside, SameDispatches
<1> HIDE DEF l
<1>3. CASE LoopExit \/ \E r \in Result : CallEnd(r)
  <2>1. ~At("dispatch") /\ currentEvent' = currentEvent /\ (Goto("restore") \/ Goto("ran"))
    BY <1>3 DEF LoopExit, CallEnd, At, events
  <2> QED BY <2>1, GotoKeepsDispatches, SameDispatches
<1>4. CASE Truncate
  <2> DEFINE x == [l EXCEPT !.pc = "restore", !.history = @ \cup Elements(stack[index])]
  <2>1. level' = [level EXCEPT ![index] = x]
    BY <1>4 DEF Truncate, l
  <2>2. x.event = l.event /\ x.prevEvent = l.prevEvent /\ x.pc = "restore"
    BY <1>1 DEF LevelState
  <2>3. ~At("dispatch") /\ currentEvent' = currentEvent
    BY <1>4 DEF Truncate, InLoop, At, events
  <2> HIDE DEF x
  <2> QED BY <1>2, <2>1, <2>2, <2>3
<1>5. CASE SkipRunning
  <2>1. PICK n \in Node :
          /\ Visit(n) /\ currentEvent' = currentEvent
          /\ level' = [level EXCEPT ![index].count = @ + 1, ![index].hasRunning = TRUE,
                                    ![index].history = @ \cup {n}]
    BY <1>5 DEF SkipRunning, events
  <2> DEFINE x == [l EXCEPT !.count = @ + 1, !.hasRunning = TRUE, !.history = @ \cup {n}]
  <2>2. level' = [level EXCEPT ![index] = x]
    BY <1>1, <2>1 DEF l
  <2>3. x.event = l.event /\ x.prevEvent = l.prevEvent /\ x.pc = l.pc
    BY <1>1 DEF LevelState
  <2>4. ~At("dispatch") /\ l.pc = "loop"
    BY <2>1 DEF Visit, InLoop, At, l
  <2> HIDE DEF x
  <2> QED BY <1>2, <2>1, <2>2, <2>3, <2>4
<1>6. CASE WaitTick
  <2>1. PICK n \in Node :
          /\ Visit(n) /\ currentEvent' = currentEvent
          /\ level' = [level EXCEPT ![index].count = @ + 1, ![index].hasRunning = TRUE]
    BY <1>6 DEF WaitTick, events
  <2> DEFINE x == [l EXCEPT !.count = @ + 1, !.hasRunning = TRUE]
  <2>2. level' = [level EXCEPT ![index] = x]
    BY <1>1, <2>1 DEF l
  <2>3. x.event = l.event /\ x.prevEvent = l.prevEvent /\ x.pc = l.pc
    BY <1>1 DEF LevelState
  <2>4. ~At("dispatch") /\ l.pc = "loop"
    BY <2>1 DEF Visit, InLoop, At, l
  <2> HIDE DEF x
  <2> QED BY <1>2, <2>1, <2>2, <2>3, <2>4
<1>7. CASE RunNode \/ AfterRun \/ Restore
  BY <1>7, RunNodeEvents, AfterRunEvents, RestoreEvents, SameDispatches
<1>8. CASE FlowEnd
  <2>1. l.pc = "end" /\ l.event = NoEvent
    BY <1>1, <1>8, EventsParts DEF FlowEnd, At, l
  <2>2. DispatchesStay
    BY <1>1, <1>8, <2>1 DEF FlowEnd, DispatchesStay, FreshLevel, events, l
  <2> QED BY <2>2, SameDispatches
<1> QED BY <1>3, <1>4, <1>5, <1>6, <1>7, <1>8 DEF Executor

LEMMA ReturningEvents ==
  ASSUME EventsInvariant, QuietInvariant', Returning
  PROVE  EventsInvariant'
<1>1. ASSUME NEW o, At("return"), currentEvent' = currentEvent,
             Goto("returned") \/ CallFlow(o, "returned")
      PROVE  EventsInvariant'
  <2>1. ~At("dispatch")
    BY <1>1 DEF At
  <2> QED BY <1>1, <2>1, GotoKeepsDispatches, CallKeepsDispatches, SameDispatches
<1>2. CASE ReturnOfRoot
  <2>1. At("return") /\ currentEvent' = currentEvent /\ Goto("returned")
    BY <1>2 DEF ReturnOfRoot, events
  <2> QED BY <1>1, <2>1
<1>3. ASSUME NEW r \in Result, ReturnToOwner(r) PROVE EventsInvariant'
  BY <1>1, <1>3, ReturnToOwnerEvents
<1>4. CASE ReturnStop
  <2> DEFINE x == [level[index] EXCEPT !.pc = level[index].caller, !.caller = "idle",
                                       !.returning = None]
  <2>1. level' = [level EXCEPT ![index] = x] /\ currentEvent' = currentEvent /\ ~At("dispatch")
    BY <1>4, EventsParts DEF ReturnStop, At, events
  <2>2. /\ x.event = level[index].event /\ x.prevEvent = level[index].prevEvent
        /\ x.pc # "dispatch"
    <3>1. level[index] \in LevelState
      BY EventsParts
    <3> QED BY <3>1 DEF LevelState
  <2> HIDE DEF x
  <2> QED BY <2>1, <2>2, TopGoesOnOutside, SameDispatches
<1> QED BY <1>4, <1>2, <1>3 DEF Returning

LEMMA CallingEvents ==
  ASSUME EventsInvariant, QuietInvariant', Calling
  PROVE  EventsInvariant'
<1>1. CASE CallFunc \/ CallWait \/ CallWaitEvent \/ CallRaise \/ CallStop \/ CallWaitAll
  <2>1. At("call") /\ currentEvent' = currentEvent /\ Goto("callEnd")
    <3>1. ASSUME CallFunc \/ CallWait \/ CallWaitEvent
          PROVE  At("call") /\ currentEvent' = currentEvent /\ Goto("callEnd")
      BY <3>1 DEF CallFunc, CallWait, CallWaitEvent, Calls, events
    <3>2. ASSUME CallRaise \/ CallWaitAll
          PROVE  At("call") /\ currentEvent' = currentEvent /\ Goto("callEnd")
      BY <3>2 DEF CallRaise, CallWaitAll, Calls, events
    <3>3. ASSUME CallStop
          PROVE  At("call") /\ currentEvent' = currentEvent /\ Goto("callEnd")
      BY <3>3 DEF CallStop, Calls, events
    <3> QED BY <1>1, <3>1, <3>2, <3>3
  <2>2. ~At("dispatch")
    BY <2>1 DEF At
  <2> QED BY <2>1, <2>2, GotoKeepsDispatches, SameDispatches
<1>2. CASE CallSubchart
  <2>1. PICK n \in Node, c \in Chart :
          /\ Calls(n, "sub") /\ currentEvent' = currentEvent
          /\ Goto("callEnd") \/ \E nodes : StartChart(c, TRUE, nodes, "callEnd")
    BY <1>2 DEF CallSubchart, events
  <2>2. ~At("dispatch")
    BY <2>1 DEF Calls, At
  <2> QED BY <2>1, <2>2, GotoKeepsDispatches, SameDispatches, StartChartEvents
<1>3. CASE CallReturn
  BY <1>3, CallReturnEvents, SameDispatches
<1>4. CASE CallTrigger
  <2>1. PICK n \in Node : Calls(n, "trigger") /\ TriggerEvent(Names[n], "callEnd")
    BY <1>4 DEF CallTrigger
  <2>2. ~At("dispatch") /\ Names[n] \in Wait
    BY <2>1, ConstantsAssumption DEF Calls, At
  <2> QED BY <2>1, <2>2, EventTriggeredEvents
<1> QED BY <1>1, <1>2, <1>3, <1>4 DEF Calling

\* While events are dispatched the manager's current event is the event of the innermost
\* dispatch: a dispatch that a node's function has triggered puts back, when it ends, the
\* event of the one that was running the node (manager.cpp:447-457).
THEOREM CurrentEventHolds == Spec => []CurrentEventIsInnermost
<1>1. Init => EventsInvariant
  <2> SUFFICES ASSUME Init PROVE EventsInvariant
    OBVIOUS
  <2>1. QuietInvariant /\ \A k \in Level : level[k] = FreshLevel
    BY Beginning DEF Init
  <2> QED BY <2>1 DEF EventsInvariant, EventsNest, CurrentEventIsInnermost, FreshLevel
<1>2. EventsInvariant /\ [Next]_vars => EventsInvariant'
  <2> SUFFICES ASSUME EventsInvariant, [Next]_vars PROVE EventsInvariant'
    OBVIOUS
  <2>1. QuietInvariant'
    BY EventsParts, EveryStep
  <2>2. CASE UNCHANGED vars
    BY <2>1, <2>2, SameDispatches DEF vars, events, DispatchesStay
  <2> QED BY <2>1, <2>2, GameEvents, TimerEvents, DispatcherEvents, ExecutorEvents,
             ReturningEvents, CallingEvents DEF Next, Runtime
<1>3. EventsInvariant => CurrentEventIsInnermost
  BY DEF EventsInvariant
<1> QED BY <1>1, <1>2, <1>3, PTL DEF Spec

-----------------------------------------------------------------------------
(* What an event list loses.                                               *)

Woken(m) ==
  container[m] = EventList /\ container'[m] # EventList
    => container'[m] # 0 \/ node'[m].result = "rSTOP" \/ FindsNoExecutor(m)

LEMMA WokenParts ==
  ASSUME HomeInvariant
  PROVE  /\ QuietInvariant /\ ContainersAgree /\ ListsTyped /\ node \in [Node -> NodeState]
         /\ index \in Level /\ level \in [Level -> LevelState] /\ EventList # 0 /\ 0 \in Level
         /\ \A k \in Level : k # EventList
BY HomeParts, LevelFacts DEF QuietInvariant, TypeOK, LevelsTyped, NodesTyped, EventList

\* Stopped nodes keep to themselves what they have been told.
LEMMA StoppedResult ==
  ASSUME NEW nodes \in [Node -> NodeState], NEW S, NEW m \in Node, m \in S
  PROVE  StoppedNodes(nodes, S)[m].result = "rSTOP"
<1>1. nodes[m] \in NodeState
  OBVIOUS
<1> QED BY <1>1 DEF StoppedNodes, NodeState

LEMMA StopWakes ==
  ASSUME NEW nodes \in [Node -> NodeState], NEW S, node' = StoppedNodes(nodes, S), Unlink(S),
         NEW m \in Node
  PROVE  Woken(m)
<1>1. m \in S => node'[m].result = "rSTOP"
  BY StoppedResult
<1>2. m \notin S => container'[m] = container[m]
  BY DEF Unlink, Contain
<1> QED BY <1>1, <1>2 DEF Woken

\* A node that is pushed or waits leaves the others where they are.
LEMMA MoveWakes ==
  ASSUME NEW n \in Node, NEW m \in Node, container \in [Node -> Level \cup {EventList}],
         (\E k \in Level \ {0} : \E clear : UnlinkAndPush({}, n, k, clear))
           \/ (\E w : UnlinkAndWait({}, n, w))
  PROVE  Woken(m)
<1>1. ASSUME NEW k \in Level \ {0}, NEW clear, UnlinkAndPush({}, n, k, clear) PROVE Woken(m)
  <2>1. container' = [Contain({}, 0) EXCEPT ![n] = k]
    BY <1>1 DEF UnlinkAndPush
  <2>2. container'[m] = IF m = n THEN k ELSE container[m]
    BY <2>1 DEF Contain
  <2> QED BY <2>2 DEF Woken
<1>2. ASSUME NEW w, UnlinkAndWait({}, n, w) PROVE Woken(m)
  <2>1. container' = [Contain({}, 0) EXCEPT ![n] = EventList]
    BY <1>2 DEF UnlinkAndWait
  <2>2. container'[m] = IF m = n THEN EventList ELSE container[m]
    BY <2>1 DEF Contain
  <2> QED BY <2>2 DEF Woken
<1> QED BY <1>1, <1>2

LEMMA StartWakes ==
  ASSUME HomeInvariant, NEW c \in Chart, NEW sync, NEW nodes, NEW p, StartChart(c, sync, nodes, p),
         NEW m \in Node
  PROVE  Woken(m)
<1>1. PICK s, w :
        /\ s \in Node
        /\ \/ ~StackFull /\ UnlinkAndPush({}, s, index + 1, TRUE)
           \/ UnlinkAndWait({}, s, w)
  <2>1. StartNode[c] \in Node
    BY ConstantsAssumption
  <2> QED BY <2>1 DEF StartChart
<1>2. ~StackFull => index + 1 \in Level \ {0}
  <2>1. index \in Level /\ index \in Int /\ index >= 0
    BY WokenParts, LevelFacts
  <2> QED BY <2>1, LevelFacts DEF StackFull
<1>3. container \in [Node -> Level \cup {EventList}]
  BY WokenParts DEF ListsTyped
<1> QED BY <1>1, <1>2, <1>3, MoveWakes

LEMMA DispatchWakes ==
  ASSUME HomeInvariant, DispatchNode, ~StackFull, NEW m \in Node
  PROVE  Woken(m)
<1>1. /\ handling[index] \in Seq(Node) /\ handling[index] # <<>> /\ index \in Level
      /\ container \in [Node -> Level \cup {EventList}]
  BY WokenParts DEF DispatchNode, ListsTyped
<1> DEFINE n == Head(handling[index])
<1>2. n \in Node /\ n \in Elements(handling[index])
  BY <1>1, TailElements
<1>3. IsRunning(ChartOf[n])
  <2>1. container[n] = EventList
    BY <1>1, <1>2, WokenParts DEF ContainersAgree, Holds
  <2> QED BY <1>2, <2>1, WokenParts DEF HomeInvariant, StoppedNodesAreOut
<1>4. UnlinkAndPush({}, n, index + 1, TRUE)
  BY <1>3 DEF DispatchNode
<1>5. index + 1 \in Level \ {0}
  BY <1>1, LevelFacts DEF StackFull
<1> HIDE DEF n
<1> QED BY <1>1, <1>2, <1>4, <1>5, MoveWakes

LEMMA AfterRunWakes ==
  ASSUME HomeInvariant, AfterRun, NEW m \in Node
  PROVE  Woken(m)
<1>1. PICK E, P :
        container'[m] = IF m \in E THEN index ELSE IF m \in InStack(P, index) THEN 0 ELSE container[m]
  BY DEF AfterRun
<1>2. m \in InStack(P, index) => container[m] # EventList
  BY WokenParts DEF InStack
<1>3. index # 0
  <2>1. index > 0
    BY DEF AfterRun
  <2> QED BY <2>1, WokenParts, LevelFacts
<1> QED BY <1>1, <1>2, <1>3 DEF Woken

\* The owner goes on a stack, or waits again: its chart runs.
LEMMA ReturnWakes ==
  ASSUME HomeInvariant, NEW r, ReturnToOwner(r), NEW m \in Node
  PROVE  Woken(m)
<1> DEFINE o == OwnerNode[level[index].returning]
           S == WithSubcharts({o})
           w == <<AgentOf[ChartOf[o]], START>>
<1>1. /\ At("return") /\ index > 0 /\ index \in Level /\ level[index].returning \notin Root
      /\ index \in Int
  BY WokenParts, LevelFacts DEF ReturnToOwner
<1>2. level[index].returning \in Chart /\ IsRunning(level[index].returning)
  <2>1. index \in 1..index
    BY <1>1
  <2> QED BY <1>1, <2>1, WokenParts DEF QuietInvariant, FlowsStayInChart, FlowOf, CallsInRunningChart, At
<1>3. o \in Node /\ IsRunning(ChartOf[o])
  BY <1>1, <1>2, WokenParts, ConstantsAssumption DEF Root, QuietInvariant, SubchartNeedsOwner, IsRunning
<1>4. \/ CalledBelow(o) /\ UnlinkAndPush(S, o, index - 1, FALSE)
      \/ UnlinkAndWait(S, o, w)
      \/ UnlinkAndPush(S, o, index + 1, TRUE)
  BY <1>3 DEF ReturnToOwner
<1>5. CalledBelow(o) => index - 1 # 0
  <2>1. level[0].current = None /\ None \notin Node
    BY WokenParts, ConstantsAssumption DEF QuietInvariant, LevelsNest
  <2> QED BY <1>3, <2>1 DEF CalledBelow
<1>6. m # o => node'[m] = StoppedNodes(node, S)[m]
  <2>1. PICK b, s : node' = [StoppedNodes(node, S) EXCEPT ![o].result = r, ![o].skip = TRUE,
                                                         ![o].runFlag = b, ![o].status = s]
    BY DEF ReturnToOwner
  <2>2. StoppedNodes(node, S) \in [Node -> NodeState]
    BY WokenParts, StoppedNodesType
  <2> QED BY <2>1, <2>2
<1>7. m # o /\ m \in S => node'[m].result = "rSTOP"
  BY <1>6, WokenParts, StoppedResult
<1> HIDE DEF o, S, w
<1>8. m # o /\ m \notin S => container'[m] = container[m]
  BY <1>4 DEF UnlinkAndPush, UnlinkAndWait, Contain
<1>9. m = o => container'[m] # 0
  <2>1. PICK k : container' = [Contain(S, 0) EXCEPT ![o] = k]
                 /\ (k = EventList \/ k = index + 1 \/ (CalledBelow(o) /\ k = index - 1))
    BY <1>4 DEF UnlinkAndPush, UnlinkAndWait
  <2>2. ASSUME m = o PROVE container'[m] = k
    <3>1. Contain(S, 0) \in [Node -> {0} \cup {container[i] : i \in Node}]
      BY DEF Contain
    <3> QED BY <2>1, <2>2, <3>1
  <2> QED BY <1>1, <1>5, <2>1, <2>2 DEF EventList
<1> QED BY <1>1, <1>7, <1>8, <1>9, WokenParts DEF Woken

LEMMA SameWakes ==
  ASSUME container' = container, NEW m \in Node
  PROVE  Woken(m)
BY DEF Woken

LEMMA EveryWakingStep ==
  ASSUME HomeInvariant, [Next]_vars, NEW m \in Node
  PROVE  Woken(m)
<1>1. /\ index \in Level /\ ListsTyped /\ node \in [Node -> NodeState]
      /\ container \in [Node -> Level \cup {EventList}] /\ QuietInvariant
      /\ \A k \in Level : k # EventList
  BY WokenParts DEF ListsTyped
<1>2. CASE UNCHANGED vars
  BY <1>2, SameWakes DEF vars, lists
<1>3. CASE Game
  <2>1. ASSUME NEW c \in Chart, Start(c) PROVE Woken(m)
    BY <2>1, StartWakes DEF Start
  <2>2. ASSUME NEW c \in MayStop, Stop(c) PROVE Woken(m)
    BY <1>1, <2>2, StopWakes DEF Stop, StopChart
  <2>6. ASSUME NEW a \in MayStopAll, StopObject(a) PROVE Woken(m)
    BY <1>1, <2>6, StopWakes DEF StopObject
  <2>3. ASSUME NEW w \in Raised, Raise(w) PROVE Woken(m)
    BY <2>3, SameWakes DEF Raise, lists
  <2>4. ASSUME NEW w \in Triggers, Trigger(w) PROVE Woken(m)
    BY <2>4, SameWakes DEF Trigger, TriggerEvent
  <2>5. ASSUME NEW due \in SUBSET Armed, BeginStep(due) PROVE Woken(m)
    BY <2>5, SameWakes DEF BeginStep, lists
  <2> QED BY <1>3, <2>1, <2>2, <2>3, <2>4, <2>5, <2>6 DEF Game
<1>4. CASE Timers
  <2>1. ASSUME NEW n \in Node, FireNodeTimer(n) PROVE Woken(m)
    <3>1. (~StackFull /\ UnlinkAndPush({}, n, 1, TRUE)) \/ container' = container
      BY <2>1 DEF FireNodeTimer, lists
    <3>2. ~StackFull => 1 \in Level \ {0}
      <4>1. index = 0
        BY <2>1 DEF FireNodeTimer
      <4>2. ~StackFull => 1 < MAX_STACK_SIZE
        BY <4>1, ConstantsAssumption DEF StackFull
      <4> QED BY <4>2, ConstantsAssumption DEF Level
    <3> QED BY <1>1, <3>1, <3>2, MoveWakes, SameWakes
  <2>2. ASSUME NEW a \in Agent, FireAgentTimer(a) PROVE Woken(m)
    BY <2>2, SameWakes DEF FireAgentTimer, lists
  <2> QED BY <1>4, <2>1, <2>2 DEF Timers
<1>5. CASE Events
  <2>1. CASE SwitchQueues \/ EndStep \/ HandleEvent \/ DispatchEnd
    BY <2>1, SameWakes DEF SwitchQueues, EndStep, HandleEvent, DispatchEnd, lists
  <2>2. CASE DispatchNode
    <3>1. CASE ~StackFull
      BY <2>2, <3>1, DispatchWakes
    <3>2. CASE StackFull
      <4>1. At("dispatch") /\ Unlink({Head(handling[index])})
        BY <2>2, <3>2 DEF DispatchNode
      <4>2. m # Head(handling[index]) => container'[m] = container[m]
        BY <4>1 DEF Unlink, Contain
      <4> QED BY <3>2, <4>1, <4>2 DEF Woken, FindsNoExecutor
    <3> QED BY <2>2, <3>1, <3>2
  <2> QED BY <1>5, <2>1, <2>2 DEF Events
<1>6. CASE Executor
  <2>1. CASE LoopExit \/ RunNode \/ (\E r \in Result : CallEnd(r)) \/ FlowEnd
    BY <2>1, SameWakes DEF LoopExit, RunNode, CallEnd, FlowEnd, lists
  <2>2. CASE Truncate \/ SkipRunning
    <3>1. PICK S : container' = Contain(InStack(S, index), 0)
      BY <2>2 DEF Truncate, SkipRunning
    <3>2. m \in InStack(S, index) => container[m] # EventList
      BY <1>1 DEF InStack
    <3> QED BY <3>1, <3>2 DEF Contain, Woken
  <2>3. CASE WaitTick
    BY <1>1, <2>3, MoveWakes DEF WaitTick
  <2>4. CASE AfterRun
    BY <2>4, AfterRunWakes
  <2>5. CASE Restore
    <3>1. PICK h, S : node' = StoppedNodes(Unflagged(h), S) /\ Unlink(S)
      BY <2>5 DEF Restore
    <3>2. Unflagged(h) \in [Node -> NodeState]
      <4>1. \A y \in NodeState : [y EXCEPT !.runFlag = FALSE] \in NodeState
        BY DEF NodeState
      <4> QED BY <1>1, <4>1 DEF Unflagged
    <3> QED BY <3>1, <3>2, StopWakes
  <2> QED BY <1>6, <2>1, <2>2, <2>3, <2>4, <2>5 DEF Executor
<1>7. CASE Returning
  <2>1. CASE ReturnOfRoot
    BY <2>1, SameWakes DEF ReturnOfRoot, lists
  <2>2. ASSUME NEW r \in Result, ReturnToOwner(r) PROVE Woken(m)
    BY <2>2, ReturnWakes
  <2>3. CASE ReturnStop
    BY <1>1, <2>3, StopWakes DEF ReturnStop, StopChart
  <2> QED BY <1>7, <2>1, <2>2, <2>3 DEF Returning
<1>8. CASE Calling
  <2>1. CASE CallFunc \/ CallWait \/ CallReturn \/ CallRaise
    BY <2>1, SameWakes DEF CallFunc, CallWait, CallReturn, CallRaise, lists
  <2>2. CASE CallTrigger \/ CallWaitAll
    BY <2>2, SameWakes DEF CallTrigger, CallWaitAll, TriggerEvent, lists
  <2>3. CASE CallWaitEvent
    BY <1>1, <2>3, MoveWakes DEF CallWaitEvent
  <2>4. CASE CallSubchart
    <3>1. PICK c \in Chart : container' = container \/ \E nodes : StartChart(c, TRUE, nodes, "callEnd")
      BY <2>4 DEF CallSubchart, lists
    <3> QED BY <3>1, StartWakes, SameWakes
  <2>5. CASE CallStop
    BY <1>1, <2>5, StopWakes DEF CallStop, StopNodes
  <2> QED BY <1>8, <2>1, <2>2, <2>3, <2>4, <2>5 DEF Calling
<1> QED BY <1>2, <1>3, <1>4, <1>5, <1>6, <1>7, <1>8 DEF Next, Runtime

\* An event wakes every node that waits for it: what leaves an event list goes on a stack
\* of nodes to run or is stopped, unless its event comes when the stack of executors is
\* full, which takes that node alone out of the lists (manager.cpp:409-419, executor.h:80).
THEOREM EventsWakeNodes == Spec => EventWakesNode
<1> DEFINE A == \A m \in Node : Woken(m)
<1>1. HomeInvariant /\ [Next]_vars => [A]_vars
  BY EveryWakingStep
<1>2. A <=> \A n \in Node : container[n] = EventList /\ container'[n] # EventList
                 => container'[n] # 0 \/ node'[n].result = "rSTOP" \/ FindsNoExecutor(n)
  BY DEF Woken
<1>3. [A]_vars <=> [\A n \in Node : container[n] = EventList /\ container'[n] # EventList
                      => container'[n] # 0 \/ node'[n].result = "rSTOP" \/ FindsNoExecutor(n)]_vars
  BY <1>2
<1> HIDE DEF A
<1> QED BY <1>1, <1>3, HomeInvariantHolds, PTL DEF Spec, EventWakesNode
=============================================================================
