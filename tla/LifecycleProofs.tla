--------------------------- MODULE LifecycleProofs ---------------------------
(***************************************************************************)
(* Every step of the game and of the runtime keeps LifecycleInvariant, for *)
(* any number of objects, agents, calls, events and timers, as long as the *)
(* game stops and removes no chart that is in use.                         *)
(***************************************************************************)
EXTENDS LifecycleProperties, NodeListsProofs, FiniteSetTheorems

-----------------------------------------------------------------------------
(* The inductive invariant of the proofs, over the lists w, the container  *)
(* pointers h, the frames f, the charts ch and the registered agents reg:  *)
(* the lemmas apply its parts to the states between the parts of an action.*)

Registered == {registered[o] : o \in Object} \ {0}
UnderWay(f) == {i \in DOMAIN f : f[i].kind \in {"function", "called"}}
\* The node of c is in a list, or its function is under way.
Busy(c, h, f) == h[c] # 0 \/ \E i \in UnderWay(f) : f[i].chart = c

\* A node is in the list of its container, once, or a dispatch has taken it from there.
Linked(w, h, f) ==
  /\ \A a \in Id : NoRepeats(w[a]) /\ \A c \in Elements(w[a]) : h[c] = a
  /\ \A i \in DOMAIN f : NoRepeats(f[i].list) /\ (f[i].kind # "dispatch" => f[i].list = <<>>)
  /\ \A i \in DOMAIN f : \A c \in Elements(f[i].list) : h[c] # 0 /\ c \notin Elements(w[h[c]])
  /\ \A i, j \in DOMAIN f : Elements(f[i].list) \cap Elements(f[j].list) # {} => i = j
  /\ \A c \in Chart : h[c] # 0 => \/ c \in Elements(w[h[c]])
                                  \/ \E i \in DOMAIN f : c \in Elements(f[i].list)

\* A function under way is that of a node of an existing chart, in no list, once.
Functioning(h, f, ch) ==
  /\ \A i \in UnderWay(f) : f[i].chart \in Chart /\ h[f[i].chart] = 0 /\ ch[f[i].chart] # "none"
  /\ \A i, j \in UnderWay(f) : f[i].chart = f[j].chart => i = j

\* A function that has called a subchart has it above it until it returns.
CalledBelow(f) ==
  \A i \in DOMAIN f : f[i].kind = "called" =>
    /\ Owner(f[i].chart) = 0
    /\ i < Len(f) => f[i + 1].kind = "function" /\ Owner(f[i + 1].chart) = Host(f[i].chart)

\* One node of the subcharts of a chart is busy at most, and while it is, the owner
\* is in no list and its function not under way but for the call.
OwnerWaits(h, f) ==
  /\ \A c \in Chart : Owner(c) # 0 /\ Busy(c, h, f) =>
       /\ h[Attached(Owner(c))] = 0
       /\ \A i \in DOMAIN f : f[i].kind = "function" => f[i].chart # Attached(Owner(c))
  /\ \A c, d \in Chart : Owner(c) # 0 /\ Owner(d) = Owner(c) /\ Busy(c, h, f) /\ Busy(d, h, f) => c = d

\* A chart that can be started, or started again, is idle, and its subcharts are.
IdleIsIdle(h, f, ch, reg) ==
  \A a \in reg : ch[Attached(a)] = "idle" =>
    ~ Busy(Attached(a), h, f) /\ \A c \in Chart : Owner(c) = a => ~ Busy(c, h, f)

Stack(h, f, ch, reg) ==
  Functioning(h, f, ch) /\ CalledBelow(f) /\ OwnerWaits(h, f) /\ IdleIsIdle(h, f, ch, reg)

\* Agents are numbered in the order they are registered in, and each belongs to the
\* object it is registered for until it is unregistered; then it is in one of the
\* sets of dying agents.
AgentsInvariant ==
  /\ \A a \in Id : status[a] = "none" <=> a > lastId
  /\ \A a \in Registered : status[a] = "running"
  /\ \A o, p \in Object : registered[o] # 0 /\ registered[o] = registered[p] => o = p
  /\ \A a \in armed : Alive(a)
  /\ \A a \in dying.now \cup dying.next : status[a] = "destroying"
  /\ dying.now \cap dying.next = {}

\* Charts live on living agents, below owners that exist; those that run, on agents
\* that do; and nodes wait for living agents.
ChartsInvariant ==
  /\ \A c \in Chart : Exists(c) => Alive(Host(c)) /\ (Owner(c) # 0 => Exists(Attached(Owner(c))))
  /\ \A c \in Chart : chart[c] = "running" => status[Host(c)] = "running"
  /\ \A c \in Chart : container[c] # 0 => Exists(c) /\ Alive(container[c])

LifecycleInvariant ==
  /\ TypeOK /\ AgentsInvariant /\ ChartsInvariant
  /\ Linked(waiting, container, frames)
  /\ Stack(container, frames, chart, Registered)

Lists == [Id -> Seq(Chart)]
Homes == [Chart -> Id \cup {0}]
States == [Chart -> {"none", "idle", "running"}]

-----------------------------------------------------------------------------
(* Charts and their names.                                                 *)

\* The name of a chart tells its agent and the agent of its owner.
LEMMA ChartNames ==
  /\ \A c \in Chart : Host(c) \in Id /\ Owner(c) \in Id \cup {0}
  /\ \A c \in Chart : Owner(c) = 0 => c = Attached(Host(c))
  /\ \A a \in Id : Attached(a) \in Chart /\ Host(Attached(a)) = a /\ Owner(Attached(a)) = 0
  /\ \A a, b \in Id : <<a, b>> \in Chart /\ Host(<<a, b>>) = a /\ Owner(<<a, b>>) = b
  /\ \A c, d \in Chart : Host(c) = Host(d) /\ Owner(c) = Owner(d) => c = d
  /\ \A c \in Chart : c = <<Host(c), Owner(c)>>
  /\ 0 \notin Id /\ <<0, 0>> \notin Chart
BY LifecycleAssumption DEF LifecycleAssumption, Chart, Host, Owner, Attached, Id

\* What a frame is made of.
LEMMA FrameParts ==
  /\ \A fr \in Frame : /\ fr.kind \in {"dispatch", "function", "called", "return"} /\ fr.list \in Seq(Chart)
                       /\ fr.chart \in Chart \cup {<<0, 0>>} /\ fr.left \in 0..MaxCalls
  /\ \A c \in Chart, n \in 0..MaxCalls :
       LET fr == Function(c, n) IN
       fr \in Frame /\ fr.kind = "function" /\ fr.list = <<>> /\ fr.chart = c /\ fr.left = n
  /\ \A s \in Seq(Chart), n \in 0..MaxCalls :
       LET fr == Dispatch(s, n) IN fr \in Frame /\ fr.kind = "dispatch" /\ fr.list = s
  /\ \A c \in Chart \cup {Deleted} :
       LET fr == Return(c) IN fr \in Frame /\ fr.kind = "return" /\ fr.list = <<>> /\ fr.chart = c
BY LifecycleAssumption DEF LifecycleAssumption, Frame, Function, Dispatch, Return, Deleted

-----------------------------------------------------------------------------
(* Linked: lists, container pointers and the nodes that dispatches have    *)
(* taken.                                                                  *)

\* Frames with the same lists, of which the same are dispatches.
Alike(f, g) ==
  /\ DOMAIN f = DOMAIN g
  /\ \A i \in DOMAIN f : /\ f[i].list = g[i].list
                         /\ f[i].kind = "dispatch" <=> g[i].kind = "dispatch"

LEMMA LinkedAlike ==
  ASSUME NEW w, NEW h, NEW f, NEW g, Linked(w, h, f), Alike(f, g)
  PROVE  Linked(w, h, g)
BY DEF Linked, Alike

\* A frame without a list is popped,
LEMMA LinkedPop ==
  ASSUME NEW w \in Lists, NEW h \in Homes, NEW f \in Seq(Frame), f # <<>>,
         Linked(w, h, f), Last(f).list = <<>>
  PROVE  Linked(w, h, Front(f))
<1>1. Len(f) \in Nat \ {0} /\ DOMAIN f = 1..Len(f)
  OBVIOUS
<1>2. DOMAIN Front(f) = 1..(Len(f) - 1) /\ \A i \in 1..(Len(f) - 1) : Front(f)[i] = f[i]
  BY <1>1 DEF Front
<1>3. \A i \in DOMAIN f : i \in DOMAIN Front(f) \/ Elements(f[i].list) = {}
  BY <1>1, <1>2 DEF Last, Elements
<1>4. \A i \in DOMAIN Front(f) : i \in DOMAIN f /\ Front(f)[i] = f[i]
  BY <1>1, <1>2
<1> QED BY <1>3, <1>4 DEF Linked

\* or pushed.
LEMMA LinkedPush ==
  ASSUME NEW w \in Lists, NEW h \in Homes, NEW f \in Seq(Frame), NEW fr \in Frame,
         Linked(w, h, f), fr.list = <<>>
  PROVE  Linked(w, h, Append(f, fr))
<1> DEFINE g == Append(f, fr)
<1>1. DOMAIN g = DOMAIN f \cup {Len(f) + 1} /\ g[Len(f) + 1] = fr
  OBVIOUS
<1>2. \A i \in DOMAIN f : i \in DOMAIN g /\ g[i] = f[i]
  OBVIOUS
<1>3. Elements(fr.list) = {} /\ NoRepeats(fr.list)
  BY DEF Elements, NoRepeats
<1> HIDE DEF g
<1>4. \A i \in DOMAIN g : (i \in DOMAIN f /\ g[i] = f[i]) \/ g[i].list = <<>>
  BY <1>1, <1>2
<1>5. Elements(<<>>) = {} /\ NoRepeats(<<>>)
  BY DEF Elements, NoRepeats
<1>6. \A i \in DOMAIN g : /\ NoRepeats(g[i].list) /\ (g[i].kind # "dispatch" => g[i].list = <<>>)
                          /\ \A c \in Elements(g[i].list) : h[c] # 0 /\ c \notin Elements(w[h[c]])
  BY <1>4, <1>5 DEF Linked
<1>7. \A i, j \in DOMAIN g : Elements(g[i].list) \cap Elements(g[j].list) # {} => i = j
  BY <1>4, <1>5 DEF Linked
<1>8. \A c \in Chart : h[c] # 0 => c \in Elements(w[h[c]]) \/ \E i \in DOMAIN g : c \in Elements(g[i].list)
  BY <1>2 DEF Linked
<1>9. Linked(w, h, g)
  BY <1>6, <1>7, <1>8 DEF Linked
<1> QED BY <1>9 DEF g

\* The lists of a state without the nodes of C.
Off(w, C) == [a \in Id |-> Without(w[a], C)]
HomelessIn(h, C) == [c \in Chart |-> IF c \in C THEN 0 ELSE h[c]]

\* What UnlinkedFrames does to the frames.
LEMMA FramesUnlinked ==
  ASSUME NEW f \in Seq(Frame), NEW C
  PROVE  /\ UnlinkedFrames(f, C) \in Seq(Frame)
         /\ DOMAIN UnlinkedFrames(f, C) = DOMAIN f /\ Len(UnlinkedFrames(f, C)) = Len(f)
         /\ \A i \in DOMAIN f :
              LET u == UnlinkedFrames(f, C)[i]
              IN  /\ u.kind = f[i].kind /\ u.chart = f[i].chart /\ u.left = f[i].left
                  /\ u.list = Without(f[i].list, C)
<1> DEFINE u == UnlinkedFrames(f, C)
<1>1. \A i \in DOMAIN f : f[i] \in Frame /\ f[i].list \in Seq(Chart)
  BY FrameParts
<1>2. \A i \in DOMAIN f : Without(f[i].list, C) \in Seq(Chart)
  BY <1>1, WithoutType
<1>3. DOMAIN u = DOMAIN f /\ \A i \in DOMAIN f : u[i] = [f[i] EXCEPT !.list = Without(f[i].list, C)]
  BY DEF UnlinkedFrames
<1>4. \A i \in DOMAIN f : /\ u[i] \in Frame /\ u[i].kind = f[i].kind /\ u[i].chart = f[i].chart
                          /\ u[i].left = f[i].left /\ u[i].list = Without(f[i].list, C)
  BY <1>1, <1>2, <1>3 DEF Frame
<1>5. DOMAIN f = 1..Len(f) /\ Len(f) \in Nat
  OBVIOUS
<1>6. u \in [1..Len(f) -> Frame]
  BY <1>4, <1>5 DEF UnlinkedFrames
<1>7. u \in Seq(Frame) /\ Len(u) = Len(f)
  BY <1>5, <1>6
<1> QED BY <1>3, <1>4, <1>7

\* Nodes leave the lists they are in, wherever that is.
LEMMA LinkedUnlink ==
  ASSUME NEW w \in Lists, NEW h \in Homes, NEW f \in Seq(Frame), NEW C,
         Linked(w, h, f)
  PROVE  /\ Off(w, C) \in Lists /\ HomelessIn(h, C) \in Homes
         /\ Linked(Off(w, C), HomelessIn(h, C), UnlinkedFrames(f, C))
<1> DEFINE w2 == Off(w, C)
           h2 == HomelessIn(h, C)
           u == UnlinkedFrames(f, C)
<1>1. \A a \in Id : w[a] \in Seq(Chart)
  BY DEF Lists
<1>2. \A a \in Id : /\ w2[a] \in Seq(Chart) /\ Elements(w2[a]) = Elements(w[a]) \ C
                    /\ NoRepeats(w[a]) => NoRepeats(w2[a])
  BY <1>1, WithoutType, WithoutElements, WithoutOnly DEF Off
<1>3. w2 \in Lists /\ h2 \in Homes
  BY <1>2 DEF Lists, Homes, Off, HomelessIn
<1>4. \A c \in Chart : h2[c] = IF c \in C THEN 0 ELSE h[c]
  BY DEF HomelessIn
<1>5. DOMAIN u = DOMAIN f /\ \A i \in DOMAIN f : u[i].kind = f[i].kind /\ u[i].list = Without(f[i].list, C)
  BY FramesUnlinked
<1>6. \A i \in DOMAIN f : f[i].list \in Seq(Chart)
  BY FrameParts
<1>7. \A i \in DOMAIN f : /\ Elements(u[i].list) = Elements(f[i].list) \ C
                          /\ NoRepeats(f[i].list) => NoRepeats(u[i].list)
                          /\ f[i].list = <<>> => u[i].list = <<>>
  <2>1. Without(<<>>, C) = <<>>
    <3>1. <<>> \in Seq(Chart) /\ Elements(<<>>) = {}
      BY DEF Elements
    <3> QED BY <3>1, WithoutNone
  <2> QED BY <1>5, <1>6, <2>1, WithoutElements, WithoutOnly
<1>8. \A a \in Id : Elements(w[a]) \subseteq Chart
  BY <1>1, ElementsType
<1>9. \A i \in DOMAIN f : Elements(f[i].list) \subseteq Chart
  BY <1>6, ElementsType
<1>10. \A c \in Chart : h[c] \in Id \cup {0} /\ 0 \notin Id
  BY ChartNames DEF Homes
<1> HIDE DEF w2, h2, u
<1>11. Linked(w2, h2, u)
  <2>1. \A a \in Id : NoRepeats(w2[a]) /\ \A c \in Elements(w2[a]) : h2[c] = a
    BY <1>2, <1>4, <1>8 DEF Linked
  <2>2. \A i \in DOMAIN u : NoRepeats(u[i].list) /\ (u[i].kind # "dispatch" => u[i].list = <<>>)
    BY <1>5, <1>7 DEF Linked
  <2>3. ASSUME NEW i \in DOMAIN u, NEW c \in Elements(u[i].list)
        PROVE  h2[c] # 0 /\ c \notin Elements(w2[h2[c]])
    <3>1. c \in Elements(f[i].list) /\ c \notin C /\ c \in Chart /\ i \in DOMAIN f
      BY <1>5, <1>7, <1>9, <2>3
    <3>2. h[c] # 0 /\ c \notin Elements(w[h[c]])
      BY <3>1 DEF Linked
    <3> QED BY <1>2, <1>4, <1>10, <3>1, <3>2
  <2>4. ASSUME NEW i \in DOMAIN u, NEW j \in DOMAIN u, Elements(u[i].list) \cap Elements(u[j].list) # {}
        PROVE  i = j
    <3>1. i \in DOMAIN f /\ j \in DOMAIN f
      BY <1>5
    <3>2. Elements(f[i].list) \cap Elements(f[j].list) # {}
      BY <1>7, <2>4, <3>1
    <3> QED BY <3>1, <3>2 DEF Linked
  <2>5. ASSUME NEW c \in Chart, h2[c] # 0
        PROVE  c \in Elements(w2[h2[c]]) \/ \E i \in DOMAIN u : c \in Elements(u[i].list)
    <3>1. c \notin C /\ h2[c] = h[c] /\ h[c] \in Id
      BY <1>4, <1>10, <2>5
    <3>2. c \in Elements(w[h[c]]) \/ \E i \in DOMAIN f : c \in Elements(f[i].list)
      BY <2>5, <3>1 DEF Linked
    <3> QED BY <1>2, <1>5, <1>7, <3>1, <3>2
  <2> QED BY <2>1, <2>2, <2>3, <2>4, <2>5 DEF Linked
<1> QED BY <1>3, <1>11 DEF w2, h2, u

\* A dispatch takes the waiting list of an agent.
LEMMA LinkedTake ==
  ASSUME NEW w \in Lists, NEW h \in Homes, NEW f \in Seq(Frame), NEW a \in Id, NEW n \in 0..MaxCalls,
         Linked(w, h, f)
  PROVE  /\ [w EXCEPT ![a] = <<>>] \in Lists
         /\ Append(f, Dispatch(w[a], n)) \in Seq(Frame)
         /\ Linked([w EXCEPT ![a] = <<>>], h, Append(f, Dispatch(w[a], n)))
<1> DEFINE w2 == [w EXCEPT ![a] = <<>>]
           g == Append(f, Dispatch(w[a], n))
           new == Len(f) + 1
<1>1. \A b \in Id : w[b] \in Seq(Chart) /\ Elements(w[b]) \subseteq Chart
  BY ElementsType DEF Lists
<1>2. LET fr == Dispatch(w[a], n) IN fr \in Frame /\ fr.kind = "dispatch" /\ fr.list = w[a]
  BY <1>1, FrameParts
<1>3. g \in Seq(Frame) /\ DOMAIN g = DOMAIN f \cup {new} /\ g[new].list = w[a] /\ g[new].kind = "dispatch"
  BY <1>2
<1>4. \A i \in DOMAIN f : i # new /\ g[i] = f[i]
  BY <1>2
<1>5. w2 \in Lists /\ \A b \in Id : w2[b] = IF b = a THEN <<>> ELSE w[b]
  BY DEF Lists
<1>6. Elements(<<>>) = {} /\ NoRepeats(<<>>)
  BY DEF Elements, NoRepeats
<1>7. \A i \in DOMAIN f : Elements(f[i].list) \subseteq Chart
  BY FrameParts, ElementsType
<1>8. \A c \in Chart : h[c] \in Id \cup {0} /\ 0 \notin Id
  BY ChartNames DEF Homes
<1> HIDE DEF w2, g, new
<1>9. Linked(w2, h, g)
  <2>1. \A b \in Id : NoRepeats(w2[b]) /\ \A c \in Elements(w2[b]) : h[c] = b
    BY <1>5, <1>6 DEF Linked
  <2>2. \A i \in DOMAIN g : NoRepeats(g[i].list) /\ (g[i].kind # "dispatch" => g[i].list = <<>>)
    BY <1>3, <1>4 DEF Linked
  <2>3. ASSUME NEW i \in DOMAIN g, NEW c \in Elements(g[i].list)
        PROVE  h[c] # 0 /\ c \notin Elements(w2[h[c]])
    <3>1. CASE i = new
      <4>1. c \in Elements(w[a]) /\ h[c] = a
        BY <1>3, <2>3, <3>1 DEF Linked
      <4>2. a # 0 /\ w2[a] = <<>>
        BY <1>5, ChartNames
      <4> QED BY <1>6, <4>1, <4>2
    <3>2. CASE i \in DOMAIN f
      <4>1. h[c] # 0 /\ c \notin Elements(w[h[c]]) /\ c \in Chart
        BY <1>4, <1>7, <2>3, <3>2 DEF Linked
      <4>2. h[c] \in Id /\ w2[h[c]] \in {<<>>, w[h[c]]}
        BY <1>5, <1>8, <4>1
      <4> QED BY <1>6, <4>1, <4>2
    <3> QED BY <1>3, <3>1, <3>2
  <2>4. ASSUME NEW i \in DOMAIN g, NEW j \in DOMAIN g, NEW c \in Elements(g[i].list), c \in Elements(g[j].list)
        PROVE  i = j
    <3>1. ASSUME NEW k \in DOMAIN f, c \in Elements(f[k].list), c \in Elements(w[a]) PROVE FALSE
      BY <3>1 DEF Linked
    <3>2. CASE i \in DOMAIN f /\ j \in DOMAIN f
      BY <1>4, <2>4, <3>2 DEF Linked
    <3>3. CASE i = new \/ j = new
      BY <1>3, <1>4, <2>4, <3>1, <3>3
    <3> QED BY <1>3, <3>2, <3>3
  <2>5. ASSUME NEW c \in Chart, h[c] # 0
        PROVE  c \in Elements(w2[h[c]]) \/ \E i \in DOMAIN g : c \in Elements(g[i].list)
    <3>1. c \in Elements(w[h[c]]) \/ \E i \in DOMAIN f : c \in Elements(f[i].list)
      BY <2>5 DEF Linked
    <3> QED BY <1>3, <1>4, <1>5, <1>8, <2>5, <3>1
  <2> QED BY <2>1, <2>2, <2>3, <2>4, <2>5 DEF Linked
<1> QED BY <1>3, <1>5, <1>9 DEF w2, g

\* The first node of a dispatch leaves its list.
LEMMA LinkedDispatch ==
  ASSUME NEW w \in Lists, NEW h \in Homes, NEW f \in Seq(Frame), f # <<>>,
         Linked(w, h, f), Last(f).kind = "dispatch", Last(f).list # <<>>
  PROVE  LET c == Head(Last(f).list)
             g == Append(Front(f), [Last(f) EXCEPT !.list = Tail(@)])
         IN  /\ c \in Chart /\ h[c] # 0 /\ c \in Elements(Last(f).list)
             /\ g \in Seq(Frame) /\ Len(g) = Len(f)
             /\ \A i \in DOMAIN f : g[i].kind = f[i].kind /\ g[i].chart = f[i].chart
             /\ Linked(w, HomelessIn(h, {c}), g)
<1> DEFINE top == Last(f)
           c == Head(top.list)
           short == [top EXCEPT !.list = Tail(@)]
           g == Append(Front(f), short)
           h2 == HomelessIn(h, {c})
           n == Len(f)
<1>1. n \in Nat \ {0} /\ DOMAIN f = 1..n /\ n \in DOMAIN f /\ top = f[n] /\ top \in Frame
  BY DEF Last
<1>2. top.list \in Seq(Chart)
  BY <1>1, FrameParts
<1>3. /\ c \in Chart /\ c \in Elements(top.list) /\ Tail(top.list) \in Seq(Chart)
      /\ Elements(top.list) = Elements(Tail(top.list)) \cup {c}
      /\ NoRepeats(top.list) => NoRepeats(Tail(top.list)) /\ c \notin Elements(Tail(top.list))
  BY <1>2, TailElements
<1>4. short \in Frame /\ short.kind = "dispatch" /\ short.list = Tail(top.list) /\ short.chart = top.chart
  BY <1>1, <1>3 DEF Frame
<1>6. g \in Seq(Frame) /\ Len(g) = n /\ DOMAIN g = DOMAIN f /\ g[n] = short
      /\ \A i \in DOMAIN f : i # n => g[i] = f[i]
  <2> HIDE DEF short
  <2> QED BY <1>4, LastReplaced
<1>7. \A i \in DOMAIN f : g[i].kind = f[i].kind /\ g[i].chart = f[i].chart
  BY <1>1, <1>4, <1>6
<1>8. \A d \in Chart : h2[d] = IF d = c THEN 0 ELSE h[d]
  BY DEF HomelessIn
<1>9. \A i \in DOMAIN f : Elements(f[i].list) \subseteq Chart
  BY FrameParts, ElementsType
<1>10. h[c] # 0 /\ c \notin Elements(w[h[c]])
  BY <1>1, <1>3 DEF Linked
<1>11. \A a \in Id : Elements(w[a]) \subseteq Chart
  BY ElementsType DEF Lists
<1>12. \A i \in DOMAIN f : /\ Elements(g[i].list) = Elements(f[i].list) \ {c}
                           /\ NoRepeats(g[i].list)
  <2> SUFFICES ASSUME NEW i \in DOMAIN f
               PROVE  Elements(g[i].list) = Elements(f[i].list) \ {c} /\ NoRepeats(g[i].list)
    OBVIOUS
  <2>1. NoRepeats(f[i].list)
    BY DEF Linked
  <2>2. CASE i = n
    BY <1>1, <1>3, <1>4, <1>6, <2>1, <2>2
  <2>3. CASE i # n
    <3>1. c \notin Elements(f[i].list)
      BY <1>1, <1>3, <2>3 DEF Linked
    <3> QED BY <1>6, <2>1, <2>3, <3>1
  <2> QED BY <2>2, <2>3
<1> HIDE DEF g, h2, short, c, n, top
<1>13. Linked(w, h2, g)
  <2>1. \A a \in Id : NoRepeats(w[a]) /\ \A d \in Elements(w[a]) : h2[d] = a
    BY <1>8, <1>10, <1>11 DEF Linked
  <2>2. \A i \in DOMAIN g : NoRepeats(g[i].list) /\ (g[i].kind # "dispatch" => g[i].list = <<>>)
    BY <1>1, <1>4, <1>6, <1>12 DEF Linked
  <2>3. \A i \in DOMAIN g : \A d \in Elements(g[i].list) : h2[d] # 0 /\ d \notin Elements(w[h2[d]])
    BY <1>6, <1>8, <1>9, <1>12 DEF Linked
  <2>4. ASSUME NEW i \in DOMAIN g, NEW j \in DOMAIN g, NEW d \in Elements(g[i].list), d \in Elements(g[j].list)
        PROVE  i = j
    <3>1. d \in Elements(f[i].list) /\ d \in Elements(f[j].list)
      BY <1>6, <1>12, <2>4
    <3> QED BY <1>6, <3>1 DEF Linked
  <2>5. ASSUME NEW d \in Chart, h2[d] # 0
        PROVE  d \in Elements(w[h2[d]]) \/ \E i \in DOMAIN g : d \in Elements(g[i].list)
    <3>1. d # c /\ h2[d] = h[d]
      BY <1>8, <2>5
    <3>2. d \in Elements(w[h[d]]) \/ \E i \in DOMAIN f : d \in Elements(f[i].list)
      BY <2>5, <3>1 DEF Linked
    <3> QED BY <1>6, <1>12, <3>1, <3>2
  <2> QED BY <2>1, <2>2, <2>3, <2>4, <2>5 DEF Linked
<1> QED BY <1>1, <1>3, <1>6, <1>7, <1>10, <1>13 DEF g, h2, short, c, n, top

\* A node that is in no list is linked into that of an agent.
LEMMA LinkedWait ==
  ASSUME NEW w \in Lists, NEW h \in Homes, NEW f \in Seq(Frame), NEW c \in Chart, NEW a \in Id,
         Linked(w, h, f), h[c] = 0
  PROVE  /\ [Off(w, {c}) EXCEPT ![a] = Append(@, c)] \in Lists
         /\ [h EXCEPT ![c] = a] \in Homes
         /\ Linked([Off(w, {c}) EXCEPT ![a] = Append(@, c)], [h EXCEPT ![c] = a], f)
<1> DEFINE w2 == [Off(w, {c}) EXCEPT ![a] = Append(@, c)]
           h2 == [h EXCEPT ![c] = a]
<1>1. \A b \in Id : w[b] \in Seq(Chart) /\ Elements(w[b]) \subseteq Chart
  BY ElementsType DEF Lists
<1>2. \A b \in Id : c \notin Elements(w[b])
  BY ChartNames DEF Linked
<1>3. \A b \in Id : Without(w[b], {c}) = w[b]
  <2>1. \A b \in Id : Elements(w[b]) \cap {c} = {}
    BY <1>2
  <2> QED BY <1>1, <2>1, WithoutNone
<1>4. \A b \in Id : w2[b] = IF b = a THEN Append(w[a], c) ELSE w[b]
  BY <1>3 DEF Off
<1>5. Append(w[a], c) \in Seq(Chart) /\ Elements(Append(w[a], c)) = Elements(w[a]) \cup {c}
  BY <1>1, AppendElements
<1>6. NoRepeats(w[a]) => NoRepeats(Append(w[a], c))
  BY <1>1, <1>2, AppendNoRepeats
<1>7. w2 \in Lists
  BY <1>1, <1>4, <1>5 DEF Lists, Off
<1>8. h2 \in Homes /\ \A d \in Chart : h2[d] = IF d = c THEN a ELSE h[d]
  BY DEF Homes
<1>9. \A i \in DOMAIN f : Elements(f[i].list) \subseteq Chart /\ c \notin Elements(f[i].list)
  BY FrameParts, ElementsType DEF Linked
<1>10. \A d \in Chart : h[d] \in Id \cup {0} /\ 0 \notin Id
  BY ChartNames DEF Homes
<1> HIDE DEF w2, h2
<1>11. Linked(w2, h2, f)
  <2>1. \A b \in Id : NoRepeats(w2[b]) /\ \A d \in Elements(w2[b]) : h2[d] = b
    BY <1>1, <1>2, <1>4, <1>5, <1>6, <1>8 DEF Linked
  <2>2. \A i \in DOMAIN f : NoRepeats(f[i].list) /\ (f[i].kind # "dispatch" => f[i].list = <<>>)
    BY DEF Linked
  <2>3. ASSUME NEW i \in DOMAIN f, NEW d \in Elements(f[i].list)
        PROVE  h2[d] # 0 /\ d \notin Elements(w2[h2[d]])
    <3>1. d # c /\ d \in Chart /\ h2[d] = h[d]
      BY <1>8, <1>9
    <3>2. h[d] # 0 /\ d \notin Elements(w[h[d]]) /\ h[d] \in Id
      BY <1>10, <3>1 DEF Linked
    <3> QED BY <1>4, <1>5, <3>1, <3>2
  <2>4. \A i, j \in DOMAIN f : Elements(f[i].list) \cap Elements(f[j].list) # {} => i = j
    BY DEF Linked
  <2>5. ASSUME NEW d \in Chart, h2[d] # 0
        PROVE  d \in Elements(w2[h2[d]]) \/ \E i \in DOMAIN f : d \in Elements(f[i].list)
    <3>1. CASE d = c
      BY <1>4, <1>5, <1>8, <3>1
    <3>2. CASE d # c
      <4>1. h2[d] = h[d] /\ h[d] \in Id
        BY <1>8, <1>10, <2>5, <3>2
      <4>2. d \in Elements(w[h[d]]) \/ \E i \in DOMAIN f : d \in Elements(f[i].list)
        BY <2>5, <4>1 DEF Linked
      <4> QED BY <1>4, <1>5, <4>1, <4>2
    <3> QED BY <3>1, <3>2
  <2> QED BY <2>1, <2>2, <2>3, <2>4, <2>5 DEF Linked
<1> QED BY <1>7, <1>8, <1>11 DEF w2, h2

-----------------------------------------------------------------------------
(* Stack: the functions under way.                                         *)

\* The frames g are the lower ones of f, or f whose top function has called a subchart;
\* the charts of returns may have been deleted.
Below(g, f) ==
  /\ Len(g) <= Len(f)
  /\ \A i \in DOMAIN g :
       /\ i \in DOMAIN f /\ (g[i].kind # "return" => g[i].chart = f[i].chart)
       /\ \/ g[i].kind = f[i].kind
          \/ i = Len(g) /\ f[i].kind = "function" /\ g[i].kind = "called" /\ Owner(g[i].chart) = 0

\* Nodes are only taken out of lists, and functions only end.
LEMMA BusyShrinks ==
  ASSUME NEW h, NEW h2, NEW f, NEW g, Below(g, f), \A c \in Chart : h2[c] \in {0, h[c]},
         NEW c \in Chart, Busy(c, h2, g)
  PROVE  Busy(c, h, f)
<1>1. \A i \in UnderWay(g) : i \in UnderWay(f) /\ f[i].chart = g[i].chart
  BY DEF UnderWay, Below
<1> QED BY <1>1 DEF Busy

LEMMA StackShrinks ==
  ASSUME NEW h, NEW h2, NEW f \in Seq(Frame), NEW g \in Seq(Frame), NEW ch, NEW ch2, NEW reg, NEW reg2,
         Stack(h, f, ch, reg), Below(g, f), reg2 \subseteq Id,
         \A c \in Chart : h2[c] \in {0, h[c]},
         \A i \in UnderWay(g) : ch2[g[i].chart] # "none",
         IdleIsIdle(h2, g, ch2, reg2)
  PROVE  Stack(h2, g, ch2, reg2)
<1>1. \A i \in UnderWay(g) : i \in UnderWay(f) /\ f[i].chart = g[i].chart
  BY DEF UnderWay, Below
<1>2. Functioning(h2, g, ch2)
  BY <1>1 DEF Stack, Functioning
<1>3. CalledBelow(g)
  <2> SUFFICES ASSUME NEW i \in DOMAIN g, g[i].kind = "called"
               PROVE  /\ Owner(g[i].chart) = 0
                      /\ i < Len(g) => g[i + 1].kind = "function" /\ Owner(g[i + 1].chart) = Host(g[i].chart)
    BY DEF CalledBelow
  <2>1. CASE f[i].kind # "called"
    BY <2>1 DEF Below
  <2>2. CASE f[i].kind = "called"
    <3>1. i \in DOMAIN f /\ g[i].chart = f[i].chart
      BY DEF Below
    <3>2. Owner(f[i].chart) = 0
      BY <2>2, <3>1 DEF Stack, CalledBelow
    <3>3. ASSUME i < Len(g)
          PROVE  g[i + 1].kind = "function" /\ Owner(g[i + 1].chart) = Host(g[i].chart)
      <4>1. i + 1 \in DOMAIN g /\ i + 1 \in DOMAIN f /\ i < Len(f)
        BY <3>1, <3>3 DEF Below
      <4>5. g[i + 1].kind \in {"function", "called"} => g[i + 1].chart = f[i + 1].chart
        BY <4>1 DEF Below
      <4>2. f[i + 1].kind = "function" /\ Owner(f[i + 1].chart) = Host(f[i].chart)
        BY <2>2, <3>1, <4>1 DEF Stack, CalledBelow
      <4>3. i \in UnderWay(f)
        BY <2>2, <3>1 DEF UnderWay
      <4>4. Host(f[i].chart) # 0
        BY <4>3, ChartNames DEF Stack, Functioning
      <4> QED BY <3>1, <4>1, <4>2, <4>4, <4>5 DEF Below
    <3> QED BY <3>1, <3>2, <3>3
  <2> QED BY <2>1, <2>2
<1>4. OwnerWaits(h2, g)
  <2>1. \A c \in Chart : Busy(c, h2, g) => Busy(c, h, f)
    BY BusyShrinks
  <2>2. \A i \in DOMAIN g : g[i].kind = "function" =>
          i \in DOMAIN f /\ f[i].kind = "function" /\ f[i].chart = g[i].chart
    BY DEF Below
  <2>3. \A c \in Chart : Owner(c) # 0 => Attached(Owner(c)) \in Chart
    BY ChartNames
  <2>4. ASSUME NEW c \in Chart, Owner(c) # 0, Busy(c, h2, g)
        PROVE  /\ h2[Attached(Owner(c))] = 0
               /\ \A i \in DOMAIN g : g[i].kind = "function" => g[i].chart # Attached(Owner(c))
    <3>1. /\ h[Attached(Owner(c))] = 0
          /\ \A i \in DOMAIN f : f[i].kind = "function" => f[i].chart # Attached(Owner(c))
      BY <2>1, <2>4 DEF Stack, OwnerWaits
    <3> QED BY <2>2, <2>3, <2>4, <3>1
  <2> QED BY <2>1, <2>4 DEF Stack, OwnerWaits
<1> QED BY <1>2, <1>3, <1>4 DEF Stack

\* Charts of agents that are idle stay that, in all that Below leaves.
LEMMA IdleShrinks ==
  ASSUME NEW h, NEW h2, NEW f, NEW g, NEW ch, NEW ch2, NEW reg, NEW reg2,
         IdleIsIdle(h, f, ch, reg), Below(g, f), reg2 \subseteq Id,
         \A c \in Chart : h2[c] \in {0, h[c]},
         \A a \in reg2 : ch2[Attached(a)] = "idle" => a \in reg /\ ch[Attached(a)] = "idle"
  PROVE  IdleIsIdle(h2, g, ch2, reg2)
<1>1. \A c \in Chart : Busy(c, h2, g) => Busy(c, h, f)
  BY BusyShrinks
<1> QED BY <1>1, ChartNames DEF IdleIsIdle

\* The node of c may be put in a list, or its function be called.
MayBeBusy(c, h, f, ch, reg) ==
  /\ ~ Busy(c, h, f)
  /\ Owner(c) # 0 => /\ h[Attached(Owner(c))] = 0
                     /\ \A i \in DOMAIN f : f[i].kind = "function" => f[i].chart # Attached(Owner(c))
                     /\ \A d \in Chart : Owner(d) = Owner(c) => ~ Busy(d, h, f)
  /\ Owner(c) = 0 => \A d \in Chart : Owner(d) = Host(c) => ~ Busy(d, h, f)
  /\ \A a \in reg : ch[Attached(a)] = "idle" => c # Attached(a) /\ Owner(c) # a

\* So can a node that is busy, once it has left its list or its function has ended.
LEMMA BusyAgain ==
  ASSUME NEW h, NEW h2, NEW f, NEW g, NEW ch, NEW reg, reg \subseteq Id,
         Stack(h, f, ch, reg), Below(g, f),
         \A d \in Chart : h2[d] \in {0, h[d]},
         NEW c \in Chart, ~ Busy(c, h2, g),
         h[c] # 0 \/ \E i \in DOMAIN f : f[i].kind = "function" /\ f[i].chart = c
  PROVE  MayBeBusy(c, h2, g, ch, reg)
<1>1. \A d \in Chart : Busy(d, h2, g) => Busy(d, h, f)
  BY BusyShrinks
<1>2. Busy(c, h, f)
  BY DEF Busy, UnderWay
<1>3. \A i \in DOMAIN g : g[i].kind = "function" =>
        i \in DOMAIN f /\ f[i].kind = "function" /\ f[i].chart = g[i].chart
  BY DEF Below
<1>4. ASSUME Owner(c) # 0
      PROVE  /\ h2[Attached(Owner(c))] = 0
             /\ \A i \in DOMAIN g : g[i].kind = "function" => g[i].chart # Attached(Owner(c))
             /\ \A d \in Chart : Owner(d) = Owner(c) => ~ Busy(d, h2, g)
  <2>1. Attached(Owner(c)) \in Chart
    BY <1>4, ChartNames
  <2>2. /\ h[Attached(Owner(c))] = 0
        /\ \A i \in DOMAIN f : f[i].kind = "function" => f[i].chart # Attached(Owner(c))
        /\ \A d \in Chart : Owner(d) = Owner(c) /\ Busy(d, h, f) => c = d
    BY <1>2, <1>4 DEF Stack, OwnerWaits
  <2> QED BY <1>1, <1>3, <2>1, <2>2
<1>5. ASSUME Owner(c) = 0, NEW d \in Chart, Owner(d) = Host(c) PROVE ~ Busy(d, h2, g)
  <2>1. c = Attached(Owner(d)) /\ Owner(d) # 0
    BY <1>5, ChartNames
  <2>2. ~ Busy(d, h, f)
    BY <2>1 DEF Stack, OwnerWaits
  <2> QED BY <1>1, <2>2
<1>6. \A a \in reg : ch[Attached(a)] = "idle" => c # Attached(a) /\ Owner(c) # a
  BY <1>2 DEF Stack, IdleIsIdle
<1> QED BY <1>4, <1>5, <1>6 DEF MayBeBusy

\* What a new function or a new place in a list makes of Busy.
LEMMA StackBusier ==
  ASSUME NEW h, NEW h2, NEW f, NEW g, NEW ch, NEW reg, reg \subseteq Id, NEW c \in Chart,
         Stack(h, f, ch, reg), MayBeBusy(c, h, f, ch, reg),
         \A d \in Chart : Busy(d, h2, g) => d = c \/ Busy(d, h, f),
         \A d \in Chart : d # c => h2[d] = h[d],
         \A i \in DOMAIN g : g[i].kind = "function" =>
            g[i].chart = c \/ (i \in DOMAIN f /\ f[i].kind = "function" /\ f[i].chart = g[i].chart)
  PROVE  OwnerWaits(h2, g) /\ IdleIsIdle(h2, g, ch, reg)
<1>1. ASSUME NEW d \in Chart, Owner(d) # 0, Busy(d, h2, g)
      PROVE  /\ h2[Attached(Owner(d))] = 0
             /\ \A i \in DOMAIN g : g[i].kind = "function" => g[i].chart # Attached(Owner(d))
  <2>0. Attached(Owner(d)) \in Chart /\ Owner(Attached(Owner(d))) = 0 /\ Host(Attached(Owner(d))) = Owner(d)
    BY <1>1, ChartNames
  <2>1. CASE d = c
    <3>1. Attached(Owner(d)) # c
      BY <1>1, <2>0, <2>1
    <3> QED BY <1>1, <2>0, <2>1, <3>1 DEF MayBeBusy
  <2>2. CASE d # c
    <3>1. Busy(d, h, f)
      BY <1>1, <2>2
    <3>2. Attached(Owner(d)) # c
      BY <1>1, <2>0, <3>1 DEF MayBeBusy
    <3>3. /\ h[Attached(Owner(d))] = 0
          /\ \A i \in DOMAIN f : f[i].kind = "function" => f[i].chart # Attached(Owner(d))
      BY <1>1, <3>1 DEF Stack, OwnerWaits
    <3> QED BY <2>0, <3>2, <3>3
  <2> QED BY <2>1, <2>2
<1>2. ASSUME NEW d \in Chart, NEW e \in Chart, Owner(d) # 0, Owner(e) = Owner(d),
             Busy(d, h2, g), Busy(e, h2, g)
      PROVE  d = e
  <2>1. CASE d = c \/ e = c
    BY <1>2, <2>1 DEF MayBeBusy
  <2>2. CASE d # c /\ e # c
    BY <1>2, <2>2 DEF Stack, OwnerWaits
  <2> QED BY <2>1, <2>2
<1>3. ASSUME NEW a \in reg, ch[Attached(a)] = "idle"
      PROVE  ~ Busy(Attached(a), h2, g) /\ \A d \in Chart : Owner(d) = a => ~ Busy(d, h2, g)
  <2>1. Attached(a) \in Chart
    BY ChartNames
  <2> QED BY <1>3, <2>1 DEF MayBeBusy, Stack, IdleIsIdle
<1> QED BY <1>1, <1>2, <1>3 DEF OwnerWaits, IdleIsIdle

\* The function of c is called.
LEMMA StackPushFunction ==
  ASSUME NEW h, NEW f \in Seq(Frame), NEW ch, NEW reg, reg \subseteq Id, NEW c \in Chart, NEW n \in 0..MaxCalls,
         Stack(h, f, ch, reg), MayBeBusy(c, h, f, ch, reg), ch[c] # "none",
         f # <<>> /\ Last(f).kind = "called" => Owner(c) = Host(Last(f).chart)
  PROVE  Stack(h, Append(f, Function(c, n)), ch, reg)
<1> DEFINE fr == Function(c, n)
           g == Append(f, fr)
           new == Len(f) + 1
<1>1. fr \in Frame /\ fr.kind = "function" /\ fr.chart = c
  BY FrameParts
<1> HIDE DEF fr
<1>2. /\ DOMAIN f = 1..Len(f) /\ Len(f) \in Nat /\ DOMAIN g = DOMAIN f \cup {new} /\ g[new] = fr
      /\ Len(g) = new /\ \A i \in DOMAIN f : g[i] = f[i] /\ i # new
  BY <1>1
<1> HIDE DEF g, new
<1>3. UnderWay(g) = UnderWay(f) \cup {new}
  BY <1>1, <1>2 DEF UnderWay
<1>4. \A i \in UnderWay(f) : i \in DOMAIN f /\ g[i] = f[i] /\ f[i].chart # c
  BY <1>2 DEF UnderWay, MayBeBusy, Busy
<1>5. Functioning(h, g, ch)
  <2>1. h[c] = 0
    BY DEF MayBeBusy, Busy
  <2> QED BY <1>1, <1>2, <1>3, <1>4, <2>1 DEF Stack, Functioning
<1>6. CalledBelow(g)
  <2> SUFFICES ASSUME NEW i \in DOMAIN g, g[i].kind = "called"
               PROVE  /\ Owner(g[i].chart) = 0
                      /\ i < Len(g) => g[i + 1].kind = "function" /\ Owner(g[i + 1].chart) = Host(g[i].chart)
    BY DEF CalledBelow
  <2>1. i \in DOMAIN f /\ g[i] = f[i]
    BY <1>1, <1>2
  <2>2. /\ Owner(f[i].chart) = 0
        /\ i < Len(f) => f[i + 1].kind = "function" /\ Owner(f[i + 1].chart) = Host(f[i].chart)
    BY <2>1 DEF Stack, CalledBelow
  <2>3. CASE i = Len(f)
    <3>0. f # <<>>
      BY <2>1
    <3>1. f # <<>> /\ Last(f) = f[i] /\ i + 1 = new
      BY <2>3, <3>0 DEF Last, new
    <3> QED BY <1>1, <1>2, <2>1, <2>2, <3>1
  <2>4. CASE i # Len(f)
    <3>1. i < Len(f) /\ i + 1 \in DOMAIN f
      BY <1>2, <2>1, <2>4
    <3> QED BY <1>2, <2>1, <2>2, <3>1
  <2> QED BY <2>3, <2>4
<1>7. OwnerWaits(h, g) /\ IdleIsIdle(h, g, ch, reg)
  <2>1. \A d \in Chart : Busy(d, h, g) => d = c \/ Busy(d, h, f)
    BY <1>1, <1>2, <1>3, <1>4 DEF Busy
  <2>2. \A i \in DOMAIN g : g[i].kind = "function" =>
          g[i].chart = c \/ (i \in DOMAIN f /\ f[i].kind = "function" /\ f[i].chart = g[i].chart)
    BY <1>1, <1>2
  <2> QED BY <2>1, <2>2, StackBusier
<1> QED BY <1>5, <1>6, <1>7 DEF Stack, g, fr

\* A dispatch begins, or a return resumes an owner.
LEMMA StackPushOther ==
  ASSUME NEW h, NEW f \in Seq(Frame), NEW ch, NEW reg, NEW fr \in Frame,
         Stack(h, f, ch, reg), fr.kind \in {"dispatch", "return"}, f # <<>> => Last(f).kind # "called"
  PROVE  /\ Stack(h, Append(f, fr), ch, reg)
         /\ \A c \in Chart : MayBeBusy(c, h, f, ch, reg) => MayBeBusy(c, h, Append(f, fr), ch, reg)
<1> DEFINE g == Append(f, fr)
           new == Len(f) + 1
<1>2. /\ DOMAIN f = 1..Len(f) /\ Len(f) \in Nat /\ DOMAIN g = DOMAIN f \cup {new} /\ g[new] = fr
      /\ Len(g) = new /\ \A i \in DOMAIN f : g[i] = f[i] /\ i # new
  OBVIOUS
<1> HIDE DEF g, new
<1>3. UnderWay(g) = UnderWay(f) /\ \A i \in UnderWay(f) : i \in DOMAIN f /\ g[i] = f[i]
  BY <1>2 DEF UnderWay
<1>4. \A c \in Chart : Busy(c, h, g) <=> Busy(c, h, f)
  BY <1>3 DEF Busy
<1>5. Functioning(h, g, ch)
  BY <1>3 DEF Stack, Functioning
<1>6. CalledBelow(g)
  <2> SUFFICES ASSUME NEW i \in DOMAIN g, g[i].kind = "called"
               PROVE  /\ Owner(g[i].chart) = 0
                      /\ i < Len(g) => g[i + 1].kind = "function" /\ Owner(g[i + 1].chart) = Host(g[i].chart)
    BY DEF CalledBelow
  <2>1. i \in DOMAIN f /\ g[i] = f[i]
    BY <1>2
  <2>2. /\ Owner(f[i].chart) = 0
        /\ i < Len(f) => f[i + 1].kind = "function" /\ Owner(f[i + 1].chart) = Host(f[i].chart)
    BY <2>1 DEF Stack, CalledBelow
  <2>3. i # Len(f)
    BY <1>2, <2>1 DEF Last
  <2>4. i < Len(f) /\ i + 1 \in DOMAIN f
    BY <1>2, <2>1, <2>3
  <2> QED BY <1>2, <2>1, <2>2, <2>4
<1>7. \A i \in DOMAIN g : g[i].kind = "function" => i \in DOMAIN f /\ g[i] = f[i]
  BY <1>2
<1>8. OwnerWaits(h, g)
  BY <1>4, <1>7 DEF Stack, OwnerWaits
<1>9. IdleIsIdle(h, g, ch, reg)
  BY <1>3 DEF Stack, IdleIsIdle, Busy
<1>10. \A c \in Chart : MayBeBusy(c, h, f, ch, reg) => MayBeBusy(c, h, g, ch, reg)
  BY <1>4, <1>7 DEF MayBeBusy
<1> QED BY <1>5, <1>6, <1>8, <1>9, <1>10 DEF Stack, g

\* A node goes to a list.
LEMMA StackWait ==
  ASSUME NEW h \in Homes, NEW f \in Seq(Frame), NEW ch, NEW reg, reg \subseteq Id, NEW c \in Chart, NEW a \in Id,
         Stack(h, f, ch, reg), MayBeBusy(c, h, f, ch, reg)
  PROVE  Stack([h EXCEPT ![c] = a], f, ch, reg)
<1> DEFINE h2 == [h EXCEPT ![c] = a]
<1>1. \A d \in Chart : h2[d] = IF d = c THEN a ELSE h[d]
  BY DEF Homes
<1> HIDE DEF h2
<1>2. \A i \in UnderWay(f) : f[i].chart # c
  BY DEF MayBeBusy, Busy
<1>3. Functioning(h2, f, ch) /\ CalledBelow(f)
  BY <1>1, <1>2 DEF Stack, Functioning
<1>4. \A d \in Chart : Busy(d, h2, f) => d = c \/ Busy(d, h, f)
  BY <1>1 DEF Busy
<1>5. OwnerWaits(h2, f) /\ IdleIsIdle(h2, f, ch, reg)
  BY <1>1, <1>4, StackBusier
<1> QED BY <1>3, <1>5 DEF Stack, h2

-----------------------------------------------------------------------------
(* The parts of the invariant.                                             *)

AgentsTyped ==
  /\ registered \in [Object -> Id \cup {0}]
  /\ status \in [Id -> {"none", "running", "destroying", "deleted"}]
  /\ lastId \in Id \cup {0} /\ armed \subseteq Id
  /\ dying \in [now : SUBSET Id, next : SUBSET Id]

NodesTyped ==
  /\ chart \in States /\ running \subseteq Chart
  /\ container \in Homes /\ waiting \in Lists

StepTyped == stepping \in BOOLEAN /\ inStep \in BOOLEAN
QueuesTyped == inQueue \in Seq(Id) /\ outQueue \in Seq(Id)
FramesTyped == frames \in Seq(Frame)

LEMMA Types == TypeOK <=> AgentsTyped /\ NodesTyped /\ StepTyped /\ QueuesTyped /\ FramesTyped
BY DEF TypeOK, AgentsTyped, NodesTyped, StepTyped, QueuesTyped, FramesTyped, Lists, Homes, States

\* What a lemma about a step begins with,
LEMMA Parts ==
  ASSUME LifecycleInvariant
  PROVE  /\ AgentsTyped /\ NodesTyped /\ StepTyped /\ QueuesTyped /\ FramesTyped
         /\ AgentsInvariant /\ ChartsInvariant
         /\ Linked(waiting, container, frames) /\ Stack(container, frames, chart, Registered)
         /\ Registered \subseteq Id
         /\ chart \in States /\ container \in Homes /\ waiting \in Lists /\ frames \in Seq(Frame)
<1>1. AgentsTyped /\ NodesTyped /\ StepTyped /\ QueuesTyped /\ FramesTyped
  BY Types DEF LifecycleInvariant
<1>2. Registered \subseteq Id
  BY <1>1 DEF AgentsTyped, Registered
<1> QED BY <1>1, <1>2 DEF LifecycleInvariant, NodesTyped, FramesTyped

\* and what it has to end with.
LEMMA PartsNext ==
  ASSUME AgentsTyped', NodesTyped', StepTyped', QueuesTyped', FramesTyped',
         AgentsInvariant', ChartsInvariant',
         Linked(waiting, container, frames)', Stack(container, frames, chart, Registered)'
  PROVE  LifecycleInvariant'
<1>1. TypeOK'
  BY DEF TypeOK, AgentsTyped, NodesTyped, StepTyped, QueuesTyped, FramesTyped, Lists, Homes, States
<1> QED BY <1>1 DEF LifecycleInvariant

\* What a step does not touch.
LEMMA AgentsStay ==
  ASSUME AgentsTyped, AgentsInvariant, UNCHANGED agents
  PROVE  AgentsTyped' /\ AgentsInvariant' /\ Registered' = Registered
BY DEF AgentsTyped, AgentsInvariant, agents, Alive, Registered

LEMMA NodesStay ==
  ASSUME NodesTyped, ChartsInvariant, UNCHANGED <<nodes, agents>>
  PROVE  NodesTyped' /\ ChartsInvariant'
BY DEF NodesTyped, ChartsInvariant, nodes, agents, Alive, Exists

LEMMA QueuesStay ==
  ASSUME QueuesTyped, UNCHANGED queues
  PROVE  QueuesTyped'
BY DEF QueuesTyped, queues

LEMMA StepStays ==
  ASSUME StepTyped, UNCHANGED step
  PROVE  StepTyped'
BY DEF StepTyped, step

-----------------------------------------------------------------------------
(* The frames when the game or a function calls.                           *)

\* The top of the stack of frames.
LEMMA TopFrame ==
  ASSUME FramesTyped, frames # <<>>
  PROVE  /\ Top \in Frame /\ Top = frames[Len(frames)] /\ Len(frames) \in DOMAIN frames
         /\ Top.left \in 0..MaxCalls /\ Top.list \in Seq(Chart) /\ Top.chart \in Chart \cup {<<0, 0>>}
         /\ DOMAIN frames = 1..Len(frames) /\ Len(frames) \in Nat
BY FrameParts DEF FramesTyped, Top, Last

\* A function that calls is that of a node in no list.
LEMMA TopFunction ==
  ASSUME LifecycleInvariant, InFunction
  PROVE  /\ Me \in Chart /\ Len(frames) \in UnderWay(frames) /\ Me = frames[Len(frames)].chart
         /\ container[Me] = 0 /\ chart[Me] # "none" /\ Top.list = <<>>
         /\ Top \in Frame /\ Top.kind = "function" /\ frames # <<>> /\ Top.left \in 0..MaxCalls
         /\ frames[Len(frames)] = Top /\ Len(frames) \in DOMAIN frames
         /\ Busy(Me, container, frames)
<1>1. frames # <<>> /\ Top.kind = "function"
  BY DEF InFunction
<1>2. Top \in Frame /\ Top = frames[Len(frames)] /\ Len(frames) \in DOMAIN frames /\ Top.left \in 0..MaxCalls
  BY <1>1, Parts, TopFrame
<1>3. Len(frames) \in UnderWay(frames) /\ Me = frames[Len(frames)].chart
  BY <1>1, <1>2 DEF UnderWay, Me
<1>4. Top.list = <<>>
  BY <1>1, <1>2, Parts DEF Linked
<1> QED BY <1>1, <1>2, <1>3, <1>4, Parts DEF Stack, Functioning, Busy

\* A call costs the function one of those left to it.
LEMMA Calling ==
  ASSUME LifecycleInvariant, CanCall
  PROVE  /\ Spent \in Seq(Frame) /\ Left \in 0..MaxCalls
         /\ Alike(frames, Spent) /\ Below(Spent, frames) /\ DOMAIN Spent = DOMAIN frames
         /\ \A i \in DOMAIN frames : Spent[i].kind = frames[i].kind /\ Spent[i].chart = frames[i].chart
         /\ Spent # <<>> => Last(Spent).kind = "function"
         /\ Linked(waiting, container, Spent) /\ Stack(container, Spent, chart, Registered)
<1>1. CASE frames = <<>>
  <2>1. Spent = frames /\ Left = MaxCalls
    BY <1>1 DEF Spent, Left
  <2>2. Alike(frames, frames) /\ Below(frames, frames)
    BY Parts DEF Alike, Below
  <2> QED BY <1>1, <2>1, <2>2, Parts, LifecycleAssumption DEF LifecycleAssumption
<1>2. CASE frames # <<>>
  <2> DEFINE less == [Top EXCEPT !.left = @ - 1]
  <2>1. InFunction /\ Top.left > 0
    BY <1>2 DEF CanCall
  <2>2. Top \in Frame /\ Top.kind = "function" /\ Top.left \in 0..MaxCalls /\ frames[Len(frames)] = Top
        /\ Len(frames) \in DOMAIN frames
    BY <2>1, TopFunction
  <2>3. Top.left - 1 \in 0..MaxCalls
    BY <2>1, <2>2, LifecycleAssumption DEF LifecycleAssumption
  <2>4. less \in Frame /\ less.kind = Top.kind /\ less.list = Top.list /\ less.chart = Top.chart
    BY <2>2, <2>3 DEF Frame
  <2>5. Spent = Append(Front(frames), less) /\ Left = Top.left - 1
    BY <1>2 DEF Spent, Left
  <2> HIDE DEF less
  <2>6. /\ Spent \in Seq(Frame) /\ Len(Spent) = Len(frames) /\ DOMAIN Spent = DOMAIN frames
        /\ Spent[Len(frames)] = less /\ \A i \in DOMAIN frames : i # Len(frames) => Spent[i] = frames[i]
    BY <1>2, <2>4, <2>5, Parts, LastReplaced
  <2>7. \A i \in DOMAIN frames : /\ Spent[i].kind = frames[i].kind /\ Spent[i].chart = frames[i].chart
                                 /\ Spent[i].list = frames[i].list
    BY <2>2, <2>4, <2>6
  <2>8. Alike(frames, Spent) /\ Below(Spent, frames)
    BY <2>6, <2>7, Parts DEF Alike, Below
  <2>9. Linked(waiting, container, Spent)
    BY <2>8, Parts, LinkedAlike
  <2>10. Stack(container, Spent, chart, Registered)
    <3>1. \A c \in Chart : container[c] \in {0, container[c]}
      OBVIOUS
    <3>2. \A i \in UnderWay(Spent) : chart[Spent[i].chart] # "none"
      BY <2>6, <2>7, Parts DEF UnderWay, Stack, Functioning
    <3>3. IdleIsIdle(container, Spent, chart, Registered)
      BY <2>8, <3>1, Parts, IdleShrinks DEF Stack
    <3> QED BY <2>6, <2>8, <3>1, <3>2, <3>3, Parts, StackShrinks
  <2>11. Last(Spent).kind = "function"
    BY <2>2, <2>4, <2>6 DEF Last
  <2> QED BY <2>3, <2>5, <2>6, <2>7, <2>8, <2>9, <2>10, <2>11
<1> QED BY <1>1, <1>2

\* Returns whose charts are deleted: everything else is as it was.
LEMMA DanglingFrames ==
  ASSUME NEW w, NEW h, NEW f \in Seq(Frame), NEW ch, NEW reg, reg \subseteq Id, NEW C,
         Linked(w, h, f), Stack(h, f, ch, reg)
  PROVE  LET g == Dangling(f, C)
         IN  /\ g \in Seq(Frame) /\ DOMAIN g = DOMAIN f /\ Len(g) = Len(f) /\ Below(g, f)
             /\ \A i \in DOMAIN f : /\ g[i].kind = f[i].kind /\ (f[i].kind # "return" => g[i] = f[i])
                                    /\ g[i].chart # Deleted => g[i].chart = f[i].chart /\ (f[i].kind = "return" => f[i].chart \notin C)
             /\ Linked(w, h, g) /\ Stack(h, g, ch, reg)
<1> DEFINE g == Dangling(f, C)
<1>1. LET fr == Return(Deleted) IN fr \in Frame /\ fr.kind = "return" /\ fr.list = <<>> /\ fr.chart = Deleted
  BY FrameParts
<1>2. DOMAIN g = DOMAIN f /\ \A i \in DOMAIN f : g[i] = IF f[i].kind = "return" /\ f[i].chart \in C THEN Return(Deleted) ELSE f[i]
  BY DEF Dangling
<1>3. \A i \in DOMAIN f : f[i] \in Frame /\ (f[i].kind = "return" => f[i].list = <<>>)
  BY DEF Linked
<1> HIDE DEF g
<1>4. \A i \in DOMAIN f : /\ g[i] \in Frame /\ g[i].kind = f[i].kind /\ g[i].list = f[i].list
                          /\ f[i].kind # "return" => g[i] = f[i]
                          /\ g[i].chart # Deleted => g[i].chart = f[i].chart /\ (f[i].kind = "return" => f[i].chart \notin C)
  BY <1>1, <1>2, <1>3
<1>5. DOMAIN f = 1..Len(f) /\ Len(f) \in Nat
  OBVIOUS
<1>6. g \in [1..Len(f) -> Frame]
  BY <1>2, <1>4, <1>5 DEF g, Dangling
<1>7. g \in Seq(Frame) /\ Len(g) = Len(f)
  BY <1>5, <1>6
<1>8. Alike(f, g) /\ Below(g, f)
  BY <1>2, <1>4, <1>5, <1>7 DEF Alike, Below
<1>9. Linked(w, h, g)
  BY <1>8, LinkedAlike
<1>10. Stack(h, g, ch, reg)
  <2>1. \A c \in Chart : h[c] \in {0, h[c]}
    OBVIOUS
  <2>2. \A i \in UnderWay(g) : ch[g[i].chart] # "none"
    BY <1>2, <1>4 DEF UnderWay, Stack, Functioning
  <2>3. IdleIsIdle(h, g, ch, reg)
    BY <1>8, <2>1, IdleShrinks DEF Stack
  <2> QED BY <1>7, <1>8, <2>1, <2>2, <2>3, StackShrinks
<1> QED BY <1>2, <1>4, <1>7, <1>8, <1>9, <1>10 DEF g

\* The nodes of S leave their lists, and charts of S may be stopped or deleted.
LEMMA Unlinking ==
  ASSUME NEW f \in Seq(Frame), NEW S, NEW ch, NEW reg, reg \subseteq Id,
         waiting \in Lists, container \in Homes,
         Linked(waiting, container, f), Stack(container, f, chart, Registered),
         \A i \in UnderWay(f) : ch[f[i].chart] # "none",
         \A a \in reg : ch[Attached(a)] = "idle" =>
           \/ a \in Registered /\ chart[Attached(a)] = "idle"
           \/ /\ ~ Busy(Attached(a), Homeless(S), f)
              /\ \A c \in Chart : Owner(c) = a => ~ Busy(c, Homeless(S), f)
  PROVE  /\ Unlinked(S) \in Lists /\ Homeless(S) \in Homes /\ UnlinkedFrames(f, S) \in Seq(Frame)
         /\ Linked(Unlinked(S), Homeless(S), UnlinkedFrames(f, S))
         /\ Stack(Homeless(S), UnlinkedFrames(f, S), ch, reg)
<1> DEFINE g == UnlinkedFrames(f, S)
           h == Homeless(S)
<1>1. Unlinked(S) = Off(waiting, S) /\ Homeless(S) = HomelessIn(container, S)
  BY DEF Unlinked, Off, Homeless, HomelessIn
<1>2. Unlinked(S) \in Lists /\ h \in Homes /\ Linked(Unlinked(S), h, g)
  BY <1>1, LinkedUnlink
<1>3. g \in Seq(Frame) /\ DOMAIN g = DOMAIN f /\ Len(g) = Len(f)
      /\ \A i \in DOMAIN f : g[i].kind = f[i].kind /\ g[i].chart = f[i].chart
  BY FramesUnlinked
<1>4. Below(g, f)
  BY <1>3 DEF Below
<1>5. \A c \in Chart : h[c] \in {0, container[c]}
  BY DEF Homeless
<1>6. IdleIsIdle(h, g, ch, reg)
  <2> SUFFICES ASSUME NEW a \in reg, ch[Attached(a)] = "idle"
               PROVE  ~ Busy(Attached(a), h, g) /\ \A c \in Chart : Owner(c) = a => ~ Busy(c, h, g)
    BY DEF IdleIsIdle
  <2>1. Attached(a) \in Chart
    BY ChartNames
  <2>2. \A c \in Chart : Busy(c, h, g) => Busy(c, container, f)
    BY <1>4, <1>5, BusyShrinks
  <2>3. \A c \in Chart : Busy(c, h, g) => Busy(c, h, f)
    BY <1>3 DEF Busy, UnderWay
  <2> QED BY <2>1, <2>2, <2>3 DEF Stack, IdleIsIdle
<1> HIDE DEF g, h
<1>7. \A i \in UnderWay(g) : ch[g[i].chart] # "none"
  BY <1>3 DEF UnderWay
<1>8. Stack(h, g, ch, reg)
  BY <1>3, <1>4, <1>5, <1>6, <1>7, StackShrinks
<1> QED BY <1>2, <1>3, <1>8 DEF g, h

-----------------------------------------------------------------------------
(* What the game and the functions call.                                   *)

\* AgentManager::Register.
LEMMA RegisterStep ==
  ASSUME LifecycleInvariant, NEW o \in Object, Register(o)
  PROVE  LifecycleInvariant'
<1> DEFINE a == lastId + 1
<1>1. /\ CanCall /\ frames' = Spent /\ registered[o] = 0 /\ lastId < MaxId /\ lastId' = a
      /\ registered' = [registered EXCEPT ![o] = a] /\ status' = [status EXCEPT ![a] = "running"]
      /\ armed' = armed \cup {a} /\ UNCHANGED <<dying, nodes, step, queues>>
  BY DEF Register, Calls
<1>2. a \in Id /\ a > lastId /\ status[a] = "none" /\ a # 0
  BY <1>1, Parts, LifecycleAssumption DEF LifecycleAssumption, Id, AgentsInvariant, AgentsTyped
<1>3. AgentsTyped'
  BY <1>1, <1>2, Parts DEF AgentsTyped
<1>4. \A b \in Id : status'[b] = IF b = a THEN "running" ELSE status[b]
  BY <1>1, Parts DEF AgentsTyped
<1>5. \A p \in Object : registered'[p] = IF p = o THEN a ELSE registered[p]
  BY <1>1, Parts DEF AgentsTyped
<1>6. Registered' = Registered \cup {a} /\ a \notin Registered
  BY <1>1, <1>2, <1>5, Parts DEF Registered, AgentsInvariant
<1>7. AgentsInvariant'
  <2>1. \A b \in Id : status'[b] = "none" <=> b > lastId'
    <3>1. \A b \in Id : b > lastId + 1 <=> b > lastId /\ b # a
      BY <1>2, Parts, LifecycleAssumption DEF LifecycleAssumption, Id, AgentsTyped
    <3> QED BY <1>1, <1>2, <1>4, <3>1, Parts DEF AgentsInvariant
  <2>2. \A b \in Registered' : status'[b] = "running"
    BY <1>2, <1>4, <1>6, Parts DEF AgentsInvariant
  <2>3. \A p, q \in Object : registered'[p] # 0 /\ registered'[p] = registered'[q] => p = q
    <3>1. \A p \in Object : registered[p] # a
      BY <1>2, <1>6 DEF Registered
    <3> QED BY <1>5, <3>1, Parts DEF AgentsInvariant
  <2>4. \A b \in armed' : Alive(b)'
    BY <1>1, <1>2, <1>4, Parts DEF AgentsInvariant, AgentsTyped, Alive
  <2>5. \A b \in dying.now \cup dying.next : status'[b] = "destroying" /\ b \in Id
    BY <1>2, <1>4, Parts DEF AgentsInvariant, AgentsTyped
  <2> QED BY <1>1, <2>1, <2>2, <2>3, <2>4, <2>5, Parts DEF AgentsInvariant
<1>8. NodesTyped'
  BY <1>1, Parts DEF NodesTyped, nodes
<1>9. ChartsInvariant'
  <2>1. \A b \in Id : Alive(b) => Alive(b)'
    BY <1>4 DEF Alive
  <2>2. \A c \in Chart : Host(c) \in Id
    BY ChartNames
  <2>3. UNCHANGED <<chart, container>>
    BY <1>1 DEF nodes
  <2>4. \A c \in Chart : container[c] # 0 => container[c] \in Id
    BY Parts DEF Homes
  <2> QED BY <1>4, <2>1, <2>2, <2>3, <2>4, Parts DEF ChartsInvariant, Exists
<1>11. UNCHANGED <<chart, container, waiting>>
  BY <1>1 DEF nodes
<1>12. Stack(container, frames, chart, Registered)'
  <2>1. Stack(container, Spent, chart, Registered) /\ Spent \in Seq(Frame)
    BY <1>1, Calling
  <2>2. ~ Exists(Attached(a)) /\ \A c \in Chart : Owner(c) = a => ~ Exists(c)
    <3>1. Attached(a) \in Chart /\ Host(Attached(a)) = a
      BY <1>2, ChartNames
    <3>2. ~ Exists(Attached(a))
      BY <1>2, <3>1, Parts DEF ChartsInvariant, Alive
    <3> QED BY <1>2, <3>2, Parts DEF ChartsInvariant
  <2>3. \A b \in Registered' : chart[Attached(b)] = "idle" => b \in Registered
    BY <1>6, <2>2 DEF Exists
  <2>4. IdleIsIdle(container, Spent, chart, Registered')
    BY <2>1, <2>3 DEF Stack, IdleIsIdle
  <2> QED BY <1>1, <1>11, <2>1, <2>4 DEF Stack
<1>13. Linked(waiting, container, frames)' /\ FramesTyped'
  BY <1>1, <1>11, Calling DEF FramesTyped
<1>14. StepTyped' /\ QueuesTyped'
  BY <1>1, Parts, StepStays, QueuesStay
<1> QED BY <1>3, <1>7, <1>8, <1>9, <1>12, <1>13, <1>14, PartsNext

\* The charts of a set and their subcharts exist.
LEMMA SubchartsExist ==
  ASSUME NEW C \in SUBSET Chart, \A c \in C : Exists(c)
  PROVE  /\ WithSubcharts(C) \subseteq Chart /\ C \subseteq WithSubcharts(C)
         /\ \A c \in WithSubcharts(C) : Exists(c)
         /\ \A c \in WithSubcharts(C) \ C : Owner(c) # 0 /\ Attached(Owner(c)) \in C
         /\ \A c \in Chart : Exists(c) /\ Owner(c) # 0 /\ Attached(Owner(c)) \in C => c \in WithSubcharts(C)
BY DEF WithSubcharts, Exists

\* Manager::UnregisterGameObject.
LEMMA UnregisterStep ==
  ASSUME LifecycleInvariant, NEW o \in Object, Unregister(o)
  PROVE  LifecycleInvariant'
<1> DEFINE a == registered[o]
           S == WithSubcharts(Charts({a}))
<1>1. /\ CanCall /\ a # 0 /\ StopCharts(Charts({a}), Spent)
      /\ status' = [status EXCEPT ![a] = "destroying"] /\ AddDyingAgent(a)
      /\ registered' = [registered EXCEPT ![o] = 0] /\ UNCHANGED <<lastId, armed, step, queues>>
  BY DEF Unregister
<1>2. a \in Id /\ a \in Registered /\ status[a] = "running"
  BY <1>1, Parts DEF AgentsTyped, Registered, AgentsInvariant
<1>3. \A b \in Id : status'[b] = IF b = a THEN "destroying" ELSE status[b]
  BY <1>1, Parts DEF AgentsTyped
<1>4. \A p \in Object : registered'[p] = IF p = o THEN 0 ELSE registered[p]
  BY <1>1, Parts DEF AgentsTyped
<1>5. dying' \in [now : SUBSET Id, next : SUBSET Id]
      /\ dying'.now \cup dying'.next = dying.now \cup dying.next \cup {a}
      /\ dying'.now \cap dying'.next \subseteq (dying.now \cap dying.next) \cup ({a} \cap (dying.now \cup dying.next))
  <2>1. CASE inStep
    <3>1. dying' = [now |-> dying.now, next |-> dying.next \cup {a}]
      BY <1>1, <2>1, Parts DEF AddDyingAgent, AgentsTyped
    <3> QED BY <1>2, <3>1, Parts DEF AgentsTyped
  <2>2. CASE ~ inStep
    <3>1. dying' = [now |-> dying.now \cup {a}, next |-> dying.next]
      BY <1>1, <2>2, Parts DEF AddDyingAgent, AgentsTyped
    <3> QED BY <1>2, <3>1, Parts DEF AgentsTyped
  <2> QED BY <2>1, <2>2
<1>6. AgentsTyped'
  BY <1>1, <1>2, <1>5, Parts DEF AgentsTyped
<1>7. Registered' = Registered \ {a}
  BY <1>1, <1>4, Parts DEF Registered, AgentsInvariant
<1>8. AgentsInvariant'
  <2>1. \A b \in Id : status'[b] = "none" <=> b > lastId'
    BY <1>1, <1>2, <1>3, Parts DEF AgentsInvariant
  <2>2. \A b \in Registered' : status'[b] = "running"
    BY <1>3, <1>7, Parts DEF AgentsInvariant
  <2>3. \A p, q \in Object : registered'[p] # 0 /\ registered'[p] = registered'[q] => p = q
    BY <1>4, Parts DEF AgentsInvariant
  <2>4. \A b \in armed' : Alive(b)'
    BY <1>1, <1>3, Parts DEF AgentsInvariant, AgentsTyped, Alive
  <2>5. \A b \in dying.now \cup dying.next \cup {a} : status'[b] = "destroying"
    BY <1>2, <1>3, Parts DEF AgentsInvariant, AgentsTyped
  <2>6. a \notin dying.now \cup dying.next
    BY <1>2, Parts DEF AgentsInvariant
  <2>7. dying'.now \cap dying'.next = {}
    BY <1>5, <2>6, Parts DEF AgentsInvariant
  <2> QED BY <1>5, <2>1, <2>2, <2>3, <2>4, <2>5, <2>7 DEF AgentsInvariant
<1>9. Charts({a}) \subseteq Chart /\ (\A c \in Charts({a}) : Exists(c))
      /\ \A c \in Chart : Exists(c) /\ Host(c) = a => c \in Charts({a})
  BY DEF Charts, Exists
<1>10. /\ S \subseteq Chart /\ Charts({a}) \subseteq S /\ \A c \in S : Exists(c)
       /\ \A c \in S \ Charts({a}) : Owner(c) # 0 /\ Attached(Owner(c)) \in Charts({a})
  BY <1>9, SubchartsExist
<1>11. /\ chart' = [c \in Chart |-> IF c \in S THEN "idle" ELSE chart[c]]
       /\ running' = running \ S
       /\ waiting' = Unlinked(S) /\ container' = Homeless(S) /\ frames' = UnlinkedFrames(Spent, S)
  BY <1>1 DEF StopCharts, Rest
<1> HIDE DEF S, a
<1>12. \A c \in Chart : /\ chart'[c] = IF c \in S THEN "idle" ELSE chart[c]
                        /\ container'[c] = IF c \in S THEN 0 ELSE container[c]
  BY <1>11 DEF Homeless
<1>13. /\ waiting' \in Lists /\ container' \in Homes /\ frames' \in Seq(Frame)
       /\ Linked(waiting', container', frames') /\ Stack(container', frames', chart', Registered')
  <2>1. /\ Spent \in Seq(Frame) /\ Linked(waiting, container, Spent)
        /\ Stack(container, Spent, chart, Registered)
    BY <1>1, Calling
  <2>2. \A i \in UnderWay(Spent) : chart'[Spent[i].chart] # "none"
    BY <1>12, <2>1 DEF Stack, Functioning
  <2>3. \A b \in Registered' : chart'[Attached(b)] = "idle" => b \in Registered /\ chart[Attached(b)] = "idle"
    <3> SUFFICES ASSUME NEW b \in Registered', chart'[Attached(b)] = "idle"
                 PROVE  b \in Registered /\ chart[Attached(b)] = "idle"
      OBVIOUS
    <3>1. b \in Registered /\ b # a /\ b \in Id
      BY <1>7, Parts
    <3>2. Attached(b) \in Chart /\ Host(Attached(b)) = b /\ Owner(Attached(b)) = 0
      BY <3>1, ChartNames
    <3>3. Attached(b) \notin S
      BY <1>10, <3>1, <3>2 DEF Charts
    <3> QED BY <1>12, <3>1, <3>2, <3>3
  <2>4. Registered' \subseteq Id
    BY <1>7, Parts
  <2> DEFINE g == Spent
  <2>5. /\ g \in Seq(Frame) /\ Linked(waiting, container, g) /\ Stack(container, g, chart, Registered)
        /\ frames' = UnlinkedFrames(g, S) /\ \A i \in UnderWay(g) : chart'[g[i].chart] # "none"
    BY <1>11, <2>1, <2>2
  <2> HIDE DEF g
  <2>6. \A b \in Registered' : chart'[Attached(b)] = "idle" =>
          \/ b \in Registered /\ chart[Attached(b)] = "idle"
          \/ /\ ~ Busy(Attached(b), Homeless(S), g)
             /\ \A c \in Chart : Owner(c) = b => ~ Busy(c, Homeless(S), g)
    BY <2>3
  <2>7. /\ Unlinked(S) \in Lists /\ Homeless(S) \in Homes /\ UnlinkedFrames(g, S) \in Seq(Frame)
        /\ Linked(Unlinked(S), Homeless(S), UnlinkedFrames(g, S))
        /\ Stack(Homeless(S), UnlinkedFrames(g, S), chart', Registered')
    BY <2>4, <2>5, <2>6, Parts, Unlinking
  <2> QED BY <1>11, <2>5, <2>7
<1>14. NodesTyped'
  BY <1>10, <1>11, <1>13, Parts DEF NodesTyped, States, Homes
<1>15. \A c \in Chart : Exists(c)' <=> Exists(c)
  BY <1>10, <1>12 DEF Exists
<1>16. \A b \in Id : Alive(b) => Alive(b)'
  BY <1>3 DEF Alive
<1>17. ChartsInvariant'
  <2>1. \A c \in Chart : Exists(c)' => Alive(Host(c))' /\ (Owner(c) # 0 => Exists(Attached(Owner(c)))')
    BY <1>15, <1>16, Parts, ChartNames DEF ChartsInvariant
  <2>2. \A c \in Chart : chart'[c] = "running" => status'[Host(c)] = "running"
    <3>1. \A c \in Chart : chart'[c] = "running" => chart[c] = "running" /\ Host(c) # a
      BY <1>9, <1>10, <1>12 DEF Exists
    <3> QED BY <1>3, <3>1, Parts, ChartNames DEF ChartsInvariant
  <2>3. (\A c \in Chart : container[c] # 0 => Exists(c) /\ Alive(container[c]))'
    <3>1. \A c \in Chart : container'[c] # 0 => container'[c] = container[c] /\ container[c] \in Id
      BY <1>12, Parts DEF Homes
    <3> QED BY <1>15, <1>16, <3>1, Parts DEF ChartsInvariant, Alive
  <2> QED BY <2>1, <2>2, <2>3 DEF ChartsInvariant
<1>19. FramesTyped' /\ Linked(waiting, container, frames)' /\ Stack(container, frames, chart, Registered)'
  BY <1>13 DEF FramesTyped
<1>20. StepTyped' /\ QueuesTyped'
  BY <1>1, Parts, StepStays, QueuesStay
<1> QED BY <1>6, <1>8, <1>14, <1>17, <1>19, <1>20, PartsNext

\* Manager::Event.
LEMMA RaiseStep ==
  ASSUME LifecycleInvariant, NEW o \in Object, Raise(o)
  PROVE  LifecycleInvariant'
<1>1. /\ CanCall /\ frames' = Spent /\ registered[o] # 0 /\ outQueue' = Append(outQueue, registered[o])
      /\ UNCHANGED <<agents, nodes, step, inQueue>>
  BY DEF Raise, Calls
<1>2. registered[o] \in Id
  BY <1>1, Parts DEF AgentsTyped
<1>3. QueuesTyped'
  BY <1>1, <1>2, Parts DEF QueuesTyped
<1>4. AgentsTyped' /\ AgentsInvariant' /\ Registered' = Registered
  BY <1>1, Parts, AgentsStay
<1>5. NodesTyped' /\ ChartsInvariant'
  BY <1>1, Parts, NodesStay
<1>6. FramesTyped' /\ Linked(waiting, container, frames)' /\ Stack(container, frames, chart, Registered)'
  BY <1>1, <1>4, Calling DEF FramesTyped, nodes
<1>7. StepTyped'
  BY <1>1, Parts, StepStays
<1> QED BY <1>3, <1>4, <1>5, <1>6, <1>7, PartsNext

\* Agent::AttachChart.
LEMMA AttachStep ==
  ASSUME LifecycleInvariant, NEW o \in Object, Attach(o)
  PROVE  LifecycleInvariant'
<1> DEFINE a == registered[o]
           new == Attached(a)
<1>1. /\ CanCall /\ frames' = Spent /\ a # 0 /\ chart[new] = "none"
      /\ chart' = [chart EXCEPT ![new] = "idle"]
      /\ UNCHANGED <<agents, running, container, waiting, step, queues>>
  BY DEF Attach, Calls
<1>2. a \in Id /\ a \in Registered /\ status[a] = "running"
  BY <1>1, Parts DEF AgentsTyped, Registered, AgentsInvariant
<1>3. new \in Chart /\ Host(new) = a /\ Owner(new) = 0
  BY <1>2, ChartNames
<1>4. \A c \in Chart : chart'[c] = IF c = new THEN "idle" ELSE chart[c]
  BY <1>1, Parts DEF States
<1> HIDE DEF new, a
<1>5. AgentsTyped' /\ AgentsInvariant' /\ Registered' = Registered
  BY <1>1, Parts, AgentsStay
<1>6. NodesTyped'
  BY <1>1, <1>3, Parts DEF NodesTyped, States
<1>7. UNCHANGED status
  BY <1>1 DEF agents
<1>8. ChartsInvariant'
  <2>1. \A c \in Chart : Exists(c)' => Alive(Host(c))' /\ (Owner(c) # 0 => Exists(Attached(Owner(c)))')
    BY <1>2, <1>3, <1>4, <1>7, Parts, ChartNames DEF ChartsInvariant, Exists, Alive
  <2>2. \A c \in Chart : chart'[c] = "running" => status'[Host(c)] = "running"
    BY <1>4, <1>7, Parts DEF ChartsInvariant
  <2>3. (\A c \in Chart : container[c] # 0 => Exists(c) /\ Alive(container[c]))'
    BY <1>1, <1>4, <1>7, Parts DEF ChartsInvariant, Exists, Alive
  <2> QED BY <2>1, <2>2, <2>3 DEF ChartsInvariant
<1>10. Stack(container, Spent, chart', Registered)
  <2>1. Stack(container, Spent, chart, Registered) /\ Spent \in Seq(Frame)
    BY <1>1, Calling
  <2>2. Functioning(container, Spent, chart')
    BY <1>4, <2>1 DEF Stack, Functioning
  <2>3. \A c \in Chart : Busy(c, container, Spent) => Exists(c)
    BY <2>1, Parts DEF Stack, Functioning, Busy, ChartsInvariant, Exists
  <2>4. \A c \in Chart : Owner(c) = a => ~ Exists(c)
    BY <1>1, <1>2, ChartNames, Parts DEF ChartsInvariant, Exists, new
  <2>5. IdleIsIdle(container, Spent, chart', Registered)
    <3> SUFFICES ASSUME NEW b \in Registered, chart'[Attached(b)] = "idle"
                 PROVE  /\ ~ Busy(Attached(b), container, Spent)
                        /\ \A c \in Chart : Owner(c) = b => ~ Busy(c, container, Spent)
      BY DEF IdleIsIdle
    <3>1. b \in Id /\ Attached(b) \in Chart /\ Host(Attached(b)) = b
      BY Parts, ChartNames
    <3>2. CASE b = a
      BY <1>1, <1>3, <2>3, <2>4, <3>2 DEF new, Exists
    <3>3. CASE b # a
      BY <1>3, <1>4, <2>1, <3>1, <3>3 DEF Stack, IdleIsIdle
    <3> QED BY <3>2, <3>3
  <2> QED BY <2>1, <2>2, <2>5 DEF Stack
<1>11. FramesTyped' /\ Linked(waiting, container, frames)' /\ Stack(container, frames, chart, Registered)'
  BY <1>1, <1>5, <1>10, Calling DEF FramesTyped
<1>12. StepTyped' /\ QueuesTyped'
  BY <1>1, Parts, StepStays, QueuesStay
<1> QED BY <1>5, <1>6, <1>8, <1>11, <1>12, PartsNext

\* A node that goes to the list of a living agent, which it waits for, is Running.
LEMMA WaitNext ==
  ASSUME LifecycleInvariant, NEW c \in Chart, NEW a \in Registered, WaitIn(c, a), container[c] = 0,
         chart[c] # "none", UNCHANGED agents,
         \/ UNCHANGED chart
         \/ Owner(c) = 0 /\ Host(c) = a /\ chart' = [chart EXCEPT ![c] = "running"],
         NEW f \in Seq(Frame), Linked(waiting, container, f), Stack(container, f, chart, Registered),
         MayBeBusy(c, container, f, chart', Registered)
  PROVE  /\ AgentsTyped' /\ AgentsInvariant' /\ NodesTyped' /\ ChartsInvariant'
         /\ Linked(waiting', container', f) /\ Stack(container', f, chart', Registered')
<1>1. /\ waiting' = [Off(waiting, {c}) EXCEPT ![a] = Append(@, c)]
      /\ container' = [container EXCEPT ![c] = a] /\ running' = running \cup {c}
  BY DEF WaitIn, Unlinked, Off
<1>2. a \in Id /\ status[a] = "running" /\ a # 0
  BY Parts, ChartNames DEF AgentsInvariant
<1>3. AgentsTyped' /\ AgentsInvariant' /\ Registered' = Registered /\ UNCHANGED status
  BY Parts, AgentsStay DEF agents
<1>4. waiting' \in Lists /\ container' \in Homes /\ Linked(waiting', container', f)
  BY <1>1, <1>2, Parts, LinkedWait
<1>5. \A d \in Chart : container'[d] = (IF d = c THEN a ELSE container[d])
  BY <1>1, Parts DEF Homes, NodesTyped
<1>6. chart' \in States /\ \A d \in Chart : /\ chart'[d] # chart[d] => d = c /\ chart'[d] = "running" /\ Host(c) = a
                                            /\ chart[d] # "none" <=> chart'[d] # "none"
  BY Parts DEF States
<1>7. NodesTyped'
  BY <1>1, <1>2, <1>4, <1>6, Parts DEF NodesTyped, Homes
<1>8. ChartsInvariant'
  <2>1. \A d \in Chart : Exists(d)' => Alive(Host(d))' /\ (Owner(d) # 0 => Exists(Attached(Owner(d)))')
    <3>1. \A d \in Chart : Owner(d) # 0 => Attached(Owner(d)) \in Chart
      BY ChartNames
    <3> QED BY <1>3, <1>6, <3>1, Parts DEF ChartsInvariant, Exists, Alive
  <2>2. \A d \in Chart : chart'[d] = "running" => status'[Host(d)] = "running"
    BY <1>2, <1>3, <1>6, Parts DEF ChartsInvariant
  <2>3. (\A d \in Chart : container[d] # 0 => Exists(d) /\ Alive(container[d]))'
    BY <1>2, <1>3, <1>5, <1>6, Parts DEF ChartsInvariant, Exists, Alive
  <2> QED BY <2>1, <2>2, <2>3 DEF ChartsInvariant
<1>10. Stack(container', f, chart', Registered')
  <2>1. Functioning(container, f, chart')
    BY <1>6 DEF Stack, Functioning
  <2>2. IdleIsIdle(container, f, chart', Registered)
    <3>1. \A b \in Registered : Attached(b) \in Chart
      BY Parts, ChartNames
    <3> QED BY <1>6, <3>1 DEF Stack, IdleIsIdle
  <2>3. Stack(container, f, chart', Registered)
    BY <2>1, <2>2 DEF Stack
  <2> QED BY <1>1, <1>2, <1>3, <2>3, Parts, StackWait
<1> QED BY <1>3, <1>4, <1>7, <1>8, <1>10

\* Agent::StartChart.
LEMMA StartChartStep ==
  ASSUME LifecycleInvariant, NEW o \in Object, StartChart(o)
  PROVE  LifecycleInvariant'
<1> DEFINE a == registered[o]
           c == Attached(a)
<1>1. /\ CanCall /\ frames' = Spent /\ a # 0 /\ chart[c] = "idle"
      /\ chart' = [chart EXCEPT ![c] = "running"] /\ WaitIn(c, a)
      /\ outQueue' = Append(outQueue, a) /\ UNCHANGED <<agents, step, inQueue>>
  BY DEF StartChart, Calls
<1>2. a \in Id /\ a \in Registered
  BY <1>1, Parts DEF AgentsTyped, Registered
<1>3. c \in Chart /\ Host(c) = a /\ Owner(c) = 0
  BY <1>2, ChartNames
<1> HIDE DEF a, c
<1>4. Spent \in Seq(Frame) /\ Linked(waiting, container, Spent) /\ Stack(container, Spent, chart, Registered)
  BY <1>1, Calling
<1>5. MayBeBusy(c, container, Spent, chart', Registered)
  <2>1. ~ Busy(c, container, Spent) /\ \A d \in Chart : Owner(d) = a => ~ Busy(d, container, Spent)
    BY <1>1, <1>2, <1>4 DEF Stack, IdleIsIdle, c
  <2>2. ASSUME NEW b \in Registered, chart'[Attached(b)] = "idle" PROVE c # Attached(b) /\ Owner(c) # b
    <3>1. chart'[c] = "running"
      BY <1>1, <1>3, Parts DEF States
    <3>2. b \in Id
      BY Parts
    <3> QED BY <1>3, <2>2, <3>1, <3>2, ChartNames
  <2> QED BY <1>3, <2>1, <2>2 DEF MayBeBusy
<1>6. container[c] = 0 /\ chart[c] # "none"
  BY <1>1, <1>5 DEF MayBeBusy, Busy
<1>7. /\ AgentsTyped' /\ AgentsInvariant' /\ NodesTyped' /\ ChartsInvariant'
      /\ Linked(waiting', container', Spent) /\ Stack(container', Spent, chart', Registered')
  BY <1>1, <1>2, <1>3, <1>4, <1>5, <1>6, WaitNext
<1>8. QueuesTyped' /\ StepTyped'
  BY <1>1, <1>2, Parts, StepStays DEF QueuesTyped
<1>9. FramesTyped' /\ Linked(waiting, container, frames)' /\ Stack(container, frames, chart, Registered)'
  BY <1>1, <1>4, <1>7 DEF FramesTyped
<1> QED BY <1>7, <1>8, <1>9, PartsNext

\* A dispatch begins over frames that no called function tops.
LEMMA TakeNext ==
  ASSUME LifecycleInvariant, NEW a \in Id, NEW n \in 0..MaxCalls,
         NEW f \in Seq(Frame), Linked(waiting, container, f), Stack(container, f, chart, Registered),
         f # <<>> => Last(f).kind # "called",
         waiting' = [waiting EXCEPT ![a] = <<>>], frames' = Append(f, Dispatch(waiting[a], n)),
         UNCHANGED <<agents, chart, running, container>>
  PROVE  /\ AgentsTyped' /\ AgentsInvariant' /\ NodesTyped' /\ ChartsInvariant' /\ FramesTyped'
         /\ Linked(waiting, container, frames)' /\ Stack(container, frames, chart, Registered)'
<1>1. AgentsTyped' /\ AgentsInvariant' /\ Registered' = Registered
  BY Parts, AgentsStay
<1>2. waiting' \in Lists /\ frames' \in Seq(Frame) /\ Linked(waiting', container', frames')
  BY Parts, LinkedTake
<1>3. NodesTyped'
  BY <1>2, Parts DEF NodesTyped
<1>4. ChartsInvariant'
  BY Parts DEF ChartsInvariant, agents, Alive, Exists
<1>5. LET fr == Dispatch(waiting[a], n) IN fr \in Frame /\ fr.kind = "dispatch"
  BY Parts, FrameParts DEF Lists
<1>6. Stack(container, Append(f, Dispatch(waiting[a], n)), chart, Registered)
  BY <1>5, StackPushOther
<1> QED BY <1>1, <1>2, <1>3, <1>4, <1>6 DEF FramesTyped

\* Manager::TriggerEvent.
LEMMA TriggerStep ==
  ASSUME LifecycleInvariant, NEW o \in Object, Trigger(o)
  PROVE  LifecycleInvariant'
<1> DEFINE a == registered[o]
<1>1. /\ CanCall /\ a # 0 /\ waiting' = [waiting EXCEPT ![a] = <<>>]
      /\ frames' = Append(Spent, Dispatch(waiting[a], Left))
      /\ UNCHANGED <<agents, chart, running, container, step, queues>>
  BY DEF Trigger
<1>2. a \in Id
  BY <1>1, Parts DEF AgentsTyped
<1>3. /\ Spent \in Seq(Frame) /\ Left \in 0..MaxCalls /\ (Spent # <<>> => Last(Spent).kind # "called")
      /\ Linked(waiting, container, Spent) /\ Stack(container, Spent, chart, Registered)
  BY <1>1, Calling
<1>4. StepTyped' /\ QueuesTyped'
  BY <1>1, Parts, StepStays, QueuesStay
<1> HIDE DEF a
<1>5. /\ AgentsTyped' /\ AgentsInvariant' /\ NodesTyped' /\ ChartsInvariant' /\ FramesTyped'
      /\ Linked(waiting, container, frames)' /\ Stack(container, frames, chart, Registered)'
  BY <1>1, <1>2, <1>3, TakeNext
<1> QED BY <1>4, <1>5, PartsNext

\* The subcharts of a chart without an owner are those of its node, and another
\* chart has none.
LEMMA SubchartsOf ==
  ASSUME NEW c \in Chart
  PROVE  \A d \in WithSubcharts({c}) : d = c \/ (Owner(c) = 0 /\ Owner(d) # 0 /\ Attached(Owner(d)) = c)
BY ChartNames DEF WithSubcharts

\* Agent::RemoveChart.
LEMMA RemoveStep ==
  ASSUME LifecycleInvariant, ~ InUseToo, NEW o \in Object, Remove(o)
  PROVE  LifecycleInvariant'
<1> DEFINE top == Attached(registered[o])
           S == WithSubcharts({top})
<1>0. /\ CanCall /\ registered[o] # 0 /\ MayStop(AttachedTo(o)) /\ DeleteCharts(AttachedTo(o), Spent)
      /\ UNCHANGED <<agents, step, queues>>
  BY DEF Remove
<1>01. AttachedTo(o) = {top} /\ chart[top] # "none"
  BY <1>0 DEF MayStop, AttachedTo, Charts
<1>1. /\ CanCall /\ registered[o] # 0 /\ chart[top] # "none" /\ S \cap InUse = {}
      /\ chart' = [c \in Chart |-> IF c \in S THEN "none" ELSE chart[c]]
      /\ running' = running \ S
      /\ waiting' = Unlinked(S) /\ container' = Homeless(S) /\ frames' = Dangling(UnlinkedFrames(Spent, S), S)
      /\ UNCHANGED <<agents, step, queues>>
  BY <1>0, <1>01 DEF MayStop, DeleteCharts, Rest
<1>2. top \in Chart /\ Owner(top) = 0
  BY <1>1, Parts, ChartNames DEF AgentsTyped
<1>3. /\ S \subseteq Chart /\ top \in S
      /\ \A c \in Chart : Exists(c) /\ Owner(c) # 0 /\ Attached(Owner(c)) = top => c \in S
  BY <1>2, ChartNames DEF WithSubcharts, Exists
<1>4. \A c \in S : c = top \/ (Owner(c) # 0 /\ Attached(Owner(c)) = top)
  BY <1>2, SubchartsOf
<1> HIDE DEF S, top
<1>5. AgentsTyped' /\ AgentsInvariant' /\ Registered' = Registered /\ UNCHANGED status
  BY <1>1, Parts, AgentsStay DEF agents
<1>6. \A c \in Chart : /\ chart'[c] = IF c \in S THEN "none" ELSE chart[c]
                       /\ container'[c] = IF c \in S THEN 0 ELSE container[c]
  BY <1>1 DEF Homeless
<1>7. /\ waiting' \in Lists /\ container' \in Homes /\ frames' \in Seq(Frame)
      /\ Linked(waiting', container', frames') /\ Stack(container', frames', chart', Registered')
  <2>1. /\ Spent \in Seq(Frame) /\ Linked(waiting, container, Spent) /\ DOMAIN Spent = DOMAIN frames
        /\ Stack(container, Spent, chart, Registered)
        /\ \A i \in DOMAIN frames : Spent[i].kind = frames[i].kind /\ Spent[i].chart = frames[i].chart
    BY <1>1, Calling
  <2>2. ASSUME NEW i \in UnderWay(Spent) PROVE chart'[Spent[i].chart] # "none"
    <3>1. Spent[i].chart \in Chart /\ chart[Spent[i].chart] # "none"
      BY <2>1 DEF Stack, Functioning
    <3>2. i \in UnderWay(frames) /\ Spent[i].chart = frames[i].chart
      BY <2>1 DEF UnderWay
    <3>3. Spent[i].chart \in InUse
      BY <3>2 DEF InUse, WithOwners, UnderWay
    <3> QED BY <1>1, <1>6, <3>1, <3>3
  <2>3. \A b \in Registered' : chart'[Attached(b)] = "idle" => b \in Registered /\ chart[Attached(b)] = "idle"
    <3>1. \A b \in Registered : Attached(b) \in Chart
      BY Parts, ChartNames
    <3> QED BY <1>5, <1>6, <3>1
  <2>5. Registered' \subseteq Id
    BY <1>5, Parts
  <2> DEFINE g == Spent
             u == UnlinkedFrames(g, S)
  <2>6. /\ g \in Seq(Frame) /\ Linked(waiting, container, g) /\ Stack(container, g, chart, Registered)
        /\ (\A i \in UnderWay(g) : chart'[g[i].chart] # "none") /\ frames' = Dangling(u, S)
    BY <1>1, <2>1, <2>2
  <2> HIDE DEF g
  <2>7. \A b \in Registered' : chart'[Attached(b)] = "idle" =>
          \/ b \in Registered /\ chart[Attached(b)] = "idle"
          \/ /\ ~ Busy(Attached(b), Homeless(S), g)
             /\ \A c \in Chart : Owner(c) = b => ~ Busy(c, Homeless(S), g)
    BY <2>3
  <2>8. /\ Unlinked(S) \in Lists /\ Homeless(S) \in Homes /\ u \in Seq(Frame)
        /\ Linked(Unlinked(S), Homeless(S), u) /\ Stack(Homeless(S), u, chart', Registered')
    BY <2>5, <2>6, <2>7, Parts, Unlinking
  <2> HIDE DEF u
  <2>9. /\ u \in Seq(Frame) /\ Linked(waiting', container', u) /\ Stack(container', u, chart', Registered')
    BY <1>1, <2>8
  <2> QED BY <1>1, <2>5, <2>6, <2>8, <2>9, DanglingFrames
<1>8. NodesTyped'
  BY <1>1, <1>3, <1>7, Parts DEF NodesTyped, States, Homes
<1>9. ChartsInvariant'
  <2>1. ASSUME NEW c \in Chart, Exists(c)'
        PROVE  Alive(Host(c))' /\ (Owner(c) # 0 => Exists(Attached(Owner(c)))')
    <3>1. c \notin S /\ Exists(c)
      BY <1>6, <2>1 DEF Exists
    <3>2. Alive(Host(c))'
      BY <1>5, <3>1, Parts DEF ChartsInvariant, Alive
    <3>3. ASSUME Owner(c) # 0 PROVE Exists(Attached(Owner(c)))'
      <4>1. Attached(Owner(c)) \in Chart /\ Owner(Attached(Owner(c))) = 0
        BY <3>3, ChartNames
      <4>2. Exists(Attached(Owner(c))) /\ Attached(Owner(c)) \notin S
        BY <1>3, <1>4, <3>1, <3>3, <4>1, Parts DEF ChartsInvariant
      <4> QED BY <1>6, <4>1, <4>2 DEF Exists
    <3> QED BY <3>2, <3>3
  <2>2. \A c \in Chart : chart'[c] = "running" => status'[Host(c)] = "running"
    BY <1>5, <1>6, Parts DEF ChartsInvariant
  <2>3. (\A c \in Chart : container[c] # 0 => Exists(c) /\ Alive(container[c]))'
    BY <1>5, <1>6, Parts DEF ChartsInvariant, Exists, Alive
  <2> QED BY <2>1, <2>2, <2>3 DEF ChartsInvariant
<1>11. FramesTyped' /\ Linked(waiting, container, frames)' /\ Stack(container, frames, chart, Registered)'
  BY <1>7 DEF FramesTyped
<1>12. StepTyped' /\ QueuesTyped'
  BY <1>1, Parts, StepStays, QueuesStay
<1> QED BY <1>5, <1>8, <1>9, <1>11, <1>12, PartsNext

\* Chart::Stop of charts of which none that is attached to an object has, or whose
\* subcharts have, a function under way.
LEMMA StopNext ==
  ASSUME LifecycleInvariant, NEW C \in SUBSET Chart, \A c \in C : Exists(c),
         NEW f \in Seq(Frame), Linked(waiting, container, f), Stack(container, f, chart, Registered),
         \A c \in C : Owner(c) = 0 =>
           \A i \in UnderWay(f) : f[i].chart # c /\ (Owner(f[i].chart) # 0 => Attached(Owner(f[i].chart)) # c),
         StopCharts(C, f), UNCHANGED <<agents, step, queues>>
  PROVE  LifecycleInvariant'
<1> DEFINE S == WithSubcharts(C)
<1>1. /\ S \subseteq Chart /\ C \subseteq S /\ \A c \in S : Exists(c)
      /\ \A c \in S \ C : Owner(c) # 0 /\ Attached(Owner(c)) \in C
      /\ \A c \in Chart : Exists(c) /\ Owner(c) # 0 /\ Attached(Owner(c)) \in C => c \in S
  BY SubchartsExist
<1>2. /\ chart' = [c \in Chart |-> IF c \in S THEN "idle" ELSE chart[c]]
      /\ running' = running \ S
      /\ waiting' = Unlinked(S) /\ container' = Homeless(S) /\ frames' = UnlinkedFrames(f, S)
  BY DEF StopCharts, Rest
<1> HIDE DEF S
<1>3. \A c \in Chart : /\ chart'[c] = IF c \in S THEN "idle" ELSE chart[c]
                       /\ container'[c] = IF c \in S THEN 0 ELSE container[c]
  BY <1>2 DEF Homeless
<1>4. AgentsTyped' /\ AgentsInvariant' /\ Registered' = Registered /\ UNCHANGED status
  BY Parts, AgentsStay DEF agents
<1>5. ASSUME NEW b \in Registered', chart'[Attached(b)] = "idle", Attached(b) \in S
      PROVE  ~ Busy(Attached(b), Homeless(S), f) /\ \A c \in Chart : Owner(c) = b => ~ Busy(c, Homeless(S), f)
  <2>1. b \in Id /\ b # 0 /\ Attached(b) \in Chart /\ Owner(Attached(b)) = 0
    BY <1>4, Parts, ChartNames
  <2>2. Attached(b) \in C
    BY <1>1, <1>5, <2>1
  <2>3. Homeless(S)[Attached(b)] = 0 /\ \A c \in Chart : Homeless(S)[c] = IF c \in S THEN 0 ELSE container[c]
    BY <1>5, <2>1 DEF Homeless
  <2>4. ~ Busy(Attached(b), Homeless(S), f)
    BY <2>1, <2>2, <2>3 DEF Busy
  <2>5. ASSUME NEW c \in Chart, Owner(c) = b PROVE ~ Busy(c, Homeless(S), f)
    <3>1. \A i \in UnderWay(f) : f[i].chart # c
      BY <2>1, <2>2, <2>5
    <3>2. container[c] # 0 => c \in S
      BY <1>1, <2>1, <2>2, <2>5, Parts DEF ChartsInvariant
    <3> QED BY <2>3, <3>1, <3>2 DEF Busy
  <2> QED BY <2>4, <2>5
<1>6. /\ waiting' \in Lists /\ container' \in Homes /\ frames' \in Seq(Frame)
      /\ Linked(waiting', container', frames') /\ Stack(container', frames', chart', Registered')
  <2>1. \A i \in UnderWay(f) : chart'[f[i].chart] # "none"
    BY <1>3 DEF Stack, Functioning
  <2>2. \A b \in Registered' : chart'[Attached(b)] = "idle" =>
          \/ b \in Registered /\ chart[Attached(b)] = "idle"
          \/ /\ ~ Busy(Attached(b), Homeless(S), f)
             /\ \A c \in Chart : Owner(c) = b => ~ Busy(c, Homeless(S), f)
    <3>1. \A b \in Registered' : Attached(b) \in Chart /\ b \in Registered
      BY <1>4, Parts, ChartNames
    <3> QED BY <1>3, <1>5, <3>1
  <2>3. Registered' \subseteq Id
    BY <1>4, Parts
  <2>4. /\ Unlinked(S) \in Lists /\ Homeless(S) \in Homes /\ UnlinkedFrames(f, S) \in Seq(Frame)
        /\ Linked(Unlinked(S), Homeless(S), UnlinkedFrames(f, S))
        /\ Stack(Homeless(S), UnlinkedFrames(f, S), chart', Registered')
    BY <2>1, <2>2, <2>3, Parts, Unlinking
  <2> QED BY <1>2, <2>4
<1>7. NodesTyped'
  BY <1>1, <1>2, <1>6, Parts DEF NodesTyped, States, Homes
<1>8. \A c \in Chart : Exists(c)' <=> Exists(c)
  BY <1>1, <1>3 DEF Exists
<1>9. ChartsInvariant'
  <2>1. \A c \in Chart : Exists(c)' => Alive(Host(c))' /\ (Owner(c) # 0 => Exists(Attached(Owner(c)))')
    BY <1>4, <1>8, Parts, ChartNames DEF ChartsInvariant, Alive
  <2>2. \A c \in Chart : chart'[c] = "running" => status'[Host(c)] = "running"
    BY <1>3, <1>4, Parts DEF ChartsInvariant
  <2>3. (\A c \in Chart : container[c] # 0 => Exists(c) /\ Alive(container[c]))'
    BY <1>3, <1>4, <1>8, Parts DEF ChartsInvariant, Alive
  <2> QED BY <2>1, <2>2, <2>3 DEF ChartsInvariant
<1>10. FramesTyped' /\ Linked(waiting, container, frames)' /\ Stack(container, frames, chart, Registered)'
  BY <1>6 DEF FramesTyped
<1>11. StepTyped' /\ QueuesTyped'
  BY Parts, StepStays, QueuesStay
<1> QED BY <1>4, <1>7, <1>9, <1>10, <1>11, PartsNext

\* Agent::StopChart and Agent::Stop, of no chart in use.
LEMMA StopStep ==
  ASSUME LifecycleInvariant, ~ InUseToo, NEW o \in Object, StopChart(o) \/ Stop(o)
  PROVE  LifecycleInvariant'
<1>1. PICK C \in {AttachedTo(o), Charts({registered[o]})} :
        CanCall /\ MayStop(C) /\ StopCharts(C, Spent) /\ UNCHANGED <<agents, step, queues>>
  BY DEF StopChart, Stop
<1>2. C \in SUBSET Chart /\ \A c \in C : Exists(c)
  BY DEF AttachedTo, Charts, Exists
<1>3. /\ Spent \in Seq(Frame) /\ DOMAIN Spent = DOMAIN frames
      /\ \A i \in DOMAIN frames : Spent[i].kind = frames[i].kind /\ Spent[i].chart = frames[i].chart
      /\ Linked(waiting, container, Spent) /\ Stack(container, Spent, chart, Registered)
  BY <1>1, Calling
<1>4. C \cap InUse = {}
  BY <1>1 DEF MayStop, WithSubcharts
<1>5. ASSUME NEW i \in UnderWay(Spent), NEW c \in C
      PROVE  Spent[i].chart # c /\ (Owner(Spent[i].chart) # 0 => Attached(Owner(Spent[i].chart)) # c)
  <2>1. i \in DOMAIN frames /\ frames[i].kind \in {"function", "called"} /\ Spent[i].chart = frames[i].chart
    BY <1>3 DEF UnderWay
  <2>2. frames[i].chart \in InUse /\ (Owner(frames[i].chart) # 0 => Attached(Owner(frames[i].chart)) \in InUse)
    BY <2>1 DEF InUse, WithOwners
  <2> QED BY <1>4, <2>1, <2>2
<1> DEFINE f == Spent
<1>6. /\ f \in Seq(Frame) /\ Linked(waiting, container, f) /\ Stack(container, f, chart, Registered)
      /\ StopCharts(C, f)
      /\ \A c \in C : Owner(c) = 0 =>
           \A i \in UnderWay(f) : f[i].chart # c /\ (Owner(f[i].chart) # 0 => Attached(Owner(f[i].chart)) # c)
  BY <1>1, <1>3, <1>5
<1> HIDE DEF f
<1> QED BY <1>1, <1>2, <1>6, StopNext

-----------------------------------------------------------------------------
(* How functions end.                                                      *)

\* The lowest frames are left, and those above them are gone.
LEMMA LowerFrames ==
  ASSUME LifecycleInvariant, NEW g \in Seq(Frame), Below(g, frames)
  PROVE  Stack(container, g, chart, Registered)
<1>1. \A c \in Chart : container[c] \in {0, container[c]}
  OBVIOUS
<1>2. \A i \in UnderWay(g) : chart[g[i].chart] # "none"
  BY Parts DEF UnderWay, Below, Stack, Functioning
<1>3. IdleIsIdle(container, g, chart, Registered)
  BY <1>1, Parts, IdleShrinks DEF Stack
<1> QED BY <1>1, <1>2, <1>3, Parts, StackShrinks

\* The top function ends: its node is busy no more.
LEMMA Popping ==
  ASSUME LifecycleInvariant, InFunction
  PROVE  LET below == Front(frames)
         IN  /\ below \in Seq(Frame) /\ Len(below) = Len(frames) - 1 /\ Len(frames) \in Nat \ {0}
             /\ DOMAIN below = 1..(Len(frames) - 1) /\ DOMAIN frames = 1..Len(frames)
             /\ \A i \in DOMAIN below : below[i] = frames[i]
             /\ Below(below, frames)
             /\ Linked(waiting, container, below) /\ Stack(container, below, chart, Registered)
             /\ \A i \in UnderWay(below) : below[i].chart # Me
             /\ ~ Busy(Me, container, below)
<1> DEFINE below == Front(frames)
<1>1. /\ frames # <<>> /\ Top.list = <<>> /\ container[Me] = 0 /\ Len(frames) \in UnderWay(frames)
      /\ Me = frames[Len(frames)].chart
  BY TopFunction
<1>2. /\ below \in Seq(Frame) /\ Len(below) = Len(frames) - 1 /\ Len(frames) \in Nat \ {0}
      /\ DOMAIN below = 1..(Len(frames) - 1) /\ DOMAIN frames = 1..Len(frames)
      /\ \A i \in DOMAIN below : below[i] = frames[i]
  BY <1>1, Parts, FrontParts
<1>3. Linked(waiting, container, below)
  BY <1>1, Parts, LinkedPop DEF Top
<1> HIDE DEF below
<1>4. Below(below, frames)
  BY <1>2 DEF Below
<1>5. Stack(container, below, chart, Registered)
  BY <1>2, <1>4, LowerFrames
<1>6. ASSUME NEW i \in UnderWay(below) PROVE below[i].chart # Me
  <2>1. i \in UnderWay(frames) /\ below[i] = frames[i] /\ i # Len(frames)
    BY <1>2 DEF UnderWay
  <2> QED BY <1>1, <2>1, Parts DEF Stack, Functioning
<1>7. ~ Busy(Me, container, below)
  BY <1>1, <1>6 DEF Busy
<1> QED BY <1>2, <1>3, <1>4, <1>5, <1>6, <1>7 DEF below

\* Manager::WaitEvent.
LEMMA FunctionWaitsStep ==
  ASSUME LifecycleInvariant, NEW o \in Object, FunctionWaits(o)
  PROVE  LifecycleInvariant'
<1> DEFINE a == registered[o]
           below == Front(frames)
<1>1. /\ InFunction /\ a # 0 /\ chart[Me] # "none" /\ frames' = below /\ WaitIn(Me, a)
      /\ UNCHANGED <<agents, chart, step, queues>>
  BY DEF FunctionWaits
<1>2. a \in Registered
  BY <1>1, Parts DEF Registered
<1>3. Me \in Chart /\ container[Me] = 0
  BY <1>1, TopFunction
<1>4. /\ below \in Seq(Frame) /\ Below(below, frames) /\ ~ Busy(Me, container, below)
      /\ Linked(waiting, container, below) /\ Stack(container, below, chart, Registered)
  BY <1>1, Popping
<1> HIDE DEF a, below
<1>5. MayBeBusy(Me, container, below, chart, Registered)
  <2>1. \E i \in DOMAIN frames : frames[i].kind = "function" /\ frames[i].chart = Me
    BY <1>1, TopFunction
  <2> QED BY <1>3, <1>4, <2>1, Parts, BusyAgain
<1>6. /\ AgentsTyped' /\ AgentsInvariant' /\ NodesTyped' /\ ChartsInvariant'
      /\ Linked(waiting', container', below) /\ Stack(container', below, chart', Registered')
  <2> DEFINE me == Me
  <2>1. me \in Chart /\ WaitIn(me, a) /\ container[me] = 0 /\ chart[me] # "none"
        /\ MayBeBusy(me, container, below, chart', Registered)
    BY <1>1, <1>3, <1>5
  <2> HIDE DEF me
  <2> QED BY <1>1, <1>2, <1>4, <2>1, WaitNext
<1>7. FramesTyped' /\ Linked(waiting, container, frames)' /\ Stack(container, frames, chart, Registered)'
  BY <1>1, <1>4, <1>6 DEF FramesTyped
<1>8. StepTyped' /\ QueuesTyped'
  BY <1>1, Parts, StepStays, QueuesStay
<1> QED BY <1>6, <1>7, <1>8, PartsNext

\* The function that has called a subchart returns; a dispatch ends.
LEMMA PopStep ==
  ASSUME LifecycleInvariant, frames # <<>>, Top.kind # "dispatch" \/ Top.list = <<>>,
         frames' = Front(frames), UNCHANGED <<agents, nodes, step, queues>>
  PROVE  LifecycleInvariant'
<1>1. Top.list = <<>>
  BY Parts, TopFrame DEF Linked
<1>2. Front(frames) \in Seq(Frame) /\ Below(Front(frames), frames) /\ Linked(waiting, container, Front(frames))
  <2>1. Linked(waiting, container, Front(frames))
    BY <1>1, Parts, LinkedPop DEF Top
  <2>2. Front(frames) \in Seq(Frame) /\ Below(Front(frames), frames)
    BY Parts, FrontParts DEF Below
  <2> QED BY <2>1, <2>2
<1>3. Stack(container, Front(frames), chart, Registered)
  BY <1>2, LowerFrames
<1>4. AgentsTyped' /\ AgentsInvariant' /\ Registered' = Registered
  BY Parts, AgentsStay
<1>5. NodesTyped' /\ ChartsInvariant'
  BY Parts, NodesStay
<1>6. FramesTyped' /\ Linked(waiting, container, frames)' /\ Stack(container, frames, chart, Registered)'
  BY <1>2, <1>3, <1>4 DEF FramesTyped, nodes
<1>7. StepTyped' /\ QueuesTyped'
  BY Parts, StepStays, QueuesStay
<1> QED BY <1>4, <1>5, <1>6, <1>7, PartsNext

\* One round of Manager::_handleEvent.
LEMMA DispatchNodeStep ==
  ASSUME LifecycleInvariant, DispatchNode
  PROVE  LifecycleInvariant'
<1> DEFINE c == Head(Top.list)
           rest == Append(Front(frames), [Top EXCEPT !.list = Tail(@)])
           h == Homeless({c})
<1>1. /\ frames # <<>> /\ Top.kind = "dispatch" /\ Top.list # <<>>
      /\ running' = running \ {c}
      /\ container' = h
      /\ frames' = IF chart[c] = "running" THEN Append(rest, Function(c, Top.left)) ELSE rest
      /\ UNCHANGED <<agents, chart, waiting, step, queues>>
  BY DEF DispatchNode, Rest
<1>2. /\ c \in Chart /\ container[c] # 0
      /\ rest \in Seq(Frame) /\ Len(rest) = Len(frames)
      /\ \A i \in DOMAIN frames : rest[i].kind = frames[i].kind /\ rest[i].chart = frames[i].chart
      /\ Linked(waiting, HomelessIn(container, {c}), rest)
  <2>1. Last(frames).kind = "dispatch" /\ Last(frames).list # <<>>
    BY <1>1 DEF Top
  <2> QED BY <1>1, <2>1, Parts, LinkedDispatch DEF Top
<1>3. h = HomelessIn(container, {c})
  BY DEF Homeless, HomelessIn
<1>4. \A d \in Chart : h[d] = IF d = c THEN 0 ELSE container[d]
  BY DEF Homeless
<1>5. DOMAIN rest = DOMAIN frames /\ Len(frames) \in DOMAIN frames /\ frames[Len(frames)] = Top
      /\ Top.left \in 0..MaxCalls
  BY <1>1, <1>2, Parts, TopFrame
<1>6. h \in Homes
  BY <1>4, Parts DEF Homes, Homeless
<1> HIDE DEF c, rest, h
<1>7. Below(rest, frames)
  BY <1>2, <1>5 DEF Below
<1>8. \A d \in Chart : h[d] \in {0, container[d]}
  BY <1>4
<1>9. Stack(h, rest, chart, Registered)
  <2>1. IdleIsIdle(h, rest, chart, Registered)
    BY <1>7, <1>8, Parts, IdleShrinks DEF Stack
  <2>2. \A i \in UnderWay(rest) : chart[rest[i].chart] # "none"
    BY <1>2, <1>5, Parts DEF UnderWay, Stack, Functioning
  <2> QED BY <1>2, <1>7, <1>8, <2>1, <2>2, Parts, StackShrinks
<1>10. MayBeBusy(c, h, rest, chart, Registered)
  <2>1. \A i \in UnderWay(frames) : frames[i].chart # c
    BY <1>2, Parts DEF Stack, Functioning
  <2>2. ~ Busy(c, h, rest)
    BY <1>2, <1>4, <1>5, <2>1 DEF Busy, UnderWay
  <2> QED BY <1>2, <1>7, <1>8, <2>2, Parts, BusyAgain
<1>11. FramesTyped' /\ Linked(waiting, container, frames)' /\ Stack(container, frames, chart, Registered)'
  <2>1. AgentsTyped' /\ AgentsInvariant' /\ Registered' = Registered
    BY <1>1, Parts, AgentsStay
  <2>2. CASE chart[c] # "running"
    BY <1>1, <1>2, <1>3, <1>9, <2>1, <2>2 DEF FramesTyped
  <2>3. CASE chart[c] = "running"
    <3> DEFINE fr == Function(c, Top.left)
    <3>1. fr \in Frame /\ fr.list = <<>>
      BY <1>2, <1>5, FrameParts
    <3>2. Append(rest, fr) \in Seq(Frame) /\ Linked(waiting, h, Append(rest, fr))
      <4> HIDE DEF fr
      <4> QED BY <1>2, <1>3, <1>6, <3>1, Parts, LinkedPush
    <3>3. rest # <<>> /\ Last(rest).kind # "called"
      BY <1>1, <1>2, <1>5 DEF Last
    <3>4. Stack(h, Append(rest, fr), chart, Registered)
      BY <1>2, <1>5, <1>9, <1>10, <2>3, <3>3, Parts, StackPushFunction
    <3> QED BY <1>1, <2>1, <2>3, <3>2, <3>4 DEF FramesTyped
  <2> QED BY <2>2, <2>3
<1>12. AgentsTyped' /\ AgentsInvariant' /\ UNCHANGED status
  BY <1>1, Parts, AgentsStay DEF agents
<1>13. NodesTyped'
  BY <1>1, <1>6, Parts DEF NodesTyped, Homes
<1>14. ChartsInvariant'
  BY <1>1, <1>4, <1>12, Parts DEF ChartsInvariant, Exists, Alive
<1>16. StepTyped' /\ QueuesTyped'
  BY <1>1, Parts, StepStays, QueuesStay
<1> QED BY <1>11, <1>12, <1>13, <1>14, <1>16, PartsNext

\* Manager::Subchart.
LEMMA FunctionCallsSubchartStep ==
  ASSUME LifecycleInvariant, NEW o \in Object, FunctionCallsSubchart(o)
  PROVE  LifecycleInvariant'
<1> DEFINE a == registered[o]
           me == Me
           sub == <<a, Host(me)>>
           old == {c \in Chart : chart[c] # "none" /\ Owner(c) = Host(me)} \ {sub}
           calling == Append(Front(frames), Called(Top))
           u == UnlinkedFrames(calling, old)
           g == Dangling(u, old)
           h == Homeless(old)
<1>1. /\ InFunction /\ Top.left > 0 /\ Owner(me) = 0 /\ a # 0 /\ chart[me] # "none" /\ chart[sub] # "running"
      /\ chart' = [c \in Chart |-> IF c = sub THEN "running" ELSE IF c \in old THEN "none" ELSE chart[c]]
      /\ running' = (running \cup {me}) \ old /\ waiting' = Unlinked(old) /\ container' = h
      /\ frames' = g \o <<Function(sub, Left)>>
      /\ UNCHANGED <<agents, step, queues>>
  BY DEF FunctionCallsSubchart
<1>2. a \in Id /\ a \in Registered /\ status[a] = "running"
  BY <1>1, Parts DEF AgentsTyped, Registered, AgentsInvariant
<1>3. /\ me \in Chart /\ container[me] = 0 /\ Busy(me, container, frames) /\ Top.kind = "function"
      /\ frames # <<>> /\ Top.list = <<>> /\ Top \in Frame /\ Top.left \in 0..MaxCalls /\ me = Top.chart
      /\ Len(frames) \in UnderWay(frames) /\ frames[Len(frames)] = Top /\ Len(frames) \in DOMAIN frames
  BY <1>1, TopFunction DEF Me
<1>4. Left \in 0..MaxCalls
  BY <1>1, <1>3, LifecycleAssumption DEF Left, LifecycleAssumption
<1>5. /\ sub \in Chart /\ Host(sub) = a /\ Owner(sub) = Host(me) /\ Host(me) \in Id /\ Host(me) # 0
      /\ me = Attached(Host(me)) /\ sub # me
  BY <1>1, <1>2, <1>3, ChartNames
<1>6. /\ old \subseteq Chart /\ sub \notin old /\ \A c \in old : Owner(c) = Host(me)
      /\ \A c \in Chart : Exists(c) /\ Owner(c) = Host(me) /\ c # sub => c \in old
  BY DEF Exists
<1>7. \A c \in Chart : h[c] = IF c \in old THEN 0 ELSE container[c]
  BY DEF Homeless
<1>8. /\ calling \in Seq(Frame) /\ Len(calling) = Len(frames) /\ DOMAIN calling = DOMAIN frames
      /\ calling[Len(frames)].kind = "called" /\ calling[Len(frames)].chart = me
      /\ calling[Len(frames)].list = <<>>
      /\ \A i \in DOMAIN frames : i # Len(frames) => calling[i] = frames[i]
  <2> DEFINE called == Called(Top)
  <2>1. called \in Frame /\ called.kind = "called" /\ called.chart = me /\ called.list = <<>>
    BY <1>3 DEF Called, Frame
  <2> HIDE DEF called
  <2> QED BY <1>3, <2>1, Parts, LastReplaced DEF called
<1>9. /\ u \in Seq(Frame) /\ DOMAIN u = DOMAIN calling /\ Len(u) = Len(calling)
      /\ \A i \in DOMAIN calling : u[i].kind = calling[i].kind /\ u[i].chart = calling[i].chart
  <2> HIDE DEF calling
  <2> QED BY <1>8, FramesUnlinked
<1> HIDE DEF a, me, sub, old, calling, u, g, h
<1>10. Alike(frames, calling) /\ Below(calling, frames)
  <2>1. \A i \in DOMAIN frames : /\ calling[i].chart = frames[i].chart /\ calling[i].list = frames[i].list
                                 /\ i # Len(frames) => calling[i].kind = frames[i].kind
    BY <1>3, <1>8
  <2>2. Alike(frames, calling)
    <3>1. \A i \in DOMAIN frames : frames[i].kind = "dispatch" <=> calling[i].kind = "dispatch"
      BY <1>3, <1>8, <2>1
    <3> QED BY <1>8, <2>1, <3>1 DEF Alike
  <2>3. ASSUME NEW i \in DOMAIN frames
        PROVE  /\ calling[i].chart = frames[i].chart
               /\ \/ calling[i].kind = frames[i].kind
                  \/ i = Len(frames) /\ frames[i].kind = "function" /\ calling[i].kind = "called"
                     /\ Owner(calling[i].chart) = 0
    BY <1>1, <1>3, <1>8, <2>1
  <2>4. Len(frames) \in Nat
    BY Parts
  <2>5. Below(calling, frames)
    BY <1>8, <2>3, <2>4 DEF Below
  <2> QED BY <2>2, <2>5
<1>11. Linked(waiting, container, calling) /\ Stack(container, calling, chart, Registered)
  BY <1>8, <1>10, Parts, LinkedAlike, LowerFrames
<1>12. \A c \in Chart : Owner(c) = Host(me) => ~ Busy(c, container, frames)
  <2>1. \A c \in Chart : Owner(c) # 0 /\ Busy(c, container, frames) =>
          \A i \in DOMAIN frames : frames[i].kind = "function" => frames[i].chart # Attached(Owner(c))
    BY Parts DEF Stack, OwnerWaits
  <2> QED BY <1>3, <1>5, <2>1
<1>13. \A c \in Chart : chart'[c] = IF c = sub THEN "running" ELSE IF c \in old THEN "none" ELSE chart[c]
  BY <1>1
<1>14. AgentsTyped' /\ AgentsInvariant' /\ Registered' = Registered /\ UNCHANGED status
  BY <1>1, Parts, AgentsStay DEF agents
<1>15. \A b \in Registered' : chart'[Attached(b)] = "idle" => b \in Registered /\ chart[Attached(b)] = "idle"
  <2>1. \A b \in Registered : Attached(b) \in Chart /\ Owner(Attached(b)) = 0
    BY Parts, ChartNames
  <2> QED BY <1>5, <1>6, <1>13, <1>14, <2>1
<1>16. /\ Unlinked(old) \in Lists /\ h \in Homes
       /\ Linked(Unlinked(old), h, g) /\ Stack(h, g, chart', Registered')
       /\ g \in Seq(Frame) /\ DOMAIN g = DOMAIN calling /\ Len(g) = Len(calling)
       /\ \A i \in DOMAIN calling : /\ g[i].kind = calling[i].kind
                                    /\ calling[i].kind # "return" => g[i].chart = calling[i].chart
  <2>1. ASSUME NEW i \in UnderWay(calling) PROVE chart'[calling[i].chart] # "none"
    <3>1. calling[i].chart \in Chart /\ chart[calling[i].chart] # "none" /\ Busy(calling[i].chart, container, calling)
      BY <1>11 DEF Stack, Functioning, Busy
    <3>2. \A c \in Chart : container[c] \in {0, container[c]}
      OBVIOUS
    <3>3. Busy(calling[i].chart, container, frames)
      BY <1>10, <3>1, <3>2, BusyShrinks
    <3> QED BY <1>6, <1>12, <1>13, <3>1, <3>3
  <2>2. Registered' \subseteq Id
    BY <1>14, Parts
  <2>3. \A b \in Registered' : chart'[Attached(b)] = "idle" =>
          \/ b \in Registered /\ chart[Attached(b)] = "idle"
          \/ /\ ~ Busy(Attached(b), Homeless(old), calling)
             /\ \A c \in Chart : Owner(c) = b => ~ Busy(c, Homeless(old), calling)
    BY <1>15
  <2>4. /\ Unlinked(old) \in Lists /\ Homeless(old) \in Homes
        /\ Linked(Unlinked(old), Homeless(old), UnlinkedFrames(calling, old))
        /\ Stack(Homeless(old), UnlinkedFrames(calling, old), chart', Registered')
    <3>1. /\ calling \in Seq(Frame) /\ Linked(waiting, container, calling)
          /\ Stack(container, calling, chart, Registered)
          /\ \A i \in UnderWay(calling) : chart'[calling[i].chart] # "none"
      BY <1>8, <1>11, <2>1
    <3> QED BY <2>2, <2>3, <3>1, Parts, Unlinking
  <2>5. Unlinked(old) \in Lists /\ h \in Homes /\ Linked(Unlinked(old), h, u) /\ Stack(h, u, chart', Registered')
    BY <2>4 DEF u, h
  <2>6. /\ g \in Seq(Frame) /\ DOMAIN g = DOMAIN u /\ Len(g) = Len(u)
        /\ \A i \in DOMAIN u : g[i].kind = u[i].kind /\ (u[i].kind # "return" => g[i] = u[i])
        /\ Linked(Unlinked(old), h, g) /\ Stack(h, g, chart', Registered')
    BY <1>9, <2>2, <2>5, DanglingFrames DEF g
  <2> QED BY <1>9, <2>5, <2>6
<1>17. MayBeBusy(sub, h, g, chart', Registered')
  <2>1. \A c \in Chart : Owner(c) = Owner(sub) => ~ Busy(c, h, g)
    <3>1. \A c \in Chart : h[c] \in {0, container[c]}
      BY <1>7
    <3>2. \A c \in Chart : Busy(c, h, g) => Busy(c, h, calling)
      BY <1>16 DEF Busy, UnderWay
    <3>3. \A c \in Chart : Busy(c, h, g) => Busy(c, container, frames)
      BY <1>10, <3>1, <3>2, BusyShrinks
    <3> QED BY <1>5, <1>12, <3>3
  <2>2. h[Attached(Owner(sub))] = 0
    BY <1>3, <1>5, <1>7
  <2>3. ASSUME NEW i \in DOMAIN g, g[i].kind = "function" PROVE g[i].chart # Attached(Owner(sub))
    <3>1. i \in DOMAIN frames /\ i # Len(frames) /\ g[i].kind = frames[i].kind /\ g[i].chart = frames[i].chart
      BY <1>8, <1>16, <2>3
    <3>2. i \in UnderWay(frames)
      BY <2>3, <3>1 DEF UnderWay
    <3>3. frames[i].chart # frames[Len(frames)].chart
      BY <1>3, <3>1, <3>2, Parts DEF Stack, Functioning
    <3> QED BY <1>3, <1>5, <3>1, <3>3
  <2>4. ASSUME NEW b \in Registered', chart'[Attached(b)] = "idle" PROVE sub # Attached(b) /\ Owner(sub) # b
    <3>1. b \in Registered /\ chart[Attached(b)] = "idle" /\ b \in Id
      BY <1>15, <2>4, Parts
    <3>2. Attached(b) # me
      BY <1>3, <3>1, Parts DEF Stack, IdleIsIdle
    <3> QED BY <1>5, <3>1, <3>2, ChartNames
  <2> QED BY <1>5, <2>1, <2>2, <2>3, <2>4 DEF MayBeBusy
<1>18. FramesTyped' /\ Linked(waiting, container, frames)' /\ Stack(container, frames, chart, Registered)'
  <2> DEFINE fr == Function(sub, Left)
  <2>1. fr \in Frame /\ fr.list = <<>>
    BY <1>4, <1>5, FrameParts
  <2>2. frames' = Append(g, fr)
    BY <1>1, <1>16, <2>1
  <2>3. g # <<>> /\ Last(g).kind = "called" /\ Last(g).chart = me
    BY <1>3, <1>8, <1>16 DEF Last
  <2>4. chart'[sub] # "none"
    BY <1>5, <1>13
  <2>5. Registered' \subseteq Id
    BY <1>14, Parts
  <2>6. Stack(h, Append(g, fr), chart', Registered')
    BY <1>4, <1>5, <1>16, <1>17, <2>3, <2>4, <2>5, StackPushFunction
  <2>7. Append(g, fr) \in Seq(Frame) /\ Linked(Unlinked(old), h, Append(g, fr))
    <3> HIDE DEF fr
    <3> QED BY <1>16, <2>1, LinkedPush
  <2> QED BY <1>1, <2>2, <2>6, <2>7 DEF FramesTyped
<1>19. NodesTyped'
  BY <1>1, <1>2, <1>3, <1>16, Parts DEF NodesTyped, States, Homes
<1>20. ChartsInvariant'
  <2>1. ASSUME NEW c \in Chart, Exists(c)'
        PROVE  Alive(Host(c))' /\ (Owner(c) # 0 => Exists(Attached(Owner(c)))')
    <3>1. chart'[me] # "none"
      BY <1>1, <1>3, <1>5, <1>6, <1>13
    <3>2. CASE c = sub
      <4>1. Host(c) = a /\ Attached(Owner(c)) = me /\ status'[a] = "running"
        BY <1>2, <1>5, <1>14, <3>2
      <4> QED BY <3>1, <4>1 DEF Alive, Exists
    <3>3. CASE c # sub
      <4>1. c \notin old /\ Exists(c)
        BY <1>13, <2>1, <3>3 DEF Exists
      <4>2. Alive(Host(c))'
        BY <1>14, <4>1, Parts DEF ChartsInvariant, Alive
      <4>3. ASSUME Owner(c) # 0 PROVE Exists(Attached(Owner(c)))'
        <5>1. Attached(Owner(c)) \in Chart /\ Owner(Attached(Owner(c))) = 0
          BY <4>3, ChartNames
        <5>2. Exists(Attached(Owner(c))) /\ Attached(Owner(c)) \notin old
          BY <1>5, <1>6, <4>1, <4>3, <5>1, Parts DEF ChartsInvariant
        <5> QED BY <1>13, <5>1, <5>2 DEF Exists
      <4> QED BY <4>2, <4>3
    <3> QED BY <3>2, <3>3
  <2>2. \A c \in Chart : chart'[c] = "running" => status'[Host(c)] = "running"
    BY <1>2, <1>5, <1>13, <1>14, Parts DEF ChartsInvariant
  <2>3. (\A c \in Chart : container[c] # 0 => Exists(c) /\ Alive(container[c]))'
    BY <1>1, <1>7, <1>13, <1>14, Parts DEF ChartsInvariant, Exists, Alive
  <2> QED BY <2>1, <2>2, <2>3 DEF ChartsInvariant
<1>22. StepTyped' /\ QueuesTyped'
  BY <1>1, Parts, StepStays, QueuesStay
<1> QED BY <1>14, <1>18, <1>19, <1>20, <1>22, PartsNext

\* The function of a subchart ends, and its owner's goes on: in place of the call, if
\* it is the owner's function that has called it, or above the return.
LEMMA OwnerResumes ==
  ASSUME LifecycleInvariant, InFunction, Owner(Me) # 0, chart[Attached(Owner(Me))] = "running"
  PROVE  LET owner == Attached(Owner(Me))
             below == Front(frames)
             called == below # <<>> /\ Last(below).kind = "called" /\ Last(below).chart = owner
             f == Append(IF called THEN Front(below) ELSE Append(below, Return(Me)), Function(owner, Top.left))
         IN  f \in Seq(Frame) /\ Linked(waiting, container, f) /\ Stack(container, f, chart, Registered)
<1> DEFINE me == Me
           owner == Attached(Owner(me))
           below == Front(frames)
           called == below # <<>> /\ Last(below).kind = "called" /\ Last(below).chart = owner
           f0 == IF called THEN Front(below) ELSE below
           n == Len(frames)
<1>1. /\ me \in Chart /\ Top.kind = "function" /\ Top.left \in 0..MaxCalls /\ Busy(me, container, frames)
      /\ n \in UnderWay(frames) /\ frames[n] = Top /\ n \in DOMAIN frames /\ frames[n].chart = me
  BY TopFunction DEF Me
<1>2. /\ below \in Seq(Frame) /\ Len(below) = n - 1 /\ n \in Nat \ {0}
      /\ DOMAIN below = 1..(n - 1) /\ DOMAIN frames = 1..n
      /\ \A i \in DOMAIN below : below[i] = frames[i]
      /\ Linked(waiting, container, below) /\ ~ Busy(me, container, below)
  BY Popping
<1>3. /\ Owner(me) # 0 /\ owner \in Chart /\ Owner(owner) = 0 /\ Host(owner) = Owner(me)
      /\ chart[owner] = "running"
  BY <1>1, ChartNames
<1>4. called => below # <<>> /\ Last(below) = frames[n - 1] /\ n - 1 \in DOMAIN below
  <2>1. below # <<>> => n - 1 \in 1..(n - 1)
    BY <1>2
  <2> QED BY <1>2, <2>1 DEF Last
<1>5. /\ f0 \in Seq(Frame) /\ Linked(waiting, container, f0)
      /\ DOMAIN f0 \subseteq DOMAIN below /\ Len(f0) = (IF called THEN n - 2 ELSE n - 1) /\ DOMAIN f0 = 1..Len(f0)
      /\ \A i \in DOMAIN f0 : f0[i] = below[i]
  <2>1. CASE called
    <3>1. Last(below).list = <<>>
      BY <1>2, <1>4, <2>1 DEF Linked
    <3>2. Linked(waiting, container, Front(below))
      BY <1>2, <2>1, <3>1, Parts, LinkedPop
    <3>3. /\ Front(below) \in Seq(Frame) /\ Len(Front(below)) = Len(below) - 1 /\ Len(below) \in Nat \ {0}
          /\ DOMAIN Front(below) = 1..(Len(below) - 1)
          /\ \A i \in 1..(Len(below) - 1) : Front(below)[i] = below[i]
      <4> HIDE DEF below
      <4> QED BY <1>2, <2>1, FrontParts DEF called
    <3>4. f0 = Front(below)
      BY <2>1
    <3> HIDE DEF f0, below
    <3> QED BY <1>2, <2>1, <3>2, <3>3, <3>4
  <2>2. CASE ~ called
    BY <1>2, <2>2
  <2> QED BY <2>1, <2>2
<1> HIDE DEF me, owner, f0, n
<1>6. \A i \in DOMAIN f0 : i \in DOMAIN frames /\ i < n /\ f0[i] = frames[i]
  BY <1>2, <1>5
<1>7. Below(f0, frames)
  BY <1>2, <1>5, <1>6 DEF Below, n
<1>8. Stack(container, f0, chart, Registered)
  BY <1>5, <1>7, LowerFrames
<1>9. /\ container[owner] = 0
      /\ \A i \in DOMAIN frames : frames[i].kind = "function" => frames[i].chart # owner
      /\ \A d \in Chart : Owner(d) = Owner(me) /\ Busy(d, container, frames) => d = me
  BY <1>1, <1>3, Parts DEF Stack, OwnerWaits, owner
<1>10. ASSUME NEW i \in DOMAIN frames, i < n, frames[i].kind = "called", Host(frames[i].chart) = Owner(me)
       PROVE  i = n - 1 /\ frames[i].chart = owner
  <2>1. /\ Owner(frames[i].chart) = 0
        /\ frames[i + 1].kind = "function" /\ Owner(frames[i + 1].chart) = Owner(me)
    BY <1>10, Parts DEF Stack, CalledBelow, n
  <2>2. i \in UnderWay(frames) /\ frames[i].chart \in Chart
    BY <1>10, Parts DEF UnderWay, Stack, Functioning
  <2>3. frames[i].chart = owner
    BY <1>10, <2>1, <2>2, ChartNames DEF owner
  <2>4. i + 1 \in UnderWay(frames)
    BY <1>2, <1>10, <2>1 DEF UnderWay
  <2>5. frames[i + 1].chart \in Chart /\ Busy(frames[i + 1].chart, container, frames)
    BY <2>4, Parts DEF Stack, Functioning, Busy
  <2>6. frames[i + 1].chart = me
    BY <1>9, <2>1, <2>5
  <2>7. i + 1 = n
    BY <1>1, <2>4, <2>6, Parts DEF Stack, Functioning
  <2> QED BY <1>2, <1>10, <2>3, <2>7
<1>11. ASSUME NEW i \in UnderWay(f0) PROVE f0[i].chart # owner
  <2> SUFFICES ASSUME f0[i].chart = owner PROVE FALSE
    OBVIOUS
  <2>1. i \in DOMAIN frames /\ i < n /\ f0[i] = frames[i] /\ i \in UnderWay(frames) /\ frames[i].chart = owner
    BY <1>6 DEF UnderWay
  <2>2. frames[i].kind = "called"
    <3>1. frames[i].kind \in {"dispatch", "function", "called", "return"}
      BY <2>1, Parts, FrameParts
    <3> QED BY <1>9, <2>1, <3>1 DEF UnderWay
  <2>3. i = n - 1
    BY <1>3, <1>10, <2>1, <2>2
  <2>4. below # <<>> /\ Last(below) = frames[i]
    BY <1>2, <2>1, <2>3 DEF Last
  <2>5. called
    BY <2>1, <2>2, <2>4
  <2> QED BY <1>2, <1>5, <2>3, <2>5 DEF UnderWay
<1>12. f0 # <<>> => Last(f0).kind # "called"
  <2> SUFFICES ASSUME f0 # <<>>, Last(f0).kind = "called" PROVE FALSE
    OBVIOUS
  <2> DEFINE i == Len(f0)
  <2>1. i \in DOMAIN f0 /\ Last(f0) = f0[i]
    BY <1>5 DEF Last
  <2> HIDE DEF i
  <2>2. i \in DOMAIN frames /\ i < n /\ frames[i].kind = "called"
    BY <1>6, <2>1
  <2>3. frames[i + 1].kind = "function" /\ Owner(frames[i + 1].chart) = Host(frames[i].chart)
    BY <2>2, Parts DEF Stack, CalledBelow, n
  <2>4. CASE called
    <3>1. i + 1 = n - 1
      BY <1>2, <1>5, <2>4 DEF i
    <3> QED BY <1>4, <2>3, <2>4, <3>1
  <2>5. CASE ~ called
    <3>1. i + 1 = n /\ i = n - 1
      BY <1>2, <1>5, <2>5 DEF i
    <3>2. frames[i].chart = owner
      BY <1>1, <1>10, <2>2, <2>3, <3>1
    <3>3. below # <<>> /\ Last(below) = frames[i]
      BY <1>2, <1>5, <2>1, <3>1 DEF Last
    <3> QED BY <2>2, <2>5, <3>2, <3>3
  <2> QED BY <2>4, <2>5
<1>13. MayBeBusy(owner, container, f0, chart, Registered)
  <2>1. ~ Busy(owner, container, f0)
    BY <1>9, <1>11 DEF Busy
  <2>2. ASSUME NEW d \in Chart, Owner(d) = Host(owner) PROVE ~ Busy(d, container, f0)
    <3>1. \A c \in Chart : container[c] \in {0, container[c]}
      OBVIOUS
    <3>2. Busy(d, container, f0) => Busy(d, container, frames)
      BY <1>7, <3>1, BusyShrinks
    <3>3. ~ Busy(me, container, f0)
      BY <1>2, <1>5 DEF Busy, UnderWay
    <3> QED BY <1>3, <1>9, <2>2, <3>2, <3>3
  <2>3. \A b \in Registered : chart[Attached(b)] = "idle" => owner # Attached(b) /\ Owner(owner) # b
    BY <1>3, Parts, ChartNames
  <2> QED BY <1>3, <2>1, <2>2, <2>3 DEF MayBeBusy
<1> DEFINE f1 == IF called THEN f0 ELSE Append(f0, Return(me))
<1>16. /\ f1 \in Seq(Frame) /\ Linked(waiting, container, f1) /\ Stack(container, f1, chart, Registered)
       /\ MayBeBusy(owner, container, f1, chart, Registered) /\ (f1 # <<>> => Last(f1).kind # "called")
  <2> DEFINE fr == Return(me)
  <2>1. fr \in Frame /\ fr.list = <<>> /\ fr.kind = "return"
    BY <1>1, FrameParts
  <2> HIDE DEF fr, called, below
  <2>2. Append(f0, fr) \in Seq(Frame) /\ Append(f0, fr) # <<>> /\ Last(Append(f0, fr)) = fr
    BY <1>5, <2>1 DEF Last
  <2>3. Linked(waiting, container, Append(f0, fr))
    BY <1>5, <2>1, Parts, LinkedPush
  <2>4. Stack(container, Append(f0, fr), chart, Registered) /\ MayBeBusy(owner, container, Append(f0, fr), chart, Registered)
    BY <1>3, <1>5, <1>8, <1>12, <1>13, <2>1, StackPushOther
  <2>5. f1 = f0 \/ f1 = Append(f0, fr)
    BY DEF fr
  <2> HIDE DEF f1
  <2> QED BY <1>5, <1>8, <1>12, <1>13, <2>1, <2>2, <2>3, <2>4, <2>5
<1> HIDE DEF f1, called, below
<1>14. Stack(container, Append(f1, Function(owner, Top.left)), chart, Registered)
  <2>1. chart[owner] # "none" /\ (f1 # <<>> /\ Last(f1).kind = "called" => Owner(owner) = Host(Last(f1).chart))
    BY <1>3, <1>16
  <2> QED BY <1>1, <1>3, <1>16, <2>1, Parts, StackPushFunction
<1>15. Append(f1, Function(owner, Top.left)) \in Seq(Frame)
       /\ Linked(waiting, container, Append(f1, Function(owner, Top.left)))
  <2> DEFINE fr == Function(owner, Top.left)
  <2>1. fr \in Frame /\ fr.list = <<>>
    BY <1>1, <1>3, FrameParts
  <2> HIDE DEF fr
  <2>2. Append(f1, fr) \in Seq(Frame) /\ Linked(waiting, container, Append(f1, fr))
    BY <1>16, <2>1, Parts, LinkedPush
  <2> QED BY <2>2 DEF fr
<1>17. f1 = IF called THEN Front(below) ELSE Append(below, Return(me))
  BY DEF f1, f0
<1> QED BY <1>14, <1>15, <1>17 DEF called, below, owner, me

\* It returns, and nothing follows it.
LEMMA FunctionEndsStep ==
  ASSUME LifecycleInvariant, FunctionEnds
  PROVE  LifecycleInvariant'
<1> DEFINE me == Me
           over == chart[me] = "running" /\ me \notin running
           owner == Attached(Owner(me))
           below == Front(frames)
           resumes == over /\ Owner(me) # 0 /\ chart[owner] = "running"
           called == below # <<>> /\ Last(below).kind = "called" /\ Last(below).chart = owner
           W == IF over THEN WithSubcharts({me}) ELSE {}
           S == W \cup (IF over /\ Owner(me) # 0 THEN {owner} ELSE {})
           f == IF ~ resumes THEN below
                ELSE Append(IF called THEN Front(below) ELSE Append(below, Return(me)), Function(owner, Top.left))
<1>1. /\ InFunction
      /\ chart' = [c \in Chart |-> IF over /\ c \in WithSubcharts({me}) THEN "idle" ELSE chart[c]]
      /\ running' = running \ S
      /\ waiting' = Unlinked(S) /\ container' = Homeless(S) /\ frames' = UnlinkedFrames(f, S)
      /\ UNCHANGED <<agents, step, queues>>
  BY DEF FunctionEnds, Rest
<1>2. /\ me \in Chart /\ chart[me] # "none" /\ Top.kind = "function"
      /\ frames[Len(frames)] = Top /\ Len(frames) \in DOMAIN frames /\ Top.chart = me
  BY <1>1, TopFunction DEF Me
<1>3. /\ below \in Seq(Frame) /\ Below(below, frames) /\ ~ Busy(me, container, below)
      /\ Linked(waiting, container, below) /\ Stack(container, below, chart, Registered)
  BY <1>1, Popping
<1>4. f \in Seq(Frame) /\ Linked(waiting, container, f) /\ Stack(container, f, chart, Registered)
  <2>1. CASE ~ resumes
    <3>1. f = below
      BY <2>1
    <3> HIDE DEF f, below
    <3> QED BY <1>3, <3>1
  <2>2. CASE resumes
    BY <1>1, <2>2, OwnerResumes
  <2> QED BY <2>1, <2>2
<1>5. /\ W \subseteq Chart /\ \A c \in W : chart[c] # "none"
      /\ \A c \in W : c = me \/ (Owner(me) = 0 /\ Owner(c) # 0 /\ Attached(Owner(c)) = me)
      /\ W \subseteq S
      /\ \A c \in W : Owner(me) # 0 => owner \in S
      /\ W # {} => me \in W
  BY <1>2, SubchartsOf DEF WithSubcharts
<1>6. \A c \in Chart : chart'[c] = IF c \in W THEN "idle" ELSE chart[c]
  BY <1>1
<1>7. Owner(me) = 0 => f = below
  OBVIOUS
<1>8. chart' \in States
  BY <1>1, Parts DEF States
<1> HIDE DEF me, owner, below, over, resumes, called, W, S, f
<1>9. \A c \in Chart : container'[c] = IF c \in S THEN 0 ELSE container[c]
  BY <1>1 DEF Homeless
<1>10. AgentsTyped' /\ AgentsInvariant' /\ Registered' = Registered /\ UNCHANGED status
  BY <1>1, Parts, AgentsStay DEF agents
<1>11. ASSUME NEW b \in Registered', chart'[Attached(b)] = "idle"
       PROVE  \/ b \in Registered /\ chart[Attached(b)] = "idle"
              \/ /\ ~ Busy(Attached(b), Homeless(S), f)
                 /\ \A c \in Chart : Owner(c) = b => ~ Busy(c, Homeless(S), f)
  <2>1. b \in Registered /\ b \in Id /\ Attached(b) \in Chart /\ Owner(Attached(b)) = 0 /\ Host(Attached(b)) = b
    BY <1>10, Parts, ChartNames
  <2>2. CASE Attached(b) \notin W
    BY <1>6, <1>11, <2>1, <2>2
  <2>3. CASE Attached(b) \in W
    <3>1. Attached(b) = me /\ Owner(me) = 0 /\ f = below
      BY <1>5, <1>7, <2>1, <2>3
    <3>2. \A c \in Chart : Homeless(S)[c] \in {0, container[c]}
      BY DEF Homeless
    <3>3. ~ Busy(me, Homeless(S), below)
      BY <1>2, <1>3, <3>2 DEF Busy
    <3>4. ASSUME NEW c \in Chart, Owner(c) = b PROVE ~ Busy(c, Homeless(S), below)
      <4>1. ~ Busy(c, container, frames)
        <5>1. Owner(c) # 0 /\ Attached(Owner(c)) = me
          BY <2>1, <3>1, <3>4, ChartNames
        <5> QED BY <1>2, <5>1, Parts DEF Stack, OwnerWaits
      <4> QED BY <1>3, <3>2, <4>1, BusyShrinks
    <3> QED BY <3>1, <3>3, <3>4
  <2> QED BY <2>2, <2>3
<1>12. /\ waiting' \in Lists /\ container' \in Homes /\ frames' \in Seq(Frame)
       /\ Linked(waiting', container', frames') /\ Stack(container', frames', chart', Registered')
  <2>1. \A i \in UnderWay(f) : chart'[f[i].chart] # "none"
    BY <1>4, <1>6 DEF Stack, Functioning
  <2>2. Registered' \subseteq Id
    BY <1>10, Parts
  <2>3. /\ Unlinked(S) \in Lists /\ Homeless(S) \in Homes /\ UnlinkedFrames(f, S) \in Seq(Frame)
        /\ Linked(Unlinked(S), Homeless(S), UnlinkedFrames(f, S))
        /\ Stack(Homeless(S), UnlinkedFrames(f, S), chart', Registered')
    BY <1>4, <1>11, <2>1, <2>2, Parts, Unlinking
  <2> QED BY <1>1, <2>3
<1>13. NodesTyped'
  BY <1>1, <1>8, <1>12, Parts DEF NodesTyped, Homes
<1>14. \A c \in Chart : Exists(c)' <=> Exists(c)
  BY <1>5, <1>6 DEF Exists
<1>15. ChartsInvariant'
  <2>1. \A c \in Chart : Exists(c)' => Alive(Host(c))' /\ (Owner(c) # 0 => Exists(Attached(Owner(c)))')
    BY <1>10, <1>14, Parts, ChartNames DEF ChartsInvariant, Alive
  <2>2. \A c \in Chart : chart'[c] = "running" => status'[Host(c)] = "running"
    BY <1>6, <1>10, Parts DEF ChartsInvariant
  <2>3. (\A c \in Chart : container[c] # 0 => Exists(c) /\ Alive(container[c]))'
    BY <1>9, <1>10, <1>14, Parts DEF ChartsInvariant, Alive
  <2> QED BY <2>1, <2>2, <2>3 DEF ChartsInvariant
<1>17. FramesTyped' /\ Linked(waiting, container, frames)' /\ Stack(container, frames, chart, Registered)'
  BY <1>12 DEF FramesTyped
<1>18. StepTyped' /\ QueuesTyped'
  BY <1>1, Parts, StepStays, QueuesStay
<1> QED BY <1>10, <1>13, <1>15, <1>17, <1>18, PartsNext

\* The chart of a return, unless it has been deleted, is a subchart that exists.
ReturnsIn(f, ch) ==
  \A i \in DOMAIN f : f[i].kind = "return" /\ f[i].chart # Deleted =>
    f[i].chart \in Chart /\ Owner(f[i].chart) # 0 /\ ch[f[i].chart] # "none"
ReturnsExist == ReturnsIn(frames, chart)

\* Chart::Return and RunFlow end.
LEMMA ReturnEndsStep ==
  ASSUME LifecycleInvariant, ReturnsExist, ReturnEnds
  PROVE  LifecycleInvariant'
<1> DEFINE C == Charts(Id) \cap {Me}
           f == Front(frames)
<1>1. /\ frames # <<>> /\ Top.kind = "return" /\ StopCharts(C, f) /\ UNCHANGED <<agents, step, queues>>
  BY DEF ReturnEnds
<1>2. Top = frames[Len(frames)] /\ Len(frames) \in DOMAIN frames
  BY <1>1, Parts, TopFrame
<1>3. C \in SUBSET Chart /\ (\A c \in C : Exists(c)) /\ \A c \in C : c = Top.chart /\ c \in Chart
  BY DEF Charts, Exists, Me
<1>4. \A c \in C : Owner(c) # 0
  BY <1>1, <1>2, <1>3, ChartNames DEF ReturnsExist, ReturnsIn, Deleted
<1>5. f \in Seq(Frame) /\ Below(f, frames) /\ Linked(waiting, container, f)
  <2>1. Top.list = <<>>
    BY <1>1, <1>2, Parts DEF Linked
  <2>2. Linked(waiting, container, f)
    BY <1>1, <2>1, Parts, LinkedPop DEF Top
  <2>3. f \in Seq(Frame) /\ Below(f, frames)
    BY <1>1, Parts, FrontParts DEF Below
  <2> QED BY <2>2, <2>3
<1> HIDE DEF f, C
<1>6. Stack(container, f, chart, Registered)
  BY <1>5, LowerFrames
<1> QED BY <1>1, <1>3, <1>4, <1>5, <1>6, StopNext

-----------------------------------------------------------------------------
(* Steps.                                                                  *)

\* The numbers of a set of agents are agents.
LEMMA AscendingType ==
  ASSUME NEW S
  PROVE  Ascending(S) \in Seq(Id)
<1> DEFINE s == [i \in Id |-> i]
<1>1. s \in Seq(Id)
  BY LifecycleAssumption DEF LifecycleAssumption, Id
<1> QED BY <1>1, WithoutType DEF Ascending

\* Manager::Step up to the events.
LEMMA BeginStepStep ==
  ASSUME LifecycleInvariant, NEW S, BeginStep(S)
  PROVE  LifecycleInvariant'
<1> DEFINE due == Ascending({a \in S : status[a] = "running"})
<1>1. /\ stepping' = TRUE /\ inStep' = TRUE /\ inQueue' = inQueue \o outQueue \o due /\ outQueue' = <<>>
      /\ UNCHANGED <<agents, nodes, frames>>
  BY DEF BeginStep
<1>2. due \in Seq(Id)
  BY AscendingType
<1> HIDE DEF due
<1>3. QueuesTyped'
  BY <1>1, <1>2, Parts DEF QueuesTyped
<1>4. StepTyped'
  BY <1>1 DEF StepTyped
<1>5. AgentsTyped' /\ AgentsInvariant' /\ Registered' = Registered
  BY <1>1, Parts, AgentsStay
<1>6. NodesTyped' /\ ChartsInvariant'
  BY <1>1, Parts, NodesStay
<1>7. FramesTyped' /\ Linked(waiting, container, frames)' /\ Stack(container, frames, chart, Registered)'
  BY <1>1, <1>5, Parts DEF FramesTyped, nodes
<1> QED BY <1>3, <1>4, <1>5, <1>6, <1>7, PartsNext

\* The first event of a step is dispatched to the agent it names, if that is registered.
LEMMA FoundAgent ==
  ASSUME LifecycleInvariant, inQueue # <<>>, NEW a \in GetAgentById(Head(inQueue))
  PROVE  a = Head(inQueue) /\ a \in Id /\ a \in Registered
<1>1. Head(inQueue) \in Id
  BY Parts DEF QueuesTyped
<1>2. a = Head(inQueue) /\ a \in {registered[o] : o \in Object}
  BY DEF GetAgentById
<1> QED BY <1>1, <1>2, ChartNames DEF Registered

\* Manager::HandleEvent.
LEMMA HandleEventStep ==
  ASSUME LifecycleInvariant, HandleEvent
  PROVE  LifecycleInvariant'
<1>1. /\ frames = <<>> /\ inQueue # <<>> /\ inQueue' = Tail(inQueue)
      /\ UNCHANGED <<agents, chart, running, container, step, outQueue>>
  BY DEF HandleEvent
<1>2. QueuesTyped' /\ StepTyped'
  BY <1>1, Parts, StepStays DEF QueuesTyped
<1>3. CASE UNCHANGED <<waiting, frames>>
  <2>1. UNCHANGED nodes
    BY <1>1, <1>3 DEF nodes
  <2>2. AgentsTyped' /\ AgentsInvariant' /\ Registered' = Registered
    BY <1>1, Parts, AgentsStay
  <2>3. NodesTyped' /\ ChartsInvariant'
    BY <1>1, <2>1, Parts, NodesStay
  <2>4. FramesTyped' /\ Linked(waiting, container, frames)' /\ Stack(container, frames, chart, Registered)'
    BY <1>1, <1>3, <2>2, Parts DEF FramesTyped
  <2> QED BY <1>2, <2>2, <2>3, <2>4, PartsNext
<1>4. CASE \E a \in GetAgentById(Head(inQueue)) :
             waiting' = [waiting EXCEPT ![a] = <<>>] /\ Push(Dispatch(waiting[a], MaxCalls))
  <2>1. PICK a \in GetAgentById(Head(inQueue)) :
          waiting' = [waiting EXCEPT ![a] = <<>>] /\ Push(Dispatch(waiting[a], MaxCalls))
    BY <1>4
  <2>2. a \in Id
    BY <1>1, FoundAgent
  <2>3. frames' = Append(frames, Dispatch(waiting[a], MaxCalls))
    BY <2>1 DEF Push
  <2>4. MaxCalls \in 0..MaxCalls
    BY LifecycleAssumption DEF LifecycleAssumption
  <2> DEFINE f == frames
  <2>5. /\ f \in Seq(Frame) /\ Linked(waiting, container, f) /\ Stack(container, f, chart, Registered)
        /\ (f # <<>> => Last(f).kind # "called") /\ frames' = Append(f, Dispatch(waiting[a], MaxCalls))
    BY <1>1, <2>3, Parts
  <2> HIDE DEF f
  <2>6. /\ AgentsTyped' /\ AgentsInvariant' /\ NodesTyped' /\ ChartsInvariant' /\ FramesTyped'
        /\ Linked(waiting, container, frames)' /\ Stack(container, frames, chart, Registered)'
    BY <1>1, <2>1, <2>2, <2>4, <2>5, TakeNext
  <2> QED BY <1>2, <2>6, PartsNext
<1> QED BY <1>3, <1>4 DEF HandleEvent

\* The end of Manager::Step: the agents whose turn it is are deleted.
LEMMA EndStepStep ==
  ASSUME LifecycleInvariant, EndStep
  PROVE  LifecycleInvariant'
<1> DEFINE D == dying.now
           S == WithSubcharts(Charts(D))
<1>1. /\ frames = <<>> /\ stepping' = FALSE /\ inStep' = FALSE
      /\ dying' = [now |-> dying.next, next |-> {}]
      /\ UNCHANGED <<registered, lastId, queues, frames>>
      /\ status' = [a \in Id |-> IF a \in D THEN "deleted" ELSE status[a]]
      /\ armed' = armed \ D
      /\ chart' = [c \in Chart |-> IF c \in S THEN "none" ELSE chart[c]]
      /\ running' = running \ S
      /\ waiting' = [a \in Id |-> IF a \in D THEN <<>> ELSE Without(waiting[a], S)]
      /\ container' = Homeless(S \cup {c \in Chart : container[c] \in D})
  BY DEF EndStep, DeleteAgents, Rest
<1>2. D \subseteq Id /\ dying.next \subseteq Id /\ \A a \in D : status[a] = "destroying"
  BY Parts DEF AgentsTyped, AgentsInvariant
<1>3. Charts(D) \subseteq Chart /\ (\A c \in Charts(D) : Exists(c) /\ Host(c) \in D)
      /\ \A c \in Chart : Exists(c) /\ Host(c) \in D => c \in Charts(D)
  BY DEF Charts, Exists
<1>4. /\ S \subseteq Chart /\ Charts(D) \subseteq S
      /\ \A c \in S \ Charts(D) : Owner(c) # 0 /\ Attached(Owner(c)) \in Charts(D)
      /\ \A c \in Chart : Exists(c) /\ Owner(c) # 0 /\ Attached(Owner(c)) \in Charts(D) => c \in S
  BY <1>3, SubchartsExist
<1>5. dying.now \cap dying.next = {}
  BY Parts DEF AgentsInvariant
<1>6. \A a \in dying.next : status[a] = "destroying" /\ a \notin D
  BY <1>5, Parts DEF AgentsInvariant
<1> HIDE DEF D, S
<1>7. \A a \in Id : status'[a] = IF a \in D THEN "deleted" ELSE status[a]
  BY <1>1
<1>8. \A c \in Chart : /\ chart'[c] = IF c \in S THEN "none" ELSE chart[c]
                       /\ container'[c] = IF c \in S \/ container[c] \in D THEN 0 ELSE container[c]
  BY <1>1 DEF Homeless
<1>9. AgentsTyped'
  BY <1>1, <1>2, <1>7, Parts DEF AgentsTyped
<1>10. AgentsInvariant' /\ Registered' = Registered
  <2>1. Registered' = Registered
    BY <1>1 DEF Registered
  <2>2. \A a \in Registered' : status'[a] = "running"
    BY <1>2, <1>7, <2>1, Parts DEF AgentsInvariant
  <2>3. \A a \in Id : status'[a] = "none" <=> a > lastId'
    BY <1>1, <1>2, <1>7, Parts DEF AgentsInvariant
  <2>4. \A o, p \in Object : registered'[o] # 0 /\ registered'[o] = registered'[p] => o = p
    BY <1>1, Parts DEF AgentsInvariant
  <2>5. \A a \in armed' : Alive(a)'
    BY <1>1, <1>7, Parts DEF AgentsInvariant, AgentsTyped, Alive
  <2>6. \A a \in dying'.now \cup dying'.next : status'[a] = "destroying"
    BY <1>1, <1>2, <1>6, <1>7
  <2>7. dying'.now \cap dying'.next = {}
    BY <1>1
  <2> QED BY <2>1, <2>2, <2>3, <2>4, <2>5, <2>6, <2>7 DEF AgentsInvariant
<1>11. /\ \A a \in Id : /\ waiting'[a] \in Seq(Chart)
                        /\ Elements(waiting'[a]) = IF a \in D THEN {} ELSE Elements(waiting[a]) \ S
                        /\ NoRepeats(waiting'[a])
       /\ \A a \in Id : waiting[a] \in Seq(Chart) /\ Elements(waiting[a]) \subseteq Chart
  <2>1. \A a \in Id : waiting[a] \in Seq(Chart) /\ Elements(waiting[a]) \subseteq Chart /\ NoRepeats(waiting[a])
    BY Parts, ElementsType DEF Lists, Linked
  <2>2. <<>> \in Seq(Chart) /\ Elements(<<>>) = {} /\ NoRepeats(<<>>)
    BY DEF Elements, NoRepeats
  <2>3. \A a \in Id : /\ Without(waiting[a], S) \in Seq(Chart) /\ NoRepeats(Without(waiting[a], S))
                      /\ Elements(Without(waiting[a], S)) = Elements(waiting[a]) \ S
    BY <2>1, WithoutType, WithoutElements, WithoutOnly
  <2>4. \A a \in Id : waiting'[a] = IF a \in D THEN <<>> ELSE Without(waiting[a], S)
    BY <1>1
  <2> QED BY <2>1, <2>2, <2>3, <2>4
<1>12. waiting' \in Lists /\ container' \in Homes
  <2>1. container' \in Homes
    BY <1>1, <1>8, Parts DEF Homes, Homeless
  <2>2. waiting' \in Lists
    BY <1>1, <1>11 DEF Lists
  <2> QED BY <2>1, <2>2
<1>13. NodesTyped'
  BY <1>1, <1>8, <1>12, Parts DEF NodesTyped, States, Homes
<1>14. Linked(waiting, container, frames)'
  <2>1. DOMAIN frames = {} /\ DOMAIN frames' = {}
    BY <1>1
  <2>2. ASSUME NEW a \in Id, NEW c \in Elements(waiting'[a]) PROVE container'[c] = a
    <3>1. a \notin D /\ c \in Elements(waiting[a]) /\ c \notin S /\ c \in Chart
      BY <1>11, <2>2
    <3>2. container[c] = a
      BY <3>1, Parts DEF Linked
    <3> QED BY <1>8, <3>1, <3>2
  <2>3. ASSUME NEW c \in Chart, container'[c] # 0 PROVE c \in Elements(waiting'[container'[c]])
    <3>1. c \notin S /\ container[c] \notin D /\ container'[c] = container[c] /\ container[c] \in Id
      BY <1>8, <2>3, Parts DEF Homes
    <3>2. c \in Elements(waiting[container[c]])
      BY <2>1, <2>3, <3>1, Parts DEF Linked
    <3> QED BY <1>11, <3>1, <3>2
  <2> QED BY <1>11, <2>1, <2>2, <2>3 DEF Linked
<1>15. Stack(container, frames, chart, Registered)'
  <2> DEFINE f == <<>>
  <2>1. f \in Seq(Frame) /\ DOMAIN f = {} /\ Below(f, f) /\ UnderWay(f) = {} /\ frames = f /\ frames' = f
    BY <1>1 DEF Below, UnderWay
  <2> HIDE DEF f
  <2>2. \A c \in Chart : container'[c] \in {0, container[c]}
    BY <1>8
  <2>3. \A a \in Registered' : chart'[Attached(a)] = "idle" => a \in Registered /\ chart[Attached(a)] = "idle"
    <3>1. \A a \in Registered : Attached(a) \in Chart
      BY Parts, ChartNames
    <3> QED BY <1>8, <1>10, <3>1
  <2>4. Stack(container, f, chart, Registered) /\ Registered' \subseteq Id
    BY <1>10, <2>1, Parts
  <2>5. IdleIsIdle(container', f, chart', Registered')
    BY <2>1, <2>2, <2>3, <2>4, IdleShrinks DEF Stack
  <2>6. Stack(container', f, chart', Registered')
    BY <2>1, <2>2, <2>4, <2>5, StackShrinks
  <2> QED BY <2>1, <2>6
<1>16. ChartsInvariant'
  <2>1. ASSUME NEW c \in Chart, Exists(c)'
        PROVE  Alive(Host(c))' /\ (Owner(c) # 0 => Exists(Attached(Owner(c)))')
    <3>1. c \notin S /\ Exists(c)
      BY <1>8, <2>1 DEF Exists
    <3>2. Host(c) \in Id /\ Host(c) \notin D
      BY <1>3, <1>4, <3>1, ChartNames
    <3>3. Alive(Host(c))'
      BY <1>7, <3>1, <3>2, Parts DEF ChartsInvariant, Alive
    <3>4. ASSUME Owner(c) # 0 PROVE Exists(Attached(Owner(c)))'
      <4>1. Attached(Owner(c)) \in Chart /\ Owner(Attached(Owner(c))) = 0
        BY <3>4, ChartNames
      <4>2. Exists(Attached(Owner(c))) /\ Attached(Owner(c)) \notin S
        BY <1>4, <3>1, <3>4, <4>1, Parts DEF ChartsInvariant
      <4> QED BY <1>8, <4>1, <4>2 DEF Exists
    <3> QED BY <3>3, <3>4
  <2>2. \A c \in Chart : chart'[c] = "running" => status'[Host(c)] = "running"
    <3>1. \A c \in Chart : Host(c) \in Id
      BY ChartNames
    <3>2. \A c \in Chart : chart'[c] = "running" => chart[c] = "running"
      BY <1>8
    <3> QED BY <1>2, <1>7, <3>1, <3>2, Parts DEF ChartsInvariant
  <2>3. (\A c \in Chart : container[c] # 0 => Exists(c) /\ Alive(container[c]))'
    <3>1. \A c \in Chart : container'[c] # 0 => /\ c \notin S /\ container[c] \notin D
                                                /\ container'[c] = container[c] /\ container[c] \in Id
      BY <1>8, Parts DEF Homes
    <3> QED BY <1>7, <1>8, <3>1, Parts DEF ChartsInvariant, Exists, Alive
  <2> QED BY <2>1, <2>2, <2>3 DEF ChartsInvariant
<1>18. FramesTyped' /\ StepTyped' /\ QueuesTyped'
  BY <1>1, Parts, QueuesStay DEF FramesTyped, StepTyped
<1> QED BY <1>9, <1>10, <1>13, <1>14, <1>15, <1>16, <1>18, PartsNext

-----------------------------------------------------------------------------
(* The invariant.                                                          *)

\* No object is registered yet.
LEMMA Initially == Init => LifecycleInvariant
<1> SUFFICES ASSUME Init PROVE LifecycleInvariant
  OBVIOUS
<1>1. TypeOK
  <2>1. AgentsTyped
    BY DEF Init, AgentsTyped
  <2>2. NodesTyped
    <3>1. <<>> \in Seq(Chart)
      OBVIOUS
    <3> QED BY <3>1 DEF Init, NodesTyped, States, Homes, Lists
  <2>3. StepTyped
    BY DEF Init, StepTyped
  <2>4. QueuesTyped
    BY DEF Init, QueuesTyped
  <2>5. FramesTyped
    BY DEF Init, FramesTyped
  <2> QED BY <2>1, <2>2, <2>3, <2>4, <2>5, Types
<1>2. Registered = {} /\ frames = <<>> /\ UnderWay(frames) = {} /\ DOMAIN frames = {}
  BY DEF Init, Registered, UnderWay
<1>3. AgentsInvariant
  BY <1>2, LifecycleAssumption DEF Init, AgentsInvariant, LifecycleAssumption, Id
<1>4. ChartsInvariant
  BY DEF Init, ChartsInvariant, Exists
<1>5. Linked(waiting, container, frames)
  <2>1. Elements(<<>>) = {} /\ NoRepeats(<<>>)
    BY DEF Elements, NoRepeats
  <2>2. \A a \in Id : waiting[a] = <<>>
    BY DEF Init
  <2>3. \A c \in Chart : container[c] = 0
    BY DEF Init
  <2> QED BY <1>2, <2>1, <2>2, <2>3 DEF Linked
<1>6. Stack(container, frames, chart, Registered)
  <2>1. \A c \in Chart : ~ Busy(c, container, frames)
    BY <1>2 DEF Init, Busy
  <2> QED BY <1>2, <2>1 DEF Stack, Functioning, CalledBelow, OwnerWaits, IdleIsIdle
<1> QED BY <1>1, <1>3, <1>4, <1>5, <1>6 DEF LifecycleInvariant

\* No step of the game or of the runtime breaks it.
LEMMA EveryStep ==
  ASSUME ~ InUseToo, LifecycleInvariant, ReturnsExist, [Next]_vars
  PROVE  LifecycleInvariant'
<1>1. CASE Game
  <2> SUFFICES ASSUME NEW o \in Object,
                      \/ Register(o) \/ Unregister(o) \/ Attach(o) \/ StartChart(o)
                      \/ Raise(o) \/ Trigger(o) \/ Remove(o) \/ StopChart(o) \/ Stop(o)
               PROVE  LifecycleInvariant'
    BY <1>1 DEF Game
  <2> QED BY RegisterStep, UnregisterStep, AttachStep, StartChartStep, RaiseStep, TriggerStep, RemoveStep, StopStep
<1>2. CASE Step
  BY <1>2, BeginStepStep DEF Step
<1>3. CASE Functions
  <2>1. ASSUME NEW o \in Object, FunctionWaits(o) \/ FunctionCallsSubchart(o)
        PROVE  LifecycleInvariant'
    BY <2>1, FunctionWaitsStep, FunctionCallsSubchartStep
  <2>2. CASE FunctionEnds
    BY <2>2, FunctionEndsStep
  <2>3. CASE CalledReturns
    <3>1. /\ frames # <<>> /\ (Top.kind # "dispatch" \/ Top.list = <<>>)
          /\ frames' = Front(frames) /\ UNCHANGED <<agents, nodes, step, queues>>
      BY <2>3 DEF CalledReturns
    <3> QED BY <2>3, <3>1, PopStep DEF CalledReturns
  <2>4. CASE ReturnEnds
    BY <2>4, ReturnEndsStep
  <2> QED BY <1>3, <2>1, <2>2, <2>3, <2>4 DEF Functions
<1>4. CASE DispatchNode
  BY <1>4, DispatchNodeStep
<1>5. CASE DispatchEnd
  BY <1>5, PopStep DEF DispatchEnd
<1>6. CASE HandleEvent
  BY <1>6, HandleEventStep
<1>7. CASE EndStep
  BY <1>7, EndStepStep
<1>8. CASE UNCHANGED vars
  <2>1. UNCHANGED <<agents, nodes, step, queues, frames>>
    BY <1>8 DEF vars
  <2>2. AgentsTyped' /\ AgentsInvariant' /\ Registered' = Registered
    BY <2>1, Parts, AgentsStay
  <2>3. NodesTyped' /\ ChartsInvariant' /\ QueuesTyped' /\ StepTyped'
    BY <2>1, Parts, NodesStay, QueuesStay, StepStays
  <2>4. FramesTyped' /\ Linked(waiting, container, frames)' /\ Stack(container, frames, chart, Registered)'
    BY <2>1, <2>2, Parts DEF FramesTyped, nodes
  <2> QED BY <2>2, <2>3, <2>4, PartsNext
<1> QED BY <1>1, <1>2, <1>3, <1>4, <1>5, <1>6, <1>7, <1>8 DEF Next, Runtime

\* Frames that are those of f as far as they go: no function and no return is new.
SameAt(g, f) ==
  \A i \in DOMAIN g : i \in DOMAIN f /\ g[i].kind = f[i].kind /\ g[i].chart = f[i].chart

\* Returns stay below what others do; a frame is pushed; the charts of C are deleted.
LEMMA ReturnsStay ==
  ASSUME NEW f, NEW ch, ReturnsIn(f, ch), NEW g, SameAt(g, f), NEW ch2,
         \A c \in Chart : ch[c] # "none" => ch2[c] # "none"
  PROVE  ReturnsIn(g, ch2)
BY DEF ReturnsIn, SameAt

LEMMA ReturnsPush ==
  ASSUME NEW f \in Seq(Frame), NEW ch, ReturnsIn(f, ch), NEW fr \in Frame,
         fr.kind = "return" => fr.chart \in Chart /\ Owner(fr.chart) # 0 /\ ch[fr.chart] # "none"
  PROVE  ReturnsIn(Append(f, fr), ch)
<1>1. \A i \in DOMAIN Append(f, fr) : Append(f, fr)[i] = fr \/ (i \in DOMAIN f /\ Append(f, fr)[i] = f[i])
  OBVIOUS
<1> QED BY <1>1 DEF ReturnsIn

LEMMA ReturnsDangle ==
  ASSUME NEW f, NEW ch, ReturnsIn(f, ch), NEW C, NEW ch2,
         \A c \in Chart : c \notin C /\ ch[c] # "none" => ch2[c] # "none"
  PROVE  ReturnsIn(Dangling(f, C), ch2)
<1>1. Return(Deleted).chart = Deleted
  BY DEF Return
<1> QED BY <1>1 DEF ReturnsIn, Dangling

LEMMA DanglingType ==
  ASSUME NEW f \in Seq(Frame), NEW C
  PROVE  Dangling(f, C) \in Seq(Frame)
<1>1. LET d == Return(Deleted) IN d \in Frame
  BY FrameParts
<1>2. \A i \in DOMAIN f : Dangling(f, C)[i] \in Frame
  BY <1>1 DEF Dangling
<1>3. DOMAIN f = 1..Len(f) /\ Len(f) \in Nat
  OBVIOUS
<1>4. Dangling(f, C) \in [1..Len(f) -> Frame]
  BY <1>2, <1>3 DEF Dangling
<1> QED BY <1>3, <1>4

\* What calls, and what unlinks nodes, leaves the frames as they are.
LEMMA SpentSame ==
  ASSUME LifecycleInvariant, CanCall, NEW S
  PROVE  SameAt(Spent, frames) /\ SameAt(UnlinkedFrames(Spent, S), frames)
<1>1. /\ Spent \in Seq(Frame) /\ DOMAIN Spent = DOMAIN frames
      /\ \A i \in DOMAIN frames : Spent[i].kind = frames[i].kind /\ Spent[i].chart = frames[i].chart
  BY Calling
<1> DEFINE g == UnlinkedFrames(Spent, S)
<1>2. DOMAIN g = DOMAIN Spent /\ \A i \in DOMAIN Spent : g[i].kind = Spent[i].kind /\ g[i].chart = Spent[i].chart
  BY <1>1, FramesUnlinked
<1> HIDE DEF g
<1>3. SameAt(g, frames)
  BY <1>1, <1>2 DEF SameAt
<1> QED BY <1>1, <1>3 DEF SameAt, g

LEMMA FrontSame ==
  ASSUME LifecycleInvariant, frames # <<>>, NEW S
  PROVE  /\ Front(frames) \in Seq(Frame)
         /\ SameAt(Front(frames), frames) /\ SameAt(UnlinkedFrames(Front(frames), S), frames)
<1> DEFINE f == Front(frames)
           g == UnlinkedFrames(f, S)
<1>1. f \in Seq(Frame) /\ DOMAIN f \subseteq DOMAIN frames /\ \A i \in DOMAIN f : f[i] = frames[i]
  BY Parts, FrontParts
<1> HIDE DEF f
<1>2. DOMAIN g = DOMAIN f /\ \A i \in DOMAIN f : g[i].kind = f[i].kind /\ g[i].chart = f[i].chart
  BY <1>1, FramesUnlinked
<1> HIDE DEF g
<1>3. SameAt(f, frames) /\ SameAt(g, frames)
  BY <1>1, <1>2 DEF SameAt
<1> QED BY <1>1, <1>3 DEF f, g

\* No step leaves a return with a chart that does not exist, but says that it is deleted.
LEMMA ReturnsStep ==
  ASSUME LifecycleInvariant, ReturnsExist, [Next]_vars
  PROVE  ReturnsExist'
<1>0. ReturnsIn(frames, chart) /\ frames \in Seq(Frame) /\ chart \in States
  BY Parts DEF ReturnsExist
<1>1. ASSUME NEW o \in Object, Register(o) \/ Attach(o) \/ StartChart(o) \/ Raise(o)
      PROVE  ReturnsIn(frames', chart')
  <2>1. CanCall /\ frames' = Spent
    BY <1>1 DEF Register, Attach, StartChart, Raise, Calls
  <2>2. \A c \in Chart : chart[c] # "none" => chart'[c] # "none"
    BY <1>0, <1>1 DEF Register, Attach, StartChart, Raise, nodes, States
  <2> QED BY <1>0, <2>1, <2>2, SpentSame, ReturnsStay
<1>2. ASSUME NEW C, NEW f, StopCharts(C, f), \A S : SameAt(UnlinkedFrames(f, S), frames)
      PROVE  ReturnsIn(frames', chart')
  <2>1. SameAt(frames', frames) /\ \A c \in Chart : chart[c] # "none" => chart'[c] # "none"
    BY <1>2 DEF StopCharts
  <2> QED BY <1>0, <2>1, ReturnsStay
<1>3. ASSUME NEW o \in Object, Unregister(o) \/ StopChart(o) \/ Stop(o)
      PROVE  ReturnsIn(frames', chart')
  <2>1. CanCall /\ \E C : StopCharts(C, Spent)
    BY <1>3 DEF Unregister, StopChart, Stop
  <2> QED BY <1>2, <2>1, SpentSame
<1>4. ASSUME NEW o \in Object, Trigger(o) PROVE ReturnsIn(frames', chart')
  <2> DEFINE fr == Dispatch(waiting[registered[o]], Left)
  <2>1. CanCall /\ registered[o] # 0 /\ frames' = Append(Spent, fr) /\ UNCHANGED chart
    BY <1>4 DEF Trigger
  <2>2. registered[o] \in Id
    BY <2>1, Parts DEF AgentsTyped
  <2>3. Spent \in Seq(Frame) /\ Left \in 0..MaxCalls
    BY <2>1, Calling
  <2>4. fr \in Frame /\ fr.kind = "dispatch"
    BY <2>2, <2>3, Parts, FrameParts DEF Lists
  <2>5. ReturnsIn(Spent, chart)
    BY <1>0, <2>1, SpentSame, ReturnsStay
  <2> HIDE DEF fr
  <2> QED BY <2>1, <2>3, <2>4, <2>5, ReturnsPush
<1>5. ASSUME NEW o \in Object, Remove(o) PROVE ReturnsIn(frames', chart')
  <2> DEFINE S == WithSubcharts(AttachedTo(o))
             u == UnlinkedFrames(Spent, S)
  <2>1. /\ CanCall /\ chart' = [c \in Chart |-> IF c \in S THEN "none" ELSE chart[c]]
        /\ frames' = Dangling(u, S)
    BY <1>5 DEF Remove, DeleteCharts
  <2>2. ReturnsIn(u, chart)
    BY <1>0, <2>1, SpentSame, ReturnsStay
  <2> HIDE DEF u, S
  <2> QED BY <2>1, <2>2, ReturnsDangle
<1>6. CASE Step \/ EndStep \/ UNCHANGED vars
  <2>1. frames' = frames /\ (frames = <<>> \/ chart' = chart)
    BY <1>6 DEF Step, BeginStep, EndStep, vars, nodes
  <2> QED BY <1>0, <2>1 DEF ReturnsExist, ReturnsIn
<1>7. ASSUME CalledReturns \/ DispatchEnd \/ \E o \in Object : FunctionWaits(o)
      PROVE  ReturnsIn(frames', chart')
  <2>1. frames # <<>> /\ frames' = Front(frames) /\ chart' = chart
    BY <1>7 DEF CalledReturns, DispatchEnd, FunctionWaits, InFunction, nodes
  <2> QED BY <1>0, <2>1, FrontSame, ReturnsStay
<1>8. ASSUME ReturnEnds PROVE ReturnsIn(frames', chart')
  <2>1. frames # <<>> /\ \E C : StopCharts(C, Front(frames))
    BY <1>8 DEF ReturnEnds
  <2> QED BY <1>2, <2>1, FrontSame
<1>9. ASSUME NEW o \in Object, FunctionCallsSubchart(o) PROVE ReturnsIn(frames', chart')
  <2> DEFINE sub == <<registered[o], Host(Me)>>
             old == {c \in Chart : chart[c] # "none" /\ Owner(c) = Host(Me)} \ {sub}
             called == Called(Top)
             calling == Append(Front(frames), called)
             u == UnlinkedFrames(calling, old)
             g == Dangling(u, old)
             fr == Function(sub, Left)
  <2>1. /\ InFunction /\ Top.left > 0 /\ registered[o] # 0 /\ frames' = g \o <<fr>>
        /\ chart' = [c \in Chart |-> IF c = sub THEN "running" ELSE IF c \in old THEN "none" ELSE chart[c]]
    BY <1>9 DEF FunctionCallsSubchart
  <2>2. Me \in Chart /\ frames # <<>> /\ Top \in Frame /\ Top.left \in 0..MaxCalls
    BY <2>1, TopFunction
  <2>3. sub \in Chart
    <3>1. registered[o] \in Id
      BY <2>1, Parts DEF AgentsTyped
    <3> QED BY <2>2, <3>1, ChartNames
  <2>5. Left \in 0..MaxCalls
    BY <2>1, <2>2, LifecycleAssumption DEF Left, LifecycleAssumption
  <2>6. fr \in Frame /\ fr.kind = "function"
    BY <2>3, <2>5, FrameParts
  <2>7. called \in Frame /\ called.kind = "called"
    BY <2>2 DEF Called, Frame
  <2>8. chart' = [c \in Chart |-> IF c = sub THEN "running" ELSE IF c \in old THEN "none" ELSE chart[c]]
    BY <2>1
  <2> HIDE DEF called, sub, old, fr
  <2>9. calling \in Seq(Frame) /\ ReturnsIn(calling, chart)
    <3>1. Front(frames) \in Seq(Frame) /\ ReturnsIn(Front(frames), chart)
      BY <1>0, <2>2, FrontSame, ReturnsStay
    <3> QED BY <2>7, <3>1, ReturnsPush
  <2> HIDE DEF calling
  <2>10. /\ u \in Seq(Frame) /\ DOMAIN u = DOMAIN calling
         /\ \A i \in DOMAIN calling : u[i].kind = calling[i].kind /\ u[i].chart = calling[i].chart
    BY <2>9, FramesUnlinked
  <2>11. ReturnsIn(u, chart)
    <3> HIDE DEF u
    <3>1. SameAt(u, calling)
      BY <2>10 DEF SameAt
    <3> QED BY <2>9, <3>1, ReturnsStay
  <2>12. \A c \in Chart : c \notin old /\ chart[c] # "none" => chart'[c] # "none"
    BY <2>8
  <2>13. ReturnsIn(g, chart')
    <3> HIDE DEF u
    <3> QED BY <2>11, <2>12, ReturnsDangle
  <2>14. g \in Seq(Frame)
    <3> HIDE DEF u
    <3> QED BY <2>10, DanglingType
  <2> HIDE DEF g
  <2>15. frames' = Append(g, fr)
    BY <2>1, <2>6, <2>14
  <2> QED BY <2>6, <2>13, <2>14, <2>15, ReturnsPush
<1>10. ASSUME FunctionEnds PROVE ReturnsIn(frames', chart')
  <2> DEFINE owner == Attached(Owner(Me))
             below == Front(frames)
             over == chart[Me] = "running" /\ Me \notin running
             resumes == over /\ Owner(Me) # 0 /\ chart[owner] = "running"
             called == below # <<>> /\ Last(below).kind = "called" /\ Last(below).chart = owner
             rt == Return(Me)
             f0 == IF called THEN Front(below) ELSE Append(below, rt)
             fr == Function(owner, Top.left)
             f == IF ~ resumes THEN below ELSE Append(f0, fr)
  <2>1. InFunction /\ \E S : frames' = UnlinkedFrames(f, S)
    BY <1>10 DEF FunctionEnds
  <2>2. Me \in Chart /\ Top.left \in 0..MaxCalls /\ frames # <<>> /\ chart[Me] # "none"
    BY <2>1, TopFunction
  <2>3. \A c \in Chart : chart[c] # "none" => chart'[c] # "none"
    BY <1>10 DEF FunctionEnds
  <2>4. below \in Seq(Frame) /\ ReturnsIn(below, chart)
    BY <1>0, <2>2, FrontSame, ReturnsStay
  <2>5. rt \in Frame /\ rt.kind = "return" /\ rt.chart = Me
    BY <2>2, FrameParts
  <2>6. Owner(Me) # 0 => fr \in Frame /\ fr.kind = "function"
    BY <2>2, ChartNames, FrameParts
  <2> HIDE DEF below, rt, fr
  <2>7. below # <<>> => Front(below) \in Seq(Frame) /\ ReturnsIn(Front(below), chart)
    <3>1. below # <<>> => /\ Front(below) \in Seq(Frame) /\ DOMAIN Front(below) \subseteq DOMAIN below
                          /\ \A i \in DOMAIN Front(below) : Front(below)[i] = below[i]
      BY <2>4, FrontParts
    <3> QED BY <2>4, <3>1 DEF ReturnsIn
  <2>8. resumes => Append(below, rt) \in Seq(Frame) /\ ReturnsIn(Append(below, rt), chart)
    BY <2>2, <2>4, <2>5, ReturnsPush
  <2>9. resumes => f0 \in Seq(Frame) /\ ReturnsIn(f0, chart)
    BY <2>7, <2>8
  <2> HIDE DEF f0, called
  <2>10. f \in Seq(Frame) /\ ReturnsIn(f, chart)
    <3>1. resumes => Append(f0, fr) \in Seq(Frame) /\ ReturnsIn(Append(f0, fr), chart)
      BY <2>6, <2>9, ReturnsPush
    <3> HIDE DEF resumes
    <3> QED BY <2>4, <3>1
  <2> HIDE DEF f, resumes, owner
  <2>11. PICK S : frames' = UnlinkedFrames(f, S)
    BY <2>1
  <2>12. SameAt(frames', f)
    BY <2>10, <2>11, FramesUnlinked DEF SameAt
  <2> QED BY <2>3, <2>10, <2>12, ReturnsStay
<1>11. ASSUME DispatchNode PROVE ReturnsIn(frames', chart')
  <2> DEFINE c == Head(Top.list)
             rest == Append(Front(frames), [Top EXCEPT !.list = Tail(@)])
             fr == Function(c, Top.left)
  <2>1. /\ frames # <<>> /\ Top.kind = "dispatch" /\ Top.list # <<>> /\ UNCHANGED chart
        /\ frames' = IF chart[c] = "running" THEN Append(rest, fr) ELSE rest
    BY <1>11 DEF DispatchNode
  <2>2. /\ c \in Chart /\ rest \in Seq(Frame) /\ Len(rest) = Len(frames)
        /\ \A i \in DOMAIN frames : rest[i].kind = frames[i].kind /\ rest[i].chart = frames[i].chart
    <3>1. Last(frames).kind = "dispatch" /\ Last(frames).list # <<>>
      BY <2>1 DEF Top
    <3> QED BY <2>1, <3>1, Parts, LinkedDispatch DEF Top
  <2>3. Top.left \in 0..MaxCalls
    BY <2>1, Parts, TopFrame
  <2>4. fr \in Frame /\ fr.kind = "function"
    BY <2>2, <2>3, FrameParts
  <2> HIDE DEF fr, rest, c
  <2>5. SameAt(rest, frames)
    BY <2>2, Parts DEF SameAt
  <2>6. ReturnsIn(rest, chart)
    BY <1>0, <2>5, ReturnsStay
  <2>7. ReturnsIn(Append(rest, fr), chart)
    BY <2>2, <2>4, <2>6, ReturnsPush
  <2> QED BY <2>1, <2>6, <2>7
<1>12. ASSUME HandleEvent PROVE ReturnsIn(frames', chart')
  <2>0. UNCHANGED chart
    BY <1>12 DEF HandleEvent
  <2>1. CASE UNCHANGED frames
    BY <1>0, <2>0, <2>1
  <2>2. CASE ~ UNCHANGED frames
    <3>1. PICK a \in GetAgentById(Head(inQueue)) : Push(Dispatch(waiting[a], MaxCalls))
      BY <1>12, <2>2 DEF HandleEvent
    <3> DEFINE fr == Dispatch(waiting[a], MaxCalls)
    <3>2. inQueue # <<>> /\ frames' = Append(frames, fr)
      BY <1>12, <3>1 DEF HandleEvent, Push
    <3>3. a \in Id /\ MaxCalls \in 0..MaxCalls
      BY <3>2, FoundAgent, LifecycleAssumption DEF LifecycleAssumption
    <3>4. fr \in Frame /\ fr.kind = "dispatch"
      BY <3>3, Parts, FrameParts DEF Lists
    <3> HIDE DEF fr
    <3> QED BY <1>0, <2>0, <3>2, <3>4, ReturnsPush
  <2> QED BY <2>1, <2>2
<1> QED BY <1>1, <1>3, <1>4, <1>5, <1>6, <1>7, <1>8, <1>9, <1>10, <1>11, <1>12
        DEF Next, Game, Runtime, Functions, ReturnsExist

\* The charts that returns under way refer to, deleted ones apart, exist.
LEMMA ReturnsHold ==
  ASSUME ~ InUseToo
  PROVE  Spec => [](LifecycleInvariant /\ ReturnsExist)
<1>1. Init => ReturnsExist
  BY DEF Init, ReturnsExist, ReturnsIn
<1>2. LifecycleInvariant /\ ReturnsExist /\ [Next]_vars => (LifecycleInvariant /\ ReturnsExist)'
  BY EveryStep, ReturnsStep
<1> QED BY <1>1, <1>2, Initially, PTL DEF Spec

\* Whatever the game and the functions do, short of stopping or removing a chart in use.
THEOREM LifecycleInvariantHolds ==
  ASSUME ~ InUseToo
  PROVE  Spec => []LifecycleInvariant
BY ReturnsHold, PTL

\* Every variable keeps its type (agent_manager.h:56-67, agent.h, dying_agents.h:34).
THEOREM LifecycleTypes ==
  ASSUME ~ InUseToo
  PROVE  Spec => []TypeOK
<1>1. LifecycleInvariant => TypeOK
  BY DEF LifecycleInvariant
<1> QED BY <1>1, LifecycleInvariantHolds, PTL

\* No list, no dispatch, no function under way, no timer and no map ever points to
\* what has been deleted; only a return can, ReturnsFindTheirChart (agent.cpp:25-53,
\* custom_struct.cpp:54-62, node.cpp:28-36, chart.cpp:22-56, dying_agents.h:29-35).
THEOREM NothingDangles ==
  ASSUME ~ InUseToo
  PROVE  Spec => []NothingRefersToDeleted
<1>1. ASSUME LifecycleInvariant, ReturnsExist PROVE NothingRefersToDeleted
  <2>1. ASSUME NEW c \in Held PROVE Exists(c)
    <3>1. \A d \in Chart : container[d] # 0 => Exists(d)
      BY <1>1, Parts DEF ChartsInvariant
    <3>2. ASSUME NEW a \in Id, c \in Elements(waiting[a]) PROVE Exists(c)
      <4>1. c \in Chart
        BY <1>1, <3>2, Parts, ElementsType DEF Lists
      <4>2. container[c] = a
        BY <1>1, <3>2, Parts DEF Linked
      <4> QED BY <3>1, <4>1, <4>2, ChartNames
    <3>3. ASSUME NEW i \in DOMAIN frames, c \in Elements(frames[i].list) PROVE Exists(c)
      <4>1. c \in Chart
        BY <1>1, <3>3, Parts, FrameParts, ElementsType
      <4>2. container[c] # 0
        BY <1>1, <3>3, Parts DEF Linked
      <4> QED BY <3>1, <4>1, <4>2
    <3>4. ASSUME NEW i \in UnderWay(frames), c = frames[i].chart PROVE Exists(c)
      BY <1>1, <3>4, Parts DEF Stack, Functioning, Exists
    <3>5. ASSUME NEW i \in DOMAIN frames, frames[i].kind = "return", c = frames[i].chart, c # Deleted
          PROVE  Exists(c)
      BY <1>1, <3>5 DEF ReturnsExist, ReturnsIn, Exists
    <3>6. \A i \in DOMAIN frames : frames[i].kind \in {"dispatch", "function", "called", "return"}
      BY <1>1, Parts, FrameParts
    <3>7. \/ \E a \in Id : c \in Elements(waiting[a])
          \/ \E i \in DOMAIN frames : c \in Elements(frames[i].list)
          \/ \E i \in UnderWay(frames) : c = frames[i].chart
          \/ \E i \in DOMAIN frames : frames[i].kind = "return" /\ c = frames[i].chart /\ c # Deleted
      BY <2>1, <3>6 DEF Held, UnderWay
    <3> QED BY <3>2, <3>3, <3>4, <3>5, <3>7
  <2>2. \A o \in Object : registered[o] # 0 => status[registered[o]] = "running"
    BY <1>1, Parts DEF AgentsInvariant, Registered
  <2>3. \A a \in armed \cup dying.now \cup dying.next : Alive(a)
    BY <1>1, Parts DEF AgentsInvariant, Alive
  <2> QED BY <1>1, <2>1, <2>2, <2>3, Parts DEF NothingRefersToDeleted, ChartsInvariant
<1> QED BY <1>1, ReturnsHold, PTL

\* A node is in one list at most, that of the agent it takes itself to wait for, also
\* when a dispatch has taken the list (custom_struct.cpp:64-84, manager.cpp:430-431).
THEOREM NodesInOneList ==
  ASSUME ~ InUseToo
  PROVE  Spec => []ContainersAgree
<1>1. ASSUME LifecycleInvariant PROVE ContainersAgree
  <2> SUFFICES ASSUME NEW c \in Chart
               PROVE  LET In(a) == c \in Elements(waiting[a])
                          Taken == {i \in DOMAIN frames : c \in Elements(frames[i].list)}
                      IN  /\ \A a \in Id : In(a) => container[c] = a
                          /\ container[c] # 0 => (In(container[c]) <=> Taken = {})
                          /\ Taken # {} => container[c] # 0
                          /\ Cardinality(Taken) <= 1
    BY DEF ContainersAgree
  <2> DEFINE Taken == {i \in DOMAIN frames : c \in Elements(frames[i].list)}
  <2>1. \A a \in Id : c \in Elements(waiting[a]) => container[c] = a
    BY <1>1, Parts DEF Linked
  <2>2. Taken # {} => container[c] # 0 /\ c \notin Elements(waiting[container[c]])
    BY <1>1, Parts DEF Linked
  <2>3. container[c] # 0 /\ Taken = {} => c \in Elements(waiting[container[c]])
    BY <1>1, Parts DEF Linked
  <2>4. Cardinality(Taken) <= 1
    <3>1. \A i, j \in Taken : i = j
      BY <1>1, Parts DEF Linked
    <3> HIDE DEF Taken
    <3>2. CASE Taken = {}
      BY <3>2, FS_EmptySet
    <3>3. CASE Taken # {}
      <4>1. PICK i \in Taken : Taken = {i}
        BY <3>1, <3>3
      <4>2. Cardinality({i}) = 1
        BY FS_Singleton
      <4> QED BY <4>1, <4>2
    <3> QED BY <3>2, <3>3
  <2> QED BY <2>1, <2>2, <2>3, <2>4
<1> QED BY <1>1, LifecycleInvariantHolds, PTL

-----------------------------------------------------------------------------
(* What a step may not do.                                                 *)

\* In frames that become g, a function either was under way in f, at its place, or is that of c.
GoOn(g, f) ==
  \A i \in DOMAIN g : g[i].kind = "function" =>
    i \in DOMAIN f /\ f[i].kind = "function" /\ f[i].chart = g[i].chart
Starts(c, g, f) ==
  \A i \in DOMAIN g : g[i].kind = "function" =>
    g[i].chart = c \/ (i \in DOMAIN f /\ f[i].kind = "function" /\ f[i].chart = g[i].chart)

\* A call starts no function, and neither does what unlinks nodes,
LEMMA SpentGoesOn ==
  ASSUME LifecycleInvariant, CanCall, NEW S
  PROVE  GoOn(Spent, frames) /\ GoOn(UnlinkedFrames(Spent, S), frames)
<1>1. /\ Spent \in Seq(Frame) /\ DOMAIN Spent = DOMAIN frames
      /\ \A i \in DOMAIN frames : Spent[i].kind = frames[i].kind /\ Spent[i].chart = frames[i].chart
  BY Calling
<1> DEFINE g == UnlinkedFrames(Spent, S)
<1>2. DOMAIN g = DOMAIN Spent /\ \A i \in DOMAIN Spent : g[i].kind = Spent[i].kind /\ g[i].chart = Spent[i].chart
  BY <1>1, FramesUnlinked
<1> HIDE DEF g
<1>3. GoOn(g, frames)
  BY <1>1, <1>2 DEF GoOn
<1> QED BY <1>1, <1>3 DEF GoOn, g

LEMMA DanglingGoesOn ==
  ASSUME NEW f, NEW g, GoOn(g, f), NEW C
  PROVE  GoOn(Dangling(g, C), f)
<1>1. Return(Deleted).kind = "return"
  BY DEF Return
<1> QED BY <1>1 DEF GoOn, Dangling

\* but a function that is pushed does.
LEMMA PushStarts ==
  ASSUME NEW f \in Seq(Frame), NEW g \in Seq(Frame), GoOn(g, f), NEW fr \in Frame, NEW c,
         fr.kind # "function" \/ fr.chart = c
  PROVE  Starts(c, Append(g, fr), f)
<1> DEFINE h == Append(g, fr)
<1>1. DOMAIN h = DOMAIN g \cup {Len(g) + 1} /\ h[Len(g) + 1] = fr /\ \A i \in DOMAIN g : h[i] = g[i]
  OBVIOUS
<1> HIDE DEF h
<1>2. Starts(c, h, f)
  BY <1>1 DEF Starts, GoOn
<1> QED BY <1>2 DEF h

\* A function that starts is that of a chart on an object that is not being destroyed.
LEMMA StartsOnRunning ==
  ASSUME LifecycleInvariant, [Next]_vars
  PROVE  GoOn(frames', frames) \/ \E c \in Chart : status'[Host(c)] = "running" /\ Starts(c, frames', frames)
<1>1. CASE Game
  <2> SUFFICES ASSUME NEW o \in Object,
                      \/ Register(o) \/ Unregister(o) \/ Attach(o) \/ StartChart(o)
                      \/ Raise(o) \/ Trigger(o) \/ Remove(o) \/ StopChart(o) \/ Stop(o)
               PROVE  GoOn(frames', frames)
    BY <1>1 DEF Game
  <2>1. CASE Register(o) \/ Attach(o) \/ StartChart(o) \/ Raise(o)
    BY <2>1, SpentGoesOn DEF Register, Attach, StartChart, Raise, Calls
  <2>2. CASE Unregister(o) \/ StopChart(o) \/ Stop(o)
    BY <2>2, SpentGoesOn DEF Unregister, StopChart, Stop, StopCharts
  <2>4. CASE Remove(o)
    BY <2>4, SpentGoesOn, DanglingGoesOn DEF Remove, DeleteCharts
  <2>3. CASE Trigger(o)
    <3> DEFINE fr == Dispatch(waiting[registered[o]], Left)
    <3>1. CanCall /\ registered[o] # 0 /\ frames' = Append(Spent, fr)
      BY <2>3 DEF Trigger
    <3>2. registered[o] \in Id
      BY <3>1, Parts DEF AgentsTyped
    <3>3. Spent \in Seq(Frame) /\ Left \in 0..MaxCalls
      BY <3>1, Calling
    <3>4. fr \in Frame /\ fr.kind = "dispatch"
      BY <3>2, <3>3, Parts, FrameParts DEF Lists
    <3>5. GoOn(Spent, frames)
      BY <3>1, SpentGoesOn
    <3> HIDE DEF fr
    <3>6. \A c : Starts(c, Append(Spent, fr), frames)
      BY <3>3, <3>4, <3>5, Parts, PushStarts
    <3>7. Starts(<<0, 0>>, frames', frames) /\ Starts(<<0, 1>>, frames', frames)
      BY <3>1, <3>6
    <3> QED BY <3>7 DEF Starts, GoOn
  <2> QED BY <2>1, <2>2, <2>3, <2>4
<1>2. CASE Step \/ EndStep \/ UNCHANGED vars
  <2>1. frames' = frames
    BY <1>2 DEF Step, BeginStep, EndStep, vars
  <2> QED BY <2>1 DEF GoOn
<1>3. ASSUME frames # <<>>, frames' = Front(frames) PROVE GoOn(frames', frames)
  <2>1. DOMAIN Front(frames) \subseteq DOMAIN frames /\ \A i \in DOMAIN Front(frames) : Front(frames)[i] = frames[i]
    BY <1>3, Parts, FrontParts
  <2> QED BY <1>3, <2>1 DEF GoOn
<1>4. ASSUME NEW o \in Object, FunctionCallsSubchart(o)
      PROVE  \E c \in Chart : status'[Host(c)] = "running" /\ Starts(c, frames', frames)
  <2> DEFINE sub == <<registered[o], Host(Me)>>
             old == {c \in Chart : chart[c] # "none" /\ Owner(c) = Host(Me)} \ {sub}
             called == Called(Top)
             calling == Append(Front(frames), called)
             u == UnlinkedFrames(calling, old)
             g == Dangling(u, old)
             fr == Function(sub, Left)
  <2>1. /\ InFunction /\ Top.left > 0 /\ registered[o] # 0 /\ frames' = g \o <<fr>> /\ UNCHANGED agents
    BY <1>4 DEF FunctionCallsSubchart
  <2>2. Me \in Chart /\ frames # <<>> /\ Top \in Frame /\ Top.left \in 0..MaxCalls
    BY <2>1, TopFunction
  <2>3. registered[o] \in Id /\ status[registered[o]] = "running"
    BY <2>1, Parts DEF AgentsTyped, AgentsInvariant, Registered
  <2>4. sub \in Chart /\ Host(sub) = registered[o]
    BY <2>2, <2>3, ChartNames
  <2>5. Left \in 0..MaxCalls
    BY <2>1, <2>2, LifecycleAssumption DEF Left, LifecycleAssumption
  <2>6. fr \in Frame /\ fr.chart = sub
    BY <2>4, <2>5, FrameParts
  <2>7. called \in Frame /\ called.kind = "called"
    BY <2>2 DEF Called, Frame
  <2> HIDE DEF called, sub, old, fr
  <2>8. /\ calling \in Seq(Frame) /\ DOMAIN calling = DOMAIN frames /\ calling[Len(frames)] = called
        /\ \A i \in DOMAIN frames : i # Len(frames) => calling[i] = frames[i]
    BY <2>2, <2>7, Parts, LastReplaced
  <2> HIDE DEF calling
  <2>14. u \in Seq(Frame) /\ DOMAIN u = DOMAIN calling
         /\ \A i \in DOMAIN calling : u[i].kind = calling[i].kind /\ u[i].chart = calling[i].chart
    BY <2>8, FramesUnlinked
  <2> HIDE DEF u
  <2>15. GoOn(u, frames)
    <3> SUFFICES ASSUME NEW i \in DOMAIN u, u[i].kind = "function"
                 PROVE  i \in DOMAIN frames /\ frames[i].kind = "function" /\ frames[i].chart = u[i].chart
      BY DEF GoOn
    <3>1. i \in DOMAIN frames /\ u[i].kind = calling[i].kind /\ u[i].chart = calling[i].chart
      BY <2>8, <2>14
    <3>2. i # Len(frames)
      BY <2>7, <2>8, <3>1
    <3> QED BY <2>8, <3>1, <3>2
  <2>10. GoOn(g, frames)
    BY <2>15, DanglingGoesOn
  <2>9. g \in Seq(Frame)
    BY <2>14, DanglingType
  <2> HIDE DEF g
  <2>11. Starts(sub, Append(g, fr), frames)
    BY <2>6, <2>9, <2>10, Parts, PushStarts
  <2>12. frames' = Append(g, fr)
    BY <2>1, <2>6, <2>9
  <2>13. status'[Host(sub)] = "running"
    BY <2>1, <2>3, <2>4 DEF agents
  <2> QED BY <2>4, <2>11, <2>12, <2>13
<1>5. ASSUME FunctionEnds
      PROVE  GoOn(frames', frames) \/ \E c \in Chart : status'[Host(c)] = "running" /\ Starts(c, frames', frames)
  <2> DEFINE owner == Attached(Owner(Me))
             below == Front(frames)
             resumes == chart[Me] = "running" /\ Me \notin running /\ Owner(Me) # 0 /\ chart[owner] = "running"
             called == below # <<>> /\ Last(below).kind = "called" /\ Last(below).chart = owner
             rt == Return(Me)
             f0 == IF called THEN Front(below) ELSE Append(below, rt)
             fr == Function(owner, Top.left)
             f == IF ~ resumes THEN below ELSE Append(f0, fr)
  <2>1. InFunction /\ UNCHANGED agents /\ \E S : frames' = UnlinkedFrames(f, S)
    BY <1>5 DEF FunctionEnds
  <2>2. Me \in Chart /\ Top.left \in 0..MaxCalls
    BY <2>1, TopFunction
  <2>3. below \in Seq(Frame) /\ DOMAIN below \subseteq DOMAIN frames /\ \A i \in DOMAIN below : below[i] = frames[i]
    BY <2>1, Popping
  <2>4. rt \in Frame /\ rt.kind = "return"
    BY <2>2, FrameParts
  <2> HIDE DEF rt
  <2>5. f0 \in Seq(Frame) /\ GoOn(below, frames) /\ GoOn(f0, frames)
    <3> HIDE DEF below
    <3>1. below # <<>> => /\ Front(below) \in Seq(Frame) /\ DOMAIN Front(below) \subseteq DOMAIN below
                          /\ \A i \in DOMAIN Front(below) : Front(below)[i] = below[i]
      BY <2>3, FrontParts
    <3>2. GoOn(below, frames) /\ (below # <<>> => GoOn(Front(below), frames))
      BY <2>3, <3>1 DEF GoOn
    <3>3. Append(below, rt) \in Seq(Frame) /\ \A i \in DOMAIN Append(below, rt) :
            Append(below, rt)[i] = rt \/ (i \in DOMAIN below /\ Append(below, rt)[i] = below[i])
      BY <2>3, <2>4
    <3>4. GoOn(Append(below, rt), frames)
      BY <2>4, <3>2, <3>3 DEF GoOn
    <3> QED BY <2>3, <3>1, <3>2, <3>3, <3>4
  <2> HIDE DEF f0, below, called
  <2>6. resumes => owner \in Chart /\ status'[Host(owner)] = "running" /\ fr \in Frame /\ fr.chart = owner
    <3>1. Owner(Me) # 0 => owner \in Chart
      BY <2>2, ChartNames
    <3> QED BY <2>1, <2>2, <3>1, Parts, FrameParts DEF ChartsInvariant, agents
  <2>7. resumes => f \in Seq(Frame) /\ Starts(owner, f, frames)
    <3> HIDE DEF fr, owner
    <3>1. resumes => Append(f0, fr) \in Seq(Frame) /\ Starts(owner, Append(f0, fr), frames)
      BY <2>5, <2>6, Parts, PushStarts
    <3> QED BY <3>1
  <2>8. ~ resumes => f \in Seq(Frame) /\ GoOn(f, frames)
    BY <2>3, <2>5
  <2> HIDE DEF f, resumes, owner
  <2>9. PICK S : frames' = UnlinkedFrames(f, S)
    BY <2>1
  <2>10. DOMAIN frames' = DOMAIN f /\ \A i \in DOMAIN f : frames'[i].kind = f[i].kind /\ frames'[i].chart = f[i].chart
    BY <2>7, <2>8, <2>9, FramesUnlinked
  <2> QED BY <2>6, <2>7, <2>8, <2>10 DEF Starts, GoOn
<1>6. ASSUME DispatchNode
      PROVE  GoOn(frames', frames) \/ \E c \in Chart : status'[Host(c)] = "running" /\ Starts(c, frames', frames)
  <2> DEFINE c == Head(Top.list)
             rest == Append(Front(frames), [Top EXCEPT !.list = Tail(@)])
             fr == Function(c, Top.left)
  <2>1. /\ frames # <<>> /\ Top.kind = "dispatch" /\ Top.list # <<>> /\ UNCHANGED agents
        /\ frames' = IF chart[c] = "running" THEN Append(rest, fr) ELSE rest
    BY <1>6 DEF DispatchNode
  <2>2. /\ c \in Chart /\ rest \in Seq(Frame) /\ Len(rest) = Len(frames)
        /\ \A i \in DOMAIN frames : rest[i].kind = frames[i].kind /\ rest[i].chart = frames[i].chart
    <3>1. Last(frames).kind = "dispatch" /\ Last(frames).list # <<>>
      BY <2>1 DEF Top
    <3> QED BY <2>1, <3>1, Parts, LinkedDispatch DEF Top
  <2>3. Top.left \in 0..MaxCalls
    BY <2>1, Parts, TopFrame
  <2>4. fr \in Frame /\ fr.chart = c
    BY <2>2, <2>3, FrameParts
  <2> HIDE DEF fr, rest, c
  <2>5. GoOn(rest, frames)
    BY <2>2, Parts DEF GoOn
  <2>6. Starts(c, Append(rest, fr), frames)
    BY <2>2, <2>4, <2>5, Parts, PushStarts
  <2>7. chart[c] = "running" => status'[Host(c)] = "running"
    BY <2>1, <2>2, Parts DEF ChartsInvariant, agents
  <2> QED BY <2>1, <2>2, <2>5, <2>6, <2>7
<1>7. ASSUME HandleEvent PROVE GoOn(frames', frames)
  <2>1. CASE UNCHANGED frames
    BY <2>1 DEF GoOn
  <2>2. CASE ~ UNCHANGED frames
    <3>1. PICK a \in GetAgentById(Head(inQueue)) : Push(Dispatch(waiting[a], MaxCalls))
      BY <1>7, <2>2 DEF HandleEvent
    <3> DEFINE fr == Dispatch(waiting[a], MaxCalls)
    <3>2. frames = <<>> /\ inQueue # <<>> /\ frames' = Append(frames, fr)
      BY <1>7, <3>1 DEF HandleEvent, Push
    <3>3. a \in Id /\ MaxCalls \in 0..MaxCalls
      BY <3>2, FoundAgent, LifecycleAssumption DEF LifecycleAssumption
    <3>4. fr \in Frame /\ fr.kind = "dispatch"
      BY <3>3, Parts, FrameParts DEF Lists
    <3> HIDE DEF fr
    <3>5. \A i \in DOMAIN frames' : frames'[i] = fr
      BY <3>2
    <3> QED BY <3>4, <3>5 DEF GoOn
  <2> QED BY <2>1, <2>2
<1>8. ASSUME CalledReturns \/ DispatchEnd \/ \E o \in Object : FunctionWaits(o)
      PROVE  GoOn(frames', frames)
  <2>1. frames # <<>> /\ frames' = Front(frames)
    BY <1>8 DEF CalledReturns, DispatchEnd, FunctionWaits, InFunction
  <2> QED BY <1>3, <2>1
<1>9. ASSUME ReturnEnds PROVE GoOn(frames', frames)
  <2> DEFINE f == Front(frames)
  <2>1. frames # <<>> /\ \E C : StopCharts(C, f)
    BY <1>9 DEF ReturnEnds
  <2>2. \A S : SameAt(UnlinkedFrames(f, S), frames)
    BY <2>1, FrontSame
  <2>3. SameAt(frames', frames)
    BY <2>1, <2>2 DEF StopCharts
  <2> QED BY <2>3 DEF SameAt, GoOn
<1> QED BY <1>1, <1>2, <1>4, <1>5, <1>6, <1>7, <1>8, <1>9 DEF Next, Runtime, Functions

\* No flow of an object that has been unregistered begins or goes on: an owner is not
\* resumed, a node that is woken is not run (executor.cpp:43-48, manager.cpp:705-709).
THEOREM DyingObjectsAreQuiet ==
  ASSUME ~ InUseToo
  PROVE  Spec => DyingObjectIsQuiet
<1>1. LifecycleInvariant /\ [Next]_vars =>
        \A i \in DOMAIN frames' :
          /\ frames'[i].kind = "function"
          /\ (i \notin DOMAIN frames \/ (frames[i].kind # "function" \/ frames[i].chart # frames'[i].chart))
          => status'[Host(frames'[i].chart)] = "running"
  BY StartsOnRunning DEF GoOn, Starts
<1> QED BY <1>1, LifecycleInvariantHolds, PTL DEF Spec, DyingObjectIsQuiet
-----------------------------------------------------------------------------
(* What wakes a node.                                                      *)

\* A function of s is among the frames f.
FunctionOf(s, f) == \E i \in DOMAIN f : f[i].kind = "function" /\ f[i].chart = s

\* It stays among them when nodes are unlinked, charts of returns deleted,
LEMMA UnlinkedKeep ==
  ASSUME NEW f \in Seq(Frame), NEW S, NEW s, FunctionOf(s, f)
  PROVE  FunctionOf(s, UnlinkedFrames(f, S))
<1> DEFINE g == UnlinkedFrames(f, S)
<1>1. DOMAIN g = DOMAIN f /\ \A i \in DOMAIN f : g[i].kind = f[i].kind /\ g[i].chart = f[i].chart
  BY FramesUnlinked
<1> HIDE DEF g
<1>2. FunctionOf(s, g)
  BY <1>1 DEF FunctionOf
<1> QED BY <1>2 DEF g

LEMMA DanglingKeep ==
  ASSUME NEW f, NEW C, NEW s, FunctionOf(s, f)
  PROVE  FunctionOf(s, Dangling(f, C))
BY DEF FunctionOf, Dangling

\* frames are pushed,
LEMMA PushKeep ==
  ASSUME NEW f \in Seq(Frame), NEW fr \in Frame, NEW s
  PROVE  /\ FunctionOf(s, f) => FunctionOf(s, Append(f, fr))
         /\ fr.kind = "function" /\ fr.chart = s => FunctionOf(s, Append(f, fr))
<1>1. \A i \in DOMAIN f : i \in DOMAIN Append(f, fr) /\ Append(f, fr)[i] = f[i]
  OBVIOUS
<1>2. Len(f) + 1 \in DOMAIN Append(f, fr) /\ Append(f, fr)[Len(f) + 1] = fr
  OBVIOUS
<1> QED BY <1>1, <1>2 DEF FunctionOf

\* other frames popped,
LEMMA FrontKeep ==
  ASSUME NEW f \in Seq(Frame), f # <<>>, NEW s, FunctionOf(s, f), Last(f).kind # "function" \/ Last(f).chart # s
  PROVE  FunctionOf(s, Front(f))
<1>1. PICK i \in DOMAIN f : f[i].kind = "function" /\ f[i].chart = s
  BY DEF FunctionOf
<1>2. Len(f) \in Nat \ {0} /\ DOMAIN f = 1..Len(f) /\ i # Len(f)
  BY <1>1 DEF Last
<1>3. DOMAIN Front(f) = 1..(Len(f) - 1) /\ \A j \in 1..(Len(f) - 1) : Front(f)[j] = f[j]
  BY FrontParts
<1>4. i \in DOMAIN Front(f) /\ Front(f)[i] = f[i]
  BY <1>2, <1>3
<1> QED BY <1>1, <1>4 DEF FunctionOf

\* or the game and a function call.
LEMMA SpentKeep ==
  ASSUME LifecycleInvariant, CanCall, NEW s, FunctionOf(s, frames)
  PROVE  Spent \in Seq(Frame) /\ FunctionOf(s, Spent) /\ \A S : FunctionOf(s, UnlinkedFrames(Spent, S))
<1>1. /\ Spent \in Seq(Frame) /\ DOMAIN Spent = DOMAIN frames
      /\ \A i \in DOMAIN frames : Spent[i].kind = frames[i].kind /\ Spent[i].chart = frames[i].chart
  BY Calling
<1>2. FunctionOf(s, Spent)
  BY <1>1 DEF FunctionOf
<1> QED BY <1>1, <1>2, UnlinkedKeep

\* What can wake c can still wake it.
StillWoken(c) ==
  /\ container'[c] = container[c] /\ (container[c] # 0 /\ status[container[c]] = "running" => status'[container[c]] = "running")
  /\ \A s \in Chart : Owner(c) = 0 /\ Owner(s) = Host(c) /\ GoesOn(s) => GoesOn(s)'

LEMMA StillWokenSuffices ==
  ASSUME NEW c, CanBeWoken(c), StillWoken(c)
  PROVE  CanBeWoken(c)'
BY DEF CanBeWoken, StillWoken

\* Charts that run, and go on in a step that leaves them and their functions.
LEMMA GoingOn ==
  ASSUME NEW s, GoesOn(s), chart'[s] = chart[s], s \in running => s \in running',
         FunctionOf(s, frames) => FunctionOf(s, frames') \/ s \in running'
  PROVE  GoesOn(s)'
BY DEF GoesOn, FunctionOf

\* A step that stops charts, or deletes them, leaves what wakes others: their subcharts
\* are stopped with their owners only.
LEMMA OthersStay ==
  ASSUME LifecycleInvariant, NEW C \in SUBSET Chart, NEW T \in SUBSET Chart, NEW c \in running, c \notin WithSubcharts(C) \cup T,
         \A s \in C : Owner(s) # 0 => Attached(Owner(s)) # c,
         \A s \in Chart : s \notin WithSubcharts(C) => chart'[s] = chart[s],
         running' = running \ (WithSubcharts(C) \cup T), \A s \in T : Owner(s) = 0,
         container' = Homeless(WithSubcharts(C) \cup T),
         container[c] # 0 /\ status[container[c]] = "running" => status'[container[c]] = "running",
         \A s \in Chart : s \notin C /\ FunctionOf(s, frames) => FunctionOf(s, frames')
  PROVE  StillWoken(c)
<1> DEFINE S == WithSubcharts(C)
<1>1. c \in Chart
  BY Parts DEF NodesTyped
<1>2. container'[c] = container[c]
  BY <1>1 DEF Homeless
<1>3. ASSUME NEW s \in Chart, Owner(c) = 0, Owner(s) = Host(c), GoesOn(s) PROVE GoesOn(s)'
  <2>1. Owner(s) # 0 /\ Attached(Owner(s)) = c
    BY <1>1, <1>3, ChartNames
  <2>2. s \notin C /\ s \notin S /\ s \notin T
    BY <2>1 DEF WithSubcharts
  <2> QED BY <1>3, <2>2, GoingOn
<1> QED BY <1>2, <1>3 DEF StillWoken

\* The steps of the game.
LEMMA GameKeepsWakers ==
  ASSUME LifecycleInvariant, NEW o \in Object,
         \/ Register(o) \/ Attach(o) \/ StartChart(o) \/ Raise(o) \/ Trigger(o) \/ Remove(o) \/ StopChart(o),
         NEW c \in running', c \in running => CanBeWoken(c)
  PROVE  CanBeWoken(c)'
<1>0. running \subseteq Chart /\ chart \in States /\ container \in Homes
  BY Parts DEF NodesTyped
<1>1. CASE Register(o) \/ Attach(o) \/ Raise(o)
  <2>1. CanCall /\ frames' = Spent /\ UNCHANGED <<running, container>>
    BY <1>1 DEF Register, Attach, Raise, Calls, nodes
  <2>2. \A a \in Id : status[a] = "running" => status'[a] = "running"
    BY <1>1, Parts DEF Register, Attach, Raise, agents, AgentsTyped
  <2>3. \A s \in Chart : chart[s] = "running" => chart'[s] = "running"
    BY <1>0, <1>1 DEF Register, Attach, Raise, nodes, States
  <2>4. \A s \in Chart : GoesOn(s) => GoesOn(s)'
    BY <2>1, <2>3, SpentKeep, GoingOn DEF GoesOn
  <2>5. StillWoken(c)
    BY <1>0, <2>1, <2>2, <2>4 DEF StillWoken, Homes
  <2> QED BY <2>1, <2>5, StillWokenSuffices
<1>2. CASE StartChart(o)
  <2> DEFINE a == registered[o]
             me == Attached(a)
  <2>1. /\ CanCall /\ frames' = Spent /\ a # 0 /\ chart' = [chart EXCEPT ![me] = "running"]
        /\ container' = [container EXCEPT ![me] = a] /\ running' = running \cup {me} /\ UNCHANGED status
    BY <1>2 DEF StartChart, Calls, WaitIn, agents
  <2>2. a \in Id /\ status[a] = "running"
    BY <2>1, Parts DEF AgentsTyped, AgentsInvariant, Registered
  <2>3. me \in Chart
    BY <2>2, ChartNames
  <2> HIDE DEF me, a
  <2>4. CASE c = me
    BY <1>0, <2>1, <2>2, <2>3, <2>4 DEF CanBeWoken, Homes
  <2>5. CASE c # me
    <3>1. \A s \in Chart : chart[s] = "running" => chart'[s] = "running"
      BY <1>0, <2>1 DEF States
    <3>2. \A s \in Chart : GoesOn(s) => GoesOn(s)'
      BY <2>1, <3>1, SpentKeep, GoingOn DEF GoesOn
    <3>3. c \in running /\ StillWoken(c)
      BY <1>0, <2>1, <2>5, <3>2 DEF StillWoken, Homes
    <3> QED BY <3>3, StillWokenSuffices
  <2> QED BY <2>4, <2>5
<1>3. CASE Trigger(o)
  <2> DEFINE fr == Dispatch(waiting[registered[o]], Left)
  <2>1. /\ CanCall /\ registered[o] # 0 /\ frames' = Append(Spent, fr)
        /\ UNCHANGED <<agents, chart, running, container>>
    BY <1>3 DEF Trigger
  <2>2. registered[o] \in Id
    BY <2>1, Parts DEF AgentsTyped
  <2>3. Spent \in Seq(Frame) /\ Left \in 0..MaxCalls
    BY <2>1, Calling
  <2>4. fr \in Frame
    BY <2>2, <2>3, Parts, FrameParts DEF Lists
  <2> HIDE DEF fr
  <2>5. \A s \in Chart : GoesOn(s) => GoesOn(s)'
    BY <2>1, <2>3, <2>4, SpentKeep, PushKeep, GoingOn DEF GoesOn
  <2>6. StillWoken(c)
    BY <2>1, <2>5 DEF StillWoken, agents
  <2> QED BY <2>1, <2>6, StillWokenSuffices
<1>4. CASE Remove(o) \/ StopChart(o)
  <2> DEFINE C == AttachedTo(o)
             S == WithSubcharts(C)
  <2>1. /\ CanCall /\ running' = running \ S /\ container' = Homeless(S) /\ UNCHANGED agents
        /\ \A s \in Chart : s \notin S => chart'[s] = chart[s]
        /\ \/ frames' = UnlinkedFrames(Spent, S)
           \/ frames' = Dangling(UnlinkedFrames(Spent, S), S)
    BY <1>4 DEF Remove, StopChart, DeleteCharts, StopCharts, Rest
  <2>2. C \in SUBSET Chart /\ \A s \in C : Owner(s) = 0
    <3>1. C \in SUBSET Chart /\ C \subseteq {Attached(registered[o])}
      BY DEF AttachedTo, Charts
    <3>2. registered[o] # 0
      BY <1>4 DEF Remove, StopChart
    <3>3. registered[o] \in Id
      BY <3>2, Parts DEF AgentsTyped
    <3> QED BY <3>1, <3>3, ChartNames
  <2>3. \A s : FunctionOf(s, frames) => FunctionOf(s, frames')
    <3> SUFFICES ASSUME NEW s, FunctionOf(s, frames) PROVE FunctionOf(s, frames')
      OBVIOUS
    <3> DEFINE u == UnlinkedFrames(Spent, S)
    <3>1. FunctionOf(s, u)
      BY <2>1, SpentKeep
    <3>2. frames' = u \/ frames' = Dangling(u, S)
      BY <2>1
    <3> HIDE DEF u
    <3> QED BY <3>1, <3>2, DanglingKeep
  <2>4. StillWoken(c)
    <3> DEFINE T == {}
    <3>1. /\ T \in SUBSET Chart /\ S = S \cup T /\ (\A s \in C : Owner(s) # 0 => Attached(Owner(s)) # c)
          /\ \A s \in T : Owner(s) = 0
      BY <2>2
    <3>2. c \in running /\ c \notin S /\ UNCHANGED status
      BY <2>1 DEF agents
    <3> HIDE DEF T, C
    <3> QED BY <2>1, <2>2, <2>3, <3>1, <3>2, OthersStay
  <2> QED BY <2>1, <2>4, StillWokenSuffices
<1> QED BY <1>1, <1>2, <1>3, <1>4

\* A function ends: its chart is stopped, or goes on without it.
LEMMA FunctionEndsKeepsWakers ==
  ASSUME LifecycleInvariant, FunctionEnds, NEW c \in running', c \in running => CanBeWoken(c)
  PROVE  CanBeWoken(c)'
<1> DEFINE over == chart[Me] = "running" /\ Me \notin running
           owner == Attached(Owner(Me))
           below == Front(frames)
           resumes == over /\ Owner(Me) # 0 /\ chart[owner] = "running"
           called == below # <<>> /\ Last(below).kind = "called" /\ Last(below).chart = owner
           W == WithSubcharts({Me})
           T == IF Owner(Me) # 0 THEN {owner} ELSE {}
           S == (IF over THEN W ELSE {}) \cup (IF over /\ Owner(Me) # 0 THEN {owner} ELSE {})
           low == IF called THEN Front(below) ELSE Append(below, Return(Me))
           fr == Function(owner, Top.left)
           f == IF ~resumes THEN below ELSE Append(low, fr)
<1>1. /\ InFunction
      /\ chart' = [d \in Chart |-> IF over /\ d \in W THEN "idle" ELSE chart[d]]
      /\ running' = running \ S /\ container' = Homeless(S) /\ frames' = UnlinkedFrames(f, S)
      /\ UNCHANGED agents
  BY DEF FunctionEnds, Rest
<1>2. /\ Me \in Chart /\ frames # <<>> /\ Last(frames) = Top /\ Top.kind = "function" /\ Top.chart = Me
      /\ Top.left \in 0..MaxCalls
  BY <1>1, TopFunction DEF Me, Top
<1>3. frames \in Seq(Frame) /\ below \in Seq(Frame) /\ running \subseteq Chart /\ chart \in States /\ container \in Homes
  BY <1>2, Parts, FrontParts DEF FramesTyped, NodesTyped
<1>4. Owner(Me) # 0 => owner \in Chart /\ Owner(owner) = 0 /\ fr \in Frame
  BY <1>2, ChartNames, FrameParts
<1>5. Return(Me) \in Frame
  BY <1>2, FrameParts
<1>6. resumes => Owner(Me) # 0
  OBVIOUS
<1>7. low \in Seq(Frame)
  <2>1. CASE called
    <3>1. below # <<>>
      BY <2>1
    <3> HIDE DEF below
    <3> QED BY <1>3, <2>1, <3>1, FrontParts
  <2>2. CASE ~ called
    BY <1>3, <1>5, <2>2
  <2> QED BY <2>1, <2>2
<1>8. f \in Seq(Frame)
  BY <1>3, <1>4, <1>6, <1>7
<1>9. ASSUME NEW s, s # Me, FunctionOf(s, frames) PROVE FunctionOf(s, frames')
  <2>1. FunctionOf(s, below)
    BY <1>2, <1>3, <1>9, FrontKeep
  <2>2. FunctionOf(s, low)
    <3>1. CASE called
      <4>1. below # <<>> /\ Last(below).kind # "function"
        BY <3>1
      <4> HIDE DEF below
      <4> QED BY <1>3, <2>1, <3>1, <4>1, FrontKeep
    <3>2. CASE ~ called
      <4> HIDE DEF below
      <4> QED BY <1>3, <1>5, <2>1, <3>2, PushKeep
    <3> QED BY <3>1, <3>2
  <2>3. FunctionOf(s, f)
    <3>1. CASE ~ resumes
      BY <2>1, <3>1
    <3>2. CASE resumes
      <4>1. fr \in Frame
        BY <1>4, <1>6, <3>2
      <4> HIDE DEF low, fr
      <4>2. FunctionOf(s, Append(low, fr))
        BY <1>7, <2>2, <4>1, PushKeep
      <4> QED BY <3>2, <4>2
    <3> QED BY <3>1, <3>2
  <2> HIDE DEF f, S
  <2> QED BY <1>1, <1>8, <2>3, UnlinkedKeep
<1>10. CASE ~ over
  <2>1. S = {}
    BY <1>10
  <2>2. running' = running /\ \A s \in Chart : chart'[s] = chart[s] /\ container'[s] = container[s]
    BY <1>1, <1>10, <2>1 DEF Homeless
  <2>3. ASSUME NEW s \in Chart, GoesOn(s) PROVE GoesOn(s)'
    <3>1. s = Me => s \in running'
      BY <1>10, <2>2, <2>3 DEF GoesOn
    <3> QED BY <1>9, <2>2, <2>3, <3>1, GoingOn
  <2>4. StillWoken(c)
    <3>1. c \in Chart /\ UNCHANGED status
      BY <1>1, <1>3, <2>2 DEF agents
    <3> QED BY <2>2, <2>3, <3>1 DEF StillWoken
  <2> QED BY <2>2, <2>4, StillWokenSuffices
<1>11. CASE over
  <2> DEFINE C == {Me}
  <2>1. S = WithSubcharts(C) \cup T
    BY <1>11
  <2>2. /\ C \in SUBSET Chart /\ T \in SUBSET Chart /\ (\A s \in T : Owner(s) = 0)
        /\ \A s \in C : Owner(s) # 0 => Attached(Owner(s)) # c
    BY <1>1, <1>2, <1>4, <2>1
  <2>3. \A s \in Chart : s \notin WithSubcharts(C) => chart'[s] = chart[s]
    BY <1>1
  <2>4. \A s \in Chart : s \notin C /\ FunctionOf(s, frames) => FunctionOf(s, frames')
    BY <1>9
  <2>5. c \in running /\ c \notin WithSubcharts(C) \cup T /\ UNCHANGED status
    BY <1>1, <2>1 DEF agents
  <2>6. running' = running \ (WithSubcharts(C) \cup T) /\ container' = Homeless(WithSubcharts(C) \cup T)
    BY <1>1, <2>1
  <2> HIDE DEF C, T, S
  <2>7. StillWoken(c)
    BY <1>1, <2>2, <2>3, <2>4, <2>5, <2>6, OthersStay
  <2> QED BY <2>5, <2>7, StillWokenSuffices
<1> QED BY <1>10, <1>11

\* It waits: it has been registered where it waits;
LEMMA FunctionWaitsKeepsWakers ==
  ASSUME LifecycleInvariant, NEW o \in Object, FunctionWaits(o), NEW c \in running', c \in running => CanBeWoken(c)
  PROVE  CanBeWoken(c)'
<1> DEFINE a == registered[o]
<1>1. /\ InFunction /\ a # 0 /\ frames' = Front(frames) /\ container' = [container EXCEPT ![Me] = a]
      /\ running' = running \cup {Me} /\ UNCHANGED chart /\ UNCHANGED status
  BY DEF FunctionWaits, WaitIn, agents
<1>2. a \in Id /\ status[a] = "running"
  BY <1>1, Parts DEF AgentsTyped, AgentsInvariant, Registered
<1>3. Me \in Chart /\ frames # <<>> /\ Last(frames) = Top /\ Top.chart = Me
  BY <1>1, TopFunction DEF Me, Top
<1>4. frames \in Seq(Frame) /\ running \subseteq Chart /\ container \in Homes
  BY Parts DEF FramesTyped, NodesTyped
<1> HIDE DEF a
<1>5. CASE c = Me
  BY <1>1, <1>2, <1>3, <1>4, <1>5 DEF CanBeWoken, Homes
<1>6. CASE c # Me
  <2>1. ASSUME NEW s \in Chart, GoesOn(s) PROVE GoesOn(s)'
    <3>1. FunctionOf(s, frames) => FunctionOf(s, frames') \/ s \in running'
      <4>1. CASE s = Me
        BY <1>1, <4>1
      <4>2. CASE s # Me
        BY <1>1, <1>3, <1>4, <4>2, FrontKeep
      <4> QED BY <4>1, <4>2
    <3> QED BY <1>1, <2>1, <3>1, GoingOn
  <2>2. c \in running /\ StillWoken(c)
    BY <1>1, <1>4, <1>6, <2>1 DEF StillWoken, Homes
  <2> QED BY <2>2, StillWokenSuffices
<1> QED BY <1>5, <1>6

\* or it calls a subchart, whose function begins in the place of the old one's.
LEMMA FunctionCallsKeepsWakers ==
  ASSUME LifecycleInvariant, NEW o \in Object, FunctionCallsSubchart(o), NEW c \in running',
         c \in running => CanBeWoken(c)
  PROVE  CanBeWoken(c)'
<1> DEFINE me == Me
           sub == <<registered[o], Host(me)>>
           old == {d \in Chart : chart[d] # "none" /\ Owner(d) = Host(me)} \ {sub}
           calling == Append(Front(frames), Called(Top))
           u == UnlinkedFrames(calling, old)
           g == Dangling(u, old)
           fr == Function(sub, Left)
<1>1. /\ InFunction /\ Top.left > 0 /\ Owner(me) = 0 /\ registered[o] # 0
      /\ chart' = [d \in Chart |-> IF d = sub THEN "running" ELSE IF d \in old THEN "none" ELSE chart[d]]
      /\ running' = (running \cup {me}) \ old /\ container' = Homeless(old)
      /\ frames' = g \o <<fr>> /\ UNCHANGED status
  BY DEF FunctionCallsSubchart, agents
<1>2. registered[o] \in Id
  BY <1>1, Parts DEF AgentsTyped
<1>3. /\ me \in Chart /\ frames # <<>> /\ Last(frames) = Top /\ Top.chart = me
      /\ Top \in Frame /\ Top.left \in 0..MaxCalls
  BY <1>1, TopFunction DEF Me, Top
<1>4. sub \in Chart /\ Owner(sub) = Host(me) /\ me = Attached(Host(me)) /\ Host(me) \in Id /\ 0 \notin Id
  BY <1>1, <1>2, <1>3, ChartNames
<1>5. fr \in Frame /\ fr.kind = "function" /\ fr.chart = sub
  <2>1. Left \in 0..MaxCalls
    BY <1>1, <1>3, LifecycleAssumption DEF Left, LifecycleAssumption
  <2> QED BY <1>4, <2>1, FrameParts
<1>6. Called(Top) \in Frame
  BY <1>3 DEF Called, Frame
<1>7. Front(frames) \in Seq(Frame) /\ calling \in Seq(Frame) /\ running \subseteq Chart /\ container \in Homes
  <2>1. Front(frames) \in Seq(Frame)
    BY <1>3, Parts, FrontParts DEF FramesTyped
  <2> QED BY <1>6, <2>1, Parts DEF NodesTyped
<1>8. u \in Seq(Frame)
  <2> HIDE DEF calling
  <2> QED BY <1>7, FramesUnlinked
<1>9. g \in Seq(Frame)
  <2> HIDE DEF u
  <2> QED BY <1>8, DanglingType
<1>10. frames' = Append(g, fr)
  <2> HIDE DEF g, fr
  <2> QED BY <1>1, <1>5, <1>9
<1>11. ASSUME NEW s, s # me, FunctionOf(s, frames) PROVE FunctionOf(s, frames')
  <2>1. FunctionOf(s, Front(frames))
    BY <1>3, <1>11, Parts, FrontKeep DEF FramesTyped
  <2>2. FunctionOf(s, calling)
    <3> DEFINE b == Front(frames)
               k == Called(Top)
    <3> HIDE DEF b, k
    <3>1. b \in Seq(Frame) /\ k \in Frame /\ FunctionOf(s, b)
      BY <1>6, <1>7, <2>1 DEF b, k
    <3>2. FunctionOf(s, Append(b, k))
      BY <3>1, PushKeep
    <3> QED BY <3>2 DEF b, k
  <2>3. FunctionOf(s, u)
    <3> HIDE DEF calling, old
    <3> QED BY <1>7, <2>2, UnlinkedKeep
  <2>4. FunctionOf(s, g)
    <3> HIDE DEF u
    <3> QED BY <2>3, DanglingKeep
  <2> HIDE DEF g, fr
  <2> QED BY <1>5, <1>9, <1>10, <2>4, PushKeep
<1>12. \A d \in Chart : /\ chart'[d] = IF d = sub THEN "running" ELSE IF d \in old THEN "none" ELSE chart[d]
                        /\ container'[d] = IF d \in old THEN 0 ELSE container[d]
  BY <1>1 DEF Homeless
<1>13. FunctionOf(sub, frames')
  <2> HIDE DEF g, fr
  <2> QED BY <1>5, <1>9, <1>10, PushKeep
<1> HIDE DEF me, sub, calling, u, g, fr
<1>14. CASE c = me
  <2>1. PICK s \in Chart : s = sub
    BY <1>4
  <2>2. chart'[s] = "running" /\ FunctionOf(s, frames') /\ Owner(s) = Host(c) /\ Owner(c) = 0
    BY <1>1, <1>4, <1>12, <1>13, <1>14, <2>1
  <2>3. GoesOn(s)'
    BY <2>2 DEF GoesOn, FunctionOf
  <2> QED BY <2>2, <2>3 DEF CanBeWoken
<1>15. CASE c # me
  <2>1. c \in running /\ c \notin old /\ c \in Chart
    BY <1>1, <1>7, <1>15
  <2>2. ASSUME NEW s \in Chart, Owner(c) = 0, Owner(s) = Host(c), GoesOn(s) PROVE GoesOn(s)'
    <3>1. Host(c) # Host(me) /\ Host(c) \in Id
      BY <1>1, <1>3, <1>15, <2>1, <2>2, ChartNames
    <3>2. s \notin old /\ s # sub /\ s # me
      BY <1>1, <1>4, <2>2, <3>1
    <3> QED BY <1>1, <1>11, <1>12, <2>2, <3>2, GoingOn
  <2>3. StillWoken(c)
    BY <1>1, <1>12, <2>1, <2>2 DEF StillWoken
  <2> QED BY <2>1, <2>3, StillWokenSuffices
<1> QED BY <1>14, <1>15

\* A node is run, and with it what it wakes begins to go on;
LEMMA DispatchKeepsWakers ==
  ASSUME LifecycleInvariant, DispatchNode, NEW c \in running', c \in running => CanBeWoken(c)
  PROVE  CanBeWoken(c)'
<1> DEFINE n == Head(Top.list)
           t == [Top EXCEPT !.list = Tail(@)]
           rest == Append(Front(frames), t)
           fr == Function(n, Top.left)
<1>1. /\ frames # <<>> /\ Top.kind = "dispatch" /\ Top.list # <<>>
      /\ running' = running \ {n} /\ container' = Homeless({n})
      /\ frames' = IF chart[n] = "running" THEN Append(rest, fr) ELSE rest
      /\ UNCHANGED chart /\ UNCHANGED status
  BY DEF DispatchNode, Rest, agents
<1>2. Top \in Frame /\ Last(frames) = Top /\ Top.list \in Seq(Chart) /\ Top.left \in 0..MaxCalls
  BY <1>1, Parts, TopFrame DEF Top
<1>3. n \in Chart /\ t \in Frame
  BY <1>1, <1>2, TailElements DEF Frame
<1>4. Front(frames) \in Seq(Frame) /\ fr \in Frame /\ fr.kind = "function" /\ fr.chart = n /\ running \subseteq Chart
  BY <1>1, <1>2, <1>3, Parts, FrontParts, FrameParts DEF FramesTyped, NodesTyped
<1>5. rest \in Seq(Frame)
  BY <1>3, <1>4
<1>6. ASSUME NEW s, FunctionOf(s, frames) PROVE FunctionOf(s, rest)
  <2> DEFINE b == Front(frames)
  <2>1. FunctionOf(s, b)
    BY <1>1, <1>2, <1>6, Parts, FrontKeep DEF FramesTyped
  <2> HIDE DEF b, t
  <2>2. b \in Seq(Frame) /\ FunctionOf(s, Append(b, t))
    BY <1>3, <1>4, <2>1, PushKeep DEF b
  <2> QED BY <2>2 DEF b
<1> HIDE DEF n, t, rest, fr
<1>7. ASSUME NEW s, FunctionOf(s, frames) PROVE FunctionOf(s, frames')
  BY <1>1, <1>4, <1>5, <1>6, <1>7, PushKeep
<1>8. ASSUME NEW s \in Chart, GoesOn(s) PROVE GoesOn(s)'
  <2>1. CASE s = n
    <3>1. chart[n] = "running"
      BY <1>8, <2>1 DEF GoesOn
    <3>2. FunctionOf(s, frames')
      BY <1>1, <1>4, <1>5, <2>1, <3>1, PushKeep
    <3> QED BY <1>1, <2>1, <3>1, <3>2 DEF GoesOn, FunctionOf
  <2>2. CASE s # n
    BY <1>1, <1>7, <1>8, <2>2, GoingOn
  <2> QED BY <2>1, <2>2
<1>9. c \in running /\ c # n /\ c \in Chart
  BY <1>1, <1>4
<1>10. StillWoken(c)
  BY <1>1, <1>8, <1>9 DEF StillWoken, Homeless
<1> QED BY <1>9, <1>10, StillWokenSuffices

\* agents are deleted at the end of the step, for whose events no node that can be woken waits.
LEMMA EndStepKeepsWakers ==
  ASSUME LifecycleInvariant, EndStep, NEW c \in running', c \in running => CanBeWoken(c)
  PROVE  CanBeWoken(c)'
<1> DEFINE D == dying.now
           S == WithSubcharts(Charts(D))
<1>1. /\ frames = <<>> /\ running' = running \ S
      /\ status' = [a \in Id |-> IF a \in D THEN "deleted" ELSE status[a]]
      /\ chart' = [d \in Chart |-> IF d \in S THEN "none" ELSE chart[d]]
      /\ container' = Homeless(S \cup {d \in Chart : container[d] \in D})
  BY DEF EndStep, DeleteAgents, Rest
<1>2. \A a \in D : status[a] = "destroying"
  BY Parts DEF AgentsInvariant
<1>3. c \in running /\ c \in Chart /\ c \notin S
  BY <1>1, Parts DEF NodesTyped
<1>4. \A d \in Chart : container[d] \in Id \cup {0}
  BY Parts DEF NodesTyped, Homes
<1>5. CASE container[c] # 0 /\ status[container[c]] = "running"
  <2>1. container[c] \in Id /\ container[c] \notin D
    BY <1>2, <1>3, <1>4, <1>5
  <2>2. c \notin S \cup {d \in Chart : container[d] \in D}
    BY <1>3, <2>1
  <2>3. container'[c] = container[c] /\ status'[container[c]] = "running"
    <3> HIDE DEF S
    <3> QED BY <1>1, <1>3, <1>5, <2>1, <2>2 DEF Homeless
  <2> QED BY <1>5, <2>3 DEF CanBeWoken
<1>6. ASSUME Owner(c) = 0, NEW s \in Chart, Owner(s) = Host(c), GoesOn(s) PROVE CanBeWoken(c)'
  <2>1. s \in running /\ chart[s] = "running" /\ status[Host(s)] = "running"
    BY <1>1, <1>6, Parts DEF GoesOn, ChartsInvariant
  <2>2. s \notin Charts(D)
    BY <1>2, <2>1 DEF Charts
  <2>3. Owner(s) # 0 /\ Attached(Owner(s)) = c
    BY <1>3, <1>6, ChartNames
  <2>4. c \notin Charts(D)
    BY <1>3 DEF WithSubcharts
  <2>5. s \notin S
    BY <2>2, <2>3, <2>4 DEF WithSubcharts
  <2>6. GoesOn(s)'
    <3> HIDE DEF S
    <3> QED BY <1>1, <2>1, <2>5 DEF GoesOn
  <2> QED BY <1>6, <2>6 DEF CanBeWoken
<1> QED BY <1>3, <1>5, <1>6 DEF CanBeWoken

\* The other steps leave all that wakes a node.
LEMMA QuietStepsKeepWakers ==
  ASSUME LifecycleInvariant, \/ Step \/ HandleEvent \/ DispatchEnd \/ CalledReturns \/ UNCHANGED vars,
         NEW c \in running', c \in running => CanBeWoken(c)
  PROVE  CanBeWoken(c)'
<1>1. UNCHANGED <<chart, running, container, status>>
  BY DEF Step, BeginStep, HandleEvent, DispatchEnd, CalledReturns, vars, nodes, agents
<1>2. ASSUME NEW s \in Chart, GoesOn(s) PROVE GoesOn(s)'
  <2>1. FunctionOf(s, frames) => FunctionOf(s, frames')
    <3>1. CASE Step \/ UNCHANGED vars
      BY <3>1 DEF Step, BeginStep, vars
    <3>2. CASE HandleEvent
      BY <3>2 DEF HandleEvent, FunctionOf
    <3>3. CASE DispatchEnd \/ CalledReturns
      <4>1. frames # <<>> /\ Last(frames).kind # "function" /\ frames' = Front(frames)
        BY <3>3 DEF DispatchEnd, CalledReturns, Top
      <4> QED BY <4>1, Parts, FrontKeep DEF FramesTyped
    <3> QED BY <3>1, <3>2, <3>3
  <2> QED BY <1>1, <1>2, <2>1, GoingOn
<1>3. StillWoken(c)
  BY <1>1, <1>2 DEF StillWoken
<1> QED BY <1>1, <1>3, StillWokenSuffices

\* A step that stops the charts of C, and takes no function off the frames, strands only
\* the nodes that wait for a subchart among them.
LEMMA StopKeepsOthers ==
  ASSUME LifecycleInvariant, NEW C \in SUBSET Chart, NEW f, StopCharts(C, f), NEW c \in running',
         c \in running => CanBeWoken(c),
         \A s \in C : Owner(s) # 0 => Attached(Owner(s)) # c,
         \A s : FunctionOf(s, frames) => FunctionOf(s, UnlinkedFrames(f, WithSubcharts(C))),
         container[c] # 0 /\ status[container[c]] = "running" => status'[container[c]] = "running"
  PROVE  CanBeWoken(c)'
<1> DEFINE S == WithSubcharts(C)
           T == {}
<1>1. /\ running' = running \ S /\ container' = Homeless(S) /\ frames' = UnlinkedFrames(f, S)
      /\ \A s \in Chart : s \notin S => chart'[s] = chart[s]
  BY DEF StopCharts, Rest
<1>2. S = S \cup T /\ T \in SUBSET Chart /\ \A s \in T : Owner(s) = 0
  OBVIOUS
<1>3. c \in running /\ c \notin S
  BY <1>1
<1>4. \A s \in Chart : s \notin C /\ FunctionOf(s, frames) => FunctionOf(s, frames')
  BY <1>1
<1> HIDE DEF T
<1>5. StillWoken(c)
  BY <1>1, <1>2, <1>3, <1>4, OthersStay
<1> QED BY <1>3, <1>5, StillWokenSuffices

\* So it is when an object is stopped or unregistered,
LEMMA StoppedObjectsStrand ==
  ASSUME LifecycleInvariant, NEW o \in Object, Stop(o) \/ Unregister(o), NEW c \in running', c \in running => CanBeWoken(c),
         c \notin Callers(o), Unregister(o) => container[c] # registered[o]
  PROVE  CanBeWoken(c)'
<1> DEFINE C == Charts({registered[o]})
<1>1. CanCall /\ StopCharts(C, Spent)
  BY DEF Stop, Unregister
<1>2. C \in SUBSET Chart /\ \A s \in C : Owner(s) # 0 => Attached(Owner(s)) # c
  BY DEF Callers, Charts
<1>3. c \in Chart
  BY <1>1, Parts DEF NodesTyped, StopCharts, Rest
<1>4. container[c] # 0 /\ status[container[c]] = "running" => status'[container[c]] = "running"
  <2>1. container[c] # 0 => container[c] \in Id
    BY <1>3, Parts DEF NodesTyped, Homes
  <2>2. CASE Stop(o)
    BY <2>2 DEF Stop, agents
  <2>3. CASE Unregister(o)
    <3>1. status' = [status EXCEPT ![registered[o]] = "destroying"] /\ container[c] # registered[o]
      BY <2>3 DEF Unregister
    <3> QED BY <2>1, <3>1, Parts DEF AgentsTyped
  <2> QED BY <2>2, <2>3
<1> HIDE DEF C
<1>5. \A s : FunctionOf(s, frames) => FunctionOf(s, UnlinkedFrames(Spent, WithSubcharts(C)))
  BY <1>1, SpentKeep
<1> QED BY <1>1, <1>2, <1>4, <1>5, StopKeepsOthers

\* and when a return goes on.
LEMMA ReturnStrandsItsOwner ==
  ASSUME LifecycleInvariant, ReturnEnds, NEW c \in running', c \in running => CanBeWoken(c),
         Owner(Me) # 0 => c # Attached(Owner(Me))
  PROVE  CanBeWoken(c)'
<1> DEFINE C == Charts(Id) \cap {Me}
           f == Front(frames)
<1>1. frames # <<>> /\ Last(frames).kind # "function" /\ StopCharts(C, f) /\ UNCHANGED status
  BY DEF ReturnEnds, Top, agents
<1>2. C \in SUBSET Chart /\ \A s \in C : Owner(s) # 0 => Attached(Owner(s)) # c
  BY DEF Charts
<1>3. f \in Seq(Frame) /\ \A s : FunctionOf(s, frames) => FunctionOf(s, f)
  BY <1>1, Parts, FrontParts, FrontKeep DEF FramesTyped
<1> HIDE DEF C, f
<1>4. \A s : FunctionOf(s, frames) => FunctionOf(s, UnlinkedFrames(f, WithSubcharts(C)))
  BY <1>3, UnlinkedKeep
<1> QED BY <1>1, <1>2, <1>4, StopKeepsOthers

\* As long as no chart in use is stopped or removed, a node that can be woken can still
\* be woken after every step, and a node that comes to wait can be woken, but for one
\* that waits for an object that is unregistered, one whose subchart is on an object that is
\* stopped or unregistered, and one that has started its subchart again before it has returned
\* (chart.cpp:86-112, agent.cpp:25-53 and 254-263).
THEOREM OthersCanWake ==
  ASSUME ~ InUseToo
  PROVE  Spec => WakersAreKept
<1>1. LifecycleInvariant /\ [Next]_vars =>
        \A c \in running' : \/ CanBeWoken(c)'
                            \/ c \in running /\ ~CanBeWoken(c)
                            \/ ReturnEnds /\ Owner(Me) # 0 /\ c = Attached(Owner(Me))
                            \/ \E o \in Object : Stop(o) /\ c \in Callers(o)
                            \/ \E o \in Object : Unregister(o) /\ (c \in Callers(o) \/ container[c] = registered[o])
  <2> SUFFICES ASSUME LifecycleInvariant, [Next]_vars, NEW c \in running', c \in running => CanBeWoken(c),
                      ReturnEnds /\ Owner(Me) # 0 => c # Attached(Owner(Me)),
                      \A o \in Object : Stop(o) => c \notin Callers(o),
                      \A o \in Object : Unregister(o) => c \notin Callers(o) /\ container[c] # registered[o]
               PROVE  CanBeWoken(c)'
    OBVIOUS
  <2>0. ASSUME NEW o \in Object, Stop(o) \/ Unregister(o) PROVE CanBeWoken(c)'
    BY <2>0, StoppedObjectsStrand
  <2>7. CASE ReturnEnds
    BY <2>7, ReturnStrandsItsOwner
  <2>1. ASSUME NEW o \in Object,
               \/ Register(o) \/ Attach(o) \/ StartChart(o) \/ Raise(o) \/ Trigger(o) \/ Remove(o) \/ StopChart(o)
        PROVE  CanBeWoken(c)'
    BY <2>1, GameKeepsWakers
  <2>2. ASSUME NEW o \in Object, FunctionWaits(o) \/ FunctionCallsSubchart(o) PROVE CanBeWoken(c)'
    BY <2>2, FunctionWaitsKeepsWakers, FunctionCallsKeepsWakers
  <2>3. CASE FunctionEnds
    BY <2>3, FunctionEndsKeepsWakers
  <2>4. CASE DispatchNode
    BY <2>4, DispatchKeepsWakers
  <2>5. CASE EndStep
    BY <2>5, EndStepKeepsWakers
  <2>6. CASE Step \/ HandleEvent \/ DispatchEnd \/ CalledReturns \/ UNCHANGED vars
    BY <2>6, QuietStepsKeepWakers
  <2> QED BY <2>0, <2>1, <2>2, <2>3, <2>4, <2>5, <2>6, <2>7 DEF Next, Game, Runtime, Functions
<1> QED BY <1>1, LifecycleInvariantHolds, PTL DEF Spec, WakersAreKept
=============================================================================
