------------------------- MODULE LifecycleProperties -------------------------
(***************************************************************************)
(* What ObjectLifecycle is meant to guarantee.                             *)
(***************************************************************************)
EXTENDS ObjectLifecycle

Frame == [kind : {"dispatch", "function", "called", "return"}, list : Seq(Chart),
          chart : Chart \cup {Deleted}, left : 0..MaxCalls]

\* Every variable has its type (agent_manager.h:56-67, agent.h, dying_agents.h:34).
TypeOK ==
  /\ registered \in [Object -> Id \cup {0}]
  /\ status \in [Id -> {"none", "running", "destroying", "deleted"}]
  /\ lastId \in Id \cup {0} /\ armed \subseteq Id
  /\ chart \in [Chart -> {"none", "idle", "running"}] /\ running \subseteq Chart
  /\ container \in [Chart -> Id \cup {0}] /\ waiting \in [Id -> Seq(Chart)]
  /\ dying \in [now : SUBSET Id, next : SUBSET Id]
  /\ stepping \in BOOLEAN /\ inStep \in BOOLEAN
  /\ inQueue \in Seq(Id) /\ outQueue \in Seq(Id)
  /\ frames \in Seq(Frame)

Alive(a) == status[a] \in {"running", "destroying"}
Exists(c) == chart[c] # "none"
\* The charts that a list, a dispatch, a function or a return under way points to.
Held == (UNION {Elements(waiting[a]) : a \in Id}) \cup (UNION {Elements(frames[i].list) : i \in DOMAIN frames})
        \cup ({frames[i].chart : i \in {i \in DOMAIN frames : frames[i].kind # "dispatch"}} \ {Deleted})

\* But for a return, ReturnsFindTheirChart, nothing points to what has been deleted:
\* the charts of lists and of functions under way exist, their objects and their
\* owners do, and so do the objects that are registered, in whose lists nodes are,
\* whose timers are set, or that are still to be deleted (agent.cpp:25-53,
\* timer_manager.cpp:31, custom_struct.cpp:54-62, node.cpp:28-36, chart.cpp:22-56,
\* dying_agents.h:29-35).
NothingRefersToDeleted ==
  /\ \A c \in Held : Exists(c)
  /\ \A c \in Chart : Exists(c) => Alive(Host(c)) /\ (Owner(c) # 0 => Exists(Attached(Owner(c))))
  /\ \A c \in Chart : container[c] # 0 => Exists(c) /\ Alive(container[c])
  /\ \A o \in Object : registered[o] # 0 => status[registered[o]] = "running"
  /\ \A a \in armed \cup dying.now \cup dying.next : Alive(a)

\* The chart that Chart::Return, and then RunFlow, go on with once the owner has been
\* resumed has not been deleted meanwhile (chart.cpp:98-111, executor.cpp:146-147).
ReturnsFindTheirChart == \A i \in DOMAIN frames : frames[i].kind = "return" => frames[i].chart # Deleted

\* A node is in a list of the agent its container pointer names, and in one list:
\* the list that a dispatch has taken is that of the agent still
\* (custom_struct.cpp:64-84, manager.cpp:430-431).
ContainersAgree ==
  \A c \in Chart :
    LET In(a) == c \in Elements(waiting[a])
        Taken == {i \in DOMAIN frames : c \in Elements(frames[i].list)}
    IN  /\ \A a \in Id : In(a) => container[c] = a
        /\ container[c] # 0 => (In(container[c]) <=> Taken = {})
        /\ Taken # {} => container[c] # 0
        /\ Cardinality(Taken) <= 1

\* No flow of an object that has been unregistered begins or goes on: its nodes
\* may still be woken by other objects' events, but do not run
\* (executor.cpp:43-48, manager.cpp:705-709).
DyingObjectIsQuiet ==
  [][\A i \in DOMAIN frames' :
       /\ frames'[i].kind = "function"
       /\ (i \notin DOMAIN frames \/ (frames[i].kind # "function" \/ frames[i].chart # frames'[i].chart))
       => status'[Host(frames'[i].chart)] = "running"]_vars

\* The node of a chart can be woken: it is in a list of a registered object, or a
\* dispatch has taken it from there, or a subchart of it goes on, its own node
\* Running or its function under way.
GoesOn(c) == /\ chart[c] = "running"
             /\ c \in running \/ \E i \in DOMAIN frames : frames[i].kind = "function" /\ frames[i].chart = c
CanBeWoken(c) ==
  \/ container[c] # 0 /\ status[container[c]] = "running"
  \/ Owner(c) = 0 /\ \E s \in Chart : Owner(s) = Host(c) /\ GoesOn(s)

\* The charts whose nodes have a subchart on an object.
Callers(o) == {Attached(Owner(s)) : s \in {s \in Charts({registered[o]}) : Owner(s) # 0}}

\* Three things leave a node Running that nothing can wake any more: that an object is
\* unregistered, whose event it waits for or on which its subchart is; that an object
\* is stopped on which its subchart is; that the return of its subchart goes on, after
\* it has started it again; and no more: not that another dispatch, return, subchart
\* or deletion comes between, and not that a chart is stopped or removed that the
\* object itself has attached (agent.cpp:25-53, 166-176 and 254-274, chart.cpp:86-112,
\* manager.cpp:402-459, 589-647 and 698-713).
WakersAreKept ==
  [][\A c \in running' :
       \/ CanBeWoken(c)'
       \/ c \in running /\ ~CanBeWoken(c)
       \/ ReturnEnds /\ Owner(Me) # 0 /\ c = Attached(Owner(Me))
       \/ \E o \in Object : Stop(o) /\ c \in Callers(o)
       \/ \E o \in Object : Unregister(o) /\ (c \in Callers(o) \/ container[c] = registered[o])]_vars

\* An object that is unregistered outside a step is deleted at the end of the next
\* one, and one that is unregistered within a step is not deleted in it
\* (the comments of dying_agents.h:18 and 23).
DeletedAsPromised ==
  [][/\ ~stepping /\ (\E o \in Object : Unregister(o)) => dying'.next = dying.next
     /\ stepping /\ (\E o \in Object : Unregister(o)) => dying'.now = dying.now]_vars

\* Whatever the game calls between steps, it calls Step again and again, and the
\* runtime goes on until it returns.
FairSpec == Spec /\ WF_vars(Runtime) /\ SF_vars(Step)

\* An object that has been unregistered is deleted in the end, whether that was in
\* a step or between two (dying_agents.h:15-35, manager.cpp:127-128).
AgentsAreDeleted == \A a \in Id : status[a] = "destroying" ~> status[a] = "deleted"
=============================================================================
