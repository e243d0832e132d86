# A verification project for asyncflow

asyncflow runs flowcharts for game objects. A game registers objects, attaches
charts to them, calls `asyncflow.step` in its main loop and raises events; the
runtime runs the nodes of the charts, each of which calls a function written in
Python, Lua or JavaScript. This directory holds TLA+ models of the runtime,
TLC runs that check them and proofs that TLAPS checks.

All paths below are relative to `src/`; the core is in `src/core` and
`include/core`.

    tlc -workers 2 -config MCcharts.cfg MCFlow     # one run
    tlapm VersionsProofs.tla                       # the theorems of one module

## 1. Inventory

### How the parts fit together

The runtime has one thread. What makes it hard is **re-entrancy**: the function
of a node is called in the middle of a flow and may itself start a subchart,
return from its chart, stop nodes or trigger an event; each of these runs
another flow *before the function returns*. The program keeps a stack of
executors for that. While a nested flow runs, the flows below it hold a current
node, a history and a vector of nodes, all of which the nested flow may change
under them.

    game ──start/stop/event/trigger──▶ Manager ──Step──▶ timers ─▶ events ─▶ async calls
                                          │                 │         │          │
                                          ▼                 ▼         ▼          ▼
                    Agent (waiting lists, charts)      StackExecutor: DfsExecutor 0..k
                                          ▲                         │
                                          └── node function ◀── Node::Run
                                               subchart, return, wait, stop, trigger

### Components

| Component | Files | State | Operations | Correct when |
|---|---|---|---|---|
| Executor stack | `executor.cpp`, `executor.h` | `current_index_`; for each executor `node_list_`, `history_node_list_`, the current node, counters | `RunFlow`, `ContinueFlow`, the depth-first loop, truncation, putting a looping node off to the tick, restoring flags | an executor pops the node it ran, leaves no flag behind, stays on the stack |
| Nodes and attachers | `node.cpp`, `node_timer.cpp`, `node_attacher.h` | status, result, `run_flag_`, `skip_`, container, timer or subchart or WaitAll marks | `Run`, `EndRun`, `Stop`, timer callback | a node that is stopped leaves its container, its timer and its subchart; one that waits is Running |
| Charts and subcharts | `chart.cpp`, `chart.h` | status, owner node, nodes | start, `Stop`, `Return`, `CheckRunning` | a stopped chart is quiet; a subchart lives only within its owner's wait; its return resumes the owner once |
| Event dispatch | `manager.cpp`, `event_queue.h` | two queues, current event and frame count | `Event`, `TriggerEvent`, `HandleEvent`, `Step` | every waiting node runs once for an event, the current event is that of the innermost dispatch, a step ends |
| Agents | `agent.cpp`, `agent.h` | waiting lists by event, charts, status | start, stop of a chart or of all charts on the object, `WaitEvent`, attach, remove, destroy | a node waits in one list at most |
| Node lists | `custom_struct.cpp`, `util/list.h` | intrusive doubly linked lists, container pointer of each node | `Push`, `Pop`, `Remove`, `Swap` | the container pointer says where the node is |
| Timers | `timer_manager.cpp`, `node_timer.cpp`, `thirdparty/ratas.h` | wheels of slots, each timer's tick | schedule, cancel, advance, promote, repeat | a timer runs at its tick, once, unless it is cancelled; objects never stop ticking |
| Object registry and destruction | `agent_manager.h`, `dying_agents.h` | maps from objects to agents, two lists of the dying | register, unregister, delayed delete | no agent is deleted while a flow or an event refers to it |
| Asynchronous calls | `async_manager.cpp` | waiting and activated nodes, `nodes_set_` | `AddNode`, `ActivateNode`, callback, `Step` | a callback, from wherever it comes, resumes the call it belongs to, once |
| Chart, node and event data | `chart_data.cpp`, `node_data.cpp`, `event_manager.cpp` | loaded charts and their versions | load, reload, patch | old charts keep their data, new ones get the new, and no chart is led to a node it does not have |
| Debugger | `src/debug` | breakpoints, subscriptions | debug, continue, step | a continued node runs once |
| Python, Lua, JavaScript bindings | `src/py`, `src/lua`, `src/js` | references, conversions | exported functions | the guards of the core's preconditions hold |

`PROJECT.json` repeats this list with the status of each part, and lists 40
hazards with the line where each bites and the properties meant to catch it.

### What is hard

- **Nested flows**: a flow that is suspended in a function call reads its stack,
  history and current node again after arbitrary other flows have run.
- **Lists that change while they are walked**: a dispatch moves a waiting list
  into a local one and runs its nodes one by one; each may stop the others.
- **Limits that are hit in the middle**: the stack of executors, the nested
  dispatches and the nodes of one flow are all bounded, and each limit has an
  error path of its own.
- **Orders that matter**: `Chart::Return` first resumes the owner and only then
  stops the chart; an immediate event is put at the front of the queue that is
  being emptied.
- **Late wake-ups**: timers, events, callbacks and returns arrive at nodes that
  have been stopped, restarted or deleted since.
- **Liveness**: a step must end though events raise events; a chart must finish
  though its flows find the stack full.

## 2. Modules

| Module | What it is |
|---|---|
| `NodeLists` | lists of nodes as sequences: removal, reversal, elements |
| `FlowExecutor` | the execution core: executor stack, nodes, charts, subcharts, events, timers as far as they wake nodes |
| `FlowProperties` | its properties |
| `NodeListsProofs` | lemmas about lists, which the other proofs use |
| `FlowProofs` | lemmas about the operators of `FlowExecutor`; its types, and that stopped charts are quiet |
| `HomeProofs` | that a node is in one list, an executor pops the node it ran, events nest, and which node an event can lose |
| `WaitingProofs` | that waiting nodes are Running, subcharts have a waiting owner, and `START` is coming; what flows leave behind, and what wakes a node |
| `AsyncCalls` | asynchronous calls and breakpoints: `AsyncManager`, contexts, callbacks, the debugger's commands |
| `SuspendedCalls` | abstract: what suspending a node promises |
| `AsyncProperties` | the properties of `AsyncCalls`, and that it implements `SuspendedCalls` |
| `AsyncProofs` | its inductive invariant, its theorems and the refinement |
| `ObjectLifecycle` | objects that are registered, unregistered and destroyed while flows run |
| `LifecycleProperties` | its properties |
| `LifecycleProofs` | its inductive invariant and its theorems |
| `TimerSet` | abstract: a timer that is set for a tick executes at that tick |
| `TimerWheel` | the hierarchical wheel with the timers of nodes and agents; its properties and its inductive invariant |
| `TimerProofs` | its theorems, among them that it implements `TimerSet` |
| `ChartVersions` | the data of a chart, imported again and patched while charts run on it |
| `VersionsProofs` | its invariant and theorems |
| `MCFlow`, `MCAsync` | *scripts*, sets of charts for TLC, for `FlowExecutor` and `AsyncCalls` |
| `MCLifecycle`, `MCTimers`, `MCVersions` | instances of the others |

The components meet in the node: `FlowExecutor` has nested flows on several
executors and lets timers be due at any time, the other modules each keep one
flow at a time (`AsyncCalls`), one node per chart (`ObjectLifecycle`), or the
place of the flow alone (`ChartVersions`), and have in full what is theirs. What
they share, lists with container pointers and the removal from them, is written
the same way over `NodeLists`.

### From the code to `FlowExecutor`

One step of the model is one iteration of a loop of the code, or the part of a
call up to the next nested flow. `level[k]` is what executor `k` is doing;
level 0 is the manager, between its steps and inside them. `level[k].pc` reads:

| pc | The code is at |
|---|---|
| `idle` (level 0) | between two calls of the game |
| `timers`, `events` (level 0) | the two parts of `Manager::Step` |
| `dispatch` | the loop of `Manager::_handleEvent`, on level 0 or inside the function of a node |
| `loop` | the head of the `while` in `DfsExecutor::RunFlow` |
| `call`, `callEnd` | the function of the current node is about to make its call, has made it |
| `ran` | behind `node->Run()` |
| `restore`, `end` | behind the loop; `RunFlow` about to return |
| `return`, `returned` | in `Chart::Return`, before and after the owner is resumed |

| Variable | In the code |
|---|---|
| `node` | class `Node` and its attacher: status, result, `run_flag_`, `skip_`, predecessor, timer, WaitAll marks |
| `container` | `Node::container_`: 0 for none, `EventList` for an event list, `k` for executor `k` |
| `running`, `created` | charts whose status is Running; charts that exist |
| `index`, `level`, `stack` | `StackExecutor::current_index_`, the executors' local state, `node_list_` |
| `waiting`, `handling` | `Agent::waiting_nodes_dict_`; the list a dispatch has taken |
| `inQueue`, `outQueue` | `EventQueue` |
| `currentEvent`, `eventFrame` | `Manager::current_event_`, `current_event_frame_` |

Every handler is one action with all it changes: stopping a node also stops its
timer, its subchart and everything below, and unlinks every node of them
(`StopNodes`, `StopChart`); `Restore` is the whole tail of `RunFlow`;
`ReturnToOwner` is `Chart::Return` up to the nested flow and `ReturnStop` the
`Stop` behind it. `Stop` is `asyncflow.stop` of one chart and `StopObject` that of
an object, which reaches the subcharts on it that nodes of other objects own.

What is abstracted: a node's function makes *one* call of the runtime (its
`Kind`) and returns one of `Results`; values, names, logging and chart variables
are left out; which timers are due in a step is chosen freely, since how far the
wheel advances depends on the time the game passes. Charts are data
(`ChartOf`, `Child`, `OwnerNode`, `Kind`, ...), constants of the module, so that
a theorem speaks of every set of charts.

An operator named `X_Y` is `X` with the mistake `Y`. None is used; each is
there to show that a property would notice the mistake.

### From the code to `AsyncCalls`

A node whose function calls `call_async` (`Kind` "suspend") becomes Running and
goes to `AsyncManager`'s waiting list and set; the game gets a context, which
is the node's address. `Continue` and `Cancel` are the two callbacks, at any
moment a game can make them: between steps, and while a node's function is in
the game's code (`pc` "called"), in whatever part of the step its flow is. There
are two kinds of nodes whose functions leave the game that time: those of a
"game" node have suspended nothing, those of an "echo" node have just suspended
their own node. In such a function the game calls back for any node, also one
that is on the stack of the flow or in a list that is being worked off, drops
contexts, and stops charts other than the node's own. `AsyncStep` is one turn of the loop of
`AsyncManager::Step`: it stops the node, puts its skip flag and result back and
runs it. `list` holds the lists a node can be linked into and `container` the
one each node believes it is in; the two are kept apart because the code keeps
them apart, and `ContainersAgree` is about their agreement.

With `Careful = TRUE` the game uses a context only while its call is pending;
with `FALSE` it calls back twice, late, and after cancelling. The debugger
(`DebugChart`, `SetBreakpoint`, `ContinueChart`, `DeleteBreakpoint`) acts where
`Manager::Step` polls it. The walk over a list from which nodes are taken while
it goes on (`async_manager.cpp:54`, `73`) reads a freed link: `Walked` has both
outcomes, that it goes on and that it ends.

`KeepsPromise` maps this to `SuspendedCalls`: a node in the waiting list or with
a pending call is "suspended", one in the active list "answered", and `resumed`
is what `AsyncManager::Step` runs it with.

### From the code to `ObjectLifecycle`

`registered` is the pair of maps, `status` that of the agents, `dying` the two
sets of `DyingAgents`, `inStep` the flag that chooses between them (not
initialised by a constructor, hence arbitrary in `Init`). A chart is a pair of
the agent it lives on and the agent whose attached chart owns it, or 0; it has
one node, which may wait in the list of any agent or call a subchart on any.
`frames` is the stack of dispatches, node functions and returns under way. The
game and the functions of nodes call the same operations (`Register`,
`Unregister`, `Attach`, `StartChart`, `Raise`, `Trigger`, `Remove`, `StopChart`,
`Stop`); a function goes on in the frames below when it has called. A subchart
that ends resumes its owner in a flow of its own, *above* the frame `Return` of
the subchart; when the owner's flow is over, `ReturnEnds` stops the subchart again
(`chart.cpp:111`), and if that flow has deleted it the frame names the chart
`Deleted`. With `InUseToo = FALSE` nobody stops or removes a chart that is in
use: one with a function under way, the owner of such a chart, or one that would
take such a chart along. `DeleteAgents` is `~Agent` with all that it
reaches: charts, subcharts on other agents, nodes of others in its lists, its
timer. Events name an agent by id, so one of an object that has been registered
again finds nobody.

### From the code to `TimerWheel`

`slots[l][i]` is a slot's list, `now[l]` how many slots wheel `l` has turned.
`advance` and `process_current_slot` call each other recursively; the model has
one action per turn of the innermost loops: `Advance` turns all wheels that
come round and starts at the highest, `Promote` moves one event down,
`Execute` calls one event's callback, `NextLevel` returns to the wheel below.
While a callback runs (`executing`), functions of nodes set and cancel other
timers; `ExecuteReturns` is the end of a flow, or sets an agent's timer again.
`Schedule` is `TimerWheel::schedule`: `Distance` and `FirstFit` are the loop that
finds the wheel, `Relinked` moves the timer into the slot. `WheelAssumption` asks
that no delay is longer than the wheels reach (`Reach[0]`), which is no
restriction in the code, whose eight wheels of 256 slots cover 64 bits.

### From the code to `ChartVersions`

`data` is the list of versions of one chart's data, `dict` the current one.
A node is its position, as in the code, where ids index `node_list_`. A chart
keeps the version it points to, the number of nodes it made, and the node its
flow has come to; `Follow` looks up a child in the data the chart points to,
which may have been patched since. `Call` is `Manager::Subchart`, which uses the
chart of the last call again if data and object are the same.

### Plan

Done: `FlowExecutor`, `AsyncCalls` with breakpoints, `ObjectLifecycle`,
`TimerWheel`, `ChartVersions`, the refinements of `SuspendedCalls` and
`TimerSet`, and the proofs of section 5. What is left, in the order of its worth:

1. An abstract specification of the call protocol of a subchart (called,
   running, returned or stopped; the owner resumed once with the result), which
   `FlowExecutor` implements outside the cases of section 4.
2. `IntrusiveList`: `util/list.h` with pointers and a sentinel, refining the
   sequences of `NodeLists`.
3. `EventQueue`: the order in which events are delivered when
   `Chart::Return` passes `immediate` between steps (`manager.cpp:136`).
   `StartEventComing` says that the event is not lost, not in what order it
   comes.
4. `BindingRefs`: references and callbacks of the Lua and Python bindings.

## 3. Runs

### Runs that pass

| Run | Instance | Shows |
|---|---|---|
| `charts` | `FlowExecutor` with four scripts, one in each behaviour: a subchart that waits and returns, ends or is stopped; loops through the tick and cut off; WaitAll, `stop_node`, `stop_flow` against timers and events; a subchart that returns while its owner's own flow runs | `StoppedChartIsQuiet`, `SubchartNeedsOwner`, `ContainersAgree`, `PopsWhatItRan` at every moment, and `WaitingNodesRun`: a node that waits is Running, unless the flow that is ending has given it up; `SubchartHasWaitingOwner`, `RunningNodesCanWake`, `FinishedChartIsIdle`, `NodesAreRestored` between steps |
| `signals` | two objects whose nodes trigger and raise events for each other, and that the game stops as a whole; as many executors as nested dispatches, as in the code | `CurrentEventIsInnermost`; `EventWakesNode`: a node leaves an event list to be run, because it is stopped, or because its own turn comes when the stack is full; and `StepEnds`: every step returns |
| `deep` | charts nested deeper than the stack of executors | `TypeOK`; `StartEventComing`: at every moment the event a waiting start node needs is in one queue or the other; and `ChartsFinish`: every chart finishes |
| `calls` | `AsyncCalls`: three scripts under a careful game: nodes that suspend in a loop, one of them stopped by another flow, beside functions in which the game answers and stops nodes of the same chart and of another; a loop of two nodes with breakpoints | an answer is kept (`AnswerIsKept`) and handed to the node (`KeepsPromise`, `ActivatedNodesRun`), a held node runs its function only when continued (`BreakpointHolds`); `NodesStayWakeable`: what can wake a node is not lost, but by cancelling with stop or by a second path that pushes it on the stack; `StoppedChartIsQuiet`, `ContainersAgree` and `TypeOK` as above, `ContainersAgree` but for the stack |
| `sloppy` | a game that calls back twice, late, from the functions of other nodes and after cancelling, beside a debugger that keeps away from the nodes that suspend | `ActiveOnce`: no node is activated twice; `PendingIsAccepted`: no pending answer is refused |
| `objects` | `ObjectLifecycle` with two objects, registered, stopped, unregistered and registered again in and between steps (335,833 states) | `NothingRefersToDeleted` (the returns of subcharts apart), `ContainersAgree`, `DyingObjectIsQuiet`; `WakersAreKept`: three things take from a Running node what can wake it, and no more; `TypeOK`, and `AgentsAreDeleted`: an unregistered object is deleted in the end |
| `wheel` | `TimerWheel` with wheels of two slots, two node timers and an object | `WheelInvariant`: a timer is in the one slot for its tick; `RunsOnTime`: it implements `TimerSet`; `AgentsTick`: no object stops ticking; `AdvanceEnds`: a step's turning ends |
| `versions` | `ChartVersions`: three documents, patches that connect nodes in another way | `OldChartsOldData`, `NewChartsNewData`, `NodesExist` |

### Bounds

| Constant | In the runs | In the code | Why it is enough |
|---|---|---|---|
| `MAX_STACK_SIZE` | 3 in `deep` and `chain`, 5 in `charts`, 4 elsewhere | 16 (`executor.h:124`) | 3 is the least with which a flow nests in a flow and the next one finds the stack full; the last script of `charts` needs a dispatch inside a flow, a return inside that and the owner's flow inside the return |
| `MAX_EVENT_FRAME` | 4 | 16 (`manager.cpp:23`) | in `signals`, as in the code, as many as executors: the fall-back to the queue comes when the stack is full already, which is what `chain` is about; in the other runs triggers do not nest so deep |
| `MAX_NODES_PER_EXECUTION` | 8 | 1024 (`executor.cpp:9`) | longer than any flow of the scripts without a loop that is not checked; one script has such a loop and is cut off |
| `MaxQueue` | 2 | none | the game calls in only while fewer events are queued, which keeps the state space finite; nodes may queue more |
| `OneScript` | one script per behaviour | none | scripts share no chart and no object's list; together they only interleave |
| `Contexts` | 2 or 3 names | addresses | the game holds at most so many contexts at a time, one more than there are suspending nodes, so that an old one is there beside a new one |
| `Breakable` | the nodes of one script | any | where the debugger sets breakpoints; in the loop and on the node that suspends |
| `MaxId` | 2 | 32 bits | two agents: of two objects, or of one that has been registered again |
| `MaxCalls` | 2 | none | calls in one function and the flows in it: unregister and register again, trigger and remove |
| `MaxEvents`, `MaxTicks` | 1 | none | queued by hand; timers that come due in one step |
| `NumSlots`, `MaxLevel` | 2, 3 | 256, 7 | delays that end in each of three wheels and across two of them; also checked with 4 slots and two wheels above the first |
| `MaxNow` | 18 | 64 bits | the third wheel turns twice |
| `MaxVersion` | 3 | none | a chart that is two versions old |
| a tick per agent | one queued at a time | one per period | more of them change nothing: the first takes all waiting nodes |

`MayStop` and `MayStopAll`, the charts and objects the game stops, are empty in `deep` because a chart the game stops finishes for a
reason that is not the runtime's. `ChartVersions` has one chart, and two users of
it, an attached chart and a node that calls it: versions of different charts
share nothing.

### Fairness

Everything the runtime has begun is a chain of function calls that never block,
so it goes on: weak fairness of `Runtime` in `FlowProperties`, `AsyncProperties`
and `LifecycleProperties`, of `StepOn` and `ExecuteReturns` in `TimerWheel`.
`StepEnds` and `AdvanceEnds` need only that. That the game calls `step` again and
again is a second condition: strong fairness of `BeginStep` in `AsyncProperties`,
of `Step` in `LifecycleProperties` and of `BeginStep(Armed)` in
`SteppingSpec` (time passes, so that steps in which all armed timers are due
recur); strong, because other calls of the game may come between. Nothing is
assumed of the game's starts, events, triggers and callbacks, nor of what node
functions return.

## 4. Where code and documents disagree

Four runs end in a violation, each of one property. `PROJECT.json` quotes the
line each one contradicts. `subloop`, `removed` and `patch` were also reproduced
with the program itself; the last two end in a segmentation fault there.

| Run | Property | What happens |
|---|---|---|
| `subloop` | `RunningNodesCanWake` | `Chart::Return` resumes the owner's flow, which loops and starts the subchart again; the `Stop` behind (`chart.cpp:111`) kills that new run, and its owner waits for ever. |
| `removed` | `NothingRefersToDeleted` | A node triggers an event; a node of another object that waits for it removes the first one's chart. `RemoveChart` deletes it at once (`agent.cpp:171`), and the function of its node is still under way below. |
| `stophosted` | `SubchartsOutliveStop` | `Agent::Stop` stops every chart on the object, also a subchart that the node of another object has called (`agent.cpp:257`): that node stays Running, and nothing resumes it. `doc/lua_api.md:203` says that stopping does not touch subcharts. |
| `patch` | `NodesExist` | A patch in place adds a node; charts that run are connected to it and do not have it, and `Chart::GetNode` does not check (`chart.h:32`). |

More counterexamples, kept as configurations to run by hand
(`tlc -config MCdiamond.cfg MCFlow` and so on):

| Configuration | Module | Property | What happens |
|---|---|---|---|
| `MCdiamond` | `MCFlow` | `RunningNodesCanWake` | Two paths lead to one event node. The second `Push` takes the node out of its event list (`executor.cpp:19`) and the loop then skips it because it is Running: nothing can wake it any more. The comment at `executor.cpp:89` calls this case harmless. |
| `MCstoplater` | `MCFlow` | `FinishedChartIsIdle` | A node is stopped by a later node of its own flow. `has_running_node` still says that something runs (`executor.cpp:119, 141`), and the chart stays Running with no node running. |
| `MCtriggerown` | `MCFlow` | `EndsOutermost` | A node triggers the only event its chart waits for. The nested flow sees no Running node and returns from the chart while the outer flow has nodes left. |
| `MCchain` | `MCFlow` | `DispatchesHaveRoom` | Each node an event wakes triggers the next. When the stack of executors is full the node has left its event list and is never run (`manager.cpp:418`); the fall-back at `MAX_EVENT_FRAME` comes one level too late. |
| `MCsyncloop` | `MCFlow` | `LoopedNodeIsCalled` | A subchart that ends within its call is called in a loop. The owner is put off to the tick with its skip flag set, and its function is not called then. |
| `MCwalk` | `MCAsync` | `ContinueReachesAll` | Two nodes of a chart are held; the loop that continues them takes the first out of the list it walks (`async_manager.cpp:54`) and need not reach the second. |
| `MClatecall` | `MCAsync` | `AnswersItsCall` | A callback of a call that is over is taken for the answer to the node's next one: the context is the node's address (`manager.cpp:667`). |
| `MCtwins` | `MCAsync` | `BreakpointHolds` | Two objects have the same chart. The flag that lets a continued node pass belongs to the data (`node_func.cpp:23`): the other object's node takes it. |
| `MCasyncbreak` | `MCAsync` | `SuspendedNodesStaySuspended` | Deleting a breakpoint activates every waiting node of the data (`async_manager.cpp:73`), also one that waits for the game's answer. |
| `MCecho` | `MCAsync` | `AnswerIsKept` | A callback comes before the function that suspended the node has returned; `Node::Run` then overwrites the answer (`node.cpp:68`). |
| `MCsecondpath` | `MCAsync` | `AnsweredNodesResume` | Another node's function answers a node in the middle of a step; a second path then pushes it off the active list onto the stack (`executor.cpp:19`), where it is skipped because it is Running: the answer is lost and nothing wakes the node. |
| `MConstack` | `MCAsync` | `StoppedNodesLeave` | A node is answered while a second path has it on the stack: `RemoveNode` clears its container pointer (`async_manager.cpp:37`) and it is in two lists. A stop then takes it out of one. |
| `MCcontinued` | `MCAsync` | `ActiveOnce` | The debugger continues a node that waits for the game's answer, which leaves it in `nodes_set_`. The callback, from the function of a node resumed before it, clears its pointer and activates it a second time. |
| `MCreplaced` | `MCLifecycle` | `ReturnsFindTheirChart` | A subchart returns; the owner's flow calls on another object, which deletes it (`manager.cpp:617-626`); `Chart::Return` then stops it and `RunFlow` sets its status (`chart.cpp:111`, `executor.cpp:147`). |
| `MCinterval` | `MCTimers` | `TicksAsAsked` | The Python binding compares an object's tick interval with the *step* interval (`py_manager.cpp:46`): `register(obj, 30)` ticks every 1000 ms, against `doc/lua_api.md:129` and `271`. |
| `MCfirststep` | `MCLifecycle` | `DeletedAsPromised` | `in_step_` is not initialised (`manager.h:106`): before the first step, whether an unregistered object is deleted at the end of the next step or one later is arbitrary. |

Met while reading, without a run:

- `doc/lua_api.md:64` gives 100 as the default of `default_timestep`; the code
  has 30 (`manager.cpp:24`). `doc/lua_api.md:63` describes a setting
  `immediate_subchart`; no code reads it, and subcharts always start at once
  (`manager.cpp:643`).
- `LuaChart::Return(bool)` returns true whatever its argument is
  (`lua_chart.cpp:105-111`); only the end of a flow calls it, with true.
- A node that returns from or stops its own chart stays in status EndRun between
  steps; nothing reads that status, so it is harmless.

## 5. Proofs

### The execution core

`FlowProofs` proves, for every choice of charts, nodes, objects, events and
limits that satisfies `ConstantsAssumption` and `ChartsAssumption`:

| Theorem | Says |
|---|---|
| `TypeCorrect` | `Spec => []TypeOK`: in particular the stack index stays on the stack and only nodes are popped, however flows, returns and dispatches nest |
| `StoppedChartsStayQuiet` | `Spec => []StoppedChartIsQuiet`: at every moment of every step no node of a stopped chart is Running, waits for an event or has a timer |
| `SubchartsNeedOwners` | `Spec => []SubchartNeedsOwner`: a subchart runs only while the chart of its owner node does |
| `PopsItsOwnStack` | `Spec => []PopFindsNode`: an executor that pops finds its node, so the vector is never empty |
| `InvariantHolds` | `Spec => []QuietInvariant` |

**Assumptions.** `ConstantsAssumption` gives the constants their types.
`ChartsAssumption` says that connectors stay within a chart and that subcharts
form a forest: `Under[c]` is the set of charts below `c`, closed under
subcharts, and no chart is below its own subcharts. The code builds charts so:
a subchart is created for one owner node and belongs to it. TLC evaluates both
assumptions for every script.

**The inductive invariant.** `StoppedChartIsQuiet` is not inductive. It needs

- `TypeOK`, for the types of everything that moves;
- `LevelsNest`: levels above the top are as they were in the beginning and
  those below wait in a call, so that a return finds the level it left;
- `FlowsStayInChart`: a flow only holds nodes of its chart; hence a node it
  makes wait is in a chart about which the loop has just asked whether it runs.
  Its last part, that the node being called is on the stack unless it has been
  taken off, makes the pop of `AfterRun` total;
- `CallsInRunningChart`: a function is called, and a chart returns, only while
  the chart runs. Without it a call that waits could make a node Running in a
  stopped chart;
- `SubchartNeedsOwner`: stopping a chart stops all charts under it *that exist*;
  this must reach every running subchart.

**Layout.** `NodeListsProofs` proves what removal, reversal and concatenation do
to the elements of a list. The first half of `FlowProofs` says of every operator
(`Unlink`, `UnlinkAndPush`, `StopChart`, `StartChart`, ...) what it keeps and
what it establishes. The second has one lemma per action, one step in it per
part of the invariant the action can disturb, and combines them. The other proof
modules are laid out in the same way.

### One home for every node

`HomeProofs`, under the same assumptions:

| Theorem | Says |
|---|---|
| `NodesHaveOneHome` | `Spec => []ContainersAgree`: a node is in the list its container pointer names, once, and in no other |
| `PopsTheNodeItRan` | `Spec => []PopsWhatItRan`: what an executor pops after a run is the node it has run |
| `CurrentEventHolds` | `Spec => []CurrentEventIsInnermost` |
| `HomeInvariantHolds` | `Spec => []HomeInvariant` |

`HomeInvariant` adds to `QuietInvariant`

- `StoppedNodesAreOut`: the nodes of a stopped chart are in no list at all.
  `StoppedChartIsQuiet` says that of event lists only; a chart that is started
  again pushes its start node, which must be nowhere else;
- `Tidy`: executors above the top, or whose loop is over, hold nothing, and a
  level that dispatches no event has taken no list. The list a dispatch takes,
  or an executor's vector, is therefore empty when it is filled;
- `CurrentOnTop`: while its function is called the current node is on top of its
  stack, if it is still on it, and of a chart that has stopped meanwhile it has
  the result `rSTOP`, so that `AfterRun` gives it no successors;
- `ReturnsOwnChart`: a flow returns from its own chart, and a flow on top of that
  return is the owner's. As no chart is under its own subcharts, `ContinueFlow`
  never pushes onto a flow that is over: the executor it finds for the owner's
  chart is another one, whose loop goes on.

The proof needs that a child that two connectors lead to is pushed once: the
second `Push` takes the node out of the vector it is in (`executor.cpp:19`),
which is `Firsts` in `AfterRun`.

`CurrentEventIsInnermost` has an invariant of its own: `EventsNest`, each dispatch
remembers the event of the next one below it, which is what it puts back.

### What an event wakes

`EventsWakeNodes`, in `HomeProofs`: `Spec => EventWakesNode`, for any limits. A
node leaves an event list to go on a stack of nodes to run, because it is
stopped, or because its turn comes in a dispatch that finds the stack full
(`FindsNoExecutor`). The last is the step of `MCchain`, and no limit rules it
out: triggers may nest as deep as the stack, and subcharts nest without being
counted. What the theorem says is that such a dispatch loses the node at its head
and no other, and that no flow, return or stop loses one. It needs that a node
that is stopped has the result `rSTOP` and that one that is pushed onto an
executor keeps its container pointer.

### Who waits

`WaitingProofs`, under the same assumptions:

| Theorem | Says |
|---|---|
| `SubchartsHaveWaitingOwners` | `Spec => []SubchartHasWaitingOwner` |
| `WaitingNodesAreRunning` | `Spec => []WaitingNodesRun` |
| `StartsAreComing` | `StartIsReserved => (Spec => []StartEventComing)` |
| `OwnersInvariantHolds` | `Spec => []OwnersInvariant` |

`SubchartHasWaitingOwner` speaks of moments between steps. At every moment its
proof needs `OwnerWaits`: the owner of a subchart that runs is Running and in no
event list, with one exception. A flow that has run too many nodes is cut off;
`Truncate` gives up its history, and `Restore`, the code right behind it, stops
what it has given up. Between the two a node with a subchart or a timer may be in
status EndRun (`GivenUp`); no flow runs in between, so nothing can reach it.
`WaitingNodesRun` is stated with that exception for timers, and without it is
false. When a node is stopped its subchart must be among what is stopped with it:
`StopNodes` stops the charts under it, which `Under` makes closed. `MarksByKind`
says that only a wait node has a timer, so that a timer cannot wake an owner.
`WaitsInvariant` adds that a node with a timer is in no event list, or a timer
that runs out would leave it there while it runs.

`StartEventComing` holds at every moment when both queues are counted: a step
moves events from the one to the other while it deals with them.
`StartIsReserved` says that `START` is not `TICK` and that no chart has a node
that waits for `START`: the runtime raises it only for start nodes it has put off
(`agent.cpp:136-137`, `chart.cpp:103-105`), and a game's own node that waits for
it would wait with no event on its way.

### What a flow leaves behind

`NodesRest`, in `WaitingProofs`: `Spec /\ DispatchesHaveRoom => []NodesAreRestored`,
where `DispatchesHaveRoom` says that no dispatch finds the stack full. That the
run flag is off between steps matters because a node that has it is taken for
one that loops and put off to the next tick (`executor.cpp:66`). The invariant
`RestInvariant` says at every moment who is going to take it back
(`RunFlagHeld`): a flow that has the node in its history, or the one whose
function it is in, if it is still on a stack or Running, which the code behind the
call needs to reset it. A skip flag is held by a node that is Running, that is on
a stack, or that is EndRun in the history of a flow, which will stop it
(`SkipHeld`). Both must survive what nested flows do to the node meanwhile: stop it,
push it again, cut it off, or find it in the middle of its own call, and it may then
be on a stack above the flow that called it, never below (`FlowTrace`). A node that
`LosesNode` loses keeps its skip flag with no flow to take it back: the one
exception.

### What wakes a node

`RunningNodesWake`, in `WaitingProofs`:
`ScriptsCanGoOn => (Spec /\ [][~LosesWaker]_vars => []RunningNodesCanWake)`.
`RunningNodesCanWake` is false (section 4). `LosesWaker` is the disjunction of the
steps that make it so: `PushesWaiting`, a node that waits for an event is
connected behind one that has run (`MCdiamond`); `StopsCalledAgain`, the stop
behind a return finds the subchart called again (`subloop`); `StopsHosted`, the
game stops the object on which a subchart lives and the owner's chart goes on
(`stophosted`). The theorem says that in this model there is no fourth. Every other interleaving of flows, events,
timers, returns, stops and cut-offs leaves each Running node its event list, its timer,
its subchart, or a predecessor it still misses. `ScriptsCanGoOn` asks that a
WaitAll node waits for some node, that the stack has an executor for a timer that
fires between flows, and that the charts below a chart are those of its nodes'
subcharts; TLC has checked it for all scripts.

The invariant: at every moment a Running node has one of the four (`CanWake`); a
WaitAll node has seen only nodes it waits for and not all of them (`StillMisses`,
because the last one to come clears the set); and a timer is due only while a step
is firing timers (`DueInTimers`), so that between steps it is armed. The steps that
stop charts are the hard ones: a chart that stops leaves no owner behind, since the
owner is stopped with it, or is the node that the return resumes, or the chart did
not run any more (`OwnersGoOn`).

### Objects

`LifecycleProofs` proves for any objects, agents and limits, from
`LifecycleAssumption` (types of the constants) and, as the hypothesis of each
theorem, `~InUseToo`: neither the game nor a function stops or removes a chart that
is in use. The run `removed` is what happens if one does.

| Theorem | Says |
|---|---|
| `NothingDangles` | `Spec => []NothingRefersToDeleted` |
| `NodesInOneList` | `Spec => []ContainersAgree` |
| `OthersCanWake` | `Spec => WakersAreKept` |
| `DyingObjectsAreQuiet` | `Spec => DyingObjectIsQuiet` |
| `LifecycleTypes` | `Spec => []TypeOK` |
| `LifecycleInvariantHolds` | `Spec => []LifecycleInvariant` |

The parts of the invariant: `AgentsInvariant`, an agent is in one place of its
life, and ids are given in order, so that a new agent is none that a list or an
event still names; `ChartsInvariant`, charts live on living agents below owners
that exist, and running ones on agents that run; `Linked`, the lists and those
that dispatches have taken are disjoint and agree with the container pointers.
`NothingRefersToDeleted` also needs that what is deleted is not under way below: that is `Stack`, which
says that a node's function is under way once and its node in no list
(`Functioning`), that a function that has called a subchart has that one above it
(`CalledBelow`), that an owner waits for its one busy subchart and for nothing
else (`OwnerWaits`), and that an idle chart has nothing busy, so that it may be
started again (`IdleIsIdle`). A return below its owner's flow is the exception: its
chart may have been deleted (`MCreplaced`); `ReturnsExist` says that otherwise it
exists.

`OthersCanWake` is about steps: a node that can be woken (`CanBeWoken`) still can
after any step, and one that comes to wait can be woken, but for three steps, and
for these only of the nodes they name. `Unregister` strands the nodes that wait for the
object and the owners of subcharts on it; `Stop` of an object the owners of
subcharts on it; `ReturnEnds` the owner that has started the subchart again. That a chart the
object itself has attached is stopped or removed strands nobody. The parts are operators over lists, pointers and
frames because an action of several parts, such as `DeleteAgents`, is proved part
by part.

### Asynchronous calls

`AsyncProofs` proves from `AsyncAssumption` (types, connectors stay within a
chart), with the hypothesis each theorem needs:

| Theorem | Hypothesis | Says |
|---|---|---|
| `AsyncInvariantHolds`, `AsyncTypes` | none | `Spec => []AsyncInvariant`, `Spec => []TypeOK` |
| `NodesActivateOnce` | `Apart` | `Spec => []ActiveOnce`, however badly and from wherever the game uses its contexts |
| `PendingCallsAreAccepted`, `SuspendedNodesStay` | `Apart` | `Spec => []PendingIsAccepted`, `Spec => []SuspendedNodesStaySuspended` |
| `NodesInTheirList` | `Apart` | `Spec => []ContainersAgree` |
| `StoppedChartsAreQuiet` | `Careful`, `Apart` | `Spec => []StoppedChartIsQuiet` |
| `AnswersAreKept` | `Careful`, `Apart`, `Silent` | `Spec => AnswerIsKept` |
| `CallsKeepTheirPromise` | `Careful`, `Apart`, `Silent` | `Spec => KeepsPromise`: `AsyncCalls` implements `SuspendedCalls` |
| `SuspendedNodesWake` | `Careful`, `Apart`, `Single` | `Spec => NodesStayWakeable` |
| `BreakpointsHold` | `Careful`, `Apart`, `Single` | `Spec /\ [][~LosesContinued]_vars => BreakpointHolds` |

`Careful`: the game calls back only for a call that is pending. `Apart`: no
breakpoint is set at a node that suspends. `Silent`: no function that has suspended
its node goes on in the game's code before it returns; the functions of other nodes
may call back for it. Section 4 shows what happens without each (`MClatecall`;
`MCasyncbreak`, `MCcontinued`; `MCecho`), so the hypotheses are the conditions under which a game
may rely on the calls.

`Single`: no two nodes that can have a breakpoint share their data, as the objects
with one chart do (`MCtwins`: the continue flag belongs to the data). The last two
theorems also name the steps that break what one would like to say, which the code
does not exclude. `NodesStayWakeable` names two: a second path pushes the node on
the stack, off the list it waits in (`MCdiamond`, `MCsecondpath`), where the loop
skips it because it is Running; and its call is cancelled with stop, which takes it
out of the list and the set and leaves it Running (`manager.cpp:687`).
`LosesContinued`: a node that the debugger has continued leaves the active list
before its turn, stopped or pushed by another node that is resumed. Its data keeps
the continue flag (only `BreakpointFunc::Call` clears it, and deleting the
breakpoint), so the next time the node is reached its function runs although nobody
has continued it.

The invariant is one for all of them. A callback clears a node's container pointer
whatever list the node is in (`async_manager.cpp:37`), and it may come in the middle
of a flow: `Agrees` therefore claims nothing of the stack, and of
the other lists only the nodes whose pointer can be trusted (`Sure`): all of them if
the debugger keeps away from the nodes that suspend, otherwise those that never do
(`Loose` are the rest). `PendingCall` says what a node with a
pending call is like: in a running chart, without flags, in `nodes_set_` unless a
breakpoint interfered. For the refinement each action
is classed by what it does to the nodes: it suspends some, answers one, resumes
one, stops some, or none of these; each class is a step of `SuspendedCalls`.

For `SuspendedNodesWake` the steps are gone through one by one: what is in a list
stays in one, and what leaves it goes where `NodesStayWakeable` says. Deleting a breakpoint may continue only the first of
the nodes it holds (`Walked`): under `Single` there is only one. For
`BreakpointsHold` a set flag is traced from the debugger to the call
(`FlagInvariant`): the flag is that of a node in the active list whose function is
not skipped, or of the node alone on the stack whose flow begins (`Continued`). So
when a flow visits a node whose flag is set, this is the node just resumed.

### Timers

`TimerProofs` proves, for any number of wheels and slots and any delays the
wheels cover, from `WheelAssumption`:

| Theorem | Says |
|---|---|
| `TimersRunOnTime` | `Spec => RunsOnTime`: the wheel implements `TimerSet`; a timer executes at its tick, and time does not go past it |
| `AgentsKeepTicking` | `Spec => []AgentsTick` |
| `WheelInvariantHolds` | `Spec => []WheelInvariant` |

The invariant: wheels turn together (`WheelsTurn`); a timer that is set is in one
slot, once (`OneSlot`), the one its tick has on that wheel, between the slot the
wheel is at and one turn ahead, and at the wheel's own slot only while that slot
is still to be emptied (`InItsSlot`). The tick of a timer on a wheel is its tick
divided once for each wheel below (`SlotsOf`). That the loop of `schedule` ends at
such a slot is the lemma `Placement`: what each of its rounds makes of the distance
(`Distance`) is the difference of the two ticks on that wheel. A wheel that turns
is emptied before the lowest one goes on, so when time is about to advance every
timer lies ahead of its wheel and hence, ticks on the wheels being monotone, ahead
of the time: that is the guard of `TimerSet`'s `Tick`. A timer that is executed is
in the slot of the tick it is set for: that of its `Execute`. `Advance` maps to
`Tick`; `Promote`, `NextLevel` and `BeginStep` to no step; `Wait` and `Register`
to `Set`; `StopTimer` and `DeleteAgent` to `Cancel`; `ExecuteReturns` to `Return`.

### Chart data

`VersionsProofs` proves, for any documents and patches, any number of objects,
callers and versions, from `VersionsAssumption` (a document names at least one
node, and connects nodes it names; a patch only names nodes):

| Theorem | Says |
|---|---|
| `OldChartsKeepData` | `Spec => OldChartsOldData` |
| `ReconnectedNodesExist` | `OnlyReconnects => (Spec => []NodesExist)`: it takes a patch in place that adds a node to lead a flow to a node its chart does not have |
| `NewChartsHaveNewData` | `OnlyReconnects => (Spec => NewChartsNewData)` |
| `VersionsInvariantHolds` | `Spec => []VersionsInvariant` |

`OldChartsOldData` speaks of one step; it needs that the data of an unpatched
chart is what the chart saw when it was made (`KeepsData`), which needs that
versions are only appended and patching marks the version it changes.
What was imported connects nodes to nodes of it (`ImportedData`), and a chart that
was not patched has as many nodes as its data (`UnpatchedNodesExist`).

`OnlyReconnects` says that a patch names only nodes that every imported document
has. The run `patch` shows that it is needed: for `NodesExist` directly, and for
`NewChartsNewData` because a call may use a chart again whose version has grown
since. Under it the invariant speaks of all charts: every version has the nodes of
the document it came from (`SameNodes`), however often it was patched, and every
chart has a node for each of them and is at one of them (`AtItsNodes`).

### Only model-checked

- **Liveness**, which with fairness and `ENABLED` is beyond the provers used
  here: `StepEnds`, `ChartsFinish`, `AdvanceEnds`, `AgentsAreDeleted`,
  `ActivatedNodesRun`.
- **What is false for some charts** (section 4) and for which every condition
  found so far says little less than the property itself: `FinishedChartIsIdle` of
  `FlowExecutor`. It depends on whether the flows of one chart that are under way at
  the same time know of each other, and they do not. `EndsOutermost`, which fails
  for the same reason, is in no run but `MCtriggerown`.

The library's theorems for induction take an operator as a parameter, which none
of the provers can instantiate. Where a function is defined by recursion (`Kept`
of `NodeLists`, `Distance`, `SlotsOf` and `Reach` of `TimerWheel`) the proofs use
the least element of a set of numbers instead. RECURSIVE operators cannot be
reasoned about at all; `Below` in `MCFlow` is the only one, and TLC alone uses it.

## 6. Not modelled

- Variables of charts and their parameters, attributes of events, what node
  functions compute: data that decides nothing in the runtime but the result of
  a node, which is chosen freely.
- `Manager::RestartChart`: nothing calls it.
- Import and patch that fail half-way: a connector that names an unknown node is
  reported and then used (`chart_data.cpp:219-232`), which is undefined;
  `ChartVersions` takes well-formed documents (`Fits`).
- Import of events, and the functions of nodes a patch replaces.
- In `FlowExecutor`, a subchart whose data or object changes between two calls of
  its node (`manager.cpp:610-626` then replaces the chart): every owner node has
  one subchart there; `ChartVersions` has the replacement.
- Removing a chart while its function runs is in `ObjectLifecycle` only
  (`InUseToo`), where it ends in the violation of section 4.
- In `FlowExecutor`, starting and stopping *other* charts and objects from the
  function of a node, which `doc/lua_api.md:219` allows: the game does so between
  steps there. From functions it is in `ObjectLifecycle` (`StartChart`, deferred,
  `StopChart`, `Stop`), stopping also in `AsyncCalls`.
- Charts with a start function: `Agent::StartChart` calls it with the start node
  (`agent.cpp:116`); the models have start nodes without one, which are skipped.
- In `FlowExecutor`, timers that are set in a timer's callback and come due within
  the same advance of the wheel (`timer_manager.cpp:41`): the due timers are chosen
  when the step begins. `TimerWheel` has them.
- The limit of the stack of executors in `AsyncCalls` and `ObjectLifecycle`: a flow
  that finds the stack full, and the START event it raises, are `FlowExecutor`'s.
- Subcharts in `AsyncCalls`, and a node function there that stops its own chart
  through a return: flows nest in the other two.
- The callbacks of the bindings when a chart ends (`InvokeCallback`): a game
  function called behind `Chart::Return`, which may call the runtime again;
  reference counts of the bindings.
- The links of intrusive lists; a list is a sequence, and a node's removal finds
  it wherever it is linked, as the code's does.
- `schedule_in_range` and `max_execute` of the wheel, which this program does not
  use. Of the other third-party code (JSON, YAML, sockets, logging, tests) nothing
  is modelled: it holds none of the program's state.
- Parsing, JSON-RPC and the sockets of the debugger, logging.
- JavaScript: an unfinished binding of the same core that adds no control.
