CONSTANTS
  Scripts <- Diamond
  Node <- ScriptNode
  Chart <- ScriptChart
  Agent <- ScriptAgent
  Event <- ScriptEvent
  START = "Start"
  TICK = "Tick"
  None = None
  ChartOf <- ScriptChartOf
  StartNode <- ScriptStart
  AgentOf <- ScriptAgentOf
  OwnerNode <- ScriptOwner
  Under <- ScriptUnder
  Kind <- ScriptKind
  Child <- ScriptChild
  NoLoopCheck <- ScriptNoLoopCheck
  Target <- ScriptTarget
  Names <- ScriptNames
  Results <- Both
  MAX_STACK_SIZE = 4
  MAX_NODES_PER_EXECUTION = 8
  MAX_EVENT_FRAME = 4
  DeferEvent = TRUE
  MaxQueue = 2
  Raised <- OnE
  Triggers <- Nothing
  MayStop <- ScriptChart
  MayStopAll <- Nothing
SPECIFICATION Spec
INVARIANTS RunningNodesCanWake
