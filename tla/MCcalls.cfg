CONSTANTS
  Scripts <- Calls
  Node <- ScriptNode
  Chart <- ScriptChart
  NodeData <- ScriptNodeData
  None = None
  ChartOf <- ScriptChartOf
  StartNode <- ScriptStart
  DataOf <- ScriptData
  Kind <- ScriptKind
  Child <- ScriptChild
  Target <- ScriptTarget
  Results <- Both
  Careful = TRUE
  Cancels <- NoStop
  Breakable <- ScriptBreakable
  Contexts = {x1, x2, x3}
SPECIFICATION PlaySpec
INVARIANTS TypeOK ContainersAgree StoppedChartIsQuiet
PROPERTIES NodesStayWakeable AnswerIsKept KeepsPromise ActivatedNodesRun BreakpointHolds
