CONSTANTS
  Scripts <- AsyncBreak
  Node <- ScriptNode
  Chart <- ScriptChart
  NodeData <- ScriptNodeData
  None = None
  ChartOf <- ScriptChartOf
  StartNode <- ScriptStart
  DataOf <- ScriptData
  Kind <- ScriptKind
  Child <- ScriptChild
  Target <- ScriptTarget
  Results <- TrueOnly
  Careful = TRUE
  Cancels <- NoStop
  Breakable <- ScriptBreakable
  Contexts = {x1, x2}
SPECIFICATION Spec
INVARIANTS SuspendedNodesStaySuspended
