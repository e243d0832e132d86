CONSTANTS
  Scripts <- Twins
  Node <- ScriptNode
  Chart <- ScriptChart
  NodeData <- ScriptNodeData
  None = None
  ChartOf <- ScriptChartOf
  StartNode <- ScriptStart
  DataOf <- ScriptData
  Kind <- ScriptKind
  Child <- ScriptChild
  Target <- ScriptTarget
  Results <- TrueOnly
  Careful = TRUE
  Cancels <- Stops
  Breakable <- ScriptBreakable
  Contexts = {x1, x2}
SPECIFICATION Spec
PROPERTIES BreakpointHolds
