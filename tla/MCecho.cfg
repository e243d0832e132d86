CONSTANTS
  Scripts <- Echo
  Node <- ScriptNode
  Chart <- ScriptChart
  NodeData <- ScriptNodeData
  None = None
  ChartOf <- ScriptChartOf
  StartNode <- ScriptStart
  DataOf <- ScriptData
  Kind <- ScriptKind
  Child <- ScriptChild
  Target <- ScriptTarget
  Results <- Both
  Careful = TRUE
  Cancels <- NoStop
  Breakable <- ScriptBreakable
  Contexts = {x1, x2}
SPECIFICATION Spec
PROPERTIES AnswerIsKept
