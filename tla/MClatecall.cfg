CONSTANTS
  Scripts <- Calls
  Node <- ScriptNode
  Chart <- ScriptChart
  NodeData <- ScriptNodeData
  None = None
  ChartOf <- ScriptChartOf
  StartNode <- ScriptStart
  DataOf <- ScriptData
  Kind <- ScriptKind
  Child <- ScriptChild
  Target <- ScriptTarget
  Results <- TrueOnly
  Careful = FALSE
  Cancels <- NoStop
  Breakable <- ScriptBreakable
  Contexts = {x1, x2, x3}
SPECIFICATION Spec
PROPERTIES AnswersItsCall
