CONSTANTS
  Object = {o1}
  Caller = {c1}
  Graphs <- Imported
  Patches <- Reconnecting
  MaxVersion = 3
SPECIFICATION Spec
INVARIANTS NodesExist
PROPERTIES OldChartsOldData NewChartsNewData
