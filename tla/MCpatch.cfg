CONSTANTS
  Object = {o1}
  Caller = {c1}
  Graphs <- Imported
  Patches <- Growing
  MaxVersion = 2
SPECIFICATION Spec
INVARIANTS NodesExist
