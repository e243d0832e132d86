CONSTANTS
  Object = {o1, o2}
  MaxId = 2
  MaxCalls = 2
  MaxEvents = 1
  MaxTicks = 1
  InUseToo = FALSE
SPECIFICATION Spec
PROPERTIES DeletedAsPromised
