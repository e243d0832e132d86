CONSTANTS
  NodeTimer = {t1}
  AgentTimer = {a1}
  NumSlots = 2
  MaxLevel = 3
  Waits = {1}
  Ticks = {3, 4}
  DefaultTick = 5
  DefaultStep = 4
  StepTimes = {1}
  MaxNow = 6
  None = None
SPECIFICATION Spec
INVARIANTS TicksAsAsked
