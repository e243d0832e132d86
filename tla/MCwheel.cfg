CONSTANTS
  NodeTimer = {t1, t2}
  AgentTimer = {a1}
  NumSlots = 2
  MaxLevel = 3
  Waits <- Near
  Ticks = {3}
  DefaultTick = 5
  DefaultStep = 4
  StepTimes <- Steps
  MaxNow = 18
  None = None
SPECIFICATION Spec
INVARIANTS WheelInvariant AgentsTick
PROPERTIES RunsOnTime AdvanceEnds
