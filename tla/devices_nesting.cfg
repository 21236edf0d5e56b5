CONSTANTS
  N = 3
  Kind <- MCInputs
  ProcTime <- MCProcTime
  Records <- MCThree
  VectorPriority <- MCFalling
  Program = {"poll", "sleep"}
  Controls <- MCSwitched
  Images <- MCClear
  Priorities = {}
  Services = {"device_init"}
  MaxClk = 60
  MaxFrames = 2
SPECIFICATION Spec
INVARIANTS StackDiscipline NestingOrder QueueOutranked
PROPERTY QueueKeepsInterrupts
