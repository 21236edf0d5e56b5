CONSTANTS
  N = 2
  Kind <- MCInputs
  ProcTime <- MCProcTime
  Records <- MCOnce
  VectorPriority <- MCFalling
  Program = {}
  Controls <- MCNone
  Images <- MCClear
  Priorities = {}
  Services = {}
  MaxClk = 40
  MaxFrames = 2
SPECIFICATION Spec
PROPERTY ReturnServicesQueue
