CONSTANTS
  N = 2
  Kind <- MCKind
  ProcTime <- MCProcTime
  Records <- MCMixed
  VectorPriority <- MCFalling
  Program = {"poll", "write"}
  Controls <- MCTurned
  Images <- MCLoaded
  Priorities = {0, 2}
  Services = {"close_program", "change_mem_content"}
  MaxClk = 32
  MaxFrames = 2
SPECIFICATION FairSpec
INVARIANT TypeOK
PROPERTIES AnnouncedByTurning InputsDelivered OutputCompletes
