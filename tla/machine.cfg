CONSTANTS
  Cells <- MCCells
  Dev = {0, 3, 5}
  Image <- MCImage
  Start = 256
  BasePriority = 1
  StackCells <- MCStackCells
  MaxInterrupts = 2
SPECIFICATION Spec
INVARIANTS TypeOK FramesIntact StackInverse DispatchInBounds TransparencyRules
PROPERTIES ReturnResumes MainProgramUndisturbed
