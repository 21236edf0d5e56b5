CONSTANTS
  Addresses <- MCAddresses
  Files <- MCFiles
  PCs = {0, 2, 65535}
  Priorities = {0, 1}
  MemoryInputs = {2, 3}
  CycleInputs = {3}
  MaxHits = 2
SPECIFICATION Spec
PROPERTY BreaksAsTold
