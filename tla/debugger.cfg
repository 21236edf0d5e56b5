CONSTANTS
  Addresses <- MCAddresses
  Files <- MCFiles
  PCs = {0, 2, 65534, 65535}
  Priorities = {0, 1}
  MemoryInputs = {2, 3, 65536}
  CycleInputs <- MCCycleInputs
  MaxHits = 2
SPECIFICATION FairSpec
INVARIANTS TypeOK CycleBreakLateByHits BranchSeesPC FilesLoadIntact FilesVerified
PROPERTIES BreaksAsSet CtrlCKept CtrlCAnswered
