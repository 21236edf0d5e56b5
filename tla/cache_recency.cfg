SPECIFICATION RecencySpec
CONSTANTS
  Byte = {0}
  WordAddr = {0, 1, 2, 3, 4, 5, 6}
  DeviceWords = 1
  Data <- MCZero
  Images <- MCNoData
  CacheSize = 4
  PageLines = 2
  Overrun <- MCOverrun
  Organisations = {1, 2}
  Policies = {0}
  Edited = {}
  Features = {}
INVARIANT VictimExists
PROPERTY EvictsLeastRecent
