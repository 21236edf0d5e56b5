SPECIFICATION Spec
CONSTANTS
  Byte = {0, 1}
  WordAddr = {0, 1, 2, 3}
  DeviceWords = 1
  Data <- MCData
  Images <- MCImages
  CacheSize = 2
  PageLines = 2
  Overrun <- MCOverrun
  Organisations = {0, 1, 2}
  Policies = {0, 1}
  Edited = {}
  Features = {}
PROPERTY WriteBackKeepsData
