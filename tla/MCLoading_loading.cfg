SPECIFICATION FairSpec
CONSTANTS
  Documents <- MCDocuments
  Numbers <- MCNumbers
  Sizes <- MCSizes
  Faults <- MCFaults
  Int32Half = 64
  PortMod = 64
  MinTimeout <- MCMinTimeout
  MaxTimeout = 3
  Thousand = 4
  MaxQueue = 5
  MaxPool = 4
  Chunk = 4
  MaxAllocSize = 15
  IntMax = 31
INVARIANTS
  TypeOK
  FollowedIsLive
  EndedReleased
  LoadedIsSound
PROPERTY LoadEnds
CHECK_DEADLOCK FALSE
