CONSTANTS
  QueueMax = 1
  PoolSize = 2
  InboxMax = 2
  Datagram = {d1, d2}
  StopByte = StopByte
  NoData = NoData
  Faults = {}
SPECIFICATION FairSpec
PROPERTIES FreeSlotIsUsed
CHECK_DEADLOCK FALSE
