CONSTANTS
  QueueMax = 2
  PoolSize = 2
  InboxMax = 2
  Datagram = {d1, d2}
  StopByte = StopByte
  NoData = NoData
  Faults = {}
SPECIFICATION FairSpec
PROPERTIES StartEnds
CHECK_DEADLOCK FALSE
