CONSTANTS
  QueueMax = 2
  PoolSize = 2
  InboxMax = 2
  Datagram = {d1, d2, d3}
  StopByte = StopByte
  NoData = NoData
  Faults = {"recvfrom", "bind"}
SPECIFICATION FairSpec
INVARIANTS StartMeansListening
PROPERTIES ReceivedIsProcessed FreeSlotIsUsed StartProceeds StopCompletes
CHECK_DEADLOCK FALSE
