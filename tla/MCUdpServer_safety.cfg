CONSTANTS
  QueueMax = 2
  PoolSize = 2
  InboxMax = 2
  Datagram = {d1, d2, d3}
  StopByte = StopByte
  NoData = NoData
  Faults = {"bind", "recvfrom", "poke", "spurious", "resend"}
SPECIFICATION Spec
INVARIANTS TypeOK SlotOwnership AtMostOnce NoLoss NoUseAfterFree NoLostWakeup
PROPERTIES ReceivedDataStable ImplementsPool
CHECK_DEADLOCK FALSE
SYMMETRY DatagramSymmetry
