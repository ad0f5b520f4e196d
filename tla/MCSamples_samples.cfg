CONSTANTS
  ThreadCount = 3
  JoinMax = 1
  ThreadFaults = {"shared", "memory", "init", "threads", "handle", "create", "socket", "spurious"}
  ClientSets <- MCClientSets
  InsertCount = 2
  DbFaults = {"open", "exec", "prepare", "step", "memory", "kill"}
SPECIFICATION Spec
INVARIANTS TypeOK SuccessIsTrue NothingIsLeft
PROPERTIES WholeChanges SamplesEnd
CHECK_DEADLOCK FALSE
