CONSTANTS
  QueueMax = 3
  PoolSize = 3
  CounterMod = 4
  MaxThreads = 4
  Faults = {"shared", "mutex", "cond", "condStart", "rwlock", "plugins", "items",
            "buffer", "socket", "works", "handle", "create", "bind",
            "recvHandle", "recvCreate"}
SPECIFICATION FairSpec
INVARIANTS TypeOK RunsWhole NothingLeft
PROPERTIES LifeEnds
CHECK_DEADLOCK FALSE
