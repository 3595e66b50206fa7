SPECIFICATION FairSpec
CONSTANTS
    ReadWorkers = 1
    WriteWorkers = 2
    PoolSize = 4
    Keys = {1, 2, 3}
    MaxTasks = 4
INVARIANTS
    TypeOK
    SameKeyInOrder
    SameKeyAlone
    StopIsClean
    ConnectionWhileUsed
PROPERTY
    StopReturns
CHECK_DEADLOCK FALSE
