SPECIFICATION FairSpec
CONSTANTS
    MaxCapacity = 2
    MaxEvents = 4
    MaxConnectTasks = 1
    PipeCapacity = 2
INVARIANTS
    TypeOK
    NothingBufferedBehindOpenPipe
    StatusMatchesHandle
    FailedFlushLosesNothing
    PayloadsAccountedFor
    DeliveredAtMostOnce
PROPERTIES
    OrderLostOnlyByFailedFlush
    OverflowDropsOldest
    ImplementsLossyChannel
    PostedIsHandled
    ReconnectDeliversBacklog
