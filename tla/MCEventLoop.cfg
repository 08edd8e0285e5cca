CONSTANTS
    Ids <- FiveIds
    Fds <- FourFds
    MaxEvents = 2
    EventFd = EventFd
    None = None
SPECIFICATION FairSpec
INVARIANTS
    RegisteredIsAllocated
    BatchIsAllocated
PROPERTIES
    ReadyIsServed
    StopEnds
CHECK_DEADLOCK FALSE
