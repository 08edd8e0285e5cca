CONSTANTS
    swctl = swctl
    asker = asker
    NoClient = NoClient
    Follower = swctl
    Clients <- TwoClients
    Requests <- AskerHolds
    MaxCopies = 1
    Modulus = 8
    Capacity = 2
SPECIFICATION FollowerFairSpec
INVARIANTS
    AnsweredInOrder
    OwnEventsFollow
    NoEventIsLost
    HeldSeeOneState
    PrintsEveryEvent
PROPERTIES
    QueuedArrives
    GoneIsFreed
CHECK_DEADLOCK FALSE
