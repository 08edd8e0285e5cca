CONSTANTS
    NMessages = 4
    WithFd <- FdsOnTwo
    Body <- Bodies
    HeaderSize = 2
    BufSize = 3
    Limit = 3
    Capacity = 3
SPECIFICATION FairSpec
PROPERTY ReadReturns
CHECK_DEADLOCK FALSE
