CONSTANTS
    first = first
    second = second
    third = third
    NoFile = NoFile
    Daemons <- ThreeDaemons
    MaxFiles = 6
SPECIFICATION StartupFairSpec
INVARIANTS
    ServerIsFound
    StaleFilesDoNotRefuse
PROPERTY StartEnds
CHECK_DEADLOCK FALSE
