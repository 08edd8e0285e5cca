CONSTANTS
    seat0 = seat0
    a = a
    b = b
    secret = secret
    html = html
    None = None
    Seats <- OneSeat
    Enabled <- BothKinds
    Contents <- FourContents
    Blocked <- Secret
    Unlisted <- Html
    Histories <- OneOrNone
    Faults <- ReadFault
    SourceIds <- FourIds
    MaxSteps = 2
SPECIFICATION FairSpec
INVARIANTS
    SourceIsOwner
    HeldIsCurrent
    AppHeldIsKept
PROPERTIES
    Settles
    EmptiedIsHeld
CHECK_DEADLOCK FALSE
