CONSTANTS
    text = text
    html = html
    x = x
    y = y
    Null = Null
    NoBlob = NoBlob
    Mimes <- MCMimes
    Blobs <- MCBlobs
    Contents <- MCContents
    MaxId = 3
    MaxSort = 5
    Configs <- ConfigsAll
    Faults <- MostFaults
SPECIFICATION SubscriberSpec
INVARIANTS
    LastIsCurrent
    AnnouncedIsCopied
    ViewIsHistory
PROPERTIES
    TrimIsExact
    ImplementsHistory
