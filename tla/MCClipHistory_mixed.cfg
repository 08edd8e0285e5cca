CONSTANTS
    text = text
    html = html
    x = x
    y = y
    Null = Null
    NoBlob = NoBlob
    Mimes <- MCMimes
    Blobs <- MCBlobs
    Contents <- TwoContents
    MaxId = 3
    MaxSort = 4
    Configs <- ConfigsMixed
    Faults <- AllFaults
SPECIFICATION Spec
INVARIANTS
    IInv
    HashIsOfNewest
    EntriesAreWhole
    DataIsReferenced
PROPERTIES
    IdsAreForever
    PinnedSurvives
