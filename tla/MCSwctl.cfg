CONSTANTS
    text = text
    x = x
    y = y
    z = z
    Null = Null
    NoBlob = NoBlob
    Mimes <- MCMimes
    Blobs <- MCBlobs
    Contents <- MCContents
    MaxId = 3
    MaxSort = 5
    Configs <- ConfigsAll
    Faults <- NoFaults
    PageSize = 2
    Starts <- FromFirst
    Numbers <- ThreeOrFour
SYMMETRY Swapped
VIEW Shown
SPECIFICATION SwctlSpec
INVARIANTS
    ListSkipsNothing
PROPERTIES
    PickedIsShown
