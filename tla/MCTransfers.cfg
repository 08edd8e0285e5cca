CONSTANTS
    editor = editor
    NoApp = NoApp
    Apps <- OneApp
    MaxOffers = 3
    MaxBytes = 4
    BufSize = 3
    PipeSize = 2
SPECIFICATION FairSpec
INVARIANTS
    PasteIsWhole
PROPERTIES
    ReadIsWhole
    PasteEnds
CHECK_DEADLOCK FALSE
