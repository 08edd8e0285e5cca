CONSTANTS
    editor = editor
    NoApp = NoApp
    Apps <- OneApp
    MaxOffers = 2
    MaxBytes = 4
    BufSize = 3
    PipeSize = 2
SPECIFICATION Spec
CHECK_DEADLOCK FALSE
INVARIANT TransientIsKept
