CONSTANTS
    Blank = Blank
    Types = {double, string}
    DefaultType = double
    Foreign = {foreign}
    BufferSpace = 1
    MaxTime = 2
    MaxSamples = 3
    MaxFailures = 1
SPECIFICATION FairSpec
INVARIANTS
    EverySampleAccounted
    ArchivedIntact
PROPERTY BufferDrains
CHECK_DEADLOCK FALSE
