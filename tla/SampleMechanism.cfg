CONSTANTS
    Blank = Blank
    Types = {double, string}
    DefaultType = double
    Foreign = {}
    BufferSpace = 3
    MaxTime = 2
    MaxSamples = 4
    MaxFailures = 0
SPECIFICATION Spec
INVARIANTS
    TypeOK
    BufferSorted
    EverySampleAccounted
CHECK_DEADLOCK FALSE
