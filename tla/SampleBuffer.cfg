CONSTANTS
    Blank = Blank
    Values = {v1, v2}
    Sizes = {1, 2, 3}
    MaxOverwrites = 4
SPECIFICATION RingSpec
INVARIANT RingTypeOK
PROPERTY RingIsQueue
