CONSTANTS
    Groups = {g1, g2}
    Channel = c
    Disabling = {d1}
    Nobody = nobody
    Options = {FALSE, TRUE}
    MaxCommands = 2
    MaxCuts = 1
SPECIFICATION FairSpec
INVARIANTS
    TypeOK
    CountsAgree
    DisabledOnlyByAll
    AllWrittenAtExit
    MechanismUsedByOne
PROPERTIES
    OnlyWritesEmpty
    CommandsReturn
CHECK_DEADLOCK FALSE
