CONSTANTS
    Types = {double, string, group}
    CtrlTypes = {double, string}
    NoType = NoType
    MaxConnections = 3
    MaxStarts = 3
    MaxGets = 2
SPECIFICATION FairSpec
INVARIANTS
    TypeOK
    NoValueWhileDisconnected
    StoppedIsQuiet
    SubscriptionKnown
PROPERTIES
    GetsExpected
    ConnectionCompletes
CHECK_DEADLOCK FALSE
