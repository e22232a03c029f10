CONSTANTS
    Types = {double, string}
    CtrlTypes = {double}
    NoType = NoType
    MaxConnections = 2
    MaxStarts = 2
    MaxGets = 2
SPECIFICATION Spec
INVARIANT StartAssertion
CHECK_DEADLOCK FALSE
