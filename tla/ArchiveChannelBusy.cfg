CONSTANTS
    Groups = {g1, g2}
    Channel = c
    Disabling = {d1}
    Nobody = nobody
    Options = {TRUE}
    MaxCommands = 2
    MaxCuts = 1
SPECIFICATION Spec
INVARIANT BusyIsGivenBack
CHECK_DEADLOCK FALSE
