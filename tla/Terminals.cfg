SPECIFICATION FairSpec
CONSTANTS
    Key = {k1, k2}
    Size = {s1}
    NoSize = noSize
    MaxConn = 3
    MaxMs = 1
    MaxActive = 2
    MaxPanes = 2
INVARIANTS
    RegistryHoldsLiveTerminals
    LiveTerminalIsTracked
PROPERTIES
    ImplementsPool
    EndedTerminalIsCleanedUp
CHECK_DEADLOCK FALSE
