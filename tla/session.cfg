SPECIFICATION Spec
CONSTANTS
    Instance = {i1, i2}
    TTL = 2
    Tolerance = 1
    MaxSkew = 1
    MaxClock = 3
    MaxSession = 2
    None = None
INVARIANTS
    NeverRefusedTwice
    FreshSessionAccepted
PROPERTIES
    TabSettles
CHECK_DEADLOCK FALSE
