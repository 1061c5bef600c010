SPECIFICATION Spec
CONSTANTS
    Processes = {p1, p2, p3}
    Keys <- MCKeys
    Menu <- MCMenu
    Tokens = {"t"}
    MaxRetries = 2
    MaxOps = 3
    MaxCrashes = 1
    MaxFaults = 1
    SlowHolders = FALSE
CHECK_DEADLOCK FALSE
INVARIANTS
    LockSound
    NoTokenLost
PROPERTIES
    LockNeverBlocks
