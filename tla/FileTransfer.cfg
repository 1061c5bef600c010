SPECIFICATION Spec
CONSTANTS
    Calls <- MCCalls
    MaxFiles = 3
    MaxChunks = 3
CHECK_DEADLOCK FALSE
INVARIANTS
    ThrottleSound
    ReportHonest
PROPERTIES
    TransferEnds
