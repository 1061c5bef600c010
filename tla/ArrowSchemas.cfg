SPECIFICATION Spec
CHECK_DEADLOCK FALSE
CONSTANTS
    Requests <- MCRequests
    Again <- MCAgain
    Below <- MCBelow
    Formats <- MCFormats
    Keys <- MCKeys
    Values = {"v", "w"}
    Fuels = {1, 2, 4, 6, 9, 30}
    MaxCalls = 4
INVARIANTS
    BlocksOwned
    ReadAsSet
    ShapeKept
