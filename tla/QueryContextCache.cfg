SPECIFICATION Spec
CONSTANTS
    Ids <- MCIds
    Priorities <- MCPriorities
    Timestamps <- MCTimestamps
    Capacity = 2
    Malformed = Malformed
    MaxEntries = 2
    MaxElements = 2
    Responses <- MCResponses
INVARIANTS
    CacheConsistent
    WithinCapacity
PROPERTIES
    TimestampsNeverRegress
    TrimKeepsMainElement
    MergeEnds
