SPECIFICATION Spec
CONSTANTS
    NumBatches = 5
    PrefetchThreads = 2
    MaxDownloadRetry = 2
INVARIANTS
    WindowSound
    FailureTold
PROPERTIES
    ImplementsDelivery
