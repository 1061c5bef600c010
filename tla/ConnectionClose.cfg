SPECIFICATION Spec
CONSTANTS
    Closers = {c1, c2}
    Queries = {q1, q2}
    Workers = 2
    RetryLimit = 3
    server_session_keep_alive = FALSE
    StatusMayFail = FALSE
    StatusMayRaise = TRUE
INVARIANTS
    HeartbeatStopped
    SessionDecided
PROPERTIES
    CloseReturns
