SPECIFICATION Spec
CONSTANTS
    t1 = t1
    t2 = t2
    Threads = {t1, t2}
    Scenarios <- MCScenarios
CHECK_DEADLOCK FALSE
INVARIANTS
    TokensConsistent
    RenewalsIndependent
PROPERTIES
    EveryRequestEnds
