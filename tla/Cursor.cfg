SPECIFICATION Spec
CONSTANTS
    Queries = {1, 2}
    Statements = {1, 2}
    Plans <- MCPlans
CHECK_DEADLOCK FALSE
INVARIANTS
    NothingLeftBehind
    ResultsOfAsked
PROPERTIES
    TimeoutEnds
    InterruptReturns
