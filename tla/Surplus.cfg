SPECIFICATION Spec
CONSTANTS
    Request <- MixedRequests
    Kind <- MixedKind
    PoolSize = 1
    MaxOverflow = 1
    DefaultTokens = 3
INVARIANTS
    ThreadsFindConnections
CHECK_DEADLOCK FALSE
