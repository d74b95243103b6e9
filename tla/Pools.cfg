SPECIFICATION RecoveringSpec
CONSTANTS
    Request <- MixedRequests
    Kind <- MixedKind
    PoolSize = 1
    MaxOverflow = 1
    DefaultTokens = 3
INVARIANTS
    HoldersAreAtWork
    OnlyLeftoversExhaustThePool
PROPERTIES
    EveryRequestIsAnswered
CHECK_DEADLOCK FALSE
