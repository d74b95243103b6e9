SPECIFICATION FairSpec
CONSTANTS
    Request <- ProbeRequests
    Kind <- ProbeKind
    PoolSize = 1
    MaxOverflow = 1
    DefaultTokens = 3
PROPERTIES
    LivenessWithoutDatabase
CHECK_DEADLOCK FALSE
