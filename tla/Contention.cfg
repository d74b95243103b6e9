SPECIFICATION Spec
CONSTANTS
    r1 = r1
    r2 = r2
    r3 = r3
    k1 = k1
    k2 = k2
    k3 = k3
    blank = blank
    overlong = overlong
    Attempt <- ContentionAttempts
    Key <- ContentionKeys
    Account <- ContentionAccounts
    InitAccounts <- ContentionAccounts
    InitBalance <- ContentionBalance
    Calls <- ContentionCalls
    Scale <- MCScale
    MaxBalance = 4
    BlankText = blank
    OverlongText = overlong
    Null = Null
    Nobody = Nobody
    Outsider = Outsider
    NoRecord = NoRecord
    NoCall = NoCall
    NoAnswer = NoAnswer
    Faults = {"timeout", "crash", "drop"}
SYMMETRY AttemptSymmetry
INVARIANTS
    IInv
    BooksBalance
    LockedReadsAreCurrent
    BackstopsNeverFire
    NoDeadlock
    LocksHaveLiveOwners
    RefusalsBurnNoKey
PROPERTIES
    RefusalsAreJustified
    ImplementsBook
