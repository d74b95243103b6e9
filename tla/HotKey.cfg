SPECIFICATION Spec
CONSTANTS
    r1 = r1
    r2 = r2
    r3 = r3
    k1 = k1
    k2 = k2
    k3 = k3
    blank = blank
    overlong = overlong
    Attempt <- HotKeyAttempts
    Key <- HotKeyKeys
    Account <- HotKeyAccounts
    InitAccounts <- HotKeyOpened
    InitBalance <- HotKeyBalance
    Calls <- HotKeyCalls
    Scale <- MCScale
    MaxBalance = 3
    BlankText = blank
    OverlongText = overlong
    Null = Null
    Nobody = Nobody
    Outsider = Outsider
    NoRecord = NoRecord
    NoCall = NoCall
    NoAnswer = NoAnswer
    Faults = {"timeout", "crash", "drop", "sever"}
SYMMETRY AttemptSymmetry
INVARIANTS
    IInv
    TypeOK
    BooksBalance
    KeyAndEffectTogether
    OneStoryPerKey
    OnlyRealConflicts
    RefusalsBurnNoKey
    WinnerIsReadable
PROPERTIES
    AppendOnly
    RefusalsAreJustified
    ImplementsBook
