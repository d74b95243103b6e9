SPECIFICATION FairSpec
CONSTANTS
    r1 = r1
    r2 = r2
    r3 = r3
    k1 = k1
    k2 = k2
    k3 = k3
    blank = blank
    overlong = overlong
    Attempt <- WaitingAttempts
    Key <- WaitingKeys
    Account <- WaitingAccounts
    InitAccounts <- WaitingAccounts
    InitBalance <- WaitingBalance
    Calls <- WaitingCalls
    Scale <- MCScale
    MaxBalance = 3
    BlankText = blank
    OverlongText = overlong
    Null = Null
    Nobody = Nobody
    Outsider = Outsider
    NoRecord = NoRecord
    NoCall = NoCall
    NoAnswer = NoAnswer
    Faults = {"timeout", "outsider", "sever"}
PROPERTIES
    EveryCallEnds
