SPECIFICATION HistorySpec
CONSTANTS
    k1 = k1
    k2 = k2
    k3 = k3
    blank = blank
    overlong = overlong
    Attempt <- TwoAttempts
    Key <- MCKeys
    Account <- ThreeAccounts
    InitAccounts <- MCOpened
    InitBalance <- MCBalance
    Calls <- TransfersAndOpening
    Query <- TwoQueries
    MaxTransactions = 1
    Scale <- MCScale
    MaxBalance = 4
    BlankText = blank
    OverlongText = overlong
    Null = Null
    Nobody = Nobody
    Outsider = Outsider
    NoRecord = NoRecord
    NoCall = NoCall
    NoAnswer = NoAnswer
    Faults = {"crash", "sever"}
INVARIANTS
    ListsTellTransfers
    ListsShowWhatWasTold
    ListsOnlyGrow
    BalancesShowWhatWasTold
    NoAccountIsLost
