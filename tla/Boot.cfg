SPECIFICATION FairSpec
CONSTANTS
    i1 = i1
    i2 = i2
    i3 = i3
    k1 = k1
    t1 = t1
    t2 = t2
    a1 = a1
    Instance <- ThreeInstances
    Key <- OneKey
    Body <- TwoTransfersAndOpening
    OperationOf <- MCOperationOf
    Nobody = Nobody
    Outsider = Outsider
    Orphan = Orphan
    NoRow = NoRow
    Unlabelled = Unlabelled
    NoRetry = NoRetry
    Faults = {"crash", "disconnect", "sever", "outsider"}
INVARIANTS
    IInv
    SchemaIsItsVersion
    ServedSchemaIsHead
    RetriesSurviveTheDeploy
PROPERTIES
    LosersFindTheHead
    EveryBootEnds
