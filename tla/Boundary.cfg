SPECIFICATION Spec
CONSTANTS
    MaxDigits = 3
    DecimalPlaces = 1
    Precision = 4
    Coefficient <- MCCoefficient
    Exponent <- MCExponent
    MaxCalls = 2
    NoRow = NoRow
INVARIANTS
    TypeOK
    AcceptedIsStorable
    ReplaysAreOfTheSameRequest
    PositiveRetriesReplay
CHECK_DEADLOCK FALSE
