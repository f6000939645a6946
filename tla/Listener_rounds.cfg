CONSTANT MaxRetries = 2
SPECIFICATION Spec
INVARIANTS
    ReaderGivenBack
    RoundsBracketed
    ReportsOwnRound
PROPERTIES
    StopReturns
