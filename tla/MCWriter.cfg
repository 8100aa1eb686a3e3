CONSTANTS
    MaxColumns = 2
    RowGroupSizes = {0, 1, 2}
    MaxRows = 3
    RowOrders = {TRUE, FALSE}
    Null = Null
    None = None
    Faults <- AnyFault
    MaxFaults = 2
    MaxInputs = 2
SPECIFICATION CatSpec
INVARIANTS
    TypeOK
    WrittenRowsAreTheCallers
    FinishedHoldsEverything
    RowGroupsAreFull
    FlushableExactlyAtRowBoundaries
    CopiesAreComplete
    ReadersAreFreedOnce
PROPERTIES
    ImplementsSealedLog
