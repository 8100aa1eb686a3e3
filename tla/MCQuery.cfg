CONSTANTS
    MaxThreads = 3
    MaxGroups = 3
    CreateMayFail = TRUE
    None = None
SPECIFICATION FairSpec
INVARIANTS
    TypeOK
    ClaimedOnce
    OutcomeIsExact
    QuiescentOnceStarted
PROPERTIES
    CallReturns
    ImplementsGroupScan
