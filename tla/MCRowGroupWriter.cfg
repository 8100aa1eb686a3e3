CONSTANTS
    full = full
    empty = empty
    Groups = {full, empty}
    RowsIn <- MCRowsIn
    MaxColumns = 1
    MaxPuts = 2
    Metadata = {m, n}
    None = None
    Faults <- AnyFault
    MaxFaults = 2
SPECIFICATION Spec
INVARIANTS
    TypeOK
    AcceptedGroupsIntact
    FinishedFileIsExact
    ClosedFileIsExact
PROPERTIES
    ImplementsSealedLog
SYMMETRY SameMetadata
