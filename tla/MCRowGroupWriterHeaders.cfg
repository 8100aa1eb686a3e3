CONSTANTS
    full = full
    empty = empty
    Groups = {full, empty}
    RowsIn <- MCRowsIn
    MaxColumns = 1
    MaxPuts = 2
    Metadata = {m}
    None = None
    Faults <- HeaderFaults
    MaxFaults = 2
SPECIFICATION Spec
INVARIANTS
    RowCountIsRowsRead
