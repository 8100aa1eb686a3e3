CONSTANTS
    Batch = 2
    Columns = {key, other}
    None = None
    Files <- SmallFiles
SPECIFICATION FairSpec
INVARIANTS
    TypeOK
    GetReadsTheRow
PROPERTIES
    ImplementsRowScan
    CallsReturn
