CONSTANTS
    Values <- AnyValue
    MaxValue = 2
    NaN = NaN
    BatchSize = 2
    MaxRows = 3
    Word = 2
    InitialSize = 1
    OverAlloc = 1
    Wrap = 16
    None = None
    Types = {"bit", "fixed", "str"}
SPECIFICATION IndexedSpec
INVARIANTS
    ValuesArePadded
