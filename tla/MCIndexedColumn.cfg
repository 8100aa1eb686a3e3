CONSTANTS
    Values <- AnyValue
    MaxValue = 2
    NaN = NaN
    BatchSize = 2
    MaxRows = 5
    Word = 2
    InitialSize = 1
    OverAlloc = 1
    Wrap = 16
    None = None
    Types = {"bit", "fixed", "str"}
SPECIFICATION IndexedSpec
INVARIANTS
    TypeOK
    NumericVerdictsAreSound
    SkippedGroupsHaveNoMatch
    BitVerdictsAreSound
    LengthVerdictsAreSound
    ColumnTypeOK
    ValuesLieInTheBuffer
    BatchIsWhatWasPut
    CursorCountsWhatItPasses
PROPERTIES
    ImplementsIndex
