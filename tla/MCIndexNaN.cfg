CONSTANTS
    Values <- AnyValue
    MaxValue = 2
    NaN = NaN
    BatchSize = 2
    MaxRows = 3
SPECIFICATION Spec
INVARIANTS
    VerdictsAreSound
