CONSTANTS
    NaN = NaN
    Width = 2
    RowGroups <- AnyGroup
    Predicates <- AnyPredicate
    NullIndexOf <- NullBitsIndex
SPECIFICATION Spec
INVARIANTS
    RowMasksAreExact
    FailuresHaveACause
    VerdictsAgreeWithRows
PROPERTIES
    OptimizeKeepsAnswers
