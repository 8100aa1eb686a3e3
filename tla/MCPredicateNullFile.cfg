CONSTANTS
    NaN = NaN
    Width = 2
    RowGroups <- AnyGroup
    Predicates <- NullPredicates
    NullIndexOf <- StoredNullIndex
SPECIFICATION Spec
INVARIANTS
    VerdictsAgreeWithRows

