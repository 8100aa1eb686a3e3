CONSTANTS
    MaxThreads = 2
    MaxGroups = 1
    CreateMayFail = TRUE
    None = None
SPECIFICATION Spec
INVARIANTS
    QuiescentOnReturn
