SPECIFICATION FairSpec
CONSTANTS
    Functions  = {"main", "f", "g"}
    Entry      = "main"
    MaxCalls   = 2
    StackLimit = 4
CHECK_DEADLOCK FALSE
INVARIANTS
    TypeOK
    Closed
    TranslatedOnce
    ProgramComplete
    DepthBounded
    StopsForCause
PROPERTIES
    ImplementsLibrary
    Terminates
