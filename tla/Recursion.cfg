SPECIFICATION Spec
CONSTANTS
    Functions  = {"main", "f"}
    Entry      = "main"
    MaxCalls   = 1
    StackLimit = 4
CHECK_DEADLOCK FALSE
INVARIANT RecursionStops
