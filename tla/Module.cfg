SPECIFICATION XSpec
CONSTANTS
    Characters    <- MCCharacters
    Functions     <- MCFunctions
    Entry         = "main"
    FunctionNames <- MCFunctionNames
    RegisterNames <- MCRegisterNames
    Modules       <- MCModules
    MaxBody       = 4
    StackLimit    = 3
CHECK_DEADLOCK FALSE
INVARIANTS
    TypeOK
    RegionsDeclared
    QubitsApart
    OutcomesKept
    ReturnFaithful
    AnswerJustified
PROPERTIES
    ImplementsSearch
    Completes
