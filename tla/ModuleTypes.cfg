SPECIFICATION XSpec
CONSTANTS
    Characters    <- MCCharacters
    Functions     <- MCFunctions
    Entry         = "main"
    FunctionNames <- MCFunctionNames
    RegisterNames <- MCRegisterNames
    Modules       <- Around
    MaxBody       = 4
    StackLimit    = 3
CHECK_DEADLOCK FALSE
INVARIANT SingleDatatype
