SPECIFICATION BothSpec
CONSTANTS
    RegisterNames   <- MCNames
    GlobalConstants <- MCGlobals
    Params          <- MCParams
    Numbers         <- MCNumbers
    AsFloat         <- MCAsFloat
    PauliZ          <- MCPauliZ
    MaxLength       = 2
    MaxArity        = 1
    Budgets         <- StrictFamilies
    Tolerated       <- NothingTolerated
CHECK_DEADLOCK FALSE
PROPERTY ImplementsQir
