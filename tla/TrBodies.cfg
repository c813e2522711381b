SPECIFICATION BothSpec
CONSTANTS
    RegisterNames   <- MCNames
    GlobalConstants <- MCGlobals
    Params          <- MCParams
    Numbers         <- MCNumbers
    AsFloat         <- MCAsFloat
    PauliZ          <- MCPauliZ
    MaxLength       = 2
    MaxArity        = 1
    Budgets         <- Families
    Tolerated       <- Departures
CHECK_DEADLOCK FALSE
INVARIANT FaithfulOutput
