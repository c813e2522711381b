SPECIFICATION BothSpec
CONSTANTS
    RegisterNames   <- MCNames
    GlobalConstants <- MCGlobals
    Params          <- MCParams
    Numbers         <- MCNumbers
    AsFloat         <- MCAsFloat
    PauliZ          <- MCPauliZ
    MaxLength       = 1
    MaxArity        = 1
    Budgets         <- ControlledSFamily
    Tolerated       <- Misnaming
CHECK_DEADLOCK FALSE
INVARIANT GatesAsNamed
