SPECIFICATION Spec
CONSTANTS
    RegisterNames   <- MCNames
    GlobalConstants <- MCGlobals
    Params          <- MCParams
    Numbers         = {"0.5"}
    AsFloat         <- MCAsFloat
    MaxLength       = 1
    MaxArity        = 1
    Budgets         <- CallFamilies
CHECK_DEADLOCK FALSE
INVARIANT QubitArgumentsKept
