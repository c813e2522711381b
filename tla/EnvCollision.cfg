SPECIFICATION Spec
CONSTANTS
    RegisterNames   <- CollidingNames
    GlobalConstants <- MCGlobals
    Params          <- NoParams
    Numbers         = {"0.5"}
    AsFloat         <- MCAsFloat
    MaxLength       = 1
    MaxArity        = 1
    Budgets         <- CollidingFamilies
CHECK_DEADLOCK FALSE
INVARIANT AliasesResolve
