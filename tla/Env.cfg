SPECIFICATION Spec
CONSTANTS
    RegisterNames   <- MCNames
    GlobalConstants <- MCGlobals
    Params          <- MCParams
    Numbers         = {"0.5"}
    AsFloat         <- MCAsFloat
    MaxLength       = 2
    MaxArity        = 1
    Budgets         <- Families
CHECK_DEADLOCK FALSE
INVARIANTS
    TypeOK
    AllocationsDisjoint
    OnlyAllocatedQubits
    NoAliasCycle
    AliasesResolve
PROPERTY BindingsGrow
