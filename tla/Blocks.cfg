SPECIFICATION Spec
CONSTANTS
    Registers <- MCRegisters
    Inputs    <- MCInputs
    MaxBlocks = 3
    MaxOps    = 2
CHECK_DEADLOCK FALSE
INVARIANTS
    TypeOK
    SamePath
    OneToOne
PROPERTY CatchesUp
