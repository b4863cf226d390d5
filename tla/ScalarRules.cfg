CONSTANTS
    MaxBits <- MCMaxBits
    MaxDigits <- MCMaxDigits
    ExpLimit <- MCExpLimit
    Universe <- MCUniverse
    Ops <- MCOps
    UnaryOps <- MCUnaryOps
INIT Init
NEXT Next
CHECK_DEADLOCK FALSE
INVARIANTS
    LiteralConvertibleInRange
    MobileTypeSmallest
    ImplicitTransitive
    ImplicitImpliesExplicit
    CommonTypeBound
    OperatorVetoes
