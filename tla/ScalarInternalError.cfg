\* Shifts by fractional literals, and EXP and MOD between literals with a
\* zero operand.
CONSTANTS
    MaxBits <- MCMaxBits
    MaxDigits <- MCMaxDigits
    ExpLimit <- MCExpLimit
    Universe <- MCUniverse
    Ops <- MCInternalErrorOps
    UnaryOps <- MCUnaryOps
INIT Init
NEXT Next
CHECK_DEADLOCK FALSE
INVARIANT
    NoInternalError
