CONSTANTS
    C1 = C1
    C2 = C2
    Null = Null
    Contracts <- MCContracts
    MaxDecls <- MCMaxDecls
SPECIFICATION Spec
INVARIANTS
    TypeOK
    ReferenceStable
    ThisTypesCurrent
    NoNullDeref
PROPERTIES
    MemoWriteOnce
