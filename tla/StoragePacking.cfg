CONSTANTS
    SlotBytes = 16
    SlotLimit <- MCSlotLimit
    Types <- MCTypes
    MaxMembers = 4
    NoOffset = NoOffset
INIT Init
NEXT Next
CHECK_DEADLOCK FALSE
INVARIANTS
    TypeOK
    SlotAligned
    Disjoint
    WithinTotal
    SizeRepresentable
    BoundaryAdvance
    ArrayMatchesStruct
