--------------------------- MODULE MCTypeStorage ---------------------------
(* Bounds for model checking TypeStorage. The footprints are those of the *)
(* member types of Types.cpp: bool/uint8 (1 byte), a 6-byte integer (items *)
(* that leave a gap at the slot end), uint64 and internal functions        *)
(* (8 bytes, FunctionType::storageBytes), uint128 (a full slot), external  *)
(* functions (36 bytes in 3 slots, FunctionType::storageSize), a static    *)
(* struct of 2 slots, and a type that cannot be stored (a tuple).          *)
EXTENDS TypeStorage

MCSlotLimit == 4

MCTypes ==
    { [stored |-> TRUE,  bytes |-> 1,  size |-> 1],
      [stored |-> TRUE,  bytes |-> 6,  size |-> 1],
      [stored |-> TRUE,  bytes |-> 8,  size |-> 1],
      [stored |-> TRUE,  bytes |-> 16, size |-> 1],
      [stored |-> TRUE,  bytes |-> 36, size |-> 3],
      [stored |-> TRUE,  bytes |-> 16, size |-> 2],
      [stored |-> FALSE, bytes |-> 16, size |-> 1] }
=============================================================================
