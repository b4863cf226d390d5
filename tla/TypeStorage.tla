---------------------------- MODULE TypeStorage ----------------------------
(***************************************************************************)
(* Storage layout of the type system (src/solidity/libsolidity/ast/       *)
(* Types.cpp): StorageOffsets::computeOffsets packs the members of a      *)
(* struct or contract into 16-byte slots, one step per member, and        *)
(* MemberList, StructType and ArrayType derive storage sizes from it.     *)
(*                                                                         *)
(* A member type is abstracted to what the packing reads of it: whether   *)
(* it can be stored (canBeStored), its byte footprint (storageBytes) and   *)
(* its slot count (storageSize). Those three virtual functions live in    *)
(* Types.h, which is not in this repository; the footprints the model     *)
(* draws from are a parameter.                                            *)
(***************************************************************************)
EXTENDS Naturals, Sequences

CONSTANTS
    SlotBytes,   \* the slot width, 16 in the code
    SlotLimit,   \* the slot count that throws, 2^128 in the code
    Types,       \* member types: [stored: BOOLEAN, bytes: Nat, size: Nat]
    MaxMembers,  \* longest member list
    NoOffset     \* offset() of a member that was not placed (nullptr)

Offset == [slot : Nat, byte : Nat]

\* The contract of Types.h the packing relies on: storageSize() >= 1 (the
\* solAssert at line 64), a single-slot type fits in a slot, and a
\* multi-slot type occupies at least a whole slot.
ASSUME StorageAssumption ==
    /\ SlotBytes \in Nat \ {0}
    /\ SlotLimit \in Nat \ {0}
    /\ MaxMembers \in Nat
    /\ NoOffset \notin Offset
    /\ Types \subseteq [stored : BOOLEAN, bytes : Nat, size : Nat \ {0}]
    /\ \A ty \in Types : ty.size = 1 => ty.bytes <= SlotBytes
    /\ \A ty \in Types : ty.size > 1 => ty.bytes >= SlotBytes

\* The member lists computeOffsets can be given (a TypePointers vector).
MemberLists == UNION {[1..n -> Types] : n \in 0..MaxMembers}

VARIABLES
    members,     \* _types
    i,           \* the loop index, 1-based
    slotOffset,  \* slotOffset
    byteOffset,  \* byteOffset
    offsets,     \* offsets: member index -> Offset, NoOffset if absent
    status,      \* "running", "done", or "tooLarge" (the TypeError thrown)
    storageSize  \* m_storageSize once done

vars == <<members, i, slotOffset, byteOffset, offsets, status, storageSize>>

Init ==
    /\ members \in MemberLists
    /\ i = 1
    /\ slotOffset = 0
    /\ byteOffset = 0
    /\ offsets = [k \in DOMAIN members |-> NoOffset]
    /\ status = "running"
    /\ storageSize = 0

\* A member that cannot be stored is skipped (lines 53-54).
SkipMember ==
    /\ status = "running"
    /\ i \in DOMAIN members
    /\ ~members[i].stored
    /\ i' = i + 1
    /\ UNCHANGED <<members, slotOffset, byteOffset, offsets, status, storageSize>>

\* Mutant: the overflow check of lines 55-60 is missing; a member is placed
\* at the cursor whatever its size.
PlaceAtNoAdvance(ty) == [slot |-> slotOffset, byte |-> byteOffset]

\* Mutant: `>=` for `>` at line 55; a member that exactly fills the slot
\* moves to the next one.
PlaceAtGE(ty) ==
    IF byteOffset + ty.bytes >= SlotBytes /\ byteOffset > 0
    THEN [slot |-> slotOffset + 1, byte |-> 0]
    ELSE [slot |-> slotOffset, byte |-> byteOffset]

\* The position a member is placed at: the next slot when its bytes would
\* overflow a partly used slot (lines 55-60).
PlaceAt(ty) ==
    IF byteOffset + ty.bytes > SlotBytes /\ byteOffset > 0
    THEN [slot |-> slotOffset + 1, byte |-> 0]
    ELSE [slot |-> slotOffset, byte |-> byteOffset]

\* Mutant: the else branch of lines 67-71 does not reset byteOffset.
AdvanceNoReset(ty, pos) ==
    IF ty.size = 1 /\ pos.byte + ty.bytes <= SlotBytes
    THEN [slot |-> pos.slot, byte |-> pos.byte + ty.bytes]
    ELSE [slot |-> pos.slot + ty.size, byte |-> pos.byte + ty.bytes]

\* Mutant: a multi-slot member advances the cursor by one slot too few.
AdvanceShort(ty, pos) ==
    IF ty.size = 1 /\ pos.byte + ty.bytes <= SlotBytes
    THEN [slot |-> pos.slot, byte |-> pos.byte + ty.bytes]
    ELSE [slot |-> pos.slot + ty.size - 1, byte |-> 0]

\* The cursor after a member placed at pos: within the slot for a
\* single-slot member that fits, else past its slots (lines 65-71).
Advance(ty, pos) ==
    IF ty.size = 1 /\ pos.byte + ty.bytes <= SlotBytes
    THEN [slot |-> pos.slot, byte |-> pos.byte + ty.bytes]
    ELSE [slot |-> pos.slot + ty.size, byte |-> 0]

\* One iteration of the loop for a storable member (lines 52-71),
\* including the throw when the slot is too large (lines 61-62).
PlaceMember ==
    /\ status = "running"
    /\ i \in DOMAIN members
    /\ members[i].stored
    /\ LET ty  == members[i]
           pos == PlaceAt(ty)
       IN  IF pos.slot >= SlotLimit
           THEN /\ status' = "tooLarge"
                /\ UNCHANGED <<members, i, slotOffset, byteOffset, offsets, storageSize>>
           ELSE /\ offsets' = [offsets EXCEPT ![i] = pos]
                /\ slotOffset' = Advance(ty, pos).slot
                /\ byteOffset' = Advance(ty, pos).byte
                /\ i' = i + 1
                /\ UNCHANGED <<members, status, storageSize>>

\* Mutant: lines 73-74 are missing; a partly used last slot is not counted.
FinishNoClose ==
    /\ status = "running"
    /\ i \notin DOMAIN members
    /\ IF slotOffset >= SlotLimit
       THEN /\ status' = "tooLarge"
            /\ UNCHANGED storageSize
       ELSE /\ status' = "done"
            /\ storageSize' = slotOffset
    /\ UNCHANGED <<members, i, slotOffset, byteOffset, offsets>>

\* Mutant: the check of lines 75-76 is missing.
FinishNoCheck ==
    /\ status = "running"
    /\ i \notin DOMAIN members
    /\ status' = "done"
    /\ storageSize' = IF byteOffset > 0 THEN slotOffset + 1 ELSE slotOffset
    /\ UNCHANGED <<members, i, slotOffset, byteOffset, offsets>>

\* After the loop: close a partly used slot and check the total
\* (lines 73-78).
Finish ==
    /\ status = "running"
    /\ i \notin DOMAIN members
    /\ LET total == IF byteOffset > 0 THEN slotOffset + 1 ELSE slotOffset
       IN  IF total >= SlotLimit
           THEN /\ status' = "tooLarge"
                /\ UNCHANGED storageSize
           ELSE /\ status' = "done"
                /\ storageSize' = total
    /\ UNCHANGED <<members, i, slotOffset, byteOffset, offsets>>

Next == SkipMember \/ PlaceMember \/ Finish

Spec == Init /\ [][Next]_vars

(***************************************************************************)
(* Storage sizes derived from the packing.                                *)
(***************************************************************************)
MaxNat(a, b) == IF a >= b THEN a ELSE b

\* StructType::storageSize: at least one slot (lines 1725-1728).
StructStorageSize(total) == MaxNat(1, total)

\* Mutant: the element count is divided by itemsPerSlot without rounding up.
ArrayRawSizeFloor(len, ty) ==
    IF ty.bytes = 0 THEN 1
    ELSE IF ty.bytes < SlotBytes
         THEN len \div (SlotBytes \div ty.bytes)
         ELSE len * ty.size

\* ArrayType::storageSize of a static array of len elements of type ty,
\* before the 2^128 check and the max with 1 (lines 1414-1429).
ArrayRawSize(len, ty) ==
    IF ty.bytes = 0 THEN 1
    ELSE IF ty.bytes < SlotBytes
         THEN (len + (SlotBytes \div ty.bytes - 1)) \div (SlotBytes \div ty.bytes)
         ELSE len * ty.size

\* ... and its result when it does not throw (lines 1430-1432).
ArrayStorageSize(len, ty) == MaxNat(1, ArrayRawSize(len, ty))

(***************************************************************************)
(* Properties.                                                             *)
(***************************************************************************)
TypeOK ==
    /\ members \in MemberLists
    /\ i \in 1..(Len(members) + 1)
    /\ slotOffset \in Nat
    /\ byteOffset \in 0..SlotBytes
    /\ offsets \in [DOMAIN members -> Offset \cup {NoOffset}]
    /\ status \in {"running", "done", "tooLarge"}
    /\ storageSize \in Nat

Placed == {k \in DOMAIN members : offsets[k] # NoOffset}

\* Bytes a member occupies: its footprint when it is a single-slot type,
\* its whole slots otherwise.
Extent(ty) == IF ty.size = 1 THEN ty.bytes ELSE ty.size * SlotBytes

Start(k) == offsets[k].slot * SlotBytes + offsets[k].byte

End(k) == Start(k) + Extent(members[k])

\* No placed member crosses a slot boundary: a single-slot member lies
\* within its slot, a multi-slot member starts at byte 0 of a slot. This
\* is what lets the code generator address a member by (slot, byte).
SlotAligned ==
    \A k \in Placed :
        IF members[k].size = 1
        THEN offsets[k].byte + members[k].bytes <= SlotBytes
        ELSE offsets[k].byte = 0

\* Members are laid out in declaration order and no two of them share a
\* byte of storage: writing one member never clobbers another.
Disjoint ==
    \A j, k \in Placed : j < k => End(j) <= Start(k)

\* Once computeOffsets returns, every member lies within the storageSize
\* slots it reports, so a struct's storage never spills into the next
\* variable's slots.
WithinTotal ==
    status = "done" => \A k \in Placed : End(k) <= storageSize * SlotBytes

\* The total handed to the u128 cast is representable: the code never
\* returns a slot count of 2^128 or more.
SizeRepresentable ==
    status = "done" =>
        /\ storageSize < SlotLimit
        /\ \A k \in Placed : offsets[k].slot < SlotLimit

\* The spec's storage slot boundary property: when a single-slot member a
\* is followed by the next stored member b and their footprints do not
\* fit in one slot together, b starts the slot after a's; when they fit,
\* b follows a in the same slot.
BoundaryAdvance ==
    \A j, k \in Placed :
        /\ j < k
        /\ \A m \in (j + 1)..(k - 1) : ~members[m].stored
        /\ members[j].size = 1
        => offsets[k] =
             IF offsets[j].byte + members[j].bytes + members[k].bytes > SlotBytes
             THEN [slot |-> offsets[j].slot + 1, byte |-> 0]
             ELSE [slot |-> offsets[j].slot,
                   byte |-> offsets[j].byte + members[j].bytes]

\* Two code paths agree: a static array of n elements of a type takes as
\* many slots (ArrayType::storageSize) as a struct of n members of that
\* type (StructType::storageSize over computeOffsets), and one throws
\* "too large" exactly when the other does.
ArrayMatchesStruct ==
    \A ty \in Types :
        /\ ty.stored
        /\ \A k \in DOMAIN members : members[k] = ty
        => /\ status = "done" =>
                 StructStorageSize(storageSize) = ArrayStorageSize(Len(members), ty)
           /\ status = "tooLarge" => ArrayRawSize(Len(members), ty) >= SlotLimit
=============================================================================
