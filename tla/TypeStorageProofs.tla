------------------------- MODULE TypeStorageProofs -------------------------
(***************************************************************************)
(* Proofs that StorageOffsets::computeOffsets lays out every member list   *)
(* of every footprint correctly, for every slot width and slot limit.     *)
(***************************************************************************)
EXTENDS TypeStorage, SequenceTheorems, TLAPS

USE StorageAssumption

\* The position in bytes of the packing cursor (slotOffset, byteOffset).
Cursor == slotOffset * SlotBytes + byteOffset

\* Only members already visited have an offset.
PlacedBefore == \A k \in DOMAIN members : offsets[k] # NoOffset => k < i

\* Every placed member ends at or before the cursor, in a slot below the
\* limit.
BelowCursor ==
    \A k \in Placed : End(k) <= Cursor /\ offsets[k].slot < SlotLimit

\* The reported total covers the cursor and is below the limit.
TotalCovers ==
    status = "done" => Cursor <= storageSize * SlotBytes /\ storageSize < SlotLimit

\* The inductive invariant: SlotAligned and Disjoint alone are not
\* inductive, because the next member's position depends on where the
\* cursor is relative to the members already placed (BelowCursor), and
\* the new member must come after them in index order (PlacedBefore).
IInv ==
    /\ TypeOK
    /\ PlacedBefore
    /\ SlotAligned
    /\ Disjoint
    /\ BelowCursor
    /\ TotalCovers

\* A member list is a sequence of member types.
LEMMA MemberListSeq ==
    ASSUME NEW m \in MemberLists
    PROVE  /\ m \in Seq(Types)
           /\ DOMAIN m = 1..Len(m)
           /\ Len(m) \in Nat
           /\ \A k \in DOMAIN m : m[k] \in Types
<1>1. PICK n \in 0..MaxMembers : m \in [1..n -> Types]
  BY DEF MemberLists
<1>2. m \in Seq(Types)
  BY <1>1, SeqDef
<1>3. QED
  BY <1>2, LenProperties

LEMMA IInvInit == Init => IInv
<1> SUFFICES ASSUME Init PROVE IInv
  OBVIOUS
<1>1. members \in MemberLists /\ offsets = [k \in DOMAIN members |-> NoOffset]
  BY DEF Init
<1>2. /\ DOMAIN members = 1..Len(members)
      /\ Len(members) \in Nat
  BY <1>1, MemberListSeq
<1>3. Placed = {}
  BY <1>1 DEF Placed
<1>4. TypeOK
  BY <1>1, <1>2 DEF Init, TypeOK
<1>5. PlacedBefore
  BY <1>1 DEF PlacedBefore
<1>6. TotalCovers
  BY DEF Init, TotalCovers
<1>7. QED
  BY <1>3, <1>4, <1>5, <1>6 DEF IInv, SlotAligned, Disjoint, BelowCursor

\* A step that moves neither the members, their offsets nor the cursor
\* keeps the layout conjuncts.
LEMMA LayoutFrozen ==
    ASSUME IInv,
           members' = members, offsets' = offsets,
           slotOffset' = slotOffset, byteOffset' = byteOffset
    PROVE  (SlotAligned /\ Disjoint /\ BelowCursor)'
<1>1. Placed' = Placed
  BY DEF Placed
<1>2. \A k \in Placed : Start(k)' = Start(k) /\ End(k)' = End(k)
  BY DEF Start, End
<1>3. Cursor' = Cursor
  BY DEF Cursor
<1>4. QED
  BY <1>1, <1>2, <1>3 DEF IInv, SlotAligned, Disjoint, BelowCursor

LEMMA SkipMemberInv ==
    ASSUME IInv, SkipMember
    PROVE  IInv'
<1>1. /\ members \in MemberLists
      /\ DOMAIN members = 1..Len(members)
      /\ Len(members) \in Nat
  BY MemberListSeq DEF IInv, TypeOK
<1>2. i \in DOMAIN members /\ i' = i + 1
  BY DEF SkipMember
<1>3. UNCHANGED <<members, slotOffset, byteOffset, offsets, status, storageSize>>
  BY DEF SkipMember
<1>4. TypeOK'
  BY <1>1, <1>2, <1>3 DEF IInv, TypeOK
<1>5. PlacedBefore'
  BY <1>1, <1>2, <1>3 DEF IInv, PlacedBefore
<1>6. (SlotAligned /\ Disjoint /\ BelowCursor)'
  BY <1>3, LayoutFrozen
<1>7. TotalCovers'
  BY <1>3 DEF IInv, TotalCovers, Cursor
<1>8. QED
  BY <1>4, <1>5, <1>6, <1>7 DEF IInv

LEMMA FinishInv ==
    ASSUME IInv, Finish
    PROVE  IInv'
<1> DEFINE total == IF byteOffset > 0 THEN slotOffset + 1 ELSE slotOffset
<1>1. UNCHANGED <<members, i, slotOffset, byteOffset, offsets>>
  BY DEF Finish
<1>2. /\ slotOffset \in Nat
      /\ byteOffset \in 0..SlotBytes
      /\ storageSize \in Nat
  BY DEF IInv, TypeOK
<1>3. \/ status' = "tooLarge" /\ storageSize' = storageSize
      \/ status' = "done" /\ storageSize' = total /\ total < SlotLimit
  BY <1>2 DEF Finish
<1>4. Cursor <= total * SlotBytes
  BY <1>2 DEF Cursor
<1>5. TypeOK'
  BY <1>1, <1>2, <1>3 DEF IInv, TypeOK
<1>6. PlacedBefore'
  BY <1>1 DEF IInv, PlacedBefore
<1>7. (SlotAligned /\ Disjoint /\ BelowCursor)'
  BY <1>1, LayoutFrozen
<1>8. TotalCovers'
  BY <1>1, <1>3, <1>4 DEF TotalCovers, Cursor
<1>9. QED
  BY <1>5, <1>6, <1>7, <1>8 DEF IInv

\* Where PlaceAt puts a member of a footprint the assumption allows: at or
\* after the cursor, within one slot if it is a single-slot type, at byte
\* 0 if it is a multi-slot type.
LEMMA PlaceAtFacts ==
    ASSUME NEW ty \in Types,
           slotOffset \in Nat, byteOffset \in 0..SlotBytes
    PROVE  LET pos == PlaceAt(ty) IN
           /\ pos \in Offset
           /\ Cursor <= pos.slot * SlotBytes + pos.byte
           /\ ty.size = 1 => pos.byte + ty.bytes <= SlotBytes
           /\ ty.size > 1 => pos.byte = 0
<1>1. ty.bytes \in Nat /\ ty.size \in Nat \ {0}
  OBVIOUS
<1>2. ty.size = 1 => ty.bytes <= SlotBytes
  OBVIOUS
<1>3. ty.size > 1 => ty.bytes >= SlotBytes
  OBVIOUS
<1>4. QED
  BY <1>1, <1>2, <1>3 DEF PlaceAt, Offset, Cursor

\* The cursor Advance leaves is past the member just placed, and is a
\* cursor again.
LEMMA AdvanceFacts ==
    ASSUME NEW ty \in Types, NEW pos \in Offset,
           ty.size = 1 => pos.byte + ty.bytes <= SlotBytes,
           ty.size > 1 => pos.byte = 0
    PROVE  LET nxt == Advance(ty, pos) IN
           /\ nxt.slot \in Nat
           /\ nxt.byte \in 0..SlotBytes
           /\ pos.slot * SlotBytes + pos.byte + Extent(ty)
                <= nxt.slot * SlotBytes + nxt.byte
<1>1. ty.bytes \in Nat /\ ty.size \in Nat \ {0}
  OBVIOUS
<1>2. CASE ty.size = 1
  BY <1>1, <1>2 DEF Advance, Extent, Offset
<1>3. CASE ty.size # 1
  <2>1. Advance(ty, pos) = [slot |-> pos.slot + ty.size, byte |-> 0]
    BY <1>3 DEF Advance
  <2>2. pos.byte = 0 /\ Extent(ty) = ty.size * SlotBytes
    BY <1>1, <1>3 DEF Extent
  <2>3. QED
    BY <1>1, <2>1, <2>2 DEF Offset
<1>4. QED
  BY <1>2, <1>3

LEMMA ExtentNat ==
    ASSUME NEW ty \in Types
    PROVE  Extent(ty) \in Nat
BY DEF Extent

\* A placed member has an offset, a footprint, and a numeric extent.
LEMMA PlacedNat ==
    ASSUME TypeOK, NEW k \in Placed
    PROVE  /\ offsets[k] \in Offset
           /\ members[k] \in Types
           /\ Start(k) \in Nat
           /\ End(k) \in Nat
<1>1. members \in MemberLists /\ k \in DOMAIN members
  BY DEF TypeOK, Placed
<1>2. members[k] \in Types
  BY <1>1, MemberListSeq
<1>3. offsets[k] \in Offset
  BY <1>1 DEF TypeOK, Placed
<1>4. QED
  BY <1>2, <1>3, ExtentNat DEF Start, End, Offset

LEMMA PlaceMemberInv ==
    ASSUME IInv, PlaceMember
    PROVE  IInv'
<1> DEFINE ty  == members[i]
           pos == PlaceAt(ty)
           nxt == Advance(ty, pos)
<1>1. /\ members \in MemberLists
      /\ DOMAIN members = 1..Len(members)
      /\ Len(members) \in Nat
      /\ \A k \in DOMAIN members : members[k] \in Types
  BY MemberListSeq DEF IInv, TypeOK
<1>2. /\ status = "running"
      /\ i \in DOMAIN members
      /\ slotOffset \in Nat
      /\ byteOffset \in 0..SlotBytes
      /\ ty \in Types
  BY <1>1 DEF PlaceMember, IInv, TypeOK
<1>3. CASE pos.slot >= SlotLimit
  <2>1. status' = "tooLarge"
        /\ UNCHANGED <<members, i, slotOffset, byteOffset, offsets, storageSize>>
    BY <1>3 DEF PlaceMember
  <2>2. (SlotAligned /\ Disjoint /\ BelowCursor)'
    BY <2>1, LayoutFrozen
  <2>3. QED
    BY <2>1, <2>2 DEF IInv, TypeOK, PlacedBefore, TotalCovers
<1>4. CASE ~(pos.slot >= SlotLimit)
  <2>1. /\ offsets' = [offsets EXCEPT ![i] = pos]
        /\ slotOffset' = nxt.slot
        /\ byteOffset' = nxt.byte
        /\ i' = i + 1
        /\ UNCHANGED <<members, status, storageSize>>
    BY <1>2, <1>4, Zenon DEF PlaceMember
  <2>2. /\ pos \in Offset
        /\ Cursor <= pos.slot * SlotBytes + pos.byte
        /\ ty.size = 1 => pos.byte + ty.bytes <= SlotBytes
        /\ ty.size > 1 => pos.byte = 0
    BY <1>2, PlaceAtFacts
  <2>3. /\ nxt.slot \in Nat
        /\ nxt.byte \in 0..SlotBytes
        /\ pos.slot * SlotBytes + pos.byte + Extent(ty) <= Cursor'
    BY <1>2, <2>1, <2>2, AdvanceFacts DEF Cursor
  <2>4. Placed' = Placed \cup {i}
    BY <1>2, <2>1, <2>2 DEF Placed, IInv, TypeOK
  <2>5. /\ offsets'[i] = pos
        /\ \A k \in Placed : offsets'[k] = offsets[k]
    BY <1>1, <1>2, <2>1 DEF IInv, TypeOK, PlacedBefore, Placed
  <2>0. SlotAligned /\ Disjoint /\ BelowCursor
    BY DEF IInv
  <2> DEFINE np == pos.slot * SlotBytes + pos.byte
  <2>6. \A k \in Placed \cup {i} :
          /\ members'[k] = members[k]
          /\ offsets'[k] = IF k = i THEN pos ELSE offsets[k]
          /\ Start(k)' = IF k = i THEN np ELSE Start(k)
          /\ End(k)' = IF k = i THEN np + Extent(ty) ELSE End(k)
    BY <2>1, <2>5 DEF Start, End
  <2>7. TypeOK'
    BY <1>1, <1>2, <2>1, <2>2, <2>3 DEF IInv, TypeOK
  <2>8. PlacedBefore'
    BY <1>1, <1>2, <2>1 DEF IInv, PlacedBefore
  <2>9. SlotAligned'
    <3> SUFFICES ASSUME NEW k \in Placed'
                 PROVE  IF members'[k].size = 1
                        THEN offsets'[k].byte + members'[k].bytes <= SlotBytes
                        ELSE offsets'[k].byte = 0
      BY DEF SlotAligned
    <3>1. CASE k = i
      BY <1>2, <2>2, <2>4, <2>6, <3>1 DEF ty
    <3>2. CASE k # i
      BY <2>0, <2>4, <2>6, <3>2 DEF SlotAligned
    <3>3. QED
      BY <3>1, <3>2
  <2>10. Disjoint'
    <3> SUFFICES ASSUME NEW j \in Placed', NEW k \in Placed', j < k
                 PROVE  End(j)' <= Start(k)'
      BY DEF Disjoint
    <3>1. j \in Placed /\ j # i
      BY <1>1, <1>2, <2>4 DEF IInv, PlacedBefore, Placed
    <3>2. CASE k = i
      <4>1. End(j) <= Cursor
        BY <2>0, <3>1 DEF BelowCursor
      <4>2. QED
        <5>1. End(j)' = End(j) /\ Start(k)' = np
          BY <2>6, <3>1, <3>2
        <5>2. Cursor <= np /\ np \in Nat
          BY <2>2 DEF np, Offset
        <5>3. End(j) \in Nat /\ Cursor \in Nat
          BY <3>1, PlacedNat, <1>2 DEF IInv, Cursor
        <5>4. QED
          BY <4>1, <5>1, <5>2, <5>3
    <3>3. CASE k # i
      BY <2>0, <2>4, <2>6, <3>1, <3>3 DEF Disjoint
    <3>4. QED
      BY <3>2, <3>3
  <2>11. BelowCursor'
    <3> SUFFICES ASSUME NEW k \in Placed'
                 PROVE  End(k)' <= Cursor' /\ offsets'[k].slot < SlotLimit
      BY DEF BelowCursor
    <3>1. Cursor <= Cursor'
      <4>1. Cursor \in Nat /\ Cursor' \in Nat
        BY <1>2, <2>1, <2>3 DEF Cursor
      <4>2. np \in Nat /\ Extent(ty) \in Nat
        BY <1>2, <2>2, ExtentNat DEF np, Offset
      <4>3. QED
        BY <2>2, <2>3, <4>1, <4>2 DEF np
    <3>2. CASE k = i
      BY <1>4, <2>2, <2>3, <2>4, <2>6, <3>2 DEF Offset
    <3>3. CASE k # i
      <4>1. k \in Placed
        BY <2>4, <3>3
      <4>2. End(k) <= Cursor /\ offsets[k].slot < SlotLimit
        BY <2>0, <4>1 DEF BelowCursor
      <4>3. QED
        <5>1. End(k)' = End(k) /\ offsets'[k] = offsets[k]
          BY <2>6, <4>1, <3>3
        <5>2. End(k) \in Nat /\ Cursor \in Nat /\ Cursor' \in Nat
          BY <4>1, <1>2, <2>1, <2>3, PlacedNat DEF IInv, Cursor
        <5>3. QED
          BY <3>1, <4>2, <5>1, <5>2
    <3>4. QED
      BY <3>2, <3>3
  <2>12. TotalCovers'
    BY <1>2, <2>1 DEF TotalCovers
  <2>13. QED
    BY <2>7, <2>8, <2>9, <2>10, <2>11, <2>12 DEF IInv
<1>5. QED
  BY <1>3, <1>4

LEMMA IInvStep == IInv /\ [Next]_vars => IInv'
<1> SUFFICES ASSUME IInv, [Next]_vars PROVE IInv'
  OBVIOUS
<1>1. CASE SkipMember
  BY <1>1, SkipMemberInv
<1>2. CASE PlaceMember
  BY <1>2, PlaceMemberInv
<1>3. CASE Finish
  BY <1>3, FinishInv
<1>4. CASE UNCHANGED vars
  <2>1. (SlotAligned /\ Disjoint /\ BelowCursor)'
    BY <1>4, LayoutFrozen DEF vars
  <2>2. QED
    BY <1>4, <2>1 DEF vars, IInv, TypeOK, PlacedBefore, TotalCovers, Cursor
<1>5. QED
  BY <1>1, <1>2, <1>3, <1>4 DEF Next

\* The inductive invariant gives the properties the runs check.
LEMMA IInvProperties ==
    IInv => TypeOK /\ SlotAligned /\ Disjoint /\ WithinTotal /\ SizeRepresentable
<1> SUFFICES ASSUME IInv
             PROVE  WithinTotal /\ SizeRepresentable
  BY DEF IInv
<1>1. WithinTotal
  <2> SUFFICES ASSUME status = "done", NEW k \in Placed
               PROVE  End(k) <= storageSize * SlotBytes
    BY DEF WithinTotal
  <2>1. End(k) <= Cursor /\ Cursor <= storageSize * SlotBytes
    BY DEF IInv, BelowCursor, TotalCovers
  <2>2. End(k) \in Nat /\ Cursor \in Nat /\ storageSize \in Nat
    BY PlacedNat DEF IInv, TypeOK, Cursor
  <2>3. QED
    BY <2>1, <2>2
<1>2. SizeRepresentable
  BY DEF IInv, BelowCursor, TotalCovers, SizeRepresentable
<1>3. QED
  BY <1>1, <1>2

\* computeOffsets, for every slot width, slot limit and set of member
\* footprints that Types.h's contract allows, places no member across a
\* slot boundary, lets no two members share a byte, keeps every member
\* inside the slot count it reports, and never reports or places at a
\* slot of 2^128 or more.
THEOREM PackingCorrect ==
    Spec => [](TypeOK /\ SlotAligned /\ Disjoint /\ WithinTotal /\ SizeRepresentable)
<1>1. Init => IInv
  BY IInvInit
<1>2. IInv /\ [Next]_vars => IInv'
  BY IInvStep
<1>3. IInv => TypeOK /\ SlotAligned /\ Disjoint /\ WithinTotal /\ SizeRepresentable
  BY IInvProperties
<1>4. QED
  BY <1>1, <1>2, <1>3, PTL DEF Spec

-----------------------------------------------------------------------------
(* The slot boundary rule (BoundaryAdvance): where the member after a     *)
(* single-slot member goes.                                                *)

\* Every stored type has a non-empty footprint: the storageBytes overrides
\* of Types.cpp (Enum: at least 1, Function: 8 or 36, and the integer,
\* fixed bytes and bool widths) never return 0. With a zero-byte member at
\* byte 0 the code places a following wide member in the same slot, not
\* the next one, and BoundaryAdvance as the specification words it fails.
StoredBytesPositive == \A ty \in Types : ty.stored => ty.bytes > 0

\* No member strictly between j and n can be stored.
NoStoredBetween(j, n) == \A m \in (j + 1)..(n - 1) : ~members[m].stored

\* Only storable members are placed.
PlacedStored == \A k \in Placed : members[k].stored

\* The cursor is where Advance left it after the last member placed.
CursorAfterLast ==
    \A j \in Placed :
        NoStoredBetween(j, i) =>
            [slot |-> slotOffset, byte |-> byteOffset] = Advance(members[j], offsets[j])

\* BoundaryAdvance is not inductive: placing member i needs to know that
\* the cursor is where the last placed member left it (CursorAfterLast),
\* and that it was placed at all only if stored (PlacedStored).
BInv == IInv /\ PlacedStored /\ CursorAfterLast /\ BoundaryAdvance

LEMMA BInvInit == Init => BInv
<1> SUFFICES ASSUME Init PROVE BInv
  OBVIOUS
<1>1. Placed = {}
  BY DEF Init, Placed
<1>. QED
  BY <1>1, IInvInit DEF BInv, PlacedStored, CursorAfterLast, BoundaryAdvance

\* A step that moves neither the members, their offsets, the loop index
\* nor the cursor keeps the boundary conjuncts.
LEMMA BoundaryFrozen ==
    ASSUME BInv,
           members' = members, offsets' = offsets, i' = i,
           slotOffset' = slotOffset, byteOffset' = byteOffset
    PROVE  (PlacedStored /\ CursorAfterLast /\ BoundaryAdvance)'
<1>1. Placed' = Placed
  BY DEF Placed
<1>. QED
  BY <1>1 DEF BInv, PlacedStored, CursorAfterLast, NoStoredBetween, BoundaryAdvance

LEMMA SkipMemberB ==
    ASSUME BInv, SkipMember
    PROVE  (PlacedStored /\ CursorAfterLast /\ BoundaryAdvance)'
<1>1. /\ DOMAIN members = 1..Len(members)
      /\ Len(members) \in Nat
      /\ i \in DOMAIN members /\ i' = i + 1 /\ ~members[i].stored
      /\ UNCHANGED <<members, slotOffset, byteOffset, offsets>>
  BY MemberListSeq DEF BInv, IInv, TypeOK, SkipMember
<1>2. Placed' = Placed
  BY <1>1 DEF Placed
<1>3. CursorAfterLast'
  <2> SUFFICES ASSUME NEW j \in Placed, NoStoredBetween(j, i)'
               PROVE  [slot |-> slotOffset, byte |-> byteOffset] = Advance(members[j], offsets[j])
    BY <1>1, <1>2 DEF CursorAfterLast
  <2>1. j \in 1..Len(members)
    BY <1>1 DEF Placed
  <2>2. NoStoredBetween(j, i)
    BY <1>1, <2>1 DEF NoStoredBetween
  <2>. QED
    BY <2>2 DEF BInv, CursorAfterLast
<1>. QED
  BY <1>1, <1>2, <1>3 DEF BInv, PlacedStored, BoundaryAdvance

LEMMA PlaceMemberB ==
    ASSUME StoredBytesPositive, BInv, PlaceMember
    PROVE  (PlacedStored /\ CursorAfterLast /\ BoundaryAdvance)'
<1> DEFINE ty  == members[i]
           pos == PlaceAt(ty)
           nxt == Advance(ty, pos)
<1>1. /\ DOMAIN members = 1..Len(members)
      /\ Len(members) \in Nat
      /\ \A k \in DOMAIN members : members[k] \in Types
      /\ i \in DOMAIN members /\ ty.stored
      /\ slotOffset \in Nat /\ byteOffset \in 0..SlotBytes
  BY MemberListSeq DEF BInv, IInv, TypeOK, PlaceMember
<1>2. CASE pos.slot >= SlotLimit
  BY <1>2, BoundaryFrozen DEF PlaceMember
<1>3. CASE ~(pos.slot >= SlotLimit)
  <2>1. /\ offsets' = [offsets EXCEPT ![i] = pos]
        /\ slotOffset' = nxt.slot
        /\ byteOffset' = nxt.byte
        /\ i' = i + 1
        /\ members' = members
    BY <1>1, <1>3, Zenon DEF PlaceMember
  <2>2. /\ Placed' = Placed \cup {i}
        /\ offsets'[i] = pos
        /\ \A k \in Placed : offsets'[k] = offsets[k] /\ k < i
    BY <1>1, <2>1, PlaceAtFacts DEF BInv, IInv, TypeOK, PlacedBefore, Placed, Offset
  <2>3. PlacedStored'
    BY <1>1, <2>1, <2>2 DEF BInv, PlacedStored
  <2>4. CursorAfterLast'
    <3> SUFFICES ASSUME NEW j \in Placed', NoStoredBetween(j, i)'
                 PROVE  [slot |-> slotOffset', byte |-> byteOffset'] = Advance(members'[j], offsets'[j])
      BY DEF CursorAfterLast
    <3>1. CASE j = i
      BY <2>1, <2>2, <3>1 DEF nxt, ty, Advance
    <3>2. CASE j # i
      <4>1. j \in Placed /\ j < i /\ j \in Nat
        BY <1>1, <2>2, <3>2 DEF Placed
      <4>2. i \in (j + 1)..(i' - 1)
        BY <1>1, <2>1, <4>1
      <4>. QED
        BY <1>1, <2>1, <4>2 DEF NoStoredBetween
    <3>. QED
      BY <3>1, <3>2
  <2>5. BoundaryAdvance'
    <3> SUFFICES ASSUME NEW j \in Placed', NEW k \in Placed', j < k,
                        NoStoredBetween(j, k), members[j].size = 1
                 PROVE  offsets'[k] =
                          IF offsets'[j].byte + members[j].bytes + members[k].bytes > SlotBytes
                          THEN [slot |-> offsets'[j].slot + 1, byte |-> 0]
                          ELSE [slot |-> offsets'[j].slot,
                                byte |-> offsets'[j].byte + members[j].bytes]
      BY <2>1 DEF BoundaryAdvance, NoStoredBetween
    <3>1. j \in Placed /\ offsets'[j] = offsets[j] /\ j < i
      BY <1>1, <2>2 DEF Placed
    <3>2. CASE k # i
      <4>1. k \in Placed /\ offsets'[k] = offsets[k]
        BY <2>2, <3>2
      <4>. QED
        BY <3>1, <4>1 DEF BInv, BoundaryAdvance, NoStoredBetween
    <3>3. CASE k = i
      <4> DEFINE oj == offsets[j]
                 mj == members[j]
      <4>1. [slot |-> slotOffset, byte |-> byteOffset] = Advance(mj, oj)
        BY <3>1, <3>3 DEF BInv, CursorAfterLast
      <4>2. /\ oj \in Offset /\ mj \in Types
            /\ oj.byte + mj.bytes <= SlotBytes
            /\ mj.stored
        BY <3>1, PlacedNat DEF BInv, IInv, SlotAligned, PlacedStored
      <4>3. mj.bytes \in Nat /\ mj.bytes > 0 /\ ty \in Types /\ ty.bytes \in Nat
        BY <1>1, <4>2 DEF StoredBytesPositive
      <4>4. slotOffset = oj.slot /\ byteOffset = oj.byte + mj.bytes /\ byteOffset > 0
        BY <4>1, <4>2, <4>3 DEF Advance, Offset
      <4>. QED
        BY <2>2, <3>1, <3>3, <4>2, <4>3, <4>4 DEF PlaceAt, pos, ty
    <3>. QED
      BY <3>2, <3>3
  <2>. QED
    BY <2>3, <2>4, <2>5
<1>. QED
  BY <1>2, <1>3

LEMMA BInvStep ==
    ASSUME StoredBytesPositive
    PROVE  BInv /\ [Next]_vars => BInv'
<1> SUFFICES ASSUME BInv, [Next]_vars PROVE BInv'
  OBVIOUS
<1>1. IInv'
  BY IInvStep DEF BInv
<1>2. CASE SkipMember
  BY <1>1, <1>2, SkipMemberB DEF BInv
<1>3. CASE PlaceMember
  BY <1>1, <1>3, PlaceMemberB DEF BInv
<1>4. CASE Finish
  BY <1>1, <1>4, BoundaryFrozen DEF BInv, Finish
<1>5. CASE UNCHANGED vars
  BY <1>1, <1>5, BoundaryFrozen DEF BInv, vars
<1>. QED
  BY <1>2, <1>3, <1>4, <1>5 DEF Next

\* The specification's storage slot boundary rule holds of computeOffsets
\* for every slot width, slot limit and set of footprints the contract of
\* Types.h allows, given that stored types take at least one byte: after a
\* single-slot member, the next stored member starts the following slot
\* when the two do not fit in one slot together, and follows it in the
\* same slot when they do (lines 55-71).
THEOREM BoundaryRule ==
    ASSUME StoredBytesPositive
    PROVE  Spec => []BoundaryAdvance
<1>1. Init => BInv
  BY BInvInit
<1>2. BInv /\ [Next]_vars => BInv'
  BY BInvStep
<1>3. BInv => BoundaryAdvance
  BY DEF BInv
<1>. QED
  BY <1>1, <1>2, <1>3, PTL DEF Spec

\* computeOffsets never places a single-slot member across a slot boundary
\* and starts every multi-slot member at byte 0.
THEOREM SlotAlignment == Spec => []SlotAligned
BY PackingCorrect, PTL

\* Every member lies within the storage size computeOffsets reports.
THEOREM InsideTotal == Spec => []WithinTotal
BY PackingCorrect, PTL

\* computeOffsets never reports a slot count, or places a member at a
\* slot, of the u128 limit or more.
THEOREM Representable == Spec => []SizeRepresentable
BY PackingCorrect, PTL

\* computeOffsets' loop keeps its index, cursor and offsets well formed:
\* the byte cursor never passes the slot width and every member's offset
\* is either unset or a (slot, byte) pair.
THEOREM TypeCorrect == Spec => []TypeOK
BY PackingCorrect, PTL

-----------------------------------------------------------------------------
(* A static array against a struct of the same members                   *)
(* (ArrayMatchesStruct): ArrayType::storageSize computes in closed form   *)
(* what computeOffsets computes member by member.                         *)

\* A member list of n copies of one storable type: the struct the array
\* type ty[n] is compared with.
Homogeneous(ty) == ty.stored /\ \A k \in DOMAIN members : members[k] = ty

\* Members of ty per slot: itemsPerSlot of ArrayType::storageSize for a
\* type narrower than a slot, one for a type that fills it.
PerSlot(ty) == IF ty.bytes < SlotBytes THEN SlotBytes \div ty.bytes ELSE 1

\* The closed form of the cursor after computeOffsets has placed c members
\* of type ty: zero-byte members never move it, a multi-slot member
\* advances it by whole slots, and single-slot members fill PerSlot(ty) to
\* a slot, the last of them leaving byteOffset at the slot's filled end.
CursorAfter(ty, c) ==
    IF ty.bytes = 0 \/ c = 0 THEN [slot |-> 0, byte |-> 0]
    ELSE IF ty.size > 1 THEN [slot |-> c * ty.size, byte |-> 0]
    ELSE [slot |-> (c - 1) \div PerSlot(ty),
          byte |-> (((c - 1) % PerSlot(ty)) + 1) * ty.bytes]

\* ArrayMatchesStruct is not inductive: it speaks of the loop's result
\* only, and the loop's steps must keep the cursor at its closed form.
ArrayInv ==
    /\ \A ty \in Types :
           Homogeneous(ty) =>
               [slot |-> slotOffset, byte |-> byteOffset] = CursorAfter(ty, i - 1)
    /\ ArrayMatchesStruct

AInv == IInv /\ ArrayInv

\* Euclidean division as the SMT backend knows it, and the facts about it
\* that the closed form rests on: a quotient and remainder are unique,
\* counting up by one either bumps the remainder or wraps it, and
\* division is monotone.
LEMMA DivUnique ==
    ASSUME NEW a \in Int, NEW d \in Nat \ {0}, NEW q \in Int, NEW r \in 0..(d - 1),
           a = q * d + r
    PROVE  a \div d = q /\ a % d = r
OBVIOUS

LEMMA DivSucc ==
    ASSUME NEW a \in Nat, NEW d \in Nat \ {0}
    PROVE  /\ a \div d \in Nat
           /\ a % d \in 0..(d - 1)
           /\ a = (a \div d) * d + (a % d)
           /\ (a % d) + 1 = d => (a + 1) \div d = (a \div d) + 1 /\ (a + 1) % d = 0
           /\ (a % d) + 1 # d => (a + 1) \div d = a \div d /\ (a + 1) % d = (a % d) + 1
OBVIOUS

LEMMA DivMonotone ==
    ASSUME NEW a \in Nat, NEW b \in Nat, NEW d \in Nat \ {0}, a <= b
    PROVE  a \div d <= b \div d
OBVIOUS

\* A single-slot type of a non-empty footprint fits PerSlot(ty) copies of
\* itself in a slot, and not one more.
LEMMA PerSlotFacts ==
    ASSUME NEW ty \in Types, ty.size = 1, ty.bytes > 0
    PROVE  /\ PerSlot(ty) \in Nat \ {0}
           /\ PerSlot(ty) * ty.bytes <= SlotBytes
           /\ SlotBytes < (PerSlot(ty) + 1) * ty.bytes
<1>1. ty.bytes \in Nat \ {0} /\ ty.bytes <= SlotBytes
  OBVIOUS
<1>2. CASE ty.bytes < SlotBytes
  BY <1>1, <1>2 DEF PerSlot
<1>3. CASE ~(ty.bytes < SlotBytes)
  BY <1>1, <1>3 DEF PerSlot
<1>4. QED
  BY <1>2, <1>3

\* ArrayType::storageSize is a slot count.
LEMMA RawNat ==
    ASSUME NEW ty \in Types, NEW n \in Nat
    PROVE  ArrayRawSize(n, ty) \in Nat
<1>1. CASE ty.bytes # 0 /\ ty.bytes < SlotBytes
  <2>1. SlotBytes \div ty.bytes \in Nat \ {0}
    BY <1>1
  <2>2. QED
    BY <1>1, <2>1 DEF ArrayRawSize
<1>2. QED
  BY <1>1 DEF ArrayRawSize

\* ArrayType::storageSize grows with the element count.
LEMMA RawMonotone ==
    ASSUME NEW ty \in Types, NEW m \in Nat, NEW n \in Nat, m <= n
    PROVE  ArrayRawSize(m, ty) <= ArrayRawSize(n, ty)
<1>1. CASE ty.bytes = 0
  BY <1>1 DEF ArrayRawSize
<1>2. CASE ty.bytes # 0 /\ ty.bytes < SlotBytes
  <2>1. SlotBytes \div ty.bytes \in Nat \ {0}
    BY <1>2
  <2>2. QED
    BY <1>2, <2>1, DivMonotone DEF ArrayRawSize
<1>3. CASE ty.bytes # 0 /\ ~(ty.bytes < SlotBytes)
  BY <1>3 DEF ArrayRawSize
<1>4. QED
  BY <1>1, <1>2, <1>3

\* Placing one more member of type ty (lines 55-71) moves the cursor from
\* the closed form for c members to the one for c + 1, and the member's
\* slot lies inside the array of c + 1 elements.
LEMMA PlaceClosed ==
    ASSUME NEW ty \in Types, NEW c \in Nat,
           [slot |-> slotOffset, byte |-> byteOffset] = CursorAfter(ty, c)
    PROVE  /\ Advance(ty, PlaceAt(ty)) = CursorAfter(ty, c + 1)
           /\ PlaceAt(ty).slot < ArrayRawSize(c + 1, ty)
<1>1. PICK b \in Nat : /\ b = ty.bytes
                       /\ ty.size \in Nat \ {0}
                       /\ ty.size = 1 => b <= SlotBytes
                       /\ ty.size > 1 => b >= SlotBytes
  OBVIOUS
<1>2. CASE b = 0
  <2>1. ty.size = 1 /\ slotOffset = 0 /\ byteOffset = 0
    BY <1>1, <1>2 DEF CursorAfter
  <2>2. PlaceAt(ty) = [slot |-> 0, byte |-> 0]
    BY <2>1 DEF PlaceAt
  <2>3. QED
    BY <1>1, <1>2, <2>1, <2>2 DEF Advance, CursorAfter, ArrayRawSize
<1>3. CASE b # 0 /\ ty.size > 1
  <2>1. slotOffset = c * ty.size /\ byteOffset = 0
    BY <1>1, <1>3 DEF CursorAfter
  <2>2. PlaceAt(ty) = [slot |-> c * ty.size, byte |-> 0]
    BY <2>1 DEF PlaceAt
  <2>3. ~(b < SlotBytes)
    BY <1>1, <1>3
  <2>4. QED
    BY <1>1, <1>3, <2>2, <2>3 DEF Advance, CursorAfter, ArrayRawSize
<1>4. CASE b # 0 /\ ty.size = 1
  <2>1. PICK p \in Nat \ {0} : p = PerSlot(ty)
    BY <1>1, <1>4, PerSlotFacts
  <2>6. p * b <= SlotBytes /\ SlotBytes < (p + 1) * b
    BY <1>1, <1>4, <2>1, PerSlotFacts
  <2>2. ArrayRawSize(c + 1, ty) = (c + 1 + (p - 1)) \div p
    BY <1>1, <1>4, <2>1 DEF ArrayRawSize, PerSlot
  <2>3. CASE c = 0
    <3>1. slotOffset = 0 /\ byteOffset = 0
      BY <2>3 DEF CursorAfter
    <3>2. PlaceAt(ty) = [slot |-> 0, byte |-> 0]
      BY <3>1 DEF PlaceAt
    <3>3. CursorAfter(ty, c + 1) = [slot |-> 0, byte |-> b]
      BY <1>1, <1>4, <2>1, <2>3 DEF CursorAfter
    <3>4. (c + 1 + (p - 1)) \div p = 1
      BY <2>1, <2>3
    <3>5. QED
      BY <1>1, <1>4, <2>2, <3>2, <3>3, <3>4 DEF Advance
  <2>4. CASE c # 0
    <3>0. /\ (c - 1) \div p \in Nat
          /\ (c - 1) % p \in 0..(p - 1)
          /\ c - 1 = ((c - 1) \div p) * p + ((c - 1) % p)
      BY <2>4
    <3>1. PICK q \in Nat, r \in 0..(p - 1) :
                /\ q = (c - 1) \div p
                /\ r = (c - 1) % p
                /\ c - 1 = q * p + r
      BY <3>0
    <3>2. slotOffset = q /\ byteOffset = (r + 1) * b
      BY <1>1, <1>4, <2>1, <2>4, <3>1 DEF CursorAfter
    <3>3. CASE r + 1 = p
      <4>1. byteOffset + b > SlotBytes /\ byteOffset > 0
        BY <1>1, <1>4, <2>1, <2>6, <3>2, <3>3
      <4>2. PlaceAt(ty) = [slot |-> q + 1, byte |-> 0]
        BY <1>1, <3>2, <4>1 DEF PlaceAt
      <4>3. CursorAfter(ty, c + 1) = [slot |-> q + 1, byte |-> b]
        <5>0. c = (q + 1) * p + 0
          BY <3>1, <3>3
        <5>1. c \div p = q + 1 /\ c % p = 0
          BY <3>1, <5>0
        <5>2. QED
          BY <1>1, <1>4, <2>1, <2>4, <5>1 DEF CursorAfter
      <4>4. (c + 1 + (p - 1)) \div p = q + 2
        <5>1. c + 1 + (p - 1) = (q + 2) * p + 0
          BY <3>1, <3>3
        <5>2. QED
          BY <3>1, <5>1
      <4>5. QED
        BY <1>1, <1>4, <2>2, <4>2, <4>3, <4>4 DEF Advance
    <3>4. CASE r + 1 # p
      <4>1. (r + 2) * b <= SlotBytes
        <5>1. r + 2 <= p
          BY <2>1, <3>1, <3>4
        <5>2. (r + 2) * b <= p * b
          <6>1. (p - (r + 2)) * b \in Nat
            BY <1>1, <3>1, <5>1
          <6>2. QED
            BY <6>1
        <5>3. QED
          BY <2>6, <5>2
      <4>2. PlaceAt(ty) = [slot |-> q, byte |-> (r + 1) * b]
        BY <1>1, <2>1, <3>1, <3>2, <4>1 DEF PlaceAt
      <4>3. CursorAfter(ty, c + 1) = [slot |-> q, byte |-> (r + 2) * b]
        <5>0. c = q * p + (r + 1) /\ r + 1 \in 0..(p - 1)
          BY <3>1, <3>4
        <5>1. c \div p = q /\ c % p = r + 1
          BY <3>1, <5>0
        <5>2. QED
          BY <1>1, <1>4, <2>1, <2>4, <5>1 DEF CursorAfter
      <4>4. (c + 1 + (p - 1)) \div p = q + 1
        <5>1. c + 1 + (p - 1) = (q + 1) * p + (r + 1) /\ r + 1 \in 0..(p - 1)
          BY <3>1, <3>4
        <5>2. QED
          BY <3>1, <5>1
      <4>5. QED
        BY <1>1, <1>4, <2>2, <4>1, <4>2, <4>3, <4>4 DEF Advance
    <3>5. QED
      BY <3>3, <3>4
  <2>5. QED
    BY <2>3, <2>4
<1>5. QED
  BY <1>1, <1>2, <1>3, <1>4

\* The total computeOffsets reports after the loop (lines 73-74).
Closed == IF byteOffset > 0 THEN slotOffset + 1 ELSE slotOffset

\* With the cursor at the closed form for n members of type ty, closing
\* the last slot gives the slot count of the array ty[n]: the same size
\* once both are at least one slot (StructType::storageSize), and never
\* more than the array's count before that maximum.
LEMMA FinishClosed ==
    ASSUME NEW ty \in Types, NEW n \in Nat,
           [slot |-> slotOffset, byte |-> byteOffset] = CursorAfter(ty, n)
    PROVE  /\ Closed <= ArrayRawSize(n, ty)
           /\ StructStorageSize(Closed) = ArrayStorageSize(n, ty)
<1>1. PICK b \in Nat : /\ b = ty.bytes
                       /\ ty.size \in Nat \ {0}
                       /\ ty.size = 1 => b <= SlotBytes
                       /\ ty.size > 1 => b >= SlotBytes
  OBVIOUS
<1>2. CASE b = 0
  BY <1>1, <1>2 DEF CursorAfter, Closed, ArrayRawSize, ArrayStorageSize,
                    StructStorageSize, MaxNat
<1>3. CASE b # 0 /\ ty.size > 1
  <2>1. Closed = n * ty.size /\ ArrayRawSize(n, ty) = n * ty.size
    BY <1>1, <1>3 DEF CursorAfter, Closed, ArrayRawSize
  <2>2. QED
    BY <2>1 DEF ArrayStorageSize, StructStorageSize
<1>4. CASE b # 0 /\ ty.size = 1
  <2>1. PICK p \in Nat \ {0} : p = PerSlot(ty)
    BY <1>1, <1>4, PerSlotFacts
  <2>2. ArrayRawSize(n, ty) = (n + (p - 1)) \div p
    BY <1>1, <1>4, <2>1 DEF ArrayRawSize, PerSlot
  <2>3. CASE n = 0
    <3>1. (0 + (p - 1)) \div p = 0
      OBVIOUS
    <3>2. QED
      BY <2>2, <2>3, <3>1 DEF CursorAfter, Closed, ArrayStorageSize, StructStorageSize
  <2>4. CASE n # 0
    <3>0. /\ (n - 1) \div p \in Nat
          /\ (n - 1) % p \in 0..(p - 1)
          /\ n - 1 = ((n - 1) \div p) * p + ((n - 1) % p)
      BY <2>4
    <3>1. PICK q \in Nat, r \in 0..(p - 1) :
                /\ q = (n - 1) \div p
                /\ r = (n - 1) % p
                /\ n - 1 = q * p + r
      BY <3>0
    <3>2. slotOffset = q /\ byteOffset = (r + 1) * b
      BY <1>1, <1>4, <2>1, <2>4, <3>1 DEF CursorAfter
    <3>3. byteOffset > 0
      <4>1. r * b \in Nat
        BY <1>1, <3>1
      <4>2. QED
        BY <1>1, <1>4, <3>2, <4>1
    <3>4. Closed = q + 1
      BY <3>2, <3>3 DEF Closed
    <3>5. (n + (p - 1)) \div p = q + 1
      <4>1. n + (p - 1) = (q + 1) * p + r
        BY <3>1
      <4>2. QED
        BY <3>1, <4>1
    <3>6. QED
      BY <2>2, <3>4, <3>5 DEF ArrayStorageSize, StructStorageSize
  <2>5. QED
    BY <2>3, <2>4
<1>5. QED
  BY <1>1, <1>2, <1>3, <1>4

LEMMA ArrayInvInit == Init => ArrayInv
<1> SUFFICES ASSUME Init PROVE ArrayInv
  OBVIOUS
<1>1. \A ty \in Types : CursorAfter(ty, i - 1) = [slot |-> 0, byte |-> 0]
  BY DEF Init, CursorAfter
<1>2. QED
  BY <1>1 DEF Init, ArrayInv, ArrayMatchesStruct

\* One iteration of computeOffsets over a member list of copies of ty
\* keeps the cursor at its closed form, and the loop's result agrees with
\* ArrayType::storageSize, throwing only where it throws.
LEMMA ArrayInvStep == IInv /\ ArrayInv /\ [Next]_vars => ArrayInv'
<1> SUFFICES ASSUME IInv, ArrayInv, [Next]_vars
             PROVE  ArrayInv'
  OBVIOUS
<1>1. /\ DOMAIN members = 1..Len(members)
      /\ Len(members) \in Nat
      /\ i \in 1..(Len(members) + 1)
  BY MemberListSeq DEF IInv, TypeOK
<1> DEFINE Cur == [slot |-> slotOffset, byte |-> byteOffset]
           Matches(ty) ==
               /\ status = "done" =>
                    StructStorageSize(storageSize) = ArrayStorageSize(Len(members), ty)
               /\ status = "tooLarge" => ArrayRawSize(Len(members), ty) >= SlotLimit
<1>2. SUFFICES ASSUME NEW ty \in Types, Homogeneous(ty)'
               PROVE  Cur' = CursorAfter(ty, i' - 1) /\ Matches(ty)'
  BY DEF ArrayInv, ArrayMatchesStruct, Homogeneous, Cur, Matches
<1>3. members' = members
  BY DEF Next, SkipMember, PlaceMember, Finish, vars
<1>4. Homogeneous(ty) /\ Cur = CursorAfter(ty, i - 1) /\ Matches(ty)
  BY <1>2, <1>3 DEF Homogeneous, ArrayInv, ArrayMatchesStruct, Cur, Matches
<1>5. CASE SkipMember
  BY <1>1, <1>4, <1>5 DEF SkipMember, Homogeneous
<1>6. CASE PlaceMember
  <2>1. i \in DOMAIN members /\ members[i] = ty /\ i - 1 \in Nat
    BY <1>1, <1>4, <1>6 DEF PlaceMember, Homogeneous
  <2>2. /\ Advance(ty, PlaceAt(ty)) = CursorAfter(ty, i)
        /\ PlaceAt(ty).slot < ArrayRawSize(i, ty)
    <3>1. (i - 1) + 1 = i
      BY <1>1
    <3>2. QED
      BY <1>4, <2>1, <3>1, PlaceClosed DEF Cur
  <2>3. ArrayRawSize(i, ty) <= ArrayRawSize(Len(members), ty)
    BY <1>1, <2>1, RawMonotone
  <2>4. CASE PlaceAt(ty).slot >= SlotLimit
    <3>1. status' = "tooLarge" /\ UNCHANGED <<members, i, slotOffset, byteOffset>>
      BY <1>6, <2>1, <2>4 DEF PlaceMember
    <3>2. ArrayRawSize(Len(members), ty) >= SlotLimit
      <4>1. ArrayRawSize(i, ty) \in Nat /\ ArrayRawSize(Len(members), ty) \in Nat
        BY <1>1, RawNat
      <4>2. PlaceAt(ty).slot \in Nat
        BY DEF PlaceAt, IInv, TypeOK
      <4>3. QED
        BY <2>2, <2>3, <2>4, <4>1, <4>2
    <3>3. QED
      BY <1>4, <3>1, <3>2 DEF Cur, Matches
  <2>5. CASE ~(PlaceAt(ty).slot >= SlotLimit)
    <3>1. /\ slotOffset' = Advance(ty, PlaceAt(ty)).slot
          /\ byteOffset' = Advance(ty, PlaceAt(ty)).byte
          /\ i' = i + 1
          /\ status' = "running"
      BY <1>4, <1>6, <2>1, <2>5 DEF PlaceMember, IInv, TypeOK
    <3>2. Cur' = Advance(ty, PlaceAt(ty))
      BY <3>1 DEF Cur, Advance
    <3>3. i' - 1 = i
      BY <1>1, <3>1
    <3>4. QED
      BY <2>2, <3>1, <3>2, <3>3 DEF Matches
  <2>6. QED
    BY <2>4, <2>5
<1>7. CASE Finish
  <2>1. i = Len(members) + 1 /\ status = "running"
    BY <1>1, <1>7 DEF Finish
  <2>2. Closed <= ArrayRawSize(Len(members), ty)
        /\ StructStorageSize(Closed) = ArrayStorageSize(Len(members), ty)
    BY <1>1, <1>4, <2>1, FinishClosed DEF Cur
  <2>3. UNCHANGED <<members, i, slotOffset, byteOffset>>
    BY <1>7 DEF Finish
  <2>4. CASE Closed >= SlotLimit
    <3>1. status' = "tooLarge"
      BY <1>7, <2>4 DEF Finish, Closed
    <3>2. Closed \in Nat /\ ArrayRawSize(Len(members), ty) \in Nat
      BY <1>1, RawNat DEF Closed, IInv, TypeOK
    <3>3. QED
      BY <1>4, <2>2, <2>3, <2>4, <3>1, <3>2 DEF Cur, Matches
  <2>5. CASE ~(Closed >= SlotLimit)
    <3>1. status' = "done" /\ storageSize' = Closed
      BY <1>7, <2>5 DEF Finish, Closed
    <3>2. QED
      BY <1>4, <2>2, <2>3, <3>1 DEF Cur, Matches
  <2>6. QED
    BY <2>4, <2>5
<1>8. CASE UNCHANGED vars
  <2>1. UNCHANGED <<members, i, slotOffset, byteOffset, status, storageSize>>
    BY <1>8 DEF vars
  <2>2. QED
    BY <1>4, <2>1 DEF Cur, Matches
<1>9. QED
  BY <1>5, <1>6, <1>7, <1>8 DEF Next

\* computeOffsets over n members of one storable type and
\* ArrayType::storageSize of that type's static array of n elements agree,
\* for every slot width, slot limit, footprint and n: the same slot count
\* when neither throws, and the "too large" error of computeOffsets only
\* where ArrayType's own 2^128 check throws too.
THEOREM ArrayStructAgree == Spec => []ArrayMatchesStruct
<1>1. Init => IInv /\ ArrayInv
  BY IInvInit, ArrayInvInit
<1>2. IInv /\ ArrayInv /\ [Next]_vars => (IInv /\ ArrayInv)'
  BY IInvStep, ArrayInvStep
<1>3. IInv /\ ArrayInv => ArrayMatchesStruct
  BY DEF ArrayInv
<1>4. QED
  BY <1>1, <1>2, <1>3, PTL DEF Spec
=============================================================================
