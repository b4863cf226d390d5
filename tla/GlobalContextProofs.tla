------------------------- MODULE GlobalContextProofs -------------------------
(***************************************************************************)
(* Proofs about the global context's memoised `this` and `super`          *)
(* declarations, for every set of contracts and every allocation bound.   *)
(***************************************************************************)
EXTENDS GlobalContext, SequenceTheorems, TLAPS

USE GlobalContextAssumption

\* Every declaration handed out is still the one the memo map owns for
\* its kind and contract.
Owned == \A r \in returned : memo[r.kind][r.contract] = r.decl

\* Every declaration the memo maps hold carries its contract's type.
MemoTyped ==
    \A k \in Kinds, c \in Contracts :
        memo[k][c] # 0 => decls[memo[k][c]] = ContractType(c, k = "super")

\* Inside a contract the driver has set a current contract.
CurrentSet == inContract => currentContract \in Contracts

\* The inductive invariant. ReferenceStable is not inductive by itself: a
\* request must be known to find the memo holding what was returned
\* before (Owned) with the right type (MemoTyped), and NoNullDeref needs
\* the driver's order (CurrentSet).
IInv == TypeOK /\ Owned /\ MemoTyped /\ ThisTypesCurrent /\ CurrentSet /\ NoNullDeref

LEMMA IInvInit == Init => IInv
<1> SUFFICES ASSUME Init PROVE IInv
  OBVIOUS
<1>1. Len(decls) = 0 /\ decls \in Seq([contract : Contracts, super : BOOLEAN])
  BY EmptySeq DEF Init
<1>2. memo \in [Kinds -> [Contracts -> 0..Len(decls)]]
  BY <1>1 DEF Init
<1>3. TypeOK
  BY <1>1, <1>2, GlobalContextAssumption DEF Init, TypeOK
<1> QED
  BY <1>3 DEF Init, IInv, Owned, MemoTyped, ThisTypesCurrent, CurrentSet,
              NoNullDeref, Kinds

\* Entering or leaving a contract changes none of the memo state.
LEMMA DriverInv ==
    ASSUME IInv, \/ \E c \in Contracts : EnterContract(c)
                 \/ LeaveContract
    PROVE  IInv'
<1>1. CASE \E c \in Contracts : EnterContract(c)
  BY <1>1 DEF EnterContract, SetCurrentContract, IInv, TypeOK, Owned, MemoTyped,
              ThisTypesCurrent, CurrentSet, NoNullDeref, Decl
<1>2. CASE LeaveContract
  BY <1>2 DEF LeaveContract, IInv, TypeOK, Owned, MemoTyped,
              ThisTypesCurrent, CurrentSet, NoNullDeref, Decl
<1>3. QED BY <1>1, <1>2

\* A request whose memo entry is already set changes only `returned`.
LEMMA RequestHitInv ==
    ASSUME IInv, NEW kind \in Kinds, Request(kind),
           memo[kind][currentContract] # 0
    PROVE  IInv'
<1> DEFINE c == currentContract
<1>1. c \in Contracts /\ inContract
  BY DEF Request, IInv, CurrentSet
<1>2. /\ memo' = memo
      /\ decls' = decls
      /\ returned' = returned \cup {[kind |-> kind, contract |-> c, decl |-> memo[kind][c]]}
      /\ UNCHANGED <<currentContract, inContract, fault>>
  <2>1. ~(currentContract = Null)
    BY <1>1, GlobalContextAssumption
  <2>2. Pointer(kind, c) = memo[kind][c]
    BY DEF Pointer
  <2>3. memo \in [Kinds -> [Contracts -> 0..Len(decls)]]
    BY DEF IInv, TypeOK
  <2>4. [memo EXCEPT ![kind][c] = memo[kind][c]] = memo
    BY <2>3, <1>1
  <2> QED BY <2>1, <2>2, <2>4 DEF Request
<1>3. memo[kind][c] \in Decl
  BY <1>1 DEF IInv, TypeOK, Decl
<1>4. TypeOK'
  BY <1>1, <1>2, <1>3 DEF IInv, TypeOK, Decl
<1>5. Owned'
  BY <1>1, <1>2 DEF IInv, Owned
<1>6. ThisTypesCurrent'
  BY <1>1, <1>2, <1>3 DEF IInv, ThisTypesCurrent, MemoTyped, Decl, Kinds
<1>7. QED
  BY <1>2, <1>4, <1>5, <1>6 DEF IInv, MemoTyped, CurrentSet, NoNullDeref

\* A request whose memo entry is null allocates a declaration at the next
\* index, of the current contract's type, and records it.
LEMMA RequestMissInv ==
    ASSUME IInv, NEW kind \in Kinds, Request(kind),
           memo[kind][currentContract] = 0
    PROVE  IInv'
<1> DEFINE c == currentContract
           n == Len(decls) + 1
           ty == ContractType(c, kind = "super")
<1>1. c \in Contracts /\ inContract
  BY DEF Request, IInv, CurrentSet
<1>2. /\ decls' = Append(decls, ty)
      /\ memo' = [memo EXCEPT ![kind][c] = n]
      /\ returned' = returned \cup {[kind |-> kind, contract |-> c, decl |-> n]}
      /\ UNCHANGED <<currentContract, inContract, fault>>
  <2>1. ~(currentContract = Null)
    BY <1>1, GlobalContextAssumption
  <2>2. Pointer(kind, c) = n
    BY DEF Pointer
  <2> QED BY <2>1, <2>2 DEF Request
<1>3. decls \in Seq([contract : Contracts, super : BOOLEAN])
  BY DEF IInv, TypeOK
<1>4. ty \in [contract : Contracts, super : BOOLEAN]
  BY <1>1 DEF ContractType
<1>5. /\ decls' \in Seq([contract : Contracts, super : BOOLEAN])
      /\ Len(decls') = n
      /\ decls'[n] = ty
      /\ \A d \in Decl : decls'[d] = decls[d]
  BY <1>2, <1>3, <1>4, AppendProperties DEF Decl
<1>6. memo \in [Kinds -> [Contracts -> 0..Len(decls)]]
  BY DEF IInv, TypeOK
<1>7. \A k \in Kinds, x \in Contracts :
        memo'[k][x] = IF k = kind /\ x = c THEN n ELSE memo[k][x]
  BY <1>1, <1>2, <1>6
<1>8. TypeOK'
  <2>1. memo' \in [Kinds -> [Contracts -> 0..Len(decls')]]
    BY <1>1, <1>2, <1>5, <1>6
  <2>2. returned' \subseteq [kind : Kinds, contract : Contracts, decl : Decl']
    BY <1>1, <1>2, <1>5 DEF IInv, TypeOK, Decl
  <2> QED BY <2>1, <2>2, <1>2, <1>5 DEF IInv, TypeOK
<1>9. Owned'
  <2> SUFFICES ASSUME NEW r \in returned' PROVE memo'[r.kind][r.contract] = r.decl
    BY DEF Owned
  <2>1. CASE r \in returned
    <3>1. r.kind \in Kinds /\ r.contract \in Contracts /\ r.decl \in Decl
      BY <2>1 DEF IInv, TypeOK
    <3>2. memo[r.kind][r.contract] = r.decl
      BY <2>1 DEF IInv, Owned
    <3>3. ~(r.kind = kind /\ r.contract = c)
      BY <3>1, <3>2 DEF Decl
    <3> QED BY <3>1, <3>2, <3>3, <1>7
  <2>2. CASE r = [kind |-> kind, contract |-> c, decl |-> n]
    BY <2>2, <1>1, <1>7
  <2> QED BY <2>1, <2>2, <1>2
<1>10. MemoTyped'
  <2> SUFFICES ASSUME NEW k \in Kinds, NEW x \in Contracts, memo'[k][x] # 0
               PROVE  decls'[memo'[k][x]] = ContractType(x, k = "super")
    BY DEF MemoTyped
  <2>1. CASE k = kind /\ x = c
    BY <2>1, <1>5, <1>7
  <2>2. CASE ~(k = kind /\ x = c)
    <3>1. memo'[k][x] = memo[k][x] /\ memo[k][x] \in Decl
      BY <2>2, <1>6, <1>7 DEF Decl
    <3> QED BY <3>1, <1>5 DEF IInv, MemoTyped
  <2> QED BY <2>1, <2>2
<1>11. ThisTypesCurrent'
  <2> SUFFICES ASSUME NEW r \in returned'
               PROVE  r.decl \in Decl' /\ decls'[r.decl] = ContractType(r.contract, r.kind = "super")
    BY DEF ThisTypesCurrent
  <2>1. CASE r \in returned
    <3>1. r.decl \in Decl /\ decls[r.decl] = ContractType(r.contract, r.kind = "super")
      BY <2>1 DEF IInv, ThisTypesCurrent
    <3> QED BY <3>1, <1>5 DEF Decl
  <2>2. CASE r = [kind |-> kind, contract |-> c, decl |-> n]
    BY <2>2, <1>5 DEF Decl
  <2> QED BY <2>1, <2>2, <1>2
<1>12. QED
  BY <1>2, <1>8, <1>9, <1>10, <1>11 DEF IInv, CurrentSet, NoNullDeref

LEMMA IInvStep == IInv /\ [Next]_vars => IInv'
<1> SUFFICES ASSUME IInv, [Next]_vars PROVE IInv'
  OBVIOUS
<1>1. CASE \E c \in Contracts : EnterContract(c)
  BY <1>1, DriverInv
<1>2. CASE LeaveContract
  BY <1>2, DriverInv
<1>3. ASSUME NEW kind \in Kinds, Request(kind) PROVE IInv'
  <2>1. CASE memo[kind][currentContract] # 0
    BY <1>3, <2>1, RequestHitInv
  <2>2. CASE memo[kind][currentContract] = 0
    BY <1>3, <2>2, RequestMissInv
  <2> QED BY <2>1, <2>2
<1>4. CASE UNCHANGED vars
  BY <1>4 DEF vars, IInv, TypeOK, Owned, MemoTyped, ThisTypesCurrent,
              CurrentSet, NoNullDeref, Decl
<1>5. QED
  BY <1>1, <1>2, <1>3, <1>4 DEF Next, CurrentThis, CurrentSuper, Kinds

LEMMA IInvProperties == IInv => TypeOK /\ ReferenceStable /\ ThisTypesCurrent /\ NoNullDeref
<1> SUFFICES ASSUME IInv PROVE ReferenceStable
  BY DEF IInv
<1> SUFFICES ASSUME NEW r \in returned, NEW s \in returned, r.kind = s.kind
             PROVE  r.contract = s.contract <=> r.decl = s.decl
  BY DEF ReferenceStable, IInv, Owned
<1>1. memo[r.kind][r.contract] = r.decl /\ memo[s.kind][s.contract] = s.decl
  BY DEF IInv, Owned
<1>2. decls[r.decl] = ContractType(r.contract, r.kind = "super")
      /\ decls[s.decl] = ContractType(s.contract, s.kind = "super")
  BY DEF IInv, ThisTypesCurrent
<1> QED BY <1>1, <1>2 DEF ContractType

\* For every set of contracts: every declaration currentThis or
\* currentSuper returns is the one cached for its contract for the rest of
\* the analysis, carries that contract's type, and no request reaches the
\* null dereference of a current contract that was never set.
THEOREM ContextSafe ==
    Spec => [](TypeOK /\ ReferenceStable /\ ThisTypesCurrent /\ NoNullDeref)
BY IInvInit, IInvStep, IInvProperties, PTL DEF Spec

\* A request keeps every set memo entry and extends the allocations.
LEMMA RequestKept ==
    ASSUME IInv, NEW kind \in Kinds, Request(kind)
    PROVE  MemoKept
<1>1. decls \in Seq([contract : Contracts, super : BOOLEAN])
      /\ memo \in [Kinds -> [Contracts -> 0..Len(decls)]]
  BY DEF IInv, TypeOK
<1>2. CASE currentContract = Null
  BY <1>1, <1>2 DEF Request, MemoKept, Decl
<1>3. CASE currentContract # Null
  <2> DEFINE c == currentContract
  <2>1. c \in Contracts
    BY <1>3 DEF Request, IInv, CurrentSet
  <2>2. memo' = [memo EXCEPT ![kind][c] = Pointer(kind, c)]
    BY <1>3 DEF Request
  <2>3. \A k \in Kinds, x \in Contracts :
          memo[k][x] # 0 => memo'[k][x] = memo[k][x]
    BY <1>1, <2>1, <2>2 DEF Pointer
  <2>4. CASE memo[kind][c] = 0
    <3>1. decls' = Append(decls, ContractType(c, kind = "super"))
      BY <1>3, <2>4 DEF Request
    <3>2. Len(decls') = Len(decls) + 1 /\ \A d \in Decl : decls'[d] = decls[d]
      BY <1>1, <3>1, AppendProperties DEF Decl
    <3> QED BY <1>1, <2>3, <3>2 DEF MemoKept
  <2>5. CASE memo[kind][c] # 0
    BY <1>1, <1>3, <2>3, <2>5 DEF Request, MemoKept
  <2> QED BY <2>4, <2>5
<1> QED BY <1>2, <1>3

\* Every step keeps the memo entries and the allocations.
LEMMA MemoKeptStep == IInv /\ [Next]_vars => [MemoKept]_vars
<1> SUFFICES ASSUME IInv, [Next]_vars PROVE [MemoKept]_vars
  OBVIOUS
<1>1. decls \in Seq([contract : Contracts, super : BOOLEAN])
  BY DEF IInv, TypeOK
<1>2. CASE \E c \in Contracts : EnterContract(c)
  BY <1>1, <1>2 DEF EnterContract, MemoKept, Decl
<1>3. CASE LeaveContract
  BY <1>1, <1>3 DEF LeaveContract, MemoKept, Decl
<1>4. ASSUME NEW kind \in Kinds, Request(kind) PROVE [MemoKept]_vars
  BY <1>4, RequestKept
<1>5. CASE UNCHANGED vars
  BY <1>5 DEF vars
<1>6. QED
  BY <1>2, <1>3, <1>4, <1>5 DEF Next, CurrentThis, CurrentSuper, Kinds

\* For every set of contracts, m_thisPointer and m_superPointer are
\* write-once: no step of the analysis replaces a declaration the memo
\* holds for a contract, or changes or frees one already allocated.
THEOREM WriteOnce == Spec => MemoWriteOnce
BY IInvInit, IInvStep, MemoKeptStep, PTL DEF Spec, MemoWriteOnce

\* currentThis and currentSuper return declarations typed as the contract
\* current at the request.
THEOREM TypesCurrent == Spec => []ThisTypesCurrent
BY ContextSafe, PTL

\* No request dereferences the null m_currentContract, given the driver
\* sets the contract before resolving inside it.
THEOREM NoNullDereference == Spec => []NoNullDeref
BY ContextSafe, PTL

\* GlobalContext's memo maps (m_thisType, m_superType) only ever point at
\* declarations that were created, or at none, and the current contract
\* is a contract or null.
THEOREM TypeCorrect == Spec => []TypeOK
BY ContextSafe, PTL
=============================================================================
