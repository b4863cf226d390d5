---------------------------- MODULE GlobalContext ----------------------------
(***************************************************************************)
(* The front end's global context (src/solidity/libsolidity/analysis/     *)
(* GlobalContext.cpp): the fixed table of magic variables, the current    *)
(* contract the analysis driver sets, and the declarations of `this` and  *)
(* `super` that currentThis and currentSuper create on first request and  *)
(* memoise per contract in m_thisPointer and m_superPointer.              *)
(*                                                                         *)
(* A declaration is the index of its allocation in `decls`; 0 is the null *)
(* shared_ptr that std::map::operator[] default-constructs for a contract *)
(* not asked for yet. The analysis driver (NameAndTypeResolver) is not in *)
(* this repository: it sets the current contract before it resolves names *)
(* inside the contract, as the specification requires.                    *)
(***************************************************************************)
EXTENDS Naturals, Sequences

CONSTANTS
    Contracts,  \* the ContractDefinitions of the analysed source
    Null,       \* m_currentContract before setCurrentContract: nullptr
    MaxDecls    \* the most declarations the run allocates

ASSUME GlobalContextAssumption ==
    /\ Null \notin Contracts
    /\ MaxDecls \in Nat

Kinds == {"this", "super"}

\* The names of the fixed magic variables the constructor creates (lines
\* 37-76); each is an immutable (name, type) pair created once.
MagicVariables ==
    <<"block", "msg", "tx", "now", "suicide", "selfdestruct", "addmod",
      "mulmod", "sha3", "keccak256", "log0", "log1", "log2", "log3", "log4",
      "sha256", "ecrecover", "edverify", "ripemd160", "assert", "require",
      "revert">>

\* declarations(): the fixed table, in order (lines 85-92).
Declarations == MagicVariables

VARIABLES
    currentContract,  \* m_currentContract
    memo,             \* memo["this"] is m_thisPointer, memo["super"] m_superPointer
    decls,            \* the declarations allocated: decls[d] is the ContractType of d
    inContract,       \* the driver is resolving names inside a contract
    returned,         \* what currentThis/currentSuper returned: [kind, contract, decl]
    fault             \* a request dereferenced a null m_currentContract

vars == <<currentContract, memo, decls, inContract, returned, fault>>

\* The type a declaration carries: ContractType(contract, isSuper).
ContractType(c, isSuper) == [contract |-> c, super |-> isSuper]

\* The context after construction (lines 36-78): empty memo maps and no
\* current contract.
Init ==
    /\ currentContract = Null
    /\ memo = [k \in Kinds |-> [c \in Contracts |-> 0]]
    /\ decls = <<>>
    /\ inContract = FALSE
    /\ returned = {}
    /\ fault = FALSE

\* Mutant: setCurrentContract does not store the contract.
SetCurrentContractNoop(c) == UNCHANGED currentContract

\* setCurrentContract (lines 80-83).
SetCurrentContract(c) == currentContract' = c

\* The driver enters a contract: it sets it current before resolving the
\* names in it.
EnterContract(c) ==
    /\ SetCurrentContract(c)
    /\ inContract' = TRUE
    /\ UNCHANGED <<memo, decls, returned, fault>>

\* The driver leaves the contract; m_currentContract keeps its value.
LeaveContract ==
    /\ inContract
    /\ inContract' = FALSE
    /\ UNCHANGED <<currentContract, memo, decls, returned, fault>>

\* Mutant: the memo is not checked; every request allocates a new
\* declaration.
PointerNoMemo(kind, c) == Len(decls) + 1

\* Mutant: one cached declaration per kind, whatever the contract.
PointerAnyContract(kind, c) ==
    IF \E x \in Contracts : memo[kind][x] # 0
    THEN memo[kind][CHOOSE x \in Contracts : memo[kind][x] # 0]
    ELSE Len(decls) + 1

\* Mutant: a new declaration is recorded at the index before its
\* allocation.
PointerPrevIndex(kind, c) == IF memo[kind][c] = 0 THEN Len(decls) ELSE memo[kind][c]

\* The declaration m_thisPointer[c] (m_superPointer[c]) holds after the
\* request: the cached one, or the one allocated when the map held null
\* (lines 96-99, 105-108).
Pointer(kind, c) == IF memo[kind][c] = 0 THEN Len(decls) + 1 ELSE memo[kind][c]

\* currentThis / currentSuper (lines 94-109): create the declaration with
\* the contract's type (in base-lookup mode for super) when the cache
\* holds null, store it, return it. With a null m_currentContract,
\* *m_currentContract at line 98 (107) is undefined behaviour.
Request(kind) ==
    /\ inContract
    /\ IF currentContract = Null
       THEN /\ fault' = TRUE
            /\ UNCHANGED <<currentContract, memo, decls, inContract, returned>>
       ELSE LET c == currentContract
                p == Pointer(kind, c)
            IN  /\ memo[kind][c] = 0 => Len(decls) < MaxDecls
                /\ decls' = IF memo[kind][c] = 0
                            THEN Append(decls, ContractType(c, kind = "super"))
                            ELSE decls
                /\ memo' = [memo EXCEPT ![kind][c] = p]
                /\ returned' = returned \cup {[kind |-> kind, contract |-> c, decl |-> p]}
                /\ UNCHANGED <<currentContract, inContract, fault>>

CurrentThis  == Request("this")
CurrentSuper == Request("super")

Next ==
    \/ \E c \in Contracts : EnterContract(c)
    \/ LeaveContract
    \/ CurrentThis
    \/ CurrentSuper

Spec == Init /\ [][Next]_vars

(***************************************************************************)
(* Properties.                                                             *)
(***************************************************************************)
Decl == 1..Len(decls)

TypeOK ==
    /\ currentContract \in Contracts \cup {Null}
    /\ memo \in [Kinds -> [Contracts -> 0..Len(decls)]]
    /\ decls \in Seq([contract : Contracts, super : BOOLEAN])
    /\ inContract \in BOOLEAN
    /\ returned \subseteq [kind : Kinds, contract : Contracts, decl : Decl]
    /\ fault \in BOOLEAN

\* The specification's reference stability: currentThis (currentSuper)
\* returns the identical declaration every time it is asked for the same
\* contract, and distinct declarations for distinct contracts; and the
\* memo map still owns every declaration handed out, so none of them has
\* been freed by a later request.
ReferenceStable ==
    \A r, s \in returned :
        /\ r.kind = s.kind => (r.contract = s.contract <=> r.decl = s.decl)
        /\ memo[r.kind][r.contract] = r.decl

\* Every declaration currentThis returns types as the contract current at
\* the request, and every one currentSuper returns as that contract in
\* base-lookup mode.
ThisTypesCurrent ==
    \A r \in returned :
        /\ r.decl \in Decl
        /\ decls[r.decl] = ContractType(r.contract, r.kind = "super")

\* No request dereferences a null current contract: the driver's
\* setCurrentContract always reaches m_currentContract before a request.
NoNullDeref == ~fault

\* A step that keeps every set memo entry and every allocated declaration.
MemoKept ==
    /\ \A k \in Kinds, c \in Contracts : memo[k][c] # 0 => memo'[k][c] = memo[k][c]
    /\ Len(decls') >= Len(decls)
    /\ \A d \in Decl : decls'[d] = decls[d]

\* m_thisPointer and m_superPointer are write-once caches: no step replaces
\* a declaration a memo map holds for a contract, and no step changes or
\* frees a declaration already allocated, so a shared_ptr handed out is
\* never the last owner's to drop.
MemoWriteOnce == [][MemoKept]_vars
=============================================================================
