------------------------- MODULE FastVMBridgeProofs -------------------------
(***************************************************************************)
(* Proofs about FastVMBridge for every value of its constants:            *)
(*   - TypeOK holds in every reachable state, serialised host or not;     *)
(*   - when the Java host serialises the bridge's entry points, get_code  *)
(*     leaks no buffer (CodeCacheSingleSlot), frees only live buffers     *)
(*     (FreeOfLive), the pointer it hands the engine stays live until the *)
(*     engine copies it (CodeRefLive), every upcall goes through the      *)
(*     calling thread's JNIEnv (EnvOfCallingThread) and get_tx_context    *)
(*     returns each run its own context's fields (TxInfoFaithful).        *)
(***************************************************************************)
EXTENDS FastVMBridge, SequenceTheorems, TLAPS

USE BridgeAssumption

\* The innermost run of a busy thread is a frame.
LEMMA TopFrame ==
    ASSUME TypeOK, NEW t \in Threads, Busy(t)
    PROVE  /\ stack[t] \in Seq(Frame)
           /\ Len(stack[t]) \in Nat \ {0}
           /\ Top(t) \in Frame
BY DEF TypeOK, Busy, Top

\* The stacks once the innermost run of t is replaced by the frame f.
TopSet(t, f) == [stack EXCEPT ![t][Len(stack[t])] = f]

\* Replacing the innermost run of a busy thread by a frame keeps every
\* stack a sequence of frames of the same length, changes no other run,
\* and leaves the other threads' stacks alone.
LEMMA TopReplace ==
    ASSUME TypeOK, NEW t \in Threads, Busy(t), NEW f \in Frame
    PROVE  /\ TopSet(t, f) \in [Threads -> Seq(Frame)]
           /\ Len(TopSet(t, f)[t]) = Len(stack[t])
           /\ TopSet(t, f)[t][Len(stack[t])] = f
           /\ \A i \in 1..Len(stack[t]) - 1 : TopSet(t, f)[t][i] = stack[t][i]
           /\ \A u \in Threads \ {t} : TopSet(t, f)[u] = stack[u]
<1>1. stack[t] \in Seq(Frame) /\ Len(stack[t]) \in 1..Len(stack[t])
  BY TopFrame
<1>2. TopSet(t, f)[t] = [stack[t] EXCEPT ![Len(stack[t])] = f]
  BY DEF TypeOK, TopSet
<1>3. /\ TopSet(t, f)[t] \in Seq(Frame)
      /\ Len(TopSet(t, f)[t]) = Len(stack[t])
      /\ \A j \in 1..Len(stack[t]) :
            TopSet(t, f)[t][j] = IF j = Len(stack[t]) THEN f ELSE stack[t][j]
  BY <1>1, <1>2, ExceptSeq
<1>. QED
  BY <1>3 DEF TypeOK, TopSet

-----------------------------------------------------------------------------
(* Type correctness, for every value of the constants.                    *)

\* Init is well typed.
LEMMA TypeInit == Init => TypeOK
<1> SUFFICES ASSUME Init PROVE TypeOK
  OBVIOUS
<1>1. stack \in [Threads -> Seq(Frame)]
  <2>1. << >> \in Seq(Frame)
    BY EmptySeq
  <2>. QED
    BY <2>1 DEF Init
<1>2. ctx \in TxCtx
  BY DEF Init, TxCtx
<1>3. /\ codeBuf \in {NoRef} \cup CodeIds
      /\ codeGen \in 0..MaxCodeFetch
      /\ codeLive \subseteq CodeIds
  BY DEF Init, NoRef
<1>4. /\ cbEnv \in Threads \cup {NoEnv}
      /\ initialized \in BOOLEAN
      /\ instance \in [Threads -> BOOLEAN]
      /\ usedEnv \in [Threads -> Threads \cup {NoEnv}]
  BY DEF Init
<1>. QED
  BY <1>1, <1>2, <1>3, <1>4 DEF TypeOK

\* Every step of the bridge, serialised or not, keeps it well typed.
LEMMA TypeStep == TypeOK /\ [Next]_vars => TypeOK'
<1> SUFFICES ASSUME TypeOK, [Next]_vars PROVE TypeOK'
  OBVIOUS
<1>. USE DEF TypeOK
<1>1. ASSUME NEW t \in Threads, JInit(t) \/ JCreate(t) \/ JDestroy(t)
      PROVE  TypeOK'
  BY <1>1 DEF JInit, JCreate, JDestroy
<1>2. ASSUME NEW t \in Threads, JRun(t) PROVE TypeOK'
  <2>1. PICK c \in Ctxs, g \in GasPrices :
          /\ cbEnv' = t
          /\ ctx' = ParseContext(c)
          /\ stack' = [stack EXCEPT ![t] = Append(@,
                         [own |-> c, gasPrice |-> g, state |-> "exec",
                          codeRef |-> NoRef, seen |-> NoCtx,
                          fetch |-> "idle", saw |-> NoRef])]
    BY <1>2 DEF JRun
  <2>2. ctx' \in TxCtx
    BY <2>1 DEF ParseContext, TxCtx
  <2>3. [own |-> c, gasPrice |-> g, state |-> "exec", codeRef |-> NoRef,
         seen |-> NoCtx, fetch |-> "idle", saw |-> NoRef] \in Frame
    BY DEF Frame
  <2>4. stack' \in [Threads -> Seq(Frame)]
    BY <2>1, <2>3, AppendProperties
  <2>. QED
    BY <1>2, <2>1, <2>2, <2>4 DEF JRun
<1>3. ASSUME NEW t \in Threads, RunReturn(t) PROVE TypeOK'
  <2>1. stack[t] \in Seq(Frame) /\ Len(stack[t]) > 0
    BY <1>3 DEF RunReturn, EngineRunning, Busy
  <2>2. SubSeq(stack[t], 1, Len(stack[t]) - 1) \in Seq(Frame)
    BY <2>1, SubSeqProperties
  <2>. QED
    BY <1>3, <2>2 DEF RunReturn
<1>4. ASSUME NEW t \in Threads, QueryCallback(t) PROVE TypeOK'
  <2>1. HostUpcall(t)
    BY <1>4, Zenon DEF QueryCallback, AccountExists, GetBalance, GetStorage,
                     SetStorage, GetBlockHash, SelfDestruct, Log
  <2>. QED
    BY <2>1 DEF HostUpcall
\* The actions that replace the innermost run by an updated copy.
<1>5. ASSUME NEW t \in Threads, NEW f \in Frame, Busy(t),
             stack' = [stack EXCEPT ![t][Len(stack[t])] = f]
      PROVE  stack' \in [Threads -> Seq(Frame)]
  BY <1>5, TopReplace DEF TopSet
<1>6. ASSUME NEW t \in Threads, GetCodeRead(t) PROVE TypeOK'
  <2>1. Busy(t) /\ Top(t) \in Frame
    BY <1>6, TopFrame DEF GetCodeRead, EngineRunning
  <2>2. [Top(t) EXCEPT !.fetch = "read", !.saw = codeBuf] \in Frame
    BY <2>1 DEF Frame
  <2>3. stack' = [stack EXCEPT ![t][Len(stack[t])] =
                    [Top(t) EXCEPT !.fetch = "read", !.saw = codeBuf]]
    BY <1>6 DEF GetCodeRead, Top
  <2>. QED
    BY <1>5, <1>6, <2>1, <2>2, <2>3 DEF GetCodeRead
<1>7. ASSUME NEW t \in Threads, GetCodeFree(t) PROVE TypeOK'
  <2>1. Busy(t) /\ Top(t) \in Frame
    BY <1>7, TopFrame DEF GetCodeFree
  <2>2. [Top(t) EXCEPT !["fetch"] = "freed"] \in Frame
    BY <2>1 DEF Frame
  <2>3. stack' = [stack EXCEPT ![t][Len(stack[t])] =
                    [Top(t) EXCEPT !["fetch"] = "freed"]]
    BY <1>7 DEF GetCodeFree, SetTop, Top
  <2>. QED
    BY <1>5, <1>7, <2>1, <2>2, <2>3 DEF GetCodeFree
<1>8. ASSUME NEW t \in Threads, GetCodeStore(t) PROVE TypeOK'
  <2>1. Busy(t) /\ Top(t) \in Frame
    BY <1>8, TopFrame DEF GetCodeStore
  <2>2. usedEnv' \in [Threads -> Threads \cup {NoEnv}]
      /\ UNCHANGED <<cbEnv, initialized, ctx, instance>>
    BY <1>8 DEF GetCodeStore
  <2>3. CASE /\ codeGen < MaxCodeFetch
             /\ codeBuf' = codeGen + 1
             /\ codeGen' = codeGen + 1
             /\ codeLive' = codeLive \cup {codeGen + 1}
             /\ stack' = [stack EXCEPT ![t][Len(stack[t])] =
                             [@ EXCEPT !.fetch = "idle", !.saw = NoRef,
                                       !.codeRef = codeGen + 1]]
    <3>1. codeGen + 1 \in CodeIds
      BY <2>3 DEF CodeIds
    <3>2. [Top(t) EXCEPT !.fetch = "idle", !.saw = NoRef,
                         !.codeRef = codeGen + 1] \in Frame
      BY <2>1, <3>1 DEF Frame
    <3>3. stack' = [stack EXCEPT ![t][Len(stack[t])] =
                      [Top(t) EXCEPT !.fetch = "idle", !.saw = NoRef,
                                     !.codeRef = codeGen + 1]]
      BY <2>3 DEF Top
    <3>4. stack' \in [Threads -> Seq(Frame)]
      BY <1>5, <2>1, <3>2, <3>3
    <3>5. /\ codeBuf' \in {NoRef} \cup CodeIds
          /\ codeGen' \in 0..MaxCodeFetch
          /\ codeLive' \subseteq CodeIds
      BY <2>3, <3>1 DEF CodeIds
    <3>. QED
      BY <2>2, <3>4, <3>5
  <2>4. CASE /\ stack' = [stack EXCEPT ![t][Len(stack[t])] =
                             [@ EXCEPT !.fetch = "idle", !.saw = NoRef]]
             /\ UNCHANGED <<codeBuf, codeGen, codeLive>>
    <3>1. [Top(t) EXCEPT !.fetch = "idle", !.saw = NoRef] \in Frame
      BY <2>1 DEF Frame
    <3>2. stack' = [stack EXCEPT ![t][Len(stack[t])] =
                      [Top(t) EXCEPT !.fetch = "idle", !.saw = NoRef]]
      BY <2>4 DEF Top
    <3>. QED
      BY <1>5, <2>1, <2>2, <2>4, <3>1, <3>2
  <2>. QED
    BY <1>8, <2>3, <2>4 DEF GetCodeStore
<1>9. ASSUME NEW t \in Threads, NEW fld \in {"codeRef", "seen", "state"},
             NEW v, Busy(t), [Top(t) EXCEPT ![fld] = v] \in Frame,
             stack' = SetTop(t, fld, v)
      PROVE  stack' \in [Threads -> Seq(Frame)]
  BY <1>5, <1>9 DEF SetTop, Top
<1>10. ASSUME NEW t \in Threads, ConsumeCode(t) \/ GetTxContext(t)
       PROVE  TypeOK'
  <2>1. Busy(t) /\ Top(t) \in Frame
    BY <1>10, TopFrame DEF ConsumeCode, GetTxContext, EngineRunning
  <2>2. /\ [Top(t) EXCEPT !["codeRef"] = NoRef] \in Frame
        /\ [Top(t) EXCEPT !["seen"] = ctx] \in Frame
    BY <2>1 DEF Frame
  <2>. QED
    BY <1>9, <1>10, <2>1, <2>2 DEF ConsumeCode, GetTxContext
<1>11. ASSUME NEW t \in Threads, Call(t) \/ CallReturn(t) PROVE TypeOK'
  <2>1. Busy(t) /\ Top(t) \in Frame
    BY <1>11, TopFrame DEF Call, CallReturn, EngineRunning
  <2>2. /\ [Top(t) EXCEPT !["state"] = "inCall"] \in Frame
        /\ [Top(t) EXCEPT !["state"] = "exec"] \in Frame
    BY <2>1 DEF Frame
  <2>. QED
    BY <1>9, <1>11, <2>1, <2>2 DEF Call, CallReturn
<1>12. CASE UNCHANGED vars
  BY <1>12 DEF vars
<1>. QED
  BY <1>1, <1>2, <1>3, <1>4, <1>6, <1>7, <1>8, <1>10, <1>11, <1>12 DEF Next

\* Every reachable state of the bridge is well typed, whether or not the
\* Java host serialises its entry points: in particular code_buf only
\* ever points to a buffer some get_code allocated, and the set of live
\* buffers only holds such buffers.
THEOREM TypeCorrect == Spec => []TypeOK
BY TypeInit, TypeStep, PTL DEF Spec

-----------------------------------------------------------------------------
(* With a serialising host.  The inductive invariant Inv2 strengthens the *)
(* properties with what get_code's three steps rely on: only one thread   *)
(* is inside the bridge, so the code_buf a get_code loaded is still       *)
(* code_buf when it frees it, nobody stores into code_buf between the     *)
(* free and the store, and only the innermost run, while executing, can  *)
(* be inside get_code or hold a code pointer.                              *)

\* Only the innermost run of a thread can be inside get_code or hold a
\* code pointer, only while its engine executes, and never both.
FrameRefs ==
    \A t \in Threads : \A i \in 1..Len(stack[t]) :
        /\ stack[t][i].codeRef # NoRef \/ stack[t][i].fetch # "idle" =>
              i = Len(stack[t]) /\ stack[t][i].state = "exec"
        /\ stack[t][i].fetch # "idle" => stack[t][i].codeRef = NoRef

\* At most one thread is inside the bridge.
OneBusy ==
    \A u, v \in Threads : Busy(u) /\ Busy(v) => u = v

\* Every run in flight parsed its context buffer into ctx last: nested
\* runs pass the running transaction's context.
CtxOwn ==
    \A t \in Threads : \A i \in 1..Len(stack[t]) : stack[t][i].own = ctx.info

\* The live buffers are exactly the one code_buf points to.
CacheExact ==
    codeLive = IF codeBuf = NoRef THEN {} ELSE {codeBuf}

\* A get_code that loaded code_buf loaded its current value; one that
\* freed it left it null.
FetchCache ==
    \A t \in Threads : Busy(t) =>
        /\ Top(t).fetch = "read" => Top(t).saw = codeBuf
        /\ Top(t).fetch = "freed" => codeBuf = NoRef

\* A code pointer the engine holds is code_buf.
RefCache ==
    \A t \in Threads : Busy(t) /\ Top(t).codeRef # NoRef =>
        Top(t).codeRef = codeBuf

\* cb_env holds the env of the thread inside the bridge.
CbEnvBusy ==
    \A t \in Threads : Busy(t) => cbEnv = t

Inv2 == /\ TypeOK /\ FrameRefs /\ OneBusy /\ CtxOwn /\ CacheExact
        /\ FetchCache /\ RefCache /\ TxInfoFaithful /\ CbEnvBusy
        /\ EnvOfCallingThread

\* What Inv2 says of the innermost run of a busy thread.
LEMMA TopInv2 ==
    ASSUME Inv2, NEW t \in Threads, Busy(t)
    PROVE  /\ Top(t).codeRef # NoRef \/ Top(t).fetch # "idle" =>
                 Top(t).state = "exec"
           /\ Top(t).fetch # "idle" => Top(t).codeRef = NoRef
           /\ Top(t).own = ctx.info
           /\ Top(t).seen # NoCtx => Top(t).seen.info = Top(t).own
           /\ \A u \in Threads \ {t} : stack[u] = << >>
           /\ cbEnv = t
<1>1. Len(stack[t]) \in 1..Len(stack[t])
  BY TopFrame DEF Inv2
<1>. QED
  BY <1>1 DEF Inv2, FrameRefs, CtxOwn, TxInfoFaithful, OneBusy, CbEnvBusy,
              Busy, Top

\* The runs below the innermost one are parked in call: no get_code, no
\* code pointer.
LEMMA BelowTopIdle ==
    ASSUME Inv2, NEW t \in Threads, NEW i \in 1..Len(stack[t]) - 1
    PROVE  stack[t][i].codeRef = NoRef /\ stack[t][i].fetch = "idle"
<1>1. stack[t] \in Seq(Frame) /\ i \in 1..Len(stack[t]) /\ i # Len(stack[t])
  BY DEF Inv2, TypeOK
<1>. QED
  BY <1>1 DEF Inv2, FrameRefs

\* An upcall through cb_env from the thread inside the bridge uses that
\* thread's env.
LEMMA UpcallEnv ==
    ASSUME Inv2, NEW t \in Threads, Busy(t),
           usedEnv' = [usedEnv EXCEPT ![t] = cbEnv]
    PROVE  EnvOfCallingThread'
BY DEF Inv2, CbEnvBusy, EnvOfCallingThread, TypeOK

\* A step that replaces the innermost run of the only busy thread by a
\* frame keeps Inv2 when the new frame and the cache agree.
LEMMA TopStepInv2 ==
    ASSUME Inv2, TypeOK', NEW t \in Threads, Busy(t), NEW f \in Frame,
           stack' = [stack EXCEPT ![t][Len(stack[t])] = f],
           ctx' = ctx, cbEnv' = cbEnv, EnvOfCallingThread', CacheExact',
           f.own = Top(t).own,
           f.codeRef # NoRef \/ f.fetch # "idle" => f.state = "exec",
           f.fetch # "idle" => f.codeRef = NoRef,
           f.fetch = "read" => f.saw = codeBuf',
           f.fetch = "freed" => codeBuf' = NoRef,
           f.codeRef # NoRef => f.codeRef = codeBuf',
           f.seen # NoCtx => f.seen.info = f.own
    PROVE  Inv2'
<1> DEFINE L == Len(stack[t])
<1>0. TypeOK
  BY DEF Inv2
<1>1. /\ Len(stack'[t]) = L
      /\ stack'[t][L] = f
      /\ \A i \in 1..L - 1 : stack'[t][i] = stack[t][i]
      /\ \A u \in Threads \ {t} : stack'[u] = stack[u]
  <2>1. /\ Len(stack'[t]) = Len(stack[t])
        /\ stack'[t][Len(stack[t])] = f
        /\ \A i \in 1..Len(stack[t]) - 1 : stack'[t][i] = stack[t][i]
        /\ \A u \in Threads \ {t} : stack'[u] = stack[u]
    BY <1>0, TopReplace DEF TopSet
  <2>. QED
    BY <2>1 DEF L
<1>2. /\ L \in Nat \ {0}
      /\ \A u \in Threads \ {t} : stack[u] = << >> /\ stack'[u] = << >>
      /\ Top(t).own = ctx.info /\ cbEnv = t
  BY <1>1, TopFrame, TopInv2 DEF Inv2
<1>3. \A u \in Threads : Busy(u)' <=> u = t
  BY <1>1, <1>2 DEF Busy
<1>4. Top(t)' = f
  BY <1>1 DEF Top
<1>5. \A i \in 1..L - 1 :
         stack[t][i].codeRef = NoRef /\ stack[t][i].fetch = "idle"
  BY BelowTopIdle
<1>6. ASSUME NEW u \in Threads, NEW i \in 1..Len(stack'[u])
      PROVE  u = t /\ (i = L \/ i \in 1..L - 1)
  BY <1>1, <1>2
<1>7. FrameRefs'
  BY <1>1, <1>5, <1>6 DEF FrameRefs
<1>8. OneBusy'
  BY <1>3 DEF OneBusy
<1>9. CtxOwn'
  BY <1>1, <1>2, <1>6 DEF Inv2, CtxOwn
<1>10. FetchCache' /\ RefCache' /\ CbEnvBusy'
  BY <1>2, <1>3, <1>4 DEF FetchCache, RefCache, CbEnvBusy
<1>11. TxInfoFaithful'
  BY <1>1, <1>6 DEF Inv2, TxInfoFaithful
<1>. QED
  BY <1>7, <1>8, <1>9, <1>10, <1>11 DEF Inv2

\* get_code, first step: the run loads code_buf, which it will free.
LEMMA GetCodeReadInv2 ==
    ASSUME Inv2, TypeOK', NEW t \in Threads, GetCodeRead(t)
    PROVE  Inv2'
<1> DEFINE f == [Top(t) EXCEPT !.fetch = "read", !.saw = codeBuf]
<1>1. /\ Busy(t) /\ Top(t) \in Frame
      /\ Top(t).state = "exec" /\ Top(t).codeRef = NoRef
  BY TopFrame DEF Inv2, GetCodeRead, EngineRunning
<1>2. f \in Frame
  BY <1>1 DEF Inv2, TypeOK, Frame
<1>3. stack' = [stack EXCEPT ![t][Len(stack[t])] = f]
  BY DEF GetCodeRead, Top, f
<1>4. EnvOfCallingThread'
  BY <1>1, UpcallEnv DEF GetCodeRead
<1>5. CacheExact' /\ ctx' = ctx /\ cbEnv' = cbEnv
  BY DEF GetCodeRead, Inv2, CacheExact
<1>6. /\ f.own = Top(t).own /\ f.state = "exec" /\ f.codeRef = NoRef
      /\ f.fetch = "read" /\ f.saw = codeBuf' /\ f.seen = Top(t).seen
  BY <1>1 DEF GetCodeRead, Frame, f
<1>7. Top(t).seen # NoCtx => Top(t).seen.info = Top(t).own
  BY <1>1, TopInv2
<1>. QED
  BY <1>1, <1>2, <1>3, <1>4, <1>5, <1>6, <1>7, TopStepInv2

\* get_code, second step: the run frees the code_buf it loaded, which is
\* still code_buf, the one live buffer; none is left.
LEMMA GetCodeFreeInv2 ==
    ASSUME Inv2, TypeOK', NEW t \in Threads, GetCodeFree(t)
    PROVE  Inv2'
<1> DEFINE f == [Top(t) EXCEPT !["fetch"] = "freed"]
<1>1. /\ Busy(t) /\ Top(t) \in Frame /\ Top(t).fetch = "read"
  BY TopFrame DEF Inv2, GetCodeFree
<1>2. /\ Top(t).state = "exec" /\ Top(t).codeRef = NoRef
      /\ Top(t).saw = codeBuf
      /\ Top(t).seen # NoCtx => Top(t).seen.info = Top(t).own
  BY <1>1, TopInv2 DEF Inv2, FetchCache
<1>3. f \in Frame
  BY <1>1 DEF Frame
<1>4. stack' = [stack EXCEPT ![t][Len(stack[t])] = f]
  BY DEF GetCodeFree, SetTop, Top, f
<1>5. codeBuf' = NoRef /\ codeLive' = {}
  <2>1. codeBuf' = NoRef /\ codeLive' = codeLive \ {codeBuf}
    BY <1>2 DEF GetCodeFree
  <2>2. codeLive = IF codeBuf = NoRef THEN {} ELSE {codeBuf}
    BY DEF Inv2, CacheExact
  <2>3. NoRef \notin codeLive
    BY DEF Inv2, TypeOK, CodeIds, NoRef
  <2>. QED
    BY <2>1, <2>2, <2>3
<1>6. CacheExact' /\ ctx' = ctx /\ cbEnv' = cbEnv /\ EnvOfCallingThread'
  BY <1>5 DEF GetCodeFree, CacheExact, Inv2, EnvOfCallingThread
<1>7. /\ f.own = Top(t).own /\ f.state = "exec" /\ f.codeRef = NoRef
      /\ f.fetch = "freed" /\ f.seen = Top(t).seen
  BY <1>1, <1>2 DEF Frame, f
<1>. QED
  BY <1>1, <1>2, <1>3, <1>4, <1>5, <1>6, <1>7, TopStepInv2

\* get_code, third step: code_buf is null and nothing is live, so the
\* buffer it allocates is the one live buffer and the one code_buf holds.
LEMMA GetCodeStoreInv2 ==
    ASSUME Inv2, TypeOK', NEW t \in Threads, GetCodeStore(t)
    PROVE  Inv2'
<1>1. /\ Busy(t) /\ Top(t) \in Frame /\ Top(t).fetch = "freed"
  BY TopFrame DEF Inv2, GetCodeStore
<1>2. /\ Top(t).state = "exec" /\ Top(t).codeRef = NoRef
      /\ codeBuf = NoRef /\ codeLive = {}
      /\ Top(t).seen # NoCtx => Top(t).seen.info = Top(t).own
  BY <1>1, TopInv2 DEF Inv2, FetchCache, CacheExact
<1>3. EnvOfCallingThread' /\ ctx' = ctx /\ cbEnv' = cbEnv
  BY <1>1, UpcallEnv DEF GetCodeStore
<1>4. CASE /\ codeGen < MaxCodeFetch
           /\ codeBuf' = codeGen + 1
           /\ codeGen' = codeGen + 1
           /\ codeLive' = codeLive \cup {codeGen + 1}
           /\ stack' = [stack EXCEPT ![t][Len(stack[t])] =
                           [@ EXCEPT !.fetch = "idle", !.saw = NoRef,
                                     !.codeRef = codeGen + 1]]
  <2> DEFINE f == [Top(t) EXCEPT !.fetch = "idle", !.saw = NoRef,
                                 !.codeRef = codeGen + 1]
  <2>1. codeGen + 1 \in CodeIds /\ codeBuf' # NoRef
    BY <1>4 DEF Inv2, TypeOK, CodeIds, NoRef
  <2>2. f \in Frame
    BY <1>1, <2>1 DEF Frame
  <2>3. stack' = [stack EXCEPT ![t][Len(stack[t])] = f]
    BY <1>4 DEF Top, f
  <2>4. CacheExact'
    BY <1>2, <1>4, <2>1 DEF CacheExact
  <2>5. /\ f.own = Top(t).own /\ f.state = "exec" /\ f.codeRef = codeBuf'
        /\ f.fetch = "idle" /\ f.seen = Top(t).seen
    BY <1>1, <1>2, <1>4 DEF Frame, f
  <2>. QED
    BY <1>1, <1>2, <1>3, <2>2, <2>3, <2>4, <2>5, TopStepInv2
<1>5. CASE /\ stack' = [stack EXCEPT ![t][Len(stack[t])] =
                           [@ EXCEPT !.fetch = "idle", !.saw = NoRef]]
           /\ UNCHANGED <<codeBuf, codeGen, codeLive>>
  <2> DEFINE f == [Top(t) EXCEPT !.fetch = "idle", !.saw = NoRef]
  <2>1. f \in Frame
    BY <1>1 DEF Frame
  <2>2. stack' = [stack EXCEPT ![t][Len(stack[t])] = f]
    BY <1>5 DEF Top, f
  <2>3. CacheExact'
    BY <1>5 DEF Inv2, CacheExact
  <2>4. /\ f.own = Top(t).own /\ f.state = "exec" /\ f.codeRef = NoRef
        /\ f.fetch = "idle" /\ f.seen = Top(t).seen
    BY <1>1, <1>2 DEF Frame, f
  <2>. QED
    BY <1>1, <1>2, <1>3, <2>1, <2>2, <2>3, <2>4, TopStepInv2
<1>. QED
  BY <1>4, <1>5 DEF GetCodeStore

\* The engine copies the code and drops its pointer; it was not inside
\* get_code.
LEMMA ConsumeCodeInv2 ==
    ASSUME Inv2, TypeOK', NEW t \in Threads, ConsumeCode(t)
    PROVE  Inv2'
<1> DEFINE f == [Top(t) EXCEPT !["codeRef"] = NoRef]
<1>1. Busy(t) /\ Top(t) \in Frame /\ Top(t).codeRef # NoRef
  BY TopFrame DEF Inv2, ConsumeCode
<1>2. /\ Top(t).fetch = "idle"
      /\ Top(t).seen # NoCtx => Top(t).seen.info = Top(t).own
  BY <1>1, TopInv2
<1>3. f \in Frame
  BY <1>1 DEF Frame
<1>4. stack' = [stack EXCEPT ![t][Len(stack[t])] = f]
  BY DEF ConsumeCode, SetTop, Top, f
<1>5. CacheExact' /\ ctx' = ctx /\ cbEnv' = cbEnv /\ EnvOfCallingThread'
  BY DEF ConsumeCode, CacheExact, Inv2, EnvOfCallingThread
<1>6. /\ f.own = Top(t).own /\ f.codeRef = NoRef /\ f.fetch = "idle"
      /\ f.seen = Top(t).seen
  BY <1>1, <1>2 DEF Frame, f
<1>. QED
  BY <1>1, <1>2, <1>3, <1>4, <1>5, <1>6, TopStepInv2

\* get_tx_context records ctx in the innermost run; ctx holds that run's
\* own context fields because no other run parsed a buffer since.
LEMMA GetTxContextInv2 ==
    ASSUME Inv2, TypeOK', NEW t \in Threads, GetTxContext(t)
    PROVE  Inv2'
<1> DEFINE f == [Top(t) EXCEPT !["seen"] = ctx]
<1>1. /\ Busy(t) /\ Top(t) \in Frame
      /\ Top(t).fetch = "idle" /\ Top(t).codeRef = NoRef
  BY TopFrame DEF Inv2, GetTxContext, EngineRunning
<1>2. Top(t).own = ctx.info /\ ctx \in TxCtx
  BY <1>1, TopInv2 DEF Inv2, TypeOK
<1>3. f \in Frame
  BY <1>1, <1>2 DEF Frame
<1>4. stack' = [stack EXCEPT ![t][Len(stack[t])] = f]
  BY DEF GetTxContext, SetTop, Top, f
<1>5. CacheExact' /\ ctx' = ctx /\ cbEnv' = cbEnv /\ EnvOfCallingThread'
  BY DEF GetTxContext, CacheExact, Inv2, EnvOfCallingThread
<1>6. /\ f.own = Top(t).own /\ f.codeRef = NoRef /\ f.fetch = "idle"
      /\ f.seen.info = f.own
  BY <1>1, <1>2 DEF Frame, f
<1>. QED
  BY <1>1, <1>3, <1>4, <1>5, <1>6, TopStepInv2

\* call parks the innermost run, which is not inside get_code and holds
\* no code pointer.
LEMMA CallInv2 ==
    ASSUME Inv2, TypeOK', NEW t \in Threads, Call(t)
    PROVE  Inv2'
<1> DEFINE f == [Top(t) EXCEPT !["state"] = "inCall"]
<1>1. /\ Busy(t) /\ Top(t) \in Frame
      /\ Top(t).fetch = "idle" /\ Top(t).codeRef = NoRef
  BY TopFrame DEF Inv2, Call, EngineRunning
<1>2. Top(t).seen # NoCtx => Top(t).seen.info = Top(t).own
  BY <1>1, TopInv2
<1>3. f \in Frame
  BY <1>1 DEF Frame
<1>4. stack' = [stack EXCEPT ![t][Len(stack[t])] = f]
  BY DEF Call, SetTop, Top, f
<1>5. CacheExact' /\ ctx' = ctx /\ cbEnv' = cbEnv /\ EnvOfCallingThread'
  BY <1>1, UpcallEnv DEF Call, CacheExact, Inv2
<1>6. /\ f.own = Top(t).own /\ f.codeRef = NoRef /\ f.fetch = "idle"
      /\ f.seen = Top(t).seen
  BY <1>1 DEF Frame, f
<1>. QED
  BY <1>1, <1>2, <1>3, <1>4, <1>5, <1>6, TopStepInv2

\* The reply to call resumes the innermost run, which was parked and so
\* holds no code pointer and is not inside get_code.
LEMMA CallReturnInv2 ==
    ASSUME Inv2, TypeOK', NEW t \in Threads, CallReturn(t)
    PROVE  Inv2'
<1> DEFINE f == [Top(t) EXCEPT !["state"] = "exec"]
<1>1. Busy(t) /\ Top(t) \in Frame /\ Top(t).state = "inCall"
  BY TopFrame DEF Inv2, CallReturn
<1>2. /\ Top(t).fetch = "idle" /\ Top(t).codeRef = NoRef
      /\ Top(t).seen # NoCtx => Top(t).seen.info = Top(t).own
  BY <1>1, TopInv2
<1>3. f \in Frame
  BY <1>1 DEF Frame
<1>4. stack' = [stack EXCEPT ![t][Len(stack[t])] = f]
  BY DEF CallReturn, SetTop, Top, f
<1>5. CacheExact' /\ ctx' = ctx /\ cbEnv' = cbEnv /\ EnvOfCallingThread'
  BY <1>1, UpcallEnv DEF CallReturn, CacheExact, Inv2
<1>6. /\ f.own = Top(t).own /\ f.codeRef = NoRef /\ f.fetch = "idle"
      /\ f.seen = Top(t).seen
  BY <1>1, <1>2 DEF Frame, f
<1>. QED
  BY <1>1, <1>2, <1>3, <1>4, <1>5, <1>6, TopStepInv2

\* The query callbacks only call Java, through the caller's env.
LEMMA QueryCallbackInv2 ==
    ASSUME Inv2, TypeOK', NEW t \in Threads, QueryCallback(t)
    PROVE  Inv2'
<1>1. HostUpcall(t)
  BY Zenon DEF QueryCallback, AccountExists, GetBalance, GetStorage,
               SetStorage, GetBlockHash, SelfDestruct, Log
<1>2. EnvOfCallingThread'
  BY <1>1, UpcallEnv DEF HostUpcall, EngineRunning
<1>. QED
  BY <1>1, <1>2 DEF HostUpcall, Inv2, FrameRefs, OneBusy, CtxOwn, CacheExact,
                    FetchCache, RefCache, TxInfoFaithful, CbEnvBusy, Busy, Top

\* init, create and destroy run only while no thread is inside the
\* bridge, so the env they store in cb_env belongs to no busy thread.
LEMMA EnterInv2 ==
    ASSUME Serialized, Inv2, TypeOK', NEW t \in Threads,
           JInit(t) \/ JCreate(t) \/ JDestroy(t)
    PROVE  Inv2'
<1>1. /\ \A u \in Threads : ~Busy(u)
      /\ UNCHANGED <<ctx, stack, codeBuf, codeLive, usedEnv>>
  BY DEF JInit, JCreate, JDestroy, MayEnter
<1>. QED
  BY <1>1 DEF Inv2, FrameRefs, OneBusy, CtxOwn, CacheExact, FetchCache,
              RefCache, TxInfoFaithful, CbEnvBusy, EnvOfCallingThread, Busy,
              Top

\* run pushes a run that is not inside get_code and holds no pointer,
\* whose context it parses into ctx.  At top level no other thread is
\* inside the bridge; nested, the Java host passes the running
\* transaction's context, which ctx holds, and the run below is parked.
LEMMA JRunInv2 ==
    ASSUME Serialized, Inv2, TypeOK', NEW t \in Threads, JRun(t)
    PROVE  Inv2'
<1>1. PICK c \in Ctxs, g \in GasPrices :
        /\ Busy(t) => c = Top(t).own /\ g = Top(t).gasPrice
        /\ cbEnv' = t
        /\ ctx' = ParseContext(c)
        /\ stack' = [stack EXCEPT ![t] = Append(@,
                       [own |-> c, gasPrice |-> g, state |-> "exec",
                        codeRef |-> NoRef, seen |-> NoCtx,
                        fetch |-> "idle", saw |-> NoRef])]
  BY DEF JRun
<1> DEFINE F == [own |-> c, gasPrice |-> g, state |-> "exec",
                 codeRef |-> NoRef, seen |-> NoCtx,
                 fetch |-> "idle", saw |-> NoRef]
<1> DEFINE L == Len(stack[t])
<1>2. stack[t] \in Seq(Frame) /\ L \in Nat /\ F \in Frame
  <2>1. F \in Frame
    BY DEF Frame, F
  <2>2. stack[t] \in Seq(Frame)
    BY DEF Inv2, TypeOK
  <2>. QED
    BY <2>1, <2>2 DEF L
<1>3. /\ Len(stack'[t]) = L + 1
      /\ stack'[t][L + 1] = F
      /\ \A i \in 1..L : stack'[t][i] = stack[t][i]
      /\ \A u \in Threads \ {t} : stack'[u] = stack[u]
  BY <1>1, <1>2, AppendProperties DEF Inv2, TypeOK
<1>4. \A u \in Threads \ {t} : stack[u] = << >>
  <2>1. CASE ~Busy(t)
    BY <2>1 DEF JRun, MayEnter, Busy
  <2>2. CASE Busy(t)
    BY <2>2, TopInv2
  <2>. QED
    BY <2>1, <2>2
<1>5. \A i \in 1..L :
         /\ stack[t][i].codeRef = NoRef /\ stack[t][i].fetch = "idle"
         /\ stack[t][i].own = c
  <2>1. CASE ~Busy(t)
    BY <1>2, <2>1, EmptySeq DEF Busy
  <2>2. CASE Busy(t)
    <3>1. Top(t).state = "inCall" /\ L \in 1..L
      BY <2>2, TopFrame DEF Inv2, JRun
    <3>2. Top(t).codeRef = NoRef /\ Top(t).fetch = "idle" /\ ctx.info = c
      BY <1>1, <2>2, <3>1, TopInv2
    <3>3. \A i \in 1..L - 1 :
             stack[t][i].codeRef = NoRef /\ stack[t][i].fetch = "idle"
      BY BelowTopIdle
    <3>4. \A i \in 1..L : stack[t][i].own = ctx.info
      BY DEF Inv2, CtxOwn
    <3>. QED
      BY <3>2, <3>3, <3>4 DEF Top
  <2>. QED
    BY <2>1, <2>2
<1>6. ctx'.info = c
  BY <1>1 DEF ParseContext
<1>7. ASSUME NEW u \in Threads, NEW i \in 1..Len(stack'[u])
      PROVE  /\ u = t
             /\ stack'[u][i].codeRef = NoRef /\ stack'[u][i].fetch = "idle"
             /\ stack'[u][i].own = ctx'.info
             /\ stack'[u][i].seen # NoCtx =>
                  stack'[u][i].seen.info = stack'[u][i].own
  <2>1. u = t /\ (i = L + 1 \/ i \in 1..L)
    BY <1>2, <1>3, <1>4
  <2>2. CASE i = L + 1
    BY <1>3, <1>6, <2>1, <2>2
  <2>3. CASE i \in 1..L
    BY <1>3, <1>5, <1>6, <2>1, <2>3 DEF Inv2, TxInfoFaithful
  <2>. QED
    BY <2>1, <2>2, <2>3
<1>8. \A u \in Threads : Busy(u)' <=> u = t
  BY <1>2, <1>3, <1>4 DEF Busy
<1>9. Top(t)' = F
  BY <1>3 DEF Top
<1>10. FrameRefs' /\ CtxOwn' /\ TxInfoFaithful'
  BY <1>7 DEF FrameRefs, CtxOwn, TxInfoFaithful
<1>11. OneBusy' /\ CbEnvBusy'
  BY <1>1, <1>8 DEF OneBusy, CbEnvBusy
<1>12. FetchCache' /\ RefCache'
  BY <1>8, <1>9 DEF FetchCache, RefCache
<1>13. CacheExact' /\ EnvOfCallingThread'
  BY DEF JRun, Inv2, CacheExact, EnvOfCallingThread
<1>. QED
  BY <1>10, <1>11, <1>12, <1>13 DEF Inv2

\* When the engine of the innermost run returns, run pops it; the run
\* below was parked in call.
LEMMA RunReturnInv2 ==
    ASSUME Inv2, TypeOK', NEW t \in Threads, RunReturn(t)
    PROVE  Inv2'
<1> DEFINE L == Len(stack[t])
<1>1. /\ Busy(t) /\ stack[t] \in Seq(Frame) /\ L \in Nat \ {0}
      /\ \A u \in Threads \ {t} : stack[u] = << >>
      /\ UNCHANGED <<ctx, cbEnv, codeBuf, codeLive, usedEnv>>
  BY TopFrame, TopInv2 DEF Inv2, RunReturn, EngineRunning
<1>2. /\ Len(stack'[t]) = L - 1
      /\ \A i \in 1..L - 1 : stack'[t][i] = stack[t][i]
      /\ \A u \in Threads \ {t} : stack'[u] = stack[u]
  <2>1. stack'[t] = SubSeq(stack[t], 1, L - 1)
    BY <1>1 DEF RunReturn, Inv2, TypeOK
  <2>2. \A u \in Threads \ {t} : stack'[u] = stack[u]
    BY DEF RunReturn, Inv2, TypeOK
  <2>. QED
    BY <1>1, <2>1, <2>2, SubSeqProperties
<1>3. ASSUME NEW u \in Threads, NEW i \in 1..Len(stack'[u])
      PROVE  /\ u = t /\ i \in 1..L - 1
             /\ stack'[u][i] = stack[u][i]
             /\ stack'[u][i].codeRef = NoRef /\ stack'[u][i].fetch = "idle"
  BY <1>1, <1>2, BelowTopIdle
<1>4. \A u \in Threads : Busy(u)' => u = t /\ Len(stack'[t]) \in 1..L - 1
  BY <1>1, <1>2 DEF Busy
<1>5. FrameRefs'
  BY <1>3 DEF FrameRefs
<1>6. CtxOwn' /\ TxInfoFaithful'
  <2>1. \A u \in Threads : \A i \in 1..Len(stack'[u]) :
           /\ i \in 1..Len(stack[u])
           /\ stack'[u][i] = stack[u][i]
    BY <1>1, <1>3 DEF L
  <2>. QED
    BY <1>1, <2>1 DEF Inv2, CtxOwn, TxInfoFaithful
<1>7. OneBusy' /\ CbEnvBusy'
  BY <1>1, <1>4, TopInv2 DEF OneBusy, CbEnvBusy
<1>8. FetchCache' /\ RefCache'
  BY <1>3, <1>4 DEF FetchCache, RefCache, Top
<1>9. CacheExact' /\ EnvOfCallingThread'
  BY <1>1 DEF Inv2, CacheExact, EnvOfCallingThread
<1>. QED
  BY <1>5, <1>6, <1>7, <1>8, <1>9 DEF Inv2

\* Inv2 holds initially ...
LEMMA Inv2Init == Init => Inv2
<1>1. SUFFICES ASSUME Init PROVE Inv2
  OBVIOUS
<1>2. TypeOK
  BY <1>1, TypeInit
<1>3. \A u \in Threads : stack[u] = << >> /\ Len(stack[u]) = 0
  BY <1>1 DEF Init
<1>. QED
  BY <1>1, <1>2, <1>3 DEF Init, Inv2, FrameRefs, OneBusy, CtxOwn, CacheExact,
                          FetchCache, RefCache, TxInfoFaithful, CbEnvBusy,
                          EnvOfCallingThread, Busy

\* ... and, with a serialising host, every step of the bridge keeps it.
LEMMA Inv2Step ==
    ASSUME Serialized
    PROVE  Inv2 /\ [Next]_vars => Inv2'
<1>1. SUFFICES ASSUME Inv2, [Next]_vars PROVE Inv2'
  OBVIOUS
<1>2. TypeOK'
  BY <1>1, TypeStep DEF Inv2
<1>3. CASE UNCHANGED vars
  <2>1. UNCHANGED <<cbEnv, ctx, stack, codeBuf, codeLive, usedEnv>>
    BY <1>3 DEF vars
  <2>2. FrameRefs' /\ OneBusy' /\ CtxOwn' /\ TxInfoFaithful'
    BY <1>1, <2>1 DEF Inv2, FrameRefs, OneBusy, CtxOwn, TxInfoFaithful, Busy
  <2>3. CacheExact' /\ FetchCache' /\ RefCache'
    BY <1>1, <2>1 DEF Inv2, CacheExact, FetchCache, RefCache, Busy, Top
  <2>4. CbEnvBusy' /\ EnvOfCallingThread'
    BY <1>1, <2>1 DEF Inv2, CbEnvBusy, EnvOfCallingThread, Busy
  <2>. QED
    BY <1>2, <2>2, <2>3, <2>4 DEF Inv2
<1>. QED
  BY <1>1, <1>2, <1>3, EnterInv2, JRunInv2, RunReturnInv2, QueryCallbackInv2,
     ConsumeCodeInv2, GetCodeReadInv2, GetCodeFreeInv2, GetCodeStoreInv2,
     GetTxContextInv2, CallInv2, CallReturnInv2 DEF Next

\* With a serialising host every reachable state satisfies Inv2.
LEMMA SerializedInv2 ==
    ASSUME Serialized
    PROVE  Spec => []Inv2
BY Inv2Init, Inv2Step, PTL DEF Spec

\* With a serialising Java host, get_code's one-slot cache leaks nothing:
\* every buffer get_code allocated and did not free is the one code_buf
\* points to, which the next get_code frees.
THEOREM CacheSingleSlot ==
    ASSUME Serialized
    PROVE  Spec => []CodeCacheSingleSlot
<1>1. Inv2 => CodeCacheSingleSlot
  BY DEF Inv2, CacheExact, CodeCacheSingleSlot
<1>. QED
  BY <1>1, SerializedInv2, PTL

\* With a serialising Java host, the buffer get_code frees at line 108 is
\* live: no other get_code freed the code_buf value this one loaded.
THEOREM SerializedFreeOfLive ==
    ASSUME Serialized
    PROVE  Spec => []FreeOfLive
<1>1. Inv2 => FreeOfLive
  BY DEF Inv2, CacheExact, FetchCache, FreeOfLive
<1>. QED
  BY <1>1, SerializedInv2, PTL

\* With a serialising Java host, the code pointer get_code hands a run is
\* live until the engine copies it: no get_code, of a nested run or of
\* another thread, frees it in between.
THEOREM SerializedCodeRefLive ==
    ASSUME Serialized
    PROVE  Spec => []CodeRefLive
<1>1. Inv2 => CodeRefLive
  BY DEF Inv2, CacheExact, RefCache, CodeRefLive
<1>. QED
  BY <1>1, SerializedInv2, PTL

\* With a serialising Java host, get_tx_context returns to every run,
\* nested ones included, the origin, coinbase and block fields of that
\* run's own context buffer.
THEOREM SerializedTxInfo ==
    ASSUME Serialized
    PROVE  Spec => []TxInfoFaithful
<1>1. Inv2 => TxInfoFaithful
  BY DEF Inv2
<1>. QED
  BY <1>1, SerializedInv2, PTL

\* With a serialising Java host, every upcall a thread makes into Java
\* goes through that thread's own JNIEnv, although every entry point
\* stores its env into the process-wide cb_env.
THEOREM SerializedEnv ==
    ASSUME Serialized
    PROVE  Spec => []EnvOfCallingThread
<1>1. Inv2 => EnvOfCallingThread
  BY DEF Inv2
<1>. QED
  BY <1>1, SerializedInv2, PTL

=============================================================================
