---------------------------- MODULE FastVMBridge ----------------------------
(***************************************************************************)
(* The native bridge of src/jni/org_aion_fastvm_FastVM.cpp.                *)
(*                                                                         *)
(* Java threads enter the bridge through init, create, run and destroy.   *)
(* A run parses a context buffer into the process-wide transaction        *)
(* context `ctx`, hands the code to the engine and encodes its result.    *)
(* While it executes, the engine calls back into the bridge (the ten       *)
(* host callbacks), and every callback talks to Java through the          *)
(* process-wide JNIEnv pointer `cb_env`.  The `call` callback hands a     *)
(* message to the Java host, which may re-enter run on the same thread:   *)
(* runs nest.  get_code keeps the code it fetched in a one-slot static    *)
(* buffer `code_buf` that the next get_code frees; it frees the old       *)
(* buffer, calls Java and stores the new one in three steps, between      *)
(* which other threads run.                                               *)
(*                                                                         *)
(* The engine itself is external: within a run it may issue any callback  *)
(* in any order and finally return; those choices are the engine's.  The  *)
(* Java host is external too: it answers a `call` either directly or by   *)
(* a nested run, passing the transaction context of the running          *)
(* transaction, and the constant Serialized says whether it serialises    *)
(* the bridge's entry points under one lock.                              *)
(***************************************************************************)
EXTENDS Naturals, Sequences

CONSTANTS
    Threads,      \* Java threads that call into the bridge
    Ctxs,         \* transaction/block context fields of a context buffer
    GasPrices,    \* gas price field of a context buffer
    NoEnv,        \* cb_env before any entry point ran (a null JNIEnv*)
    NoCtx,        \* the zero-initialised global evm_tx_context
    MaxDepth,     \* bound on nested runs on one thread
    MaxCodeFetch, \* bound on get_code allocations (names code buffers)
    Serialized    \* TRUE: the Java host calls the bridge under one lock

ASSUME BridgeAssumption ==
    /\ Threads # {}
    /\ NoEnv \notin Threads
    /\ NoCtx \notin Ctxs
    /\ GasPrices \subseteq Nat
    /\ MaxDepth \in Nat \ {0}
    /\ MaxCodeFetch \in Nat
    /\ Serialized \in BOOLEAN

\* A code pointer handed to the engine is named by the number of the
\* allocation that produced it; NoRef: the engine holds none.
NoRef == 0
CodeIds == 1..MaxCodeFetch

\* The transaction context as the bridge stores it: the fields parse_context
\* copies (info) and the gas price, which it never copies.
TxCtx == [info : Ctxs \cup {NoCtx}, gasPrice : GasPrices \cup {0}]

\* The null context is no context the bridge stores.
ASSUME NoCtxAssumption == NoCtx \notin TxCtx

\* One native run on a thread's stack.  own/gasPrice: what its context
\* buffer holds; state: the engine executes ("exec") or waits in the call
\* callback for the Java host ("inCall"); codeRef: code pointer from
\* get_code not yet copied; seen: what get_tx_context returned to it;
\* fetch: where the engine's get_code is ("idle": not in get_code, "read":
\* it loaded code_buf, "freed": it freed that buffer and calls Java);
\* saw: the code_buf value it loaded.
Frame == [own : Ctxs, gasPrice : GasPrices, state : {"exec", "inCall"},
          codeRef : {NoRef} \cup CodeIds, seen : TxCtx \cup {NoCtx},
          fetch : {"idle", "read", "freed"}, saw : {NoRef} \cup CodeIds]

VARIABLES
    cbEnv,        \* JNIEnv *cb_env
    initialized,  \* cb_cls and the jmethodIDs resolved by init
    ctx,          \* struct evm_tx_context ctx
    instance,     \* instance[t]: the evm_instance thread t created is live
    stack,        \* stack[t]: the runs in flight on thread t, innermost last
    codeBuf,      \* static code_buf: the buffer it points to, or NoRef
    codeGen,      \* number of code buffers get_code allocated so far
    codeLive,     \* the code buffers allocated and not yet freed
    usedEnv       \* usedEnv[t]: the JNIEnv thread t last called Java with

vars == <<cbEnv, initialized, ctx, instance, stack, codeBuf, codeGen,
          codeLive, usedEnv>>

Top(t) == stack[t][Len(stack[t])]
Busy(t) == stack[t] # <<>>

\* The state of the innermost run of t after one field is updated.
SetTop(t, f, v) ==
    [stack EXCEPT ![t][Len(stack[t])] = [@ EXCEPT ![f] = v]]

\* An entry point may start on t: with a serialising host, only when no
\* other thread is inside the bridge.
MayEnter(t) == Serialized => \A u \in Threads \ {t} : ~Busy(u)

\* The engine of t is executing (not waiting in `call`, not inside
\* get_code, not in the middle of copying code it fetched): it may issue
\* its next callback or return.
EngineRunning(t) ==
    /\ Busy(t)
    /\ Top(t).state = "exec"
    /\ Top(t).fetch = "idle"
    /\ Top(t).codeRef = NoRef

-----------------------------------------------------------------------------

Init ==
    /\ cbEnv = NoEnv
    /\ initialized = FALSE
    /\ ctx = [info |-> NoCtx, gasPrice |-> 0]
    /\ instance = [t \in Threads |-> FALSE]
    /\ stack = [t \in Threads |-> <<>>]
    /\ codeBuf = NoRef
    /\ codeGen = 0
    /\ codeLive = {}
    /\ usedEnv = [t \in Threads |-> NoEnv]

\* Java_org_aion_fastvm_FastVM_init: store the env, pin the callback class
\* and its method ids.  The Java class calls it once.
JInit(t) ==
    /\ ~initialized
    /\ MayEnter(t)
    /\ ~Busy(t)
    /\ cbEnv' = t
    /\ initialized' = TRUE
    /\ UNCHANGED <<ctx, instance, stack, codeBuf, codeGen, codeLive, usedEnv>>

\* Java_org_aion_fastvm_FastVM_create: store the env, create an instance.
JCreate(t) ==
    /\ initialized
    /\ ~instance[t]
    /\ ~Busy(t)
    /\ MayEnter(t)
    /\ cbEnv' = t
    /\ instance' = [instance EXCEPT ![t] = TRUE]
    /\ UNCHANGED <<initialized, ctx, stack, codeBuf, codeGen, codeLive, usedEnv>>

\* Java_org_aion_fastvm_FastVM_destroy: store the env, destroy the instance.
JDestroy(t) ==
    /\ instance[t]
    /\ ~Busy(t)
    /\ MayEnter(t)
    /\ cbEnv' = t
    /\ instance' = [instance EXCEPT ![t] = FALSE]
    /\ UNCHANGED <<initialized, ctx, stack, codeBuf, codeGen, codeLive, usedEnv>>

\* Mutant: the context is parsed into a local copy, not the global ctx.
ParseContextLocal(c) == [info |-> ctx.info, gasPrice |-> ctx.gasPrice]

\* parse_context: every field of the buffer but the gas price is copied
\* into the global ctx; the gas price is skipped (offset += 16).
ParseContext(c) == [info |-> c, gasPrice |-> ctx.gasPrice]

\* Mutant: run does not store its env in cb_env.
JRunKeepEnv(t) ==
    /\ instance[t]
    /\ \/ ~Busy(t) /\ MayEnter(t)
       \/ Busy(t) /\ Top(t).state = "inCall" /\ Len(stack[t]) < MaxDepth
    /\ \E c \in Ctxs, g \in GasPrices :
          /\ Busy(t) => c = Top(t).own /\ g = Top(t).gasPrice
          /\ ctx' = ParseContext(c)
          /\ stack' = [stack EXCEPT ![t] = Append(@,
                         [own |-> c, gasPrice |-> g, state |-> "exec",
                          codeRef |-> NoRef, seen |-> NoCtx,
                          fetch |-> "idle", saw |-> NoRef])]
    /\ UNCHANGED <<cbEnv, initialized, instance, codeBuf, codeGen, codeLive,
                   usedEnv>>

\* Java_org_aion_fastvm_FastVM_run up to the engine's execute: store the
\* env, parse the context buffer into the global ctx, push the run.  At top
\* level the Java host passes any context; nested, inside a `call` it is
\* answering, it passes the running transaction's context.
JRun(t) ==
    /\ instance[t]
    /\ \/ /\ ~Busy(t)
          /\ MayEnter(t)
       \/ /\ Busy(t)
          /\ Top(t).state = "inCall"
          /\ Len(stack[t]) < MaxDepth
    /\ \E c \in Ctxs, g \in GasPrices :
          /\ Busy(t) => c = Top(t).own /\ g = Top(t).gasPrice
          /\ cbEnv' = t
          /\ ctx' = ParseContext(c)
          /\ stack' = [stack EXCEPT ![t] = Append(@,
                         [own |-> c, gasPrice |-> g, state |-> "exec",
                          codeRef |-> NoRef, seen |-> NoCtx,
                          fetch |-> "idle", saw |-> NoRef])]
    /\ UNCHANGED <<initialized, instance, codeBuf, codeGen, codeLive, usedEnv>>

\* The rest of run once execute returned: encode the result, release the
\* engine's result and the pinned arrays, return to Java.  If the run was
\* nested, the Java host now holds the answer to the outer `call`.
RunReturn(t) ==
    /\ EngineRunning(t)
    /\ stack' = [stack EXCEPT ![t] = SubSeq(@, 1, Len(@) - 1)]
    /\ UNCHANGED <<cbEnv, initialized, ctx, instance, codeBuf, codeGen,
                   codeLive, usedEnv>>

\* The effect on the bridge of a callback that marshals its arguments and
\* calls one static Java method through cb_env, and does nothing else to
\* the bridge's state.
HostUpcall(t) ==
    /\ EngineRunning(t)
    /\ usedEnv' = [usedEnv EXCEPT ![t] = cbEnv]
    /\ UNCHANGED <<cbEnv, initialized, ctx, instance, stack, codeBuf, codeGen,
                   codeLive>>

\* account_exists: Callback.exists(address) through cb_env.
AccountExists(t) == HostUpcall(t)

\* get_balance: Callback.getBalance(address), copied into the result word.
GetBalance(t) == HostUpcall(t)

\* get_storage: Callback.getStorage(address, key).
GetStorage(t) == HostUpcall(t)

\* set_storage: Callback.putStorage(address, key, value).
SetStorage(t) == HostUpcall(t)

\* get_block_hash: Callback.getBlockHash(number).
GetBlockHash(t) == HostUpcall(t)

\* selfdestruct: Callback.selfDestruct(address, beneficiary).
SelfDestruct(t) == HostUpcall(t)

\* log: Callback.log(address, topics, data).
Log(t) == HostUpcall(t)

QueryCallback(t) ==
    \/ AccountExists(t) \/ GetBalance(t) \/ GetStorage(t) \/ SetStorage(t)
    \/ GetBlockHash(t) \/ SelfDestruct(t) \/ Log(t)

\* get_code, lines 102-107: marshal the address through cb_env and load
\* the static code_buf (the test and the free read it without a lock).
GetCodeRead(t) ==
    /\ EngineRunning(t)
    /\ usedEnv' = [usedEnv EXCEPT ![t] = cbEnv]
    /\ stack' = [stack EXCEPT ![t][Len(stack[t])] =
                    [@ EXCEPT !.fetch = "read", !.saw = codeBuf]]
    /\ UNCHANGED <<cbEnv, initialized, ctx, instance, codeBuf, codeGen, codeLive>>

\* Mutant: code_buf is not reset after the free.
GetCodeFreeNoReset(t) ==
    /\ Busy(t)
    /\ Top(t).fetch = "read"
    /\ codeLive' = codeLive \ {Top(t).saw}
    /\ stack' = SetTop(t, "fetch", "freed")
    /\ UNCHANGED <<cbEnv, initialized, ctx, instance, codeBuf, codeGen, usedEnv>>

\* Mutant: the buffer is forgotten, not freed.
GetCodeFreeNoFree(t) ==
    /\ Busy(t)
    /\ Top(t).fetch = "read"
    /\ codeBuf' = IF Top(t).saw # NoRef THEN NoRef ELSE codeBuf
    /\ stack' = SetTop(t, "fetch", "freed")
    /\ UNCHANGED <<cbEnv, initialized, ctx, instance, codeGen, codeLive, usedEnv>>

\* get_code, lines 107-110: if the loaded code_buf is non-null, free it
\* and null code_buf.
GetCodeFree(t) ==
    /\ Busy(t)
    /\ Top(t).fetch = "read"
    /\ codeBuf' = IF Top(t).saw # NoRef THEN NoRef ELSE codeBuf
    /\ codeLive' = codeLive \ {Top(t).saw}
    /\ stack' = SetTop(t, "fetch", "freed")
    /\ UNCHANGED <<cbEnv, initialized, ctx, instance, codeGen, usedEnv>>

\* Mutant: the free of the cached buffer comes after the new buffer is
\* stored in code_buf, so it frees the buffer just handed to the engine.
GetCodeStoreFreeLate(t) ==
    /\ Busy(t)
    /\ Top(t).fetch = "freed"
    /\ usedEnv' = [usedEnv EXCEPT ![t] = cbEnv]
    /\ \/ /\ codeGen < MaxCodeFetch
          /\ codeBuf' = codeGen + 1
          /\ codeGen' = codeGen + 1
          /\ codeLive' = codeLive
          /\ stack' = [stack EXCEPT ![t][Len(stack[t])] =
                          [@ EXCEPT !.fetch = "idle", !.saw = NoRef,
                                    !.codeRef = codeGen + 1]]
       \/ /\ stack' = [stack EXCEPT ![t][Len(stack[t])] =
                          [@ EXCEPT !.fetch = "idle", !.saw = NoRef]]
          /\ UNCHANGED <<codeBuf, codeGen, codeLive>>
    /\ UNCHANGED <<cbEnv, initialized, ctx, instance>>

\* get_code, lines 112-121: call Callback.getCode through cb_env; when the
\* engine asked for the code (result_code non-null) copy it into a new
\* buffer, store it in code_buf and hand the engine a pointer to it.
GetCodeStore(t) ==
    /\ Busy(t)
    /\ Top(t).fetch = "freed"
    /\ usedEnv' = [usedEnv EXCEPT ![t] = cbEnv]
    /\ \/ /\ codeGen < MaxCodeFetch
          /\ codeBuf' = codeGen + 1
          /\ codeGen' = codeGen + 1
          /\ codeLive' = codeLive \cup {codeGen + 1}
          /\ stack' = [stack EXCEPT ![t][Len(stack[t])] =
                          [@ EXCEPT !.fetch = "idle", !.saw = NoRef,
                                    !.codeRef = codeGen + 1]]
       \/ /\ stack' = [stack EXCEPT ![t][Len(stack[t])] =
                          [@ EXCEPT !.fetch = "idle", !.saw = NoRef]]
          /\ UNCHANGED <<codeBuf, codeGen, codeLive>>
    /\ UNCHANGED <<cbEnv, initialized, ctx, instance>>

\* The engine copies the code get_code handed it (EXTCODECOPY) and drops
\* the pointer.
ConsumeCode(t) ==
    /\ Busy(t)
    /\ Top(t).codeRef # NoRef
    /\ stack' = SetTop(t, "codeRef", NoRef)
    /\ UNCHANGED <<cbEnv, initialized, ctx, instance, codeBuf, codeGen,
                   codeLive, usedEnv>>

\* get_tx_context: copy the global ctx to the engine.
GetTxContext(t) ==
    /\ EngineRunning(t)
    /\ stack' = SetTop(t, "seen", ctx)
    /\ UNCHANGED <<cbEnv, initialized, ctx, instance, codeBuf, codeGen,
                   codeLive, usedEnv>>

\* call, first half: encode the message and call the Java host's call
\* through cb_env; the engine waits for the reply.
Call(t) ==
    /\ EngineRunning(t)
    /\ usedEnv' = [usedEnv EXCEPT ![t] = cbEnv]
    /\ stack' = SetTop(t, "state", "inCall")
    /\ UNCHANGED <<cbEnv, initialized, ctx, instance, codeBuf, codeGen, codeLive>>

\* call, second half: the Java host returned the encoded result (directly
\* or after a nested run); read it through cb_env and parse it.
CallReturn(t) ==
    /\ Busy(t)
    /\ Top(t).state = "inCall"
    /\ usedEnv' = [usedEnv EXCEPT ![t] = cbEnv]
    /\ stack' = SetTop(t, "state", "exec")
    /\ UNCHANGED <<cbEnv, initialized, ctx, instance, codeBuf, codeGen, codeLive>>

Next ==
    \E t \in Threads :
        \/ JInit(t) \/ JCreate(t) \/ JDestroy(t)
        \/ JRun(t) \/ RunReturn(t)
        \/ QueryCallback(t) \/ ConsumeCode(t)
        \/ GetCodeRead(t) \/ GetCodeFree(t) \/ GetCodeStore(t)
        \/ GetTxContext(t) \/ Call(t) \/ CallReturn(t)

Spec == Init /\ [][Next]_vars

-----------------------------------------------------------------------------

TypeOK ==
    /\ cbEnv \in Threads \cup {NoEnv}
    /\ initialized \in BOOLEAN
    /\ ctx \in TxCtx
    /\ instance \in [Threads -> BOOLEAN]
    /\ stack \in [Threads -> Seq(Frame)]
    /\ codeBuf \in {NoRef} \cup CodeIds
    /\ codeGen \in 0..MaxCodeFetch
    /\ codeLive \subseteq CodeIds
    /\ usedEnv \in [Threads -> Threads \cup {NoEnv}]

\* Every upcall a thread makes into Java (a host callback of get_code,
\* call, the other callbacks) goes through that thread's own JNIEnv: the
\* comment at cb_env says it is "updated every JNI call, as it's
\* thread-specific", and a JNIEnv must not be used from another thread.
EnvOfCallingThread ==
    \A t \in Threads : usedEnv[t] \in {t, NoEnv}

\* The code pointer get_code handed the engine still points to a live
\* buffer when the engine copies from it: no later get_code (of a nested
\* run or of another thread) freed it in between.
CodeRefLive ==
    \A t \in Threads : Busy(t) /\ Top(t).codeRef # NoRef =>
        Top(t).codeRef \in codeLive

\* get_code frees only live buffers: the code_buf value a get_code loaded
\* and is about to free was not freed by an earlier get_code, of this
\* thread or another (free at line 108 on a freed pointer is a double
\* free).
FreeOfLive ==
    \A t \in Threads : Busy(t) /\ Top(t).fetch = "read" /\ Top(t).saw # NoRef =>
        Top(t).saw \in codeLive

\* get_code's one-slot cache leaks nothing: however many runs, nested or
\* not, fetched code, every allocated code buffer is the one code_buf
\* points to, which the next get_code frees.
CodeCacheSingleSlot ==
    codeLive \subseteq {codeBuf}

\* The origin, coinbase and block fields get_tx_context returns to a run
\* are those of that run's own context buffer, although nested runs parse
\* their own buffers into the same global ctx.
TxInfoFaithful ==
    \A t \in Threads : \A i \in 1..Len(stack[t]) :
        stack[t][i].seen # NoCtx => stack[t][i].seen.info = stack[t][i].own
=============================================================================
