# Formal models of aion_fastvm

TLA+ specifications, TLC configurations and TLAPS proofs for the parts of
this repository whose behaviour can be checked: the JNI bridge between the
Java kernel and the native engine (`src/jni/org_aion_fastvm_FastVM.cpp`),
the conformance suite and its mock host (`src/fastvm/tests/main.cpp`)
run against the engine's specified behaviour, the
global context (`src/solidity/libsolidity/analysis/GlobalContext.cpp`),
and the storage layout, conversion and operator typing rules of the type
system (`src/solidity/libsolidity/ast/Types.cpp`).

Run everything from this directory:

    tlasany FastVMBridge.tla
    tlc -workers 2 -config BridgeSerialized.cfg MCFastVMBridge
    tlapm FastVMBridgeProofs.tla
    tlc -workers 2 -config StoragePacking.cfg MCTypeStorage
    tlapm TypeStorageProofs.tla
    tlc -workers 2 -config SuiteFileOrder.cfg MCSuite
    tlapm SuiteProofs.tla
    tlc -workers 2 -config ContextMemo.cfg MCGlobalContext
    tlc -workers 2 -config CodecRoundTrip.cfg MCBridgeCodec
    tlapm GlobalContextProofs.tla
    tlc -workers 2 -config ScalarRules.cfg MCScalarTypes
    tlapm ScalarTypesProofs.tla
    tlapm BridgeCodecProofs.tla

## 1. The system

| Part | Source | State | Operations |
|---|---|---|---|
| Native bridge | `src/jni/org_aion_fastvm_FastVM.cpp` | `cb_env` (JNIEnv of the last entry point), `cb_cls` and nine method ids (set by init), the global `evm_tx_context ctx`, the static `code_buf` of `get_code` | entry points `init`, `create`, `run`, `destroy`; callbacks `account_exists`, `get_balance`, `get_code`, `get_storage`, `set_storage`, `get_tx_context`, `get_block_hash`, `selfdestruct`, `log`, `call`; codecs `parse_context`, `encode_message`, `parse_result`, `encode_result`, `read_int`/`read_long`/`write_int`/`write_long` |
| Host callback contract | `evm.h` (external) as used by both hosts | none | the ten callbacks, synchronous and re-entrant through `call` |
| Execution engine | evmjit (external, not in this repository; modelled from the specification's section 4.2) | a call frame: pc, stack of 16-byte words, memory and its high-water mark, gas, last output size, status | `create`, `execute`, `destroy`; the opcode set; issues callbacks while executing |
| Conformance suite and mock host | `src/fastvm/tests/main.cpp` | `storage[2^24]`, `log_topics[8]`, `log_topics_count`, `log_data`, `call_msg`, self-destruct globals | the ten mock callbacks, `setup_message`, `release_result`, 157 tests run by googletest in one process |
| Global context | `GlobalContext.cpp` | `m_currentContract`, memo maps `m_thisPointer`, `m_superPointer` | `setCurrentContract`, `currentThis`, `currentSuper`, `declarations` |
| Type system | `Types.cpp` | memoised `StorageOffsets` per member list | `computeOffsets`, storage sizes and bytes per type, conversions, operator typing |
| Keccak-256 | external | none | hash of the code in `run` |

How they interact: the Java kernel calls `run` with the code and a context
buffer; the bridge parses the buffer into a message and into the global
`ctx`, and calls the engine's `execute`. While executing, the engine calls the
bridge's callbacks, and each of them calls a static Java method through
`cb_env`. The `call` callback hands an encoded message to Java, which may run
the callee on the same thread through a nested `run`: runs nest, and all of
them share `cb_env`, `ctx` and `code_buf`. The conformance suite drives the
engine directly with its own mock callbacks. The front-end parts are pure
analysis code used before any bytecode exists.

Behaviours that make the bridge hard to test, all reached by the model:
two Java threads inside the bridge at once (nothing in the bridge locks);
a nested run between a callback's store and its use of global state; a
`get_code` (nested or of another thread) freeing the buffer the engine has
not yet copied; two `get_code`s between one's load of `code_buf` and its
reset (a double free) or between one's free and its store (a leak);
`get_code` asked only for the size (`result_code` null).

## 2. Modules

### FastVMBridge (native bridge, host callbacks, engine as environment)

State (`VARIABLES`): `cbEnv` is `cb_env` (a thread, or `NoEnv` for the
initial null); `initialized` is whether `init` resolved `cb_cls` and the
method ids; `ctx` is the global transaction context, abstracted to the
fields `parse_context` copies (`info`: origin, coinbase, block fields) and
the gas price it never copies; `instance[t]` whether thread `t` holds a live
engine instance; `stack[t]` the runs in flight on `t`, innermost last, each
a record of its own context buffer (`own`, `gasPrice`), whether its engine
executes or waits in `call` (`state`), the code pointer `get_code` handed it
and that it has not copied yet (`codeRef`), what `get_tx_context`
returned to it (`seen`), and where its engine's `get_code` is (`fetch`:
idle, loaded `code_buf` into `saw`, or freed it and calling Java);
`codeBuf` the buffer `code_buf` points to (buffers are numbered by
allocation, `NoRef` is null), `codeGen` the number of allocations so far,
`codeLive` the buffers `get_code` allocated and has not freed; `usedEnv[t]` the JNIEnv `t` last
called Java through (the observation the env property needs).

Actions, one per handler: `JInit`, `JCreate`, `JDestroy` (the entry points
other than run); `JRun` (run up to `execute`: store the env, parse the
context into `ctx`, push the run; nested runs happen only inside a `call`
the thread is waiting on, with the running transaction's context);
`RunReturn` (the rest of run after `execute`); `AccountExists`,
`GetBalance`, `GetStorage`, `SetStorage`, `GetBlockHash`, `SelfDestruct`,
`Log` (each marshals and calls Java through `cb_env`; `HostUpcall` is their
common effect); `get_code` in the three steps other threads can
run between: `GetCodeRead` (marshal the address and load `code_buf`, lines
102-107), `GetCodeFree` (free the loaded pointer if it is non-null and
null `code_buf`, 107-110) and `GetCodeStore` (call Java, then either
allocate, store in `code_buf` and hand out a new buffer or, when
`result_code` is null, store nothing, 112-121); `GetTxContext` (copy `ctx`); `Call` and
`CallReturn` (the two halves of `call`, around the Java call that may nest a
run). `ConsumeCode` is the engine copying the code it was handed
(EXTCODECOPY); `EngineRunning` and `MayEnter` are the engine's and the Java
host's side and are modelled from the specification (`spec_modelled`).

The Java host is a parameter: `Serialized = TRUE` means it calls the bridge
under one lock (a thread may enter only when no other thread is inside the
bridge); `FALSE` means any interleaving of threads.

Properties (all in `FastVMBridge.tla`):

* `TypeOK` (proved, not a run's property: no plausible slip in the code
  makes a state ill-typed).
* `EnvOfCallingThread`: every upcall of a thread goes through that thread's
  own JNIEnv.
* `CodeRefLive`: the code pointer a run holds is the live `code_buf`.
* `CodeCacheSingleSlot`: every live code buffer is the one `code_buf`
  points to (nothing leaks).
* `FreeOfLive`: the pointer a `get_code` loaded and is about to free is
  live (no double free).
* `TxInfoFaithful`: `get_tx_context` returns to every run, nested ones
  included, the context fields of that run's own buffer.

`parse_context` skips the gas price (line 309), so `ctx` keeps the previous
one; the model does the same, and no property restates that line (it is a
hazard in `PROJECT.json`, visible by reading `ParseContext`).

`MCFastVMBridge.tla` gives the bounds: `MaxDepth = 2` nested runs per
thread, `MaxCodeFetch = 3` code fetches, gas prices `{0, 7}`.

### BridgeCodec (native bridge: the byte layouts)

The codecs of the bridge as operators over byte sequences: a Java buffer
holds signed jbytes, the engine's fields are uint8. `U8` is `b & 0xff`,
`S8` the store of an unsigned byte into a jbyte, `ToSigned`/`ToUnsigned`
the C conversions between a signed field and the unsigned type
`read_long`/`write_long` move. `ReadUInt` is the loop of `read_int` and
`read_long` (shift, mask, add, in the n-byte type), `WriteUInt` the loop of
`write_int`/`write_long`, and `EncodeMessage`, `EncodeResult`,
`ParseResult`, `ParseContext` the four layouts with their offsets. The
Java side is not in the repository: `HostDecode` (decoding a message) and
`HostContext` (building a context buffer) follow the specification's
layouts, with a big-endian value defined as the sum of its bytes' weights
(`BigEndian`), independently of the code's loops.

The state machine takes one value through one encoder and the matching
decoder: `CallEncode` then `HostDecodeMessage`; `RunEncode` then
`CallParseResult` (the host returns a nested run's encoded result as the
reply of `call`, the same layout in both directions); `HostBuildContext`
then `RunParseContext`. A pipeline stops when its value is decoded, so the
run does not check deadlock.

Properties: `MessageRoundTrip` (the specification's property 15),
`ResultRoundTrip`, and `ContextParsed` (every field `parse_context` stores
is the host's; the gas price it skips is not compared).

Widths are constants (`AddrLen`, `WordLen`, `IntLen`, `LongLen`: 32, 16, 4
and 8 in the code) because TLC's integers are 32-bit. `MCBridgeCodec.tla`
uses 2, 2, 2 and 3 bytes; the code's loops do not depend on the width, and
the values chosen (0, small values, -1, the largest and the smallest signed
value of the width, 2^15 for a flag word, byte strings with bytes above
0x7f) set the sign bit and the top byte, where a missing mask, a wrong
shift or a signedness error shows.

### TypeStorage (type system: storage layout)

`StorageOffsets::computeOffsets` (Types.cpp 45-79) as a state machine with
one step per loop iteration. State: `members` (the `TypePointers` given),
`i` (loop index), `slotOffset`, `byteOffset`, `offsets` (member index to
`[slot, byte]`, `NoOffset` for a member not placed), `status` (`running`,
`done`, or `tooLarge` for the `TypeError` thrown) and `storageSize`.
Actions: `SkipMember` (a member that cannot be stored), `PlaceMember` (the
overflow test of lines 55-60 as `PlaceAt`, the 2^128 throw, the cursor
update of lines 65-71 as `Advance`) and `Finish` (close a partly used slot,
check the total). `StructStorageSize` and `ArrayStorageSize` are
`StructType::storageSize` and `ArrayType::storageSize` of a static array.
A member type is abstracted to `[stored, bytes, size]`, the three virtual
functions the packing calls; their definitions for most types are in
`Types.h`, which is not in this repository, so the footprints are a
constant, constrained by `StorageAssumption` to what the packing relies on
(`storageSize() >= 1`, the solAssert at line 64; a single-slot type fits in
a slot; a multi-slot type fills at least one).

Properties: `SlotAligned` (no member crosses a slot boundary),
`Disjoint` (members in declaration order, no shared byte),
`WithinTotal` (every member inside the reported size),
`SizeRepresentable` (no reported size or slot reaches the limit),
`BoundaryAdvance` (the spec's slot boundary rule for consecutive stored
members), `ArrayMatchesStruct` (an array of n elements and a struct of n
members of the same type report the same size and throw together).

`MCTypeStorage.tla`: slot width 16, `SlotLimit = 4` standing for 2^128
(small enough that lists of four members reach both throws), seven
footprints taken from the code's types (1, 6, 8 and 16 bytes in one slot, a
36-byte external function in 3 slots, a 2-slot struct, a non-storable
type), all member lists of up to four members.

### Engine, MockHost, SuiteTests, Suite (conformance suite)

`Engine.tla` is the engine's contract from section 4.2 of the
specification (the engine's source is not in this repository, so every
definition is marked spec_modelled). State: one `frame` with the code, its
JUMPDEST set, the input, value and static flag of the message, `pc`, the
stack (a word is a 16-tuple of bytes, the top is the last element, a
32-byte value is two words with the high word on top), memory as the
bytes written, the high-water mark in words, gas, the last call's output
size and the status. `Cost` and `HostCost` are the gas schedule: static
costs, EXP's bytes, SHA3 and copy words, LOG's data and topics, the memory
fee `w + w*w/512` charged on the rise of the high-water mark, SSTORE's
sset/sreset on the slot's old word, the CALL family's base, value and new
account charges, forwarding `min(requested, left)` plus the stipend on a
value. `Faulty` is the failure rule (undefined opcode, underflow, static
violation, out of gas, RETURNDATACOPY out of range, bad jump): gas goes to
0. One action per opcode family; an action that calls the host takes the
host's answer as a parameter. Bytes the model does not compute (digests,
wide products, balances, block hashes) are the value Unknown; `Decidable`
disables any step whose cost or control depends on an Unknown byte, so a
test that reached one could not finish, which `SuiteCompletes` rules out.
The constant `LiteralSchedule` chooses between the costs the suite expects
and the literal reading of 4.2 (below).

`MockHost.tla` holds the mock's globals: `storage` (the indices written;
index = key bytes 13-15), `logTopicsCount`, `logDataSize`, `callMsg` (the
fields the tests assert), `selfDestructAddr`, `selfDestructBene`. The
callbacks are operators: `AccountExists` (byte 7 of the address is not
0x0f), `GetStorage`, `SetStorage`, `MockSelfDestruct`, `CallResults`
(REVERT iff byte 14 of the input is 0xfd, all forwarded gas left,
`call_output_addr` for CREATE and `call_output` otherwise), `MockCall`,
`MockLog`, and `ReleaseResult`, which, as the code does, keeps
`log_topics_count`.

`SuiteTests.tla` is generated from main.cpp test by test: the bytecode and
input of `setup_message`, the budget, `EVM_STATIC` where the test sets it,
whether the test reaches `release_result`, and every ASSERT on `gas_left`,
the status, `call_msg` (kind, depth, flags, input size, caller, value,
address, gas), the log count and size, storage words and the self-destruct
globals. Expected gas is the test's own expression over the file's gas
constants (lines 16-49), with `int32_t` division truncating.

`Suite.tla` composes the three with googletest's driver. `StartTest` is
`setup_message` and `execute`; `Pure(...)` are the engine's steps that call
no host function; `EngineSLoad`, `EngineSStore`, `EngineLog`,
`EngineSelfDestruct` and `EngineCall` are one engine step together with the
callback it makes; `FinishTest` evaluates the test's ASSERTs (`Holds`, and
`HoldsAfter` for the two tests that assert on `call_msg` after releasing)
and calls `ReleaseResult` only if they all pass and the test releases.
`Filter` is `--gtest_filter`, `Shuffle` is `--gtest_shuffle`; otherwise the
next test is the first unrun one in file order.

Properties: `SuitePasses` (no test's modelled ASSERT fails), `GasWithinBudget`
(no frame ever holds more gas than its test's budget, although the mock
refunds the stipend it was given), `LogTopicsFit` (no LOGn hands the
log mock more topic words than `log_topics[8]` holds: the mock copies
`topics_count` words without a bound, `LogTopicsCapacity` is the array's
size) and `SuiteCompletes` (every selected test
runs to its end).

### GlobalContext (front end: magic variables, `this` and `super`)

State: `currentContract` is `m_currentContract` (`Null` before
`setCurrentContract`); `memo["this"]` and `memo["super"]` are
`m_thisPointer` and `m_superPointer`, mapping a contract to a declaration
index, 0 for the null `shared_ptr` that `std::map::operator[]` creates;
`decls` the declarations allocated, each with its `ContractType` (contract,
base-lookup flag); `returned` the history of what the requests returned;
`fault` whether a request dereferenced a null current contract.
`MagicVariables` and `Declarations` are the constructor's fixed table and
`declarations()`. Actions: `EnterContract` (the analysis driver calling
`setCurrentContract`; the driver, `NameAndTypeResolver`, is not in the
repository and is modelled from the specification, which says the contract
is set before any request), `LeaveContract`, and `CurrentThis` /
`CurrentSuper`, both `Request(kind)`: with a null current contract the
dereference at line 98 (107) is undefined behaviour (`fault`); otherwise
`Pointer` is the cached declaration or a fresh one, which is stored and
returned.

Properties: `ReferenceStable` (the same declaration for the same contract
every time, distinct ones for distinct contracts, and the memo still owns
every declaration handed out, so none was freed by a refill),
`ThisTypesCurrent` (a returned declaration types as the contract current at
the request, in base-lookup mode for `super`), `NoNullDeref`, and the
action property `MemoWriteOnce` (no step replaces a non-null memo entry,
and `decls` only grows, its earlier entries unchanged: the caches are
write-once and no allocated declaration is rewritten or freed).
`MCGlobalContext.tla`: two contracts, room for four declarations (one
`this` and one `super` each, all the correct code allocates).

### ScalarTypes (type system: conversions and operator typing)

A pure function of the types involved, so the state is one expression and
its outcome: `expr` is chosen from `Exprs` (binary `[lhs, op, rhs]`, unary
`[op, arg]`, or a conversion chain `[from, via, to]`) and `type` starts
`Pending`. The three actions `TypeBinaryOperation`, `TypeUnaryOperation`
and `TypeConversion` stand for the type checker (not in the repository,
so they are modelled from the specification) asking `Types.cpp` for
`binaryOperatorResult`, `unaryOperatorResult`, `commonType`,
`isImplicitlyConvertibleTo`, `isExplicitlyConvertibleTo` and `mobileType`,
and record every answer. The answers are operators translated from the
code: `IntegerImplicit`, `FixedImplicit`, `RationalFits` /
`RationalImplicit`, `BytesImplicit`, `IntegerExplicit`, `FixedExplicit`,
`IntegerTypeOf` / `FixedPointTypeOf` (a literal's mobile type, the digit
loop of `fixedPointType()` as the least digit count that fails),
`CommonType`, the shift rules (`ShiftAmountAsserts` / `ShiftAmount` /
`ShiftResult`), `IntegerBinary`, `FixedBinary`, `RationalArith` (exact
rational arithmetic with `Rat`, truncating `TDiv`/`TMod`, `Pow`, and the
two's-complement bit operations of `BitCombine`), `BytesBinary`,
`BoolBinary` and the unary rules. Outcomes are records: `None` (no type,
a null `TypePointer`), `InternalError` (a `solAssert` or an exception),
a type. A literal is `Rat(n, d)`, normalised by `Gcd` (Euclid's loop,
written as a recursive function so that the module stays open to the
provers).

Widths are constants. TLC's integers are 32-bit, so `MaxBits` stands for
the code's 256, `MaxDigits` for 80 and `ExpLimit` for the 2^32 bound on an
exponent (`MCScalarTypes.tla`: 16, 2, 2). Every rule is written against
the constants, so the cases the code distinguishes (a literal one past a
width's edge, a negative literal into an unsigned type, a fraction, a
literal too wide for any type, a fixed type narrower than an integer) all
occur with 8- and 16-bit types. `MCUniverse` holds 26 types: int/uint 8
and 16, address, eight fixed point types (8 and 16 bits, 0 and 2 digits,
signed and unsigned), the literals 0, 1, 200, 300, -1, -128, -129, 65536,
1/2, -3/2, 1/3, bytes1, bytes2 and bool. `ScalarAssumption` keeps
`MaxBits` a multiple of 8 as the code's constructors assert, and
`UniverseAssumption` keeps every type of `Universe` in `ScalarTypeSet`,
the types the constructors can build: integers of 8..MaxBits bits in
steps of 8, the address, fixed point types of those widths with at most
`MaxDigits` digits, literals with a positive denominator, bytes1..bytesN
and bool.

Properties: `LiteralConvertibleInRange` (a whole literal converts to an
integer type exactly when its value fits), `MobileTypeSmallest` (a
literal's mobile type holds it and no narrower type of its kind does),
`ImplicitTransitive` (implicit conversion composes, except through a
literal into fixed point, see the findings), `ImplicitImpliesExplicit`,
`CommonTypeBound` (both operands convert to the common type),
`OperatorVetoes` (comparisons type as bool, no bitwise operator on fixed
point, no shift by a signed or non-integer amount, `**` with a signed
exponent has no type), and the violation properties `LiteralFixedInRange`,
`FixedNoBitwise` and `NoInternalError`.

A quirk the specification states and the model reproduces, not a finding:
`int8 + 5` types as int8 but `5 + int8` has no type, since the literal's
mobile type uint8 does not convert to int8.

## 3. Runs

| Run | Config | Expect | What it shows |
|---|---|---|---|
| bridge_serialized | `BridgeSerialized.cfg` | pass | With a serialising host, two threads, two contexts, nesting depth 2: `EnvOfCallingThread`, `CodeRefLive`, `CodeCacheSingleSlot`, `TxInfoFaithful` and `FreeOfLive` hold (6569 states). |
| bridge_env_race | `BridgeEnvRace.cfg` | violation | Without the lock, thread 2's entry point replaces `cb_env` and thread 1's next callback calls Java through thread 2's JNIEnv. |
| bridge_code_race | `BridgeCodeRace.cfg` | violation | Without the lock, thread 2's `get_code` frees the buffer thread 1's engine was handed and has not copied. |
| bridge_double_free | `BridgeDoubleFree.cfg` | violation | Without the lock, two threads' `get_code` both load `code_buf = 1` before either nulls it, and both free it; both then store a new buffer and the first one leaks. |
| storage_packing | `StoragePacking.cfg` | pass | Every member list of up to four members: all six layout properties hold (14841 states). |
| suite_file_order | `SuiteFileOrder.cfg` | pass | All 157 tests in file order against the specified engine and the mock: every modelled ASSERT holds, gas never exceeds the budget, no log overruns `log_topics[8]`, every test ends (18184 states, 16 s). |
| suite_shuffled | `SuiteShuffled.cfg` | violation | Shuffled over nine storage, log and self-destruct tests, `testRETURNDATASIZESSTORE` leaves slot 0x22 set without releasing and `testSSTORE`, run after it, fails its sset gas ASSERT. |
| suite_spec_gas | `SuiteSpecGas.cfg` | violation | With CALL, CALLCODE and SELFDESTRUCT costed as 4.2 words them, `testCALLACCTEXISTS` fails its gas ASSERT. |
| codec_round_trip | `CodecRoundTrip.cfg` | pass | Messages, results and contexts over the edge values round-trip through the code's encoders and decoders (1800 states). |
| context_memo | `ContextMemo.cfg` | pass | Two contracts entered in any order, any requests: the context invariants and the write-once action property hold (261 states). |
| scalar_rules | `ScalarRules.cfg` | pass | Every operation and conversion chain over the 26 scalar types: six properties hold (52758 states). |
| scalar_internal_error | `ScalarInternalError.cfg` | violation | `bytes1 << -3/2` fails a `solAssert`, and `0 ** -1` between literals builds `rational(1, 0)` and throws, where `1 / 0` has no type. |

Bounds. Two threads are the least that can race; two contexts and two gas
prices the least that distinguish a run's own context from another; depth 2
is the least with a nested run (the nested `get_code` and nested
`parse_context` are the interesting steps); three code fetches let a fetch
free a buffer another run holds and then fetch again. Threads and contexts
are model values; no symmetry is declared because the invariants name
threads through `usedEnv` and the runs stay small.

Each property of the passing run has a mutant in `PROJECT.json` that TLC
must refute: run not storing its env
(EnvOfCallingThread), freeing after storing the new buffer (CodeRefLive),
nulling `code_buf` without freeing it (CodeCacheSingleSlot), freeing
without nulling `code_buf` (FreeOfLive: the next `get_code` frees it
again), parsing into a local context instead of the global one
(TxInfoFaithful).

Mutants of the later runs: the missing 2^128 check, `>=` for `>` at the
slot boundary, no byte reset after a multi-slot member, a multi-slot member
advancing one slot short, the last partial slot not counted, the array
size rounded down; `set_storage` dropping its write (SuitePasses), the
CALL cost without `call_value` (GasWithinBudget: the refunded stipend then
lifts the frame above its budget), LOGn passing one topic pair too
many (LogTopicsFit: LOG4 hands the mock ten words), gtest's next-test choice off by one
(SuiteCompletes); a new declaration recorded at the previous index, no memo
check, one cache for all contracts, `setCurrentContract` not storing; a
little-endian `write_int`, `read_int` without `& 0xff`, `parse_result` not
skipping the output size; in the scalar rules, a literal range check that
ignores the sign bit, a mobile type without the `- 1` for negative values,
integer conversion allowed between equal widths only, integer explicit
conversion without the fixed point case, `commonType` without its
convertibility check, and `**` allowed with a signed exponent.

Findings: see `PROJECT.json`. The env race, the code-buffer race and the
double free of `code_buf` are real for any Java host that calls the bridge
from two threads (the comments at `cb_env` and `code_buf` assume
otherwise). In the suite, the shuffled order fails `testSSTORE` because
`testRETURNDATASIZESSTORE` never releases; and the suite's expected costs
disagree with section 4.2 for CALL to a missing account without value,
CALLCODE to a missing account and SELFDESTRUCT (six tests fail against an
engine built to the specification's words). In the type rules: a
fractional shift amount reaches a `solAssert`, and `0 ** -1` throws.

Observed while modelling, without a run of their own (the run budget goes
to the checks above): `release_result` does not reset `log_topics_count`,
though every test that asserts it logs first; `int8 & fixed8x0` types as
fixed8x0 (`FixedNoBitwise` in ScalarTypes states the specification's
rule); a whole literal converts to a fixed point type by its own fixed
point type rather than by value, so -129 is rejected by fixed16x2
(`LiteralFixedInRange`).

Conformance-suite bounds: there is no bound to choose in file order, since
every test is checked as written, with its own budget and bytecode. The
shuffled run takes nine tests, the ones whose outcome can depend on
storage, log or self-destruct state left by another; shuffling all 157
would enumerate orders of tests that share nothing. Fairness: weak fairness
of `Next` — googletest runs each test to its end and the engine runs a frame
to its end without waiting on anything, so a step that stays enabled is
taken. `SuiteCompletes` is the one liveness property; TLC checks it, TLAPS
does not.

## 4. Proofs (`FastVMBridgeProofs.tla`)

* `TypeCorrect`: `Spec => []TypeOK` for every value of the constants,
  serialised or not (`TypeOK` is inductive as it stands; `TypeInit`,
  `TypeStep`, with `TopReplace` for the actions that replace the
  innermost run).
* Under `Serialized`, `CacheSingleSlot` (`[]CodeCacheSingleSlot`),
  `SerializedFreeOfLive` (`[]FreeOfLive`), `SerializedCodeRefLive`
  (`[]CodeRefLive`), `SerializedTxInfo` (`[]TxInfoFaithful`) and
  `SerializedEnv` (`[]EnvOfCallingThread`), each from `SerializedInv2`
  (`Spec => []Inv2`). None holds without `Serialized`: the violation runs
  show each of the first three and the last broken by two threads.

The inductive invariant `Inv2` is `TypeOK`, the properties, and:
`FrameRefs` (only the innermost run of a thread can be inside `get_code`
or hold a code pointer, only while its engine executes, and never both),
`OneBusy` (at most one thread is inside the bridge), `CtxOwn` (every run
in flight has the context `ctx` holds), `CacheExact` (the live buffers
are exactly `{code_buf}`, or none when it is null), `FetchCache` (a
`get_code` that loaded `code_buf` loaded its current value; one that freed
it left it null), `RefCache` (a code pointer the engine holds is
`code_buf`) and `CbEnvBusy` (`cb_env` names the thread inside the bridge).
The properties alone are not inductive: `CodeCacheSingleSlot` does not say
that a `get_code` between its free and its store sees a null `code_buf`,
which `FetchCache` does, and `FreeOfLive` needs `CacheExact` to know that
the loaded pointer is the live one. `FrameRefs` is why a nested run's
`get_code` cannot free a pointer the outer run holds (the outer run is
parked in `call`), `OneBusy` why no other thread can, and `CtxOwn` why
`get_tx_context` returns the run's own fields.

The step proof has one lemma per action (`JRunInv2`, `RunReturnInv2`,
`GetCodeReadInv2`, `GetCodeFreeInv2`, `GetCodeStoreInv2`,
`ConsumeCodeInv2`, `GetTxContextInv2`, `CallInv2`, `CallReturnInv2`,
`QueryCallbackInv2`, `EnterInv2`). The actions that replace the innermost
run all go through `TopStepInv2`, which states what the new frame and the
cache must satisfy; `TopInv2`, `BelowTopIdle` and `UpcallEnv` are the facts
about the current state they need. Assumption used: `BridgeAssumption`
(non-empty thread set, sentinels outside their sets, naturals for the
bounds). Only model-checked: the violations.

## 5. Proofs (`TypeStorageProofs.tla`)

* `PackingCorrect`: `Spec => [](TypeOK /\ SlotAligned /\ Disjoint /\
  WithinTotal /\ SizeRepresentable)` for every slot width, slot limit, bound
  on the member count and set of footprints `StorageAssumption` allows.
  `Disjoint` alone is not inductive: placing member i says nothing about
  where earlier members end unless the cursor is known to lie past them. The
  inductive invariant `IInv` adds `PlacedBefore` (only members
  before the loop index `i` are placed), `BelowCursor` (every placed
  member ends at or before the cursor `slotOffset * 16 + byteOffset`, in a
  slot below the limit) and `TotalCovers` (once done, the cursor lies within
  `storageSize` slots). The step proof has one lemma per action
  (`SkipMemberInv`, `PlaceMemberInv`, `FinishInv`), resting on `PlaceAtFacts`
  and `AdvanceFacts` (the placed position is at or after the cursor and the
  new cursor at or after the member's end) and on `MemberListSeq`.

`SlotAlignment`, `InsideTotal` and `Representable` state the conjuncts
`SlotAligned`, `WithinTotal` and `SizeRepresentable` one by one.

* `BoundaryRule`: `ASSUME StoredBytesPositive PROVE Spec =>
  []BoundaryAdvance`. The hypothesis says that every stored type takes at
  least one byte, as every `storageBytes` override of `Types.cpp` does (an
  enum at least 1, a function 8 or 36, the value types their widths).
  Without it the rule is false, and TLC confirms this: a zero-byte stored
  member at byte 0 lets a following wide member share its slot. The
  inductive invariant `BInv == IInv /\ PlacedStored /\ CursorAfterLast /\
  BoundaryAdvance` adds two facts. `PlacedStored`: only storable members
  are placed. `CursorAfterLast`: with no stored member between the last
  placed member j and the loop index, the cursor is `Advance(members[j],
  offsets[j])`. That is what lets the placement of the next member be
  compared with the one before it. Lemmas: `BInvInit`, `SkipMemberB`,
  `PlaceMemberB`, `BoundaryFrozen`, `BInvStep`.

* `TypeCorrect`: `Spec => []TypeOK`, the first conjunct of
  `PackingCorrect`.
* `ArrayStructAgree`: `Spec => []ArrayMatchesStruct`. `ArrayType::storageSize`
  of a static array of n elements, a closed formula with integer division,
  gives the slot count `computeOffsets` reports for a struct of n members
  of that type. The induction over the list is carried by the loop itself.
  The invariant `ArrayInv` states that, while every member seen so far has
  the same type `ty`, the cursor after i-1 members is
  `CursorAfter(ty, i-1)`, a closed form:
  * c * size slots for a multi-slot type;
  * otherwise slot (c-1) div p and byte ((c-1) mod p + 1) * bytes, where
    p = `PerSlot(ty)` is the number of elements that fit one slot.

  `AInv == IInv /\ ArrayInv` was first checked by TLC as an invariant of
  the storage_packing run, and of a wider one with zero-byte and 5-byte
  types. `PlaceClosed` carries the step that places one more member:
  either it fits the current slot, or it opens the next one exactly when c
  is a multiple of p. `FinishClosed` carries the final rounding up, and it
  rests on the division facts `DivUnique` and `DivSucc`.

## 7. Proofs (`GlobalContextProofs.tla`)

* `ContextSafe`: `Spec => [](TypeOK /\ ReferenceStable /\ ThisTypesCurrent
  /\ NoNullDeref)` for every set of contracts and allocation bound, from
  `GlobalContextAssumption` (`Null` is not a contract). `ReferenceStable` is
  not inductive: a request must find in the memo what it returned before,
  of the right type. The inductive invariant `IInv` adds `Owned` (the memo
  entry of every returned declaration's kind and contract is that
  declaration), `MemoTyped` (every non-null memo entry carries its
  contract's type) and `CurrentSet` (inside a contract the current contract
  is set). The step proof splits a request into a cache hit
  (`RequestHitInv`: only `returned` grows) and a miss (`RequestMissInv`: one
  declaration is appended, and `AppendProperties` of `SequenceTheorems`
  shows the earlier ones unchanged); `ReferenceStable` then follows from
  `Owned` and `ThisTypesCurrent`.
* `TypesCurrent` and `NoNullDereference` state two conjuncts of
  `ContextSafe` one by one.
* `WriteOnce`: `Spec => MemoWriteOnce`, the action property, from the same
  `IInv`: `MemoKeptStep` shows `IInv /\ [Next]_vars => [MemoKept]_vars`,
  with `RequestKept` for a request (a hit rewrites the entry with its own
  value, a miss fills a null entry and appends to `decls`, which keeps the
  earlier entries by `AppendProperties`). `TypeOK`'s bound on the memo
  entries is what makes the `EXCEPT` of a hit the identity.
* `TypeCorrect`: `Spec => []TypeOK`, the first conjunct of `ContextSafe`.
  The memo maps point at created declarations or none, and the current
  contract is a contract or null.

## 7a. Proofs (`ScalarTypesProofs.tla`)

* `LiteralRange`: `Spec => []LiteralConvertibleInRange` for every width
  bound `MaxBits` in {8, 16, 24}, every digit bound and every `Universe`
  within `ScalarTypeSet`. The machine types one expression once, so the
  invariant `Recorded` (what is recorded is what the operators compute)
  is inductive on its own (`RecordedInit`, `RecordedStep`). The content
  is in `LiteralToInteger`: for a whole literal and an integer type,
  `RationalFits`'s shift bounds are exactly minValue..maxValue. The
  provers know no fact about 2^k for a variable k, so `PowWidth` splits on
  the widths 8, 16 and 24 where the powers are computed. This is why the
  theorem is proved for the model's widths, not for the code's 256.
* `VetoesHold`: `Spec => []OperatorVetoes`. What an operator rule returns
  depends only on the category of the operands' common type. The lemmas
  `IntegerCommon`, `FixedCommon` and `BytesCommon` give that category, and
  `LiteralMobile` gives the shape of a literal's mobile type. `IntegerRule`,
  `FixedRule` and `BytesRule` show that each rule returns no type for a
  vetoed operator, and `ResultVetoed` combines them over `ScalarTypeSet`.
  No rational value is computed. TLA+'s CASE with overlapping guards
  may pick any true arm, so each lemma holds whichever arm is taken. This
  includes the first-match order of the code's `if` chains, and it is why
  `BytesRule` carries the hypothesis that the common type is none or fixed
  bytes.
* `ImplicitToExplicit`: `Spec => []ImplicitImpliesExplicit`. A literal
  converts explicitly as its mobile type, so the content is that a literal
  that converts implicitly has a mobile type. The argument goes through
  `Rat` and so through `Gcd`'s recursive function:
  * `GcdWF` shows that Euclid's step lowers the second argument, which is
    well-founded because an infinite chain would give one in Nat (proved
    from `NatLessThanWellFounded`).
  * `GcdDefOn` and the library's `WFInductiveDef` give the fixpoint
    equation `GcdFix`. From it come `GcdEdges` (gcd(x, 1) = 1 and
    gcd(0, d) = d) and `RatNormal` (n/1 and 0/d are normal).
  * `FixedWhole` then shows that `fixedPointType()` of such a literal
    scales nothing: the CHOOSE of the digit count is 0.
  * Hence `WholeMobile` (a whole literal with a fixed point type has an
    integer type), `ZeroMobile` (zero over any denominator has a mobile
    type) and `FitsMobile` (a literal that fits an integer type is within
    u256(-1)). `ImplicitExplicit` combines them with the non-literal
    categories.
* Only model-checked:
  * `MobileTypeSmallest`, `ImplicitTransitive` and `CommonTypeBound`.
    These need the value of `BytesRequired`, a CHOOSE over powers of 256,
    for every literal, and `fixedPointType()` with digits, whose loop
    scales by 10^d for a variable d. The provers know no facts of
    powers with a variable exponent.
  * The properties TLC finds violated are not theorems:
    `NoInternalError` (the scalar_internal_error run), and
    `LiteralFixedInRange` and `FixedNoBitwise`, the specification's rules
    that the code departs from (section 3).

## 7b. Proofs (`BridgeCodecProofs.tla`)

* `ByteRoundTrip` (lemma): a uint8 stored into a jbyte (`S8`) and masked
  with `& 0xff` (`U8`) is unchanged, and so is the reverse.
* `SignRoundTrip` (lemma): for a width n, with P = 2^(8n-1) and
  2^(8n) = 2P given as hypotheses, `ToSigned` and `ToUnsigned` are
  inverse bijections between -P..P-1 and 0..2P-1.
* `IntRoundTrip`: the lemma at n = 4. The int32 status code of
  `encode_result` survives `write_int`'s uint32 and `parse_result`'s
  conversion back. The 8-byte instance for `gas_left` is not proved: tlapm
  does not evaluate 2^64. That instance and the round trips of the byte
  loops (`ReadUInt` and `WriteUInt` over every value is induction over
  data) stay with TLC's codec_round_trip run.

## 7c. Proofs (`SuiteProofs.tla`)

* `LogTopicsBound`: `Spec => []LogTopicsFit` for every test table and
  selection. The invariant is inductive as it stands:
  * `CountKept` shows that only the engine's LOGn step writes
    `log_topics_count`;
  * `LogCountBound` shows that the engine calls the log callback only for
    LOG0..LOG4, which carry at most four topics of two words.

Not proved anywhere:
* `SuitePasses` and `GasWithinBudget`. Gas needs the cost of every
  instruction to be non-negative, which rests on the typing of the engine's
  word values throughout a frame.
* The liveness property
`SuiteCompletes` (TLAPS checks no liveness under fairness), and every
violation.

## 8. Plan for the rest of the project

1. `Engine`: output bytes (RETURN's data, the assertions on
   `output_data`), and a refinement of `Engine` by an abstract gas
   accounting (a frame's gas only falls, but for the refund of a call).
2. Byte-level marshalling of the single-value callbacks (`get_balance`,
   `get_storage`, `get_block_hash`) in `BridgeCodec`.
3. Liveness of the bridge under weak fairness of the engine's return and of
   the Java host's reply (`RunReturn`, `CallReturn`, `ConsumeCode`): every
   run returns.

## 9. Not modelled

The engine's output bytes, digests and wide arithmetic (Unknown in
`Engine`), the benchmarks `testBenchMath1/2` and `testBenchToken` (their
code is a hex string and they assert nothing) and `DISABLED_testMemoryLeak`,
Keccak, the
byte-level content of callbacks' arguments and replies (trusted by design),
a Java exception thrown by a callback method (no upcall checks for a pending exception, and the null reply is then dereferenced: see the hazard at line 113 of the bridge), the mock's read-only callbacks beyond the costs they feed (they change no
state), and the type
system beyond storage layout and the scalar types: reference, contract,
function, tuple and enum types are candidates for later sittings. A
negative literal that rounds to 0 in `fixedPointType()` makes
`bytesRequired` loop; the model's `BytesRequired` is a CHOOSE and does not
reproduce the hang.
