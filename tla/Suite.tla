-------------------------------- MODULE Suite --------------------------------
(***************************************************************************)
(* The conformance suite run (src/fastvm/tests/main.cpp): gtest runs the   *)
(* tests one after another in one process; each test calls setup_message, *)
(* runs the engine on its bytecode against the mock host, checks its      *)
(* ASSERTs (the first failing one returns from the test) and, if it gets  *)
(* there, calls release_result. The engine (Engine.tla) and the mock's    *)
(* globals (MockHost.tla) are composed here: an engine step that calls    *)
(* the host is one step with the callback it makes.                       *)
(***************************************************************************)
EXTENDS Engine, MockHost, SuiteTests, FiniteSets

CONSTANTS
    Filter,   \* the tests --gtest_filter selects (their names)
    Shuffle   \* TRUE under --gtest_shuffle

ASSUME SuiteAssumption ==
    /\ Filter \subseteq {TestNames[i] : i \in 1..Len(TestNames)}
    /\ Shuffle \in BOOLEAN
    /\ \A t \in Filter : TestData[t].gas < MemFn(MemCap \div 32) /\ TestData[t].gas < Huge

VARIABLES
    current,  \* the test running, or "none"
    ran,      \* the tests that have finished
    failed    \* the tests an ASSERT failed in

vars == <<frame, mockVars, current, ran, failed>>

\* The frame when no test runs.
Idle == [NewFrame(<<>>, <<>>, value, FALSE, 0) EXCEPT !.status = "idle"]

Init ==
    /\ frame = Idle
    /\ MockInit
    /\ current = "none"
    /\ ran = {}
    /\ failed = {}

\* A test's position in main.cpp.
Pos == [t \in Filter |-> CHOOSE i \in 1..Len(TestNames) : TestNames[i] = t]

\* A mutant of NextTest whose file-order test is off by one.
NextTestStrict(t) ==
    /\ t \in Filter \ ran
    /\ Shuffle \/ \A u \in Filter \ ran : Pos[t] < Pos[u]

\* The next test: any selected test not run yet when shuffled, otherwise
\* the first of them in file order.
NextTest(t) ==
    /\ t \in Filter \ ran
    /\ Shuffle \/ \A u \in Filter \ ran : Pos[t] <= Pos[u]

\* setup_message (lines 297-312) and execute: a frame for the test's
\* code, input and gas, the default value, flags 0 (or EVM_STATIC where
\* the test sets it after setup_message).
StartTest(t) ==
    /\ current = "none"
    /\ NextTest(t)
    /\ frame' = NewFrame(TestData[t].code, TestData[t].input, value, TestData[t].static,
                         TestData[t].gas)
    /\ current' = t
    /\ UNCHANGED <<mockVars, ran, failed>>

driver == <<current, ran, failed>>

\* The host's answers the current instruction's cost depends on.
HostAnswer(f) ==
    [stored |-> IF Op(f) = \h55 /\ Len(f.stack) >= 2 THEN GetStorage(A(f, 1)) ELSE ZeroWord,
     exists |-> IF Op(f) \in {\hf1, \hf2} /\ Len(f.stack) >= 3
                THEN AccountExists(A(f, 2) \o A(f, 3)) ELSE TRUE]

\* Engine steps that leave the mock alone.
Pure(step) == step /\ UNCHANGED <<mockVars, driver>>

\* SLOAD reads get_storage.
EngineSLoad == SLoad(GetStorage(A(frame, 1))) /\ UNCHANGED <<mockVars, driver>>

\* SSTORE reads the old word to price the write, then set_storage.
EngineSStore ==
    /\ SStore(HostAnswer(frame))
    /\ SetStorage(A(frame, 1), A(frame, 2))
    /\ UNCHANGED <<logTopicsCount, logDataSize, callMsg, selfDestructAddr, selfDestructBene, driver>>

EngineLog ==
    /\ Log
    /\ MockLog(LogTopicsCount(frame), LogDataSize(frame))
    /\ UNCHANGED driver

EngineSelfDestruct ==
    /\ SelfDestruct
    /\ MockSelfDestruct(Beneficiary(frame))
    /\ UNCHANGED driver

\* CREATE and the calls: the message goes to the call mock, whose result
\* comes back to the engine in the same step.
EngineCall ==
    /\ HostReady(CallOps \cup {\hf0}, HostAnswer(frame))
    /\ LET h == HostAnswer(frame)
           m == CallMsg(frame, h)
       IN  \E r \in CallResults(m) :
               /\ Call(h, r)
               /\ MockCall(m)
               /\ UNCHANGED driver

EngineFail == Fail(HostAnswer(frame)) /\ UNCHANGED <<mockVars, driver>>

\* What the ASSERTs after release_result check: the call_msg it cleared.
HoldsAfter(e) ==
    /\ "callDepth" \in DOMAIN e => NoMsg.depth = e.callDepth
    /\ "callFlags" \in DOMAIN e => NoMsg.flags = e.callFlags

\* What the test's ASSERTs check, after execute returns.
Holds(e, budget) ==
    /\ "gasLeft" \in DOMAIN e => frame.gas = e.gasLeft
    /\ "notSuccess" \in DOMAIN e => frame.status # "success"
    /\ "callKind" \in DOMAIN e => callMsg.kind = e.callKind
    /\ "callDepth" \in DOMAIN e => callMsg.depth = e.callDepth
    /\ "callFlags" \in DOMAIN e => callMsg.flags = e.callFlags
    /\ "callInputSize" \in DOMAIN e => callMsg.inputSize = e.callInputSize
    /\ "callGasBelowBudget" \in DOMAIN e => 0 < callMsg.gas /\ callMsg.gas < budget
    /\ "callCaller" \in DOMAIN e => callMsg.caller = e.callCaller
    /\ "callValue" \in DOMAIN e => callMsg.value = e.callValue
    /\ "callAddress" \in DOMAIN e => callMsg.address = e.callAddress
    /\ "logTopicsCount" \in DOMAIN e => logTopicsCount = e.logTopicsCount
    /\ "logDataSize" \in DOMAIN e => logDataSize = e.logDataSize
    /\ "stored" \in DOMAIN e => StoredAt(e.stored[1]) = e.stored[2]
    /\ "destructAddr" \in DOMAIN e => selfDestructAddr = e.destructAddr
    /\ "destructBene" \in DOMAIN e => selfDestructBene = e.destructBene
    /\ "after" \in DOMAIN e => HoldsAfter(e.after)

\* The test body after execute: a failing ASSERT returns from the test and
\* skips release_result; a passing test releases if it ends with it.
FinishTest ==
    /\ current # "none"
    /\ frame.status \in {"success", "revert", "failure"}
    /\ LET pass == Holds(TestData[current].expect, TestData[current].gas)
       IN  /\ failed' = IF pass THEN failed ELSE failed \cup {current}
           /\ IF pass /\ TestData[current].releases THEN ReleaseResult ELSE UNCHANGED mockVars
    /\ ran' = ran \cup {current}
    /\ current' = "none"
    /\ frame' = Idle

Next ==
    \/ \E t \in Filter : StartTest(t)
    \/ Pure(Push)
    \/ Pure(StackOp)
    \/ Pure(Compute)
    \/ Pure(Environment)
    \/ Pure(Copy)
    \/ Pure(Memory)
    \/ Pure(Jump)
    \/ Pure(Halt)
    \/ EngineSLoad
    \/ EngineSStore
    \/ EngineLog
    \/ EngineSelfDestruct
    \/ EngineCall
    \/ EngineFail
    \/ FinishTest

\* gtest runs each test to its end before the next starts, and the engine
\* runs a frame to its end: every enabled step is eventually taken.
Spec == Init /\ [][Next]_vars /\ WF_vars(Next)

(***************************************************************************)
(* Properties.                                                             *)
(***************************************************************************)
\* Every selected test passes: the engine as specified, the mock's answers
\* and the globals earlier tests left behind meet every modelled ASSERT.
SuitePasses == failed = {}

\* Every selected test runs to its end: no frame reaches a step the model
\* cannot decide, and the driver starts each selected test.
SuiteCompletes == <>(ran = Filter)

\* The topic words the engine hands the log mock (main.cpp's log copies
\* topics_count of them with no bound) fit log_topics[8]: no LOGn of any
\* test writes past the array into log_topics_count and the globals after it.
LogTopicsFit == logTopicsCount <= LogTopicsCapacity

\* The mock hands back all the gas it was forwarded, stipend included; a
\* frame nevertheless never holds more gas than its test's budget.
GasWithinBudget == current # "none" => frame.gas <= TestData[current].gas
=============================================================================
