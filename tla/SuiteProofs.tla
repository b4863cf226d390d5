----------------------------- MODULE SuiteProofs -----------------------------
(***************************************************************************)
(* Proofs about the test driver of src/tests/main.cpp running the engine  *)
(* against the host mock: the log topic count the mock records never      *)
(* exceeds log_topics[8], for every test table and every selection.       *)
(*                                                                         *)
(* The bound holds step by step: only the log callback writes             *)
(* log_topics_count, and the engine calls it only for LOG0..LOG4          *)
(* (HostReady(LogOps, ...)), which carry at most four topics of two       *)
(* words each. No strengthening is needed.                                *)
(***************************************************************************)
EXTENDS Suite, TLAPS

\* A LOGn the engine hands to the mock records at most eight topic words.
LEMMA LogCountBound ==
    ASSUME HostReady(LogOps, NoAnswer)
    PROVE  LogTopicsCount(frame) <= LogTopicsCapacity
<1>1. Op(frame) \in \ha0..\ha4
  BY DEF HostReady, LogOps
<1>2. QED
  BY <1>1 DEF LogTopicsCount, LogTopicsCapacity

\* The steps that leave the mock's log_topics_count as it is.
LEMMA CountKept ==
    ASSUME [Next]_vars, ~EngineLog
    PROVE  logTopicsCount' = logTopicsCount
<1>1. CASE \E t \in Filter : StartTest(t)
  BY <1>1 DEF StartTest, mockVars
<1>2. CASE \/ Pure(Push) \/ Pure(StackOp) \/ Pure(Compute) \/ Pure(Environment)
           \/ Pure(Copy) \/ Pure(Memory) \/ Pure(Jump) \/ Pure(Halt)
  BY <1>2 DEF Pure, mockVars
<1>3. CASE EngineSLoad
  BY <1>3 DEF EngineSLoad, mockVars
<1>4. CASE EngineSStore
  BY <1>4 DEF EngineSStore
<1>5. CASE EngineSelfDestruct
  BY <1>5 DEF EngineSelfDestruct, MockSelfDestruct
<1>6. CASE EngineCall
  BY <1>6 DEF EngineCall, MockCall
<1>7. CASE EngineFail
  BY <1>7 DEF EngineFail, mockVars
<1>8. CASE FinishTest
  BY <1>8 DEF FinishTest, ReleaseResult, mockVars
<1>9. CASE UNCHANGED vars
  BY <1>9 DEF vars, mockVars
<1>10. QED
  BY <1>1, <1>2, <1>3, <1>4, <1>5, <1>6, <1>7, <1>8, <1>9 DEF Next

\* The log topics the mock records fit log_topics[8] in every state of
\* every run of the suite: no LOGn a test executes makes main.cpp's log
\* callback write past the array.
THEOREM LogTopicsBound == Spec => []LogTopicsFit
<1>1. Init => LogTopicsFit
  BY DEF Init, MockInit, LogTopicsFit, LogTopicsCapacity
<1>2. LogTopicsFit /\ [Next]_vars => LogTopicsFit'
  <2>1. SUFFICES ASSUME LogTopicsFit, [Next]_vars PROVE LogTopicsFit'
    OBVIOUS
  <2>2. CASE EngineLog
    BY <2>2, LogCountBound DEF EngineLog, Log, MockLog, LogTopicsFit, LogTopicsCapacity
  <2>3. CASE ~EngineLog
    BY <2>1, <2>3, CountKept DEF LogTopicsFit
  <2>4. QED
    BY <2>2, <2>3
<1>3. QED
  BY <1>1, <1>2, PTL DEF Spec
=============================================================================
