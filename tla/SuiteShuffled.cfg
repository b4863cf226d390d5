\* gtest --gtest_shuffle over the tests that read or write the mock's
\* storage, logs and self-destruct globals.
CONSTANTS
    LiteralSchedule = FALSE
    Shuffle = TRUE
    Filter = {"testSLOAD", "testSLOAD_SSTORE", "testSSTORE", "testSSTORESRESET", "testRETURNDATASIZESSTORE", "testLOG0", "testLOG1", "testSELFDESTRUCT", "testPCSELFDESTRUCT"}
SPECIFICATION Spec
CHECK_DEADLOCK FALSE
INVARIANT SuitePasses
