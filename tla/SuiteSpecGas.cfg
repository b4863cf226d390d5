\* The suite's CALL, CALLCODE and SELFDESTRUCT tests against the engine
\* costed as section 4.2 of the spec words those instructions.
CONSTANTS
    LiteralSchedule = TRUE
    Shuffle = FALSE
    Filter = {"testCALLACCTEXISTS", "testCALLCODEACCTEXISTS", "testCALLCODEACCTANDVALEXISTS", "testSELFDESTRUCT"}
SPECIFICATION Spec
CHECK_DEADLOCK FALSE
INVARIANT SuitePasses
