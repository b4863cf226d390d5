CONSTANTS
    LiteralSchedule = FALSE
    Shuffle = FALSE
    Filter <- AllTests
SPECIFICATION Spec
CHECK_DEADLOCK FALSE
INVARIANTS
    SuitePasses
    GasWithinBudget
    LogTopicsFit
PROPERTIES
    SuiteCompletes
