CONSTANTS
    Contents <- MCContents
    DecisionLimit = 4
    MaxLines = 4
SPECIFICATION Spec
INVARIANT RefusalIsReported
CHECK_DEADLOCK FALSE
