CONSTANTS
    Contents <- MCContents
    DecisionLimit = 4
    MaxLines = 4
SPECIFICATION Spec
INVARIANTS
    StreamSaysTheSame
    NothingIsLost
CHECK_DEADLOCK FALSE
