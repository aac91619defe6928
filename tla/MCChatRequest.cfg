CONSTANT MaxEvents = 2
SPECIFICATION Spec
INVARIANTS
    TypeOK
    AnswersAreTrue
    RecordAgrees
PROPERTY EveryRequestEnds
CHECK_DEADLOCK FALSE
