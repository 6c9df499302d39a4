\* SETs over a link that may stall and break, and handlers that delegate.
SPECIFICATION FairSpec
CONSTANTS
    NumTrans = 2
    Budget = 3
    MaxRetries = 1
    Faults = {"slow", "timeout", "disconnect"}
INVARIANTS
    SetsTypeOK
    Agreement
    AnswersFindTheirSet
    TruthfulAnswers
PROPERTIES
    PassOrder
    SetsSettle
CHECK_DEADLOCK FALSE
