SPECIFICATION Spec
CONSTANTS
    Callers = {"p1"}
    Distinct = TRUE
    MaxRetries = 1
    Scenarios <- QueuesAndRecovery
    None = None
INVARIANTS NothingLost PairsTogether ShownIsPending IdleIsIdle NoContinueAfterAnswer
           TranscriptIsContext RetriesBounded
CHECK_DEADLOCK FALSE
