\* The corners that the passing run leaves out: a scenario, the property that TLC
\* violates in it, and the constants that differ; the first is set below.
\*   Idle             NoHiddenRun
\*   Length           ContinueAccepted
\*   Retried          ContinueAccepted  MaxRetries = 1
\*   Cancel           RetriesBounded    MaxRetries = 1
\*   BashRetry        RetriesBounded
\*   CustomRetry      RetriesBounded
\*   CompactRetry     RetriesBounded
\*   Clear            NothingLost
\*   CompactMeetsRun  NothingLost
\*   Orphan           PairsTogether
\*   BashMeetsRun     PairsTogether, TranscriptIsContext
\*   Texts            ShownIsPending    Distinct = FALSE
\*   Race             NothingLost       Callers = {"p1", "p2"}
\*   RaceBash         PairsTogether     Callers = {"p1", "p2"}
SPECIFICATION Spec
CONSTANTS
    Callers = {"p1"}
    Distinct = TRUE
    MaxRetries = 0
    Scenarios <- Idle
    None = None
INVARIANT NoHiddenRun
CHECK_DEADLOCK FALSE
