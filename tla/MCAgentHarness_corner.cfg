\* The corners that the passing run leaves out: a scenario and the property that
\* TLC violates in it; the first is set below.
\*   OverlapScenarios  InOnePlace
\*   TakenScenarios    NothingEverLost
\*   DrainedScenarios  NothingEverLost
\*   CompactScenarios  IdleNothingPending
SPECIFICATION Spec
CONSTANTS
    Runs = {1, 2}
    Writers = {w1}
    Scenarios <- OverlapScenarios
    None = None
INVARIANT InOnePlace
CHECK_DEADLOCK FALSE
