\* The corners that the passing run leaves out: a scenario and the property that
\* TLC violates in it; the first is set below.
\*   Glued           SavedSurvives
\*   LabelFork       ForkKeepsContext, NothingForgotten
\*   LabelForkTools  NoOrphanResult
\*   Hole            FileWellFormed
\*   HoleCompacted   NothingForgotten
\*   HoleTools       NoOrphanResult
\*   HoleForked      ForkAfterFailure
\*   SplitAgain      SummaryHandedOn
\*   SettingBefore   SummaryHandedOn
\*   Wedged          FirstFlushPossible
SPECIFICATION Spec
CONSTANTS
    Scenarios <- Glued
INVARIANT SavedSurvives
CHECK_DEADLOCK FALSE
