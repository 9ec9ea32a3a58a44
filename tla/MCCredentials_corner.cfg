\* The corners that the passing run leaves out: a scenario and the property that
\* TLC violates in it; the first is set below.
\*   FirstScenarios  UpdatesKept
\*   StallScenarios  SentOnce, UpdatesKept, TagsRight
\*   SlowScenarios   SentOnce, UpdatesKept, TagsRight
\*   TornScenarios   UpdatesKept
SPECIFICATION Spec
CONSTANTS
    Processes = {p1, p2}
    Providers = {q1, q2}
    Slots = {1, 2}
    Scenarios <- FirstScenarios
    None = None
INVARIANT UpdatesKept
CHECK_DEADLOCK FALSE
