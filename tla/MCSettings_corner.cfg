\* The corners that the passing run leaves out: a scenario and the property that
\* TLC violates in it (a PROPERTY, if it is temporal); the first is set below.
\*   FirstScenarios   OthersKept
\*   ReloadScenarios  SetIsKept
SPECIFICATION Spec
CONSTANTS
    Processes = {1, 2}
    Fields = {f1, f2}
    Scenarios <- FirstScenarios
    None = None
    Bad = Bad
PROPERTY OthersKept
CHECK_DEADLOCK FALSE
