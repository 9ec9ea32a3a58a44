\* The corners that the passing run leaves out: a scenario and the property that
\* TLC violates in it (a PROPERTY, if it is temporal); the first is set below.
\*   SettleScenarios     CallsEnd
\*   RefusedScenarios    CallsEnd
\*   ChunkScenarios      CallsEnd
\*   ThrowScenarios      CallsEnd
\*   StartScenarios      CallsEnd
\*   RaceScenarios       CollectedIsRun, CallsEnd
\*   LateScenarios       NoStrayResponse
\*   UnhandledScenarios  NoneUnhandled
SPECIFICATION Spec
CONSTANTS
    Calls = {1, 2}
    Scenarios <- SettleScenarios
    None = None
PROPERTY CallsEnd
CHECK_DEADLOCK FALSE
