\* The corners that the passing run leaves out: a scenario and the property that
\* TLC violates in it; the first is set below.
\*   UnseenScenarios   ScreenIsViewport
\*   BounceScenarios   ScreenIsViewport
\*   StuckScenarios    RequestedIsComing
\*   HistoryScenarios  HistoryInStep
SPECIFICATION Spec
CONSTANTS
    Texts = {a, b}
    Blank = Blank
    Shell = Shell
    Garbled = Garbled
    Scenarios <- UnseenScenarios
INVARIANT ScreenIsViewport
