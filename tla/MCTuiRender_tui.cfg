SPECIFICATION Spec
CONSTANTS
    Texts = {a, b}
    Blank = Blank
    Shell = Shell
    Garbled = Garbled
    Scenarios <- TuiScenarios
INVARIANTS ScreenIsViewport NothingBelowExit
INVARIANTS RequestedIsComing
