SPECIFICATION Spec
CONSTANTS
    Texts = {a, b}
    Blank = Blank
    Shell = Shell
    Garbled = Garbled
    Scenarios <- ShortScenarios
INVARIANTS ScreenIsViewport
