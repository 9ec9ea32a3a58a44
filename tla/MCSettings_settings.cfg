SPECIFICATION Spec
CONSTANTS
    Processes = {1, 2}
    Fields = {f1, f2}
    Scenarios <- SettingsScenarios
    None = None
    Bad = Bad
INVARIANTS SetIsKept
PROPERTIES OthersKept
CHECK_DEADLOCK FALSE
