SPECIFICATION Spec
CONSTANTS
    Calls = {1}
    Scenarios <- RetryScenarios
    None = None
INVARIANT CollectedIsRun
CHECK_DEADLOCK FALSE
