SPECIFICATION Spec
CONSTANTS
    Calls = {1, 2, 3}
    Scenarios <- RpcScenarios
    None = None
INVARIANT CollectedIsRun
PROPERTY CallsEnd
CHECK_DEADLOCK FALSE
