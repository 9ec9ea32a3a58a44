SPECIFICATION Spec
CONSTANTS
    Processes = {p1, p2}
    Providers = {q1, q2}
    Slots = {1, 2}
    Scenarios <- CredentialsScenarios
    None = None
INVARIANTS RefreshedOnce NoUpdateLost SnapshotIsFile
PROPERTIES CallsFinish
CHECK_DEADLOCK FALSE
