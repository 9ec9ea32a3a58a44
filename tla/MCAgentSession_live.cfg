SPECIFICATION FairSpec
CONSTANTS
    Callers = {"p1", "p2"}
    Distinct = TRUE
    MaxRetries = 1
    Scenarios <- Live
    None = None
PROPERTY CallsReturn
CHECK_DEADLOCK FALSE
