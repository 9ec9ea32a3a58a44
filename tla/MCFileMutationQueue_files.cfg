CONSTANTS
    c1 = c1
    c2 = c2
    c3 = c3
    a = a
    b = b
    direct = direct
    link = link
    other = other
    Calls <- MCCalls
    Files <- MCFiles
    Paths <- MCPaths
    FileOf <- MCFileOf
    Canonical = {direct, other}
    Fickle = {b}
    Stuck = {b}
    None = None
SPECIFICATION FairSpec
INVARIANTS KeyInOrder MapIsLive
PROPERTIES ImplementsLock OtherFilesGoOn
CHECK_DEADLOCK FALSE
