CONSTANTS
    c1 = c1
    c2 = c2
    c3 = c3
    a = a
    b = b
    direct = direct
    link = link
    other = other
    Calls <- MCCalls
    Files <- MCLinkFiles
    Paths <- MCLinkPaths
    FileOf <- MCLinkOf
    Canonical = {}
    Fickle = {a}
    Stuck = {}
    None = None
SPECIFICATION Spec
INVARIANT SameFileSerialized
CHECK_DEADLOCK FALSE
