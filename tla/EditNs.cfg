SPECIFICATION Spec
VIEW Document
CONSTANTS
    Addr = {1, 2, 3, 4, 5, 6, 7}
    Null = Null
    Docs <- NsDocs
    Added = {"elm", "att", "nsd"}
    MaxPosition = 1
    Callers = {}
INVARIANTS
    NoDanglingLink
    NoDanglingNs
    NsInScope
CHECK_DEADLOCK FALSE
