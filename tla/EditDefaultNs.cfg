SPECIFICATION Spec
CONSTANTS
    Addr = {1, 2, 3, 4, 5, 6, 7}
    Null = Null
    Docs <- DefaultDocs
    Added = {"txt"}
    MaxPosition = 1
    Callers = {"used nsdef"}
INVARIANTS
    NoDanglingNs
CHECK_DEADLOCK FALSE
