SPECIFICATION Spec
CONSTANTS
    Addr = {1, 2, 3, 4, 5, 6, 7}
    Null = Null
    Docs <- TwoTextDocs
    Added = {"txt"}
    MaxPosition = 1
    Callers = {"later text"}
INVARIANTS
    NoDanglingLink
CHECK_DEADLOCK FALSE
