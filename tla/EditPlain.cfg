SPECIFICATION Spec
VIEW Document
CONSTANTS
    Addr = {1, 2, 3, 4, 5, 6}
    Null = Null
    Docs <- PlainDocs
    Added = {"elm", "att", "txt"}
    MaxPosition = 3
    Callers = {}
INVARIANTS
    TypeOK
    NoDanglingLink
    LastChild
    ParentsAgree
    CloseFreesAll
PROPERTIES
    ImplementsTree
CHECK_DEADLOCK FALSE
