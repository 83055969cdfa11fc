SPECIFICATION FairSpec
CONSTANTS
    n1 = n1
    n2 = n2
    none = none
    Threads = {t1}
    Nodes <- MCNodes
    FirstId = 16
    LastId = 19
    Queries <- AndQueries
    TopQueries <- AndTop
    NoPred = none
    Paths <- AndPaths
    Truth <- AndTruth
    MaxDepth = 3
INVARIANTS
    TypeOK
    NoStaleToken
    QuiescentClean
    AnswerExact
    AnswerSound
PROPERTIES
    CallsReturn
