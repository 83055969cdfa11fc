SPECIFICATION Spec
CONSTANTS
    n1 = n1
    n2 = n2
    none = none
    Threads = {t1}
    Nodes <- MCNodes
    FirstId = 16
    LastId = 21
    Queries <- TripleAndQueries
    TopQueries <- TripleAndTop
    NoPred = none
    Paths <- TripleAndPaths
    Truth <- TripleAndTruth
    MaxDepth = 2
INVARIANTS
    AnswerExact
