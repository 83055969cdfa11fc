SPECIFICATION Spec
CONSTANTS
    n1 = n1
    n2 = n2
    none = none
    Threads = {t1, t2}
    Nodes <- MCNodes
    FirstId = 16
    LastId = 24
    Queries <- BothQueries
    TopQueries <- BothTop
    NoPred = none
    Paths <- BothPaths
    Truth <- BothTruth
    MaxDepth = 2
INVARIANTS
    AnswerExact
