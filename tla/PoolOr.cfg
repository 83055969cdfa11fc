SPECIFICATION FairSpec
CONSTANTS
    n1 = n1
    n2 = n2
    none = none
    Threads = {t1, t2}
    Nodes <- MCNodes
    FirstId = 16
    LastId = 18
    Queries <- OrQueries
    TopQueries <- OrTop
    NoPred = none
    Paths <- OrPaths
    Truth <- OrTruth
    MaxDepth = 2
INVARIANTS
    TypeOK
    IdsExclusive
    TokensOwned
    QuiescentClean
    AnswerExact
    AnswerSound
PROPERTIES
    CallsReturn
