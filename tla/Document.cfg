SPECIFICATION DocSpec
CONSTANTS
    Answers <- Xpath
    Addr <- Addresses
    Null = Null
    Files <- AllFiles
    Documents <- WellFormed
    BulkReads = {5, 6, 7, 9}
    BaseLen = 4
    DefaultNs = FALSE
    Strings <- Escapable
INVARIANTS
    TypeOK
    FreedUntouched
    PositionInSync
    LoadedAsWritten
    OnlyTagsLeft
    LoadedTree
    RoundTrip
    SameBreaks
    Fits
    XpathAgrees
    PathFindsNode
    GettersAgree
    EscapeInverse
PROPERTIES
    LoadProgress
CHECK_DEADLOCK FALSE
