SPECIFICATION Spec
CONSTANTS
    Part <- MCPart
    Digits <- MCDigits
    Plain <- MCPlain
    Text <- MCText
    Documents <- MCDocuments
    Sources <- MCSources
INVARIANTS
    TypeOK
    NothingIsLost
    StatusIsOwn
    CountIsTrue
    GateIsExact
CHECK_DEADLOCK FALSE
