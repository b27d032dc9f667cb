SPECIFICATION Spec
CONSTANT Sources <- MCSources
INVARIANTS
    TypeOK
    TreesFollowTheTable
    AcceptsTheGrammar
    EveryTokenCounts
PROPERTIES
    BoundedWork
    Terminates
\* the parser ends
CHECK_DEADLOCK FALSE
