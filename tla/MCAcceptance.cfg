SPECIFICATION Spec
CONSTANTS
    Name <- MCName
    Label <- MCLabel
    Within <- MCWithin
    Programs <- MCPrograms
INVARIANTS
    TypeOK
    PassIsEarned
    BlameIsPrecise
    FailureTurnsRed
    CountedOnce
    NothingIsSkipped
    GoalIsEarned
CHECK_DEADLOCK FALSE
