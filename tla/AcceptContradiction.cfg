SPECIFICATION Spec
CONSTANTS
    Name <- MCName
    Label <- MCLabel
    Within <- MCWithin
    Programs <- MCPrograms
INVARIANT ContradictionBlocks
CHECK_DEADLOCK FALSE
