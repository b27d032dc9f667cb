SPECIFICATION System
CONSTANTS
    Param <- MCParam
    Path <- MCPath
    Field <- MCField
    Owner <- MCOwner
    Value <- MCValue
    Expr <- MCExpr
    Rel <- WorldRel
    Reads <- MCReads
    Primed <- MCPrimed
    Encodable <- WorldEncodable
    Programs <- MCPrograms
INVARIANTS
    InvariantsHold
PROPERTIES
    TwoStateClaimsHold
CHECK_DEADLOCK FALSE
