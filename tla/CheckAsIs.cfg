SPECIFICATION Spec
CONSTANTS
    Param <- MCParam
    Path <- CheckPath
    Field <- CheckField
    Owner <- CheckOwner
    Value <- MCValue
    Expr <- CheckExpr
    Rel <- CheckRel
    Reads <- CheckReads
    Primed <- CheckPrimed
    Encodable <- CheckEncodable
    Programs <- LegacyPrograms
INVARIANT AsIsIsSkipped
CHECK_DEADLOCK FALSE
