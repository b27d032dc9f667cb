SPECIFICATION FairSpec
CONSTANTS
    Param <- MCParam
    Path <- CheckPath
    Field <- CheckField
    Owner <- CheckOwner
    Value <- MCValue
    Expr <- CheckExpr
    Rel <- CheckRel
    Reads <- CheckReads
    Primed <- CheckPrimed
    Encodable <- CheckEncodable
    Programs <- MCPrograms
INVARIANTS
    TypeOK
    VerdictsAreTrue
    GreenIsNotVacuous
    ExamplesTellTruth
    RejectBranchNeverFails
    RefusedForAReason
PROPERTIES
    ImplementsGate
    BoundedWork
    Terminates
CHECK_DEADLOCK FALSE
