SPECIFICATION Spec
CONSTANTS
    Param <- MCParam
    Path <- MCPath
    Field <- MCField
    Owner <- MCOwner
    Value <- MCValue
    Expr <- MCExpr
    Rel <- MCRel
    Reads <- MCReads
    Primed <- MCPrimed
    Encodable <- MCExpr
    Word <- MCWord
    Occurs <- MCOccurs
    Revisions <- MCRevisions
INVARIANTS
    TypeOK
    ReportIsExact
    QuietMeansCompatible
    LostWitnessIsReported
    GoalImpactIsExact
\* the command ends
CHECK_DEADLOCK FALSE
