SPECIFICATION FairSpec
CONSTANTS
    Enum <- ShopEnum
    VariantsOf <- ShopVariantsOf
    Path <- ShopPath
    EnumOf <- ShopEnumOf
    Files <- MCFiles
    Lifecycles <- MCLifecycles
INVARIANTS
    TypeOK
    FindingsAreExact
    GateIsExact
PROPERTY
    Terminates
\* the analysis is over when the last lifecycle is
CHECK_DEADLOCK FALSE
