SPECIFICATION Spec
CONSTANTS
    Enum <- ShopEnum
    VariantsOf <- ShopVariantsOf
    Path <- ShopPath
    EnumOf <- ShopEnumOf
    Files <- MCDefects
INVARIANT HardErrorsAreDefects
\* an entity in a terminal state stays there
CHECK_DEADLOCK FALSE
