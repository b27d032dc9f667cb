SPECIFICATION Spec
CONSTANTS
    Enum <- ShopEnum
    VariantsOf <- ShopVariantsOf
    Path <- ShopPath
    EnumOf <- ShopEnumOf
    Files <- MCFiles
INVARIANT UnreachableIsNeverEntered
PROPERTY TrappedStaysTrapped
\* an entity in a terminal state stays there
CHECK_DEADLOCK FALSE
