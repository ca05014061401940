CONSTANTS
    Columns <- MCColumns
    CommonColumns <- MCCommonColumns
    StringType = "String"
    PoolSize = 3

SPECIFICATION Spec

INVARIANT CoversEveryPair

\* The feature has no step after its last join.
CHECK_DEADLOCK FALSE
