CONSTANTS
    Columns <- MCColumns
    CommonColumns <- MCCommonColumns
    StringType = "String"
    PoolSize = 3

SPECIFICATION Spec

\* Snapshot names of the checks, for a table that has the string column.
INVARIANT SnapshotNamesUnique

CHECK_DEADLOCK FALSE
