CONSTANTS
    Columns <- MCColumns
    MinSnapshotId = MinSnapshotId
    Runs = 2
SPECIFICATION Spec
INVARIANT RerunSameVerdict
CHECK_DEADLOCK FALSE
