CONSTANTS
    Columns <- MCColumns
    MinSnapshotId = MinSnapshotId
    Runs = 3
SPECIFICATION Spec
INVARIANTS VerdictMatchesFirstRun
CHECK_DEADLOCK FALSE
