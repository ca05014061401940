CONSTANTS
    Keys <- MCKeys
    Vals <- MCVals
    None = None
    NoEq = NoEq
    Entries <- MCEntries
    CurrentFiles <- MCCurrentFiles
    MaxFaults = 2

SPECIFICATION Spec

INVARIANT TypeOK
INVARIANT MergeKeepsUpdate
INVARIANT RestoredOnExit
INVARIANT BodySeesNewConfig

PROPERTY Terminates

CHECK_DEADLOCK FALSE
