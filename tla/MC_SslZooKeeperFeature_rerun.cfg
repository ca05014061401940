CONSTANTS
    Keys <- MCKeys
    Vals <- MCVals
    None = None
    NoEq = NoEq
    Entries <- MCEntries
    CurrentFiles <- MCCurrentFiles
    MaxFaults = 0
    Runs = 2

SPECIFICATION Spec



\* Two runs on the same nodes, without faults.
INVARIANT RerunLikeFirst

CHECK_DEADLOCK FALSE
