\* zoo.cfg repeats a key: the merge keeps the first line of it, ZooKeeper
\* reads the last.
CONSTANTS
    Keys <- MCKeys
    Vals <- MCVals
    None = None
    NoEq = NoEq
    Entries <- MCEntries
    CurrentFiles <- MCDuplicateFiles
    MaxFaults = 0

SPECIFICATION Spec

INVARIANT MergeKeepsUpdate

CHECK_DEADLOCK FALSE
