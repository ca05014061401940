CONSTANTS
    Keys <- MCKeys
    Vals <- MCVals
    None = None
    NoEq = NoEq
    Entries <- MCEntries
    CurrentFiles <- MCCurrentFiles
    MaxFaults = 2
    Runs = 2

SPECIFICATION Spec

INVARIANT TypeOK
INVARIANT CheckOverTlsOnly
INVARIANT LeftAsFound

PROPERTY FeatureEnds

\* A run ends with fpc = "end": the feature has no further step.
CHECK_DEADLOCK FALSE
