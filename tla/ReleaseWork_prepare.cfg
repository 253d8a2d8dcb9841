SPECIFICATION FairSpec
CONSTANTS
    Discoveries = {1, 2}
    Returns <- MCReturns
    MaxFaults = 2
    MaxEdits = 3
INVARIANTS StagedAsRecorded OnlyTrustedSign
PROPERTY ReleaseIsPrepared
CHECK_DEADLOCK FALSE
