SPECIFICATION LocalFairSpec
CONSTANTS
    Procs = {p1, p2}
    Bundles <- MCBundles
    Absent = Absent
    MaxInode = 3
    MaxFaults = 3
    MaxTogether = 1
INVARIANTS
    ReferenceIsBacked
    AckedNeverLost
PROPERTY
    RecoveryCompletes
