SPECIFICATION FairOutputSpec
CONSTANTS
    Procs = {p1, p2}
    Inputs = {i1, i2}
    BundleFiles = 2
    NoFile = NoFile
    MaxFaults = 2
    MaxOutages = 1
INVARIANTS
    VisibleIsComplete
PROPERTY
    InterruptedIsRecovered
\* an output that is refused for good is left as it is
CHECK_DEADLOCK FALSE
