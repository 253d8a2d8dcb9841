SPECIFICATION FairSpec
CONSTANTS
    Absent = Absent
    Size = 2
    MaxRequests = 2
    MaxKills = 2
    MaxUpgrades = 2
INVARIANTS
    OkIsServed
    OnlyPinnedGhRuns
    NothingStranded
PROPERTY RequestReturns
CHECK_DEADLOCK FALSE
