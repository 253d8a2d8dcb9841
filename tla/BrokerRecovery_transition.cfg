SPECIFICATION RecoveryFairSpec
CONSTANTS
    AssetCount = 3
    Pins <- MCPins
    NoRecord = NoRecord
    MaxId = 6
    MaxFaults = 2
    MaxEdits = 1
    MayDelay = FALSE
    StageAnytime = FALSE
    MaxUpgrades = 1
INVARIANTS
    RecoveryGatesMutation
    RecoveredUploadsOnlySuffix
    OneDraft
PROPERTIES
    RecoveredReleaseCompletes
