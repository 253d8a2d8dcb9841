SPECIFICATION RecoverySpec
CONSTANTS
    AssetCount = 2
    Pins <- MCPins
    NoRecord = NoRecord
    MaxId = 6
    MaxFaults = 3
    MaxEdits = 0
    MayDelay = FALSE
    StageAnytime = FALSE
    MaxUpgrades = 1
INVARIANT
    RecoveredStaysCurrent
