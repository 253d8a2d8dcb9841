SPECIFICATION Spec
CONSTANTS
    AssetCount = 2
    Pins = {p1}
    NoRecord = NoRecord
    MaxId = 6
    MaxFaults = 3
    MaxEdits = 1
    MayDelay = TRUE
    StageAnytime = TRUE
INVARIANTS
    Settleable
    PublishedOnlyIfApproved
    PublicationIsExact
    ChainIntact
PROPERTIES
    ProgressNeverLost
