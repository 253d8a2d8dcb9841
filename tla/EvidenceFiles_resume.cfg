SPECIFICATION FairSpec
CONSTANTS
    Size = 2
    Receipts <- MCReceipts
    Release = "this"
    MaxFaults = 2
    MaxEdits = 1
INVARIANTS MarkedIsBacked EvidenceIsChained
PROPERTIES ForeignStopsAll EvidenceCompletes
CHECK_DEADLOCK FALSE
