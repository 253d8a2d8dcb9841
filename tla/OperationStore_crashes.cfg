SPECIFICATION StoreSpec
CONSTANTS
    AssetCount = 2
    Pins = {p1}
    NoRecord = NoRecord
    Partial = Partial
    ReleaseIds = {1, 2}
PROPERTIES
    StoreIsAtomic
