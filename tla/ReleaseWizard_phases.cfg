SPECIFICATION Spec
CONSTANTS
    Absent = Absent
    Partial = Partial
    Whole = Whole
    MaxFaults = 3
    MaxOutages = 1
    MaxAbandons = 1
INVARIANTS
    PhaseBacked
    SavedNeverLost
PROPERTIES
    NoRemoteAbandoned
