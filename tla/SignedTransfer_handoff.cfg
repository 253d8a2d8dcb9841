SPECIFICATION HandoffSpec
CONSTANTS
    Releases = {r1, r2}
    Keyrings = {k1, k2}
    CurrentKeyring = k1
    Absent = Absent
    Ceremonies = {"assemble-intent", "finalize", "sign", "inspect-key"}
    MaxEdits = 2
    MaxMixes = 1
INVARIANTS
    SignedIsAttested
    SignedIsQualified
    KeyOnlyInSandbox
    AdmittedIsSigned
    RefusedForCause
CHECK_DEADLOCK FALSE
