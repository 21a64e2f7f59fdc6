CONSTANTS
    c1 = c1  c2 = c2  arb = arb  v1 = v1  v2 = v2
    Controller = {c1, c2}
    Arbiter = arb
    VersionOf <- Versions
    MaxScans = 2
    MaxCount = 1
    MaxEdits = 2
    MaxFaults = 1
    None = None
SPECIFICATION FairSpec
INVARIANTS
    TypeOK
    RecordsCoherent
    ScannedMeansAnnotated
    ReportedMeansStored
PROPERTIES
    ControllersKeepForeign
    HubConsistent
