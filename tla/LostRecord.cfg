CONSTANTS
    c1 = c1  c2 = c2  arb = arb  v1 = v1  v2 = v2
    Controller = {c1}
    Arbiter = arb
    VersionOf <- Versions
    MaxScans = 1
    MaxCount = 1
    MaxEdits = 1
    MaxFaults = 0
    None = None
SPECIFICATION FairSpec
PROPERTY ScannedShowsHub
