CONSTANTS
    c1 = c1  c2 = c2  s1 = s1  s2 = s2  h1 = h1  h2 = h2
    k1 = k1  k2 = k2  w1 = w1  w2 = w2
    Controller = {c1, c2}
    ImageSpec = {s1}
    Hash = {h1}
    Md5 <- OneImageMd5
    WorkerCount <- PeersWorkers
    Conn = {k1, k2}
    MaxHubJobs = 1
    None = None
    Worker = {w1, w2}
    HostOf <- PeersHostOf
    OnNode <- PeersOneImage
    Faults = {"lossy", "crash", "abort"}
    MaxFaults = 3
SPECIFICATION ProtocolSpec
CHECK_DEADLOCK FALSE
SYMMETRY PeersSymmetry
INVARIANTS
    ProtocolTypeOK
    MutualExclusion
    ScannerHoldsAssignment
PROPERTY
    ScannedOnce
