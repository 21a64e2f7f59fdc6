CONSTANTS
    c1 = c1  c2 = c2  s1 = s1  h1 = h1  k1 = k1  k2 = k2
    Controller = {c1, c2}
    ImageSpec = {s1}
    Hash = {h1}
    Md5 <- OneImageMd5
    WorkerCount <- TwoControllerWorkers
    Conn = {k1, k2}
    MaxHubJobs = 1
    None = None
SPECIFICATION Spec
SYMMETRY RaceSymmetry
VIEW ResponseView
INVARIANTS
    TypeOK
    WorkersConserved
    AssignmentBacked
    HubJobsBounded
PROPERTIES
    NoTakeover
    RequestKept
