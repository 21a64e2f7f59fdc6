CONSTANTS
    Reference <- OneSpec
    Id <- Ids
    SpecIds <- ResolveOne
    Announce <- OneSpecThreeNames
    Caller = {c1, c2}
    Worker = {w1}
    MaxCalls = 4
    MaxChurn = 1
    None = None
SPECIFICATION FairSpec
INVARIANTS TypeOK WaitCountsJobs QueuedOnce
PROPERTIES ServesAsPool AddImageReturns QueueDrains NoImageForgotten
CHECK_DEADLOCK FALSE
