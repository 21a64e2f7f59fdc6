CONSTANTS
    p1 = p1  p2 = p2
    ScanImage = {"s"}
    Image = {"a"}
    PullSpec = {"a"}
    Pod = {p1}
    Containers <- OneContainer
    Worker = {w1}
    Count = {1, 2}
    MaxRounds = 1
    Backlog = {}
    PodsAtStart <- NoneYet
    HubAtStart <- HubKnows
    Controller = {}
    Scan = {}
    MaxEntries = 0
    MaxEvents = 1
    None = None
SPECIFICATION FairSpec
PROPERTY AllPodsFollowHub
