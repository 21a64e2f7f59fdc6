CONSTANTS
    Client = {c1}
    Count = {0, 1}
    MaxFaults = 2
    MaxChanges = 1
    None = None
SPECIFICATION FairSpec
INVARIANTS TypeOK NoSessionLeak NoFalseClean
PROPERTY ResultsReturn
