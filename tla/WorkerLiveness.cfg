\* Fair goroutines; a full channel, a parked sender and Close.
SPECIFICATION FairSpec
CONSTANTS
    a1 = a1
    s1 = s1
    j1 = j1
    j2 = j2
    j3 = j3
    NoKey = NoKey
    Agents = {a1}
    Sessions = {s1}
    Jobs = {j1, j2, j3}
    QueueCap = 1
    MaxJobs = 3
    MaxRestarts = 0
PROPERTIES JobsSettle CloseStopsRunners
CHECK_DEADLOCK FALSE
