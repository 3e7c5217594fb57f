\* A session pushed again after it was processed, and the second job fails.
SPECIFICATION Spec
CONSTANTS
    a1 = a1
    s1 = s1
    j1 = j1
    j2 = j2
    NoKey = NoKey
    Agents = {a1}
    Sessions = {s1}
    Jobs = {j1, j2}
    QueueCap = 1
    MaxJobs = 2
    MaxRestarts = 0
SYMMETRY JobSymmetry
INVARIANTS FailedPushStaysUnprocessed
CHECK_DEADLOCK FALSE
