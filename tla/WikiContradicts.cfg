\* As WikiRebuild, for the two directions of a contradiction.
SPECIFICATION Spec
CONSTANTS
    Pages = {p1, p2}
    Misspelt = Misspelt
    Points = {x1}
    Units = {u1, u2}
    Timed = {u1, u2}
    Reconciler = Reconciler
    NoPage = NoPage
    MaxConcurrency = 2
    MaxJobs = 2
    MaxCalls = 2
    MaxFaults = 0
SYMMETRY WikiSymmetry
INVARIANT
    ContradictsBothWays
CHECK_DEADLOCK FALSE
