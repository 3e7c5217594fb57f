\* Two pages, two loops at a time, two jobs of two calls, one fault.
SPECIFICATION Spec
CONSTANTS
    Pages = {p1, p2}
    Misspelt = Misspelt
    Points = {x1}
    Units = {u1, u2}
    Timed = {u1, u2}
    Reconciler = Reconciler
    NoPage = NoPage
    MaxConcurrency = 2
    MaxJobs = 2
    MaxCalls = 2
    MaxFaults = 1
SYMMETRY WikiSymmetry
INVARIANTS
    TypeOK
    CleanPagesAccounted
    NoDanglingEdges
    CompileDatesPages
PROPERTIES
    OnlyTouchedLoseEdges
CHECK_DEADLOCK FALSE
