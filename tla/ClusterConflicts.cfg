\* Every similarity graph of three points and two historical points.
SPECIFICATION Spec
CONSTANTS
    N = 3
    Hist = {h1, h2}
    MaxAff = 2
SYMMETRY HistSymmetry
INVARIANTS
    TypeOK
    AdjudicatedAtMostOnce
    QueuesShareInOrder
    PlainDoNotCompete
CHECK_DEADLOCK FALSE
