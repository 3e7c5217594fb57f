\* Two points and one historical point are enough to lose a component.
SPECIFICATION Spec
CONSTANTS
    N = 2
    Hist = {h1}
    MaxAff = 1
INVARIANTS
    EveryComponentAdjudicated
CHECK_DEADLOCK FALSE
