CONSTANTS
    a = a
    b = b
    NoTopic = NoTopic
    Zero = Zero
    Topics = {a, b}
    Routes = {"non_prefix"}
    Candidates <- MCCandidates
    UserStep = 1
    MaxWindows = 2
    MaxCandidates = 1
    MinConfidence = 2
    MaxTurns = 3
    MaxAnswer = 2
    MaxConc = 2
SPECIFICATION Spec
INVARIANTS
    SegmentsShowSource
CHECK_DEADLOCK FALSE
