CONSTANTS
    a = a
    b = b
    NoTopic = NoTopic
    Zero = Zero
    Topics = {a, b}
    Routes = {"prefix", "non_prefix", "full", "full2"}
    Candidates <- MCCandidates
    UserStep = 1
    MaxWindows = 3
    MaxCandidates = 1
    MinConfidence = 2
    MaxTurns = 4
    MaxAnswer = 2
    MaxConc = 2
SPECIFICATION Spec
INVARIANTS
    TypeOK
    MergeLosesNothing
    DedupeKeepsBest
    PrefixSegmentsShowSource
    WindowsSound
PROPERTIES
    SessionEnds
CHECK_DEADLOCK FALSE
