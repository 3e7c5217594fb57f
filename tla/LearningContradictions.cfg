\* One agent, contradictions of one session.
SPECIFICATION Spec
CONSTANTS
    Agents = {a1}
    Topics = {t1, t2, t3}
    Unnamed = Unnamed
    MaxUnits = 2
    MaxRuns = 2
    MaxFailures = 0
INVARIANTS
    ContradictionsStored
CHECK_DEADLOCK FALSE
