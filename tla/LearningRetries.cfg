\* Two agents share the index, two points a session, two runs of which one may break off.
SPECIFICATION Spec
CONSTANTS
    Agents = {a1, a2}
    Topics = {t1, t2}
    Unnamed = Unnamed
    MaxUnits = 2
    MaxRuns = 2
    MaxFailures = 1
SYMMETRY AgentSymmetry
INVARIANTS
    TypeOK
    CompletedRunTakesEffect
    ArchivedNotIndexed
    RelatedJoinsPoints
    IndexedHasRow
CHECK_DEADLOCK FALSE
