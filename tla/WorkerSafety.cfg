\* Two sessions of an agent, three requests on a channel of capacity one (a job
\* runs, one waits, a sender is blocked), a job table pruned to two, Close at any
\* time and one exit of the process.
SPECIFICATION Spec
CONSTANTS
    j1 = j1
    j2 = j2
    j3 = j3
    a1 = a1
    s1 = s1
    s2 = s2
    NoKey = NoKey
    Agents = {a1}
    Sessions = {s1, s2}
    Jobs = {j1, j2, j3}
    QueueCap = 1
    MaxJobs = 2
    MaxRestarts = 1
SYMMETRY JobSymmetry
INVARIANTS
    TypeOK
    SerialPerAgent
    JobTableMatchesQueues
    DoneCoversPush
    MarkedMeansLearned
PROPERTIES
    ParkedSendersSurviveClose
    EvictsOldestTerminal
    ImplementsJobService
CHECK_DEADLOCK FALSE
