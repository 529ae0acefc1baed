SPECIFICATION FairSpec
CONSTANTS
    m1 = m1  m2 = m2
    None = None
    Turns = {m1, m2}
    Keys = {"ctx", "ctx/task"}
    Key <- MCKey
    ContextKey <- MCContextKey
    Permits = 2
    IdleLimit = 1
    MaxYields = 2
    MaxFaults = 1
INVARIANTS
    AcceptedHasSession
    InFlightExcludes
    SuspendedRunWaits
    IdleSessionResumes
PROPERTIES
    StreamsEnd
    RunsEnd
