SPECIFICATION FairSpec
CONSTANTS
    m1 = m1  m2 = m2
    None = None
    Turns = {m1, m2}
    Keys = {"ctx", "other"}
    Key <- OtherKey
    ContextKey <- OtherKey
    Permits = 1
    IdleLimit = 1
    MaxYields = 1
    MaxFaults = 0
PROPERTIES
    StreamsEnd
