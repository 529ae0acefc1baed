SPECIFICATION Spec
CONSTANTS
    ChunkKinds <- MCChunkKinds
    Subs = {s1}
    Capacity = 1
    MaxChunks = 2
    MaxIncidents = 0
INVARIANT NoGap
CHECK_DEADLOCK FALSE
