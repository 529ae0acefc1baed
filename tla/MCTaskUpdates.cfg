SPECIFICATION FairSpec
CONSTANTS
    ChunkKinds <- MCChunkKinds
    Subs = {s1}
    Capacity = 1
    MaxChunks = 2
    MaxIncidents = 1
INVARIANTS StatusesKept EndsComplete DrainSettles
PROPERTIES DeliveredInOrder TerminalIsFinal TerminalEndsStream
CHECK_DEADLOCK FALSE
