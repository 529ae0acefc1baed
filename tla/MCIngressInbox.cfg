SPECIFICATION FairSpec
CONSTANTS
    Items = {"s1", "g1", "g2"}
    NumProducers = 2
    Kind <- MCKind
    Malformed = {"s1", "g1"}
    Strict = {1}
    PollLimit = 2
    MaxCrashes = 1
    MaxFaults = 1
INVARIANTS
    DeliveredWasConcluded
    ConfirmedNotRedispatched
    ClaimStaysEmitted
PROPERTIES
    AtLeastOnceSpec
    EnqueuedEventuallyDelivered
