SPECIFICATION FairSpec
CONSTANTS
    a1 = a1  a2 = a2  t1 = t1  k1 = k1
    NoKey = NoKey
    Callbacks = {1, 2}
    Requests <- MCRequests
    Agents = {a1, a2}
    Subscriptions <- MCSubscriptions
    Turns = {t1}
    Owner <- MCOwner
    PollLimits = {1, 2}
    MaxNow = 1
    MaxCrashes = 1
    MaxFaults = 1
INVARIANTS
    CancelledNeverHanded
    DeliveredWasAccepted
    ClaimedStaysPending
    DedupeUnique
PROPERTIES AtLeastOnceSpec DueEventuallySettled
