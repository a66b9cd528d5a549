CONSTANTS
    r1 = r1
    r2 = r2
    r3 = r3
    r4 = r4
    d1 = d1
    d2 = d2
    Requests <- FourRequests
    Domains <- TwoDomains
    Limits = {0, 1, 2}
    Worlds <- AllWorlds
SPECIFICATION FairSpec
INVARIANTS
    TypeOK
    QueueMatchesExcess
    WaitersAreListed
    NoPhantomRequests
PROPERTIES
    WaiterIsServed
    ImplementsLimiter
