CONSTANTS
    m1 = m1
    m2 = m2
    w1 = w1
    w2 = w2
    p1 = p1
    p2 = p2
    i1 = i1
    d1 = d1
    NoDomain = NoDomain
    Masters <- TwoMasters
    Workers <- TwoWorkers
    Ports <- TwoPorts
    Ips <- OneIp
    Domains <- OneDomain
    Worlds <- AllWorlds
    MaxQueue = 4
SPECIFICATION FairSpec
INVARIANTS
    TypeOK
    QuietAgreement
    StoreIsCurrent
PROPERTIES
    BansSpread
    Settles
    UnbansLast
CHECK_DEADLOCK FALSE
