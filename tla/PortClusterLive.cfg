CONSTANTS
    w1 = w1
    w2 = w2
    p1 = p1
    p2 = p2
    p3 = p3
    q1 = q1
    c1 = c1
    c2 = c2
    Workers <- TwoWorkers
    Masters <- ThreePorts
    Dup <- DupOfFirst
    Clients <- TwoClients
    Worlds <- LiveWorlds
SPECIFICATION FairSpec
CHECK_DEADLOCK FALSE
PROPERTIES
    RequestsEnd
    WorkersReturn
