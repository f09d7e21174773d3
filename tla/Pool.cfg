SPECIFICATION Spec
CONSTANTS
    w1 = w1
    w2 = w2
    r1 = r1
    probe = probe
    c1 = c1
    c2 = c2
    Nobody = Nobody
    Requests = {w1, w2, r1, probe}
    Kind <- KindOf
    Conns = {c1, c2}
    PoolSize = 1
    MaxOutages = 1
INVARIANTS TypeOK NothingLeaks OutageIsPaidOnce
PROPERTY EveryRequestEnds
