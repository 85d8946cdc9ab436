CONSTANTS
    u1 = u1
    u2 = u2
    n1 = n1
    n2 = n2
    Uplink = {u1, u2}
    MaxAdverts = 2
    Caller = {"a"}
    Node = {n1, n2}
    AnyNode = any
    Named = {any}
    MaxKey = 2
    MaxCallsMade = 2
    RetainBound = 2
    MaxSends = 3
    MaxReceived = 1
    Shared <- SharedMC
    Blocks <- BlocksMC
    Lies = {"none", "size", "root", "count", "short", "chunk", "offset"}
    MaxBlock = 1
    MaxBytes = 3
    MaxChunks = 3
    Op = {"o1", "o2"}
    Worker = {"w1", "w2"}
    Path = {"p1", "p2"}
    ReplicationFactor = 2
    MaxClock = 2
    MaxPublications = 2
    TTL = 0
    Tolerance = 1
SPECIFICATION PoolSpec
SYMMETRY PoolSymmetry
INVARIANTS
    NoRouteUnserved
    ServedEverywhere
    HandlerOnce
    NeverClearAgain
    SessionsWhole
    FetchedIsAsked
    EventOnce
CHECK_DEADLOCK FALSE
