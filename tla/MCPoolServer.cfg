CONSTANTS
    p1 = p1
    p2 = p2
    w1 = w1
    w2 = w2
    Natportes = {p1, p2}
    Sockets = {s1, s2}
    pool_addr <- MCpool_addr
    Outstanding <- MCOutstanding
    Ordered <- MCOrdered
    Clients = {1}
    LanPorts = {1}
    WanAddrs = {w1, w2}
    startPort = 5
    endPort = 5
    maxConnection = 1
    undefined = undefined
SPECIFICATION Spec
INVARIANTS TypeOK PoolFollowsSessions EveryOrderAnswered EveryLineUnderstood 
SYMMETRY Symmetry
