CONSTANTS
    Clients = {1, 2}
    LanPorts = {1, 2, 3}
    WanAddrs = {w1, w2}
    startPort = 5
    endPort = 7
    maxConnection = 2
    undefined = undefined
SPECIFICATION Spec
INVARIANTS TypeOK UniqueMapping FreePortsUnused EntriesInPool WithinLimit
PROPERTIES ReleasedPortReusedLast
