CONSTANTS
    Clients = {1}
    LanPorts = {1, 2}
    WanAddrs = {w1}
    startPort = 5
    endPort = 5
    maxConnection = 2
    undefined = undefined
    protocol = "TCP"
    Nodes = {n1, n2, n3, n4}
    SendSize = 1
    RecvSize = 1
    LanFlags = {{"SYN"}}
    WanFlags = {{"RST"}}
    OnlyExpected = FALSE
    Freed = Freed
SPECIFICATION Spec
INVARIANTS TypeOK  TreesAgree EveryNodeExpires
SYMMETRY Symmetry
