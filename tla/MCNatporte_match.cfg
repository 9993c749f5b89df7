CONSTANTS
    Clients = {1}
    LanPorts = {1}
    WanAddrs = {w1}
    startPort = 5
    endPort = 5
    maxConnection = 2
    undefined = undefined
    protocol = "TCP"
    Nodes = {n1, n2, n3}
    SendSize = 1
    RecvSize = 2
    LanFlags = {{"SYN"}, {"RST"}}
    WanFlags = {{"SYN", "ACK"}}
    OnlyExpected = FALSE
    Freed = Freed
SPECIFICATION Spec
INVARIANTS ReleaseFindsNode
