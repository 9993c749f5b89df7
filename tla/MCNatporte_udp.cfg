CONSTANTS
    Clients = {1}
    LanPorts = {1, 2, 3}
    WanAddrs = {w1}
    startPort = 5
    endPort = 5
    maxConnection = 2
    undefined = undefined
    protocol = "UDP"
    Nodes = {n1, n2, n3, n4}
    SendSize = 2
    RecvSize = 2
    LanFlags = {{}}
    WanFlags = {{}}
    OnlyExpected = FALSE
    Freed = Freed
SPECIFICATION Spec
INVARIANTS TableFollowsServer EveryNodeExpires NodeHasEntry EntryHasNode
SYMMETRY Symmetry
