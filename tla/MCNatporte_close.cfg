CONSTANTS
    Clients = {1}
    LanPorts = {1}
    WanAddrs = {w1}
    startPort = 5
    endPort = 5
    maxConnection = 2
    undefined = undefined
    protocol = "TCP"
    Nodes = {n1, n2, n3, n4}
    SendSize = 1
    RecvSize = 2
    LanFlags = {{"SYN"}, {"FIN", "ACK"}}
    WanFlags = {{"SYN", "ACK"}, {"FIN", "ACK"}}
    OnlyExpected = TRUE
    Freed = Freed
SPECIFICATION Spec
INVARIANTS PairedAnswers EveryNodeExpires NodeHasEntry EntryHasNode
SYMMETRY Symmetry
