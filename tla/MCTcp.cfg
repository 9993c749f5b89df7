CONSTANTS
    B = 4
    Table <- MCTable
    lan_addr = {3}
    wan_addr = {9}
    icmp_wan_addr = 9
    Private = {2, 3, 14, 15}
    ClassD = {12}
    Local = {8}
    Loopback = {11}
    lan_if_mtu = 1400
    wan_if_mtu = 1400
    opt_nagete_df = FALSE
    LanPackets <- MCLanPackets
    WanPackets <- MCWanPackets
    OtherPackets <- MCOtherPackets
SPECIFICATION Spec
INVARIANTS TypeOK OrderlyClose HandshakeFirst ChecksumKept  ErrorReturns OnePingerAnswered
 
