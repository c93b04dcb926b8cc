SPECIFICATION Spec
CONSTANTS
    a = a
    b = b
    path1 = path1
    path2 = path2
    Nodes = {a, b}
    Peers <- MCPeers
    Paths = {path1, path2}
    Latencies <- MCLatencies
    TTL = 2
    MaxGossip = 2
    PacketRoutes = 2
    MaxFaults = 1
INVARIANT
    TypeOK
PROPERTIES
    Spread
    Forgotten
