SPECIFICATION Spec
CONSTANTS
    Ports = {p1}
    MaxPeers = 1
    MaxClients = 2
    MaxSaid = 2
    MaxPackets = 1
    ChunkCounts = {1}
    MaxResends = 1
    MaxLost = 0
    MayStall = TRUE
    MayReusePorts = FALSE
INVARIANTS
    AckedIsHeard
CHECK_DEADLOCK FALSE
