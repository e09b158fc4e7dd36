SPECIFICATION Spec
CONSTANTS
    Ports = {p1}
    MaxPeers = 2
    MaxClients = 2
    MaxSaid = 2
    MaxPackets = 2
    ChunkCounts = {1, 2}
    MaxResends = 1
    MaxLost = 1
    MayStall = FALSE
    MayReusePorts = FALSE
INVARIANTS
    TypeOK
    HeardOnce
    HeardByItsOwner
    AckedIsHeard
    HeardInOrderUnlessDropped
    UpwardAccounted
PROPERTIES
    PlayersDoNotOutstayTheirGame
    EventsAreHeard
CHECK_DEADLOCK FALSE
