SPECIFICATION Spec
CONSTANTS
    MaxPackets = 4
    ChunkCounts = {1, 2}
    MaxResends = 1
    Window = 3
    Lifetime = 2
    MaxLost = 1
INVARIANTS
    TypeOK
    AppliedOnce
    DeliveredWhole
PROPERTIES
    ImplementsDelivery
    ResentUntilHeard
