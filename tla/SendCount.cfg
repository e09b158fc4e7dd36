SPECIFICATION Spec
CONSTANTS
    MaxPackets = 1
    ChunkCounts = {1}
    MaxResends = 2
    Window = 1
    Lifetime = 1
    MaxLost = 1
INVARIANTS
    SentMaxResendsTimesAtMost
