SPECIFICATION Spec
CONSTANTS
    Base = 8
    ChunkSize = 10
    NClients = 2
    NEarly = 1
    Reliably = {0, 6, 16, 35, 39}
    Unreliably = {0, 11, 29, 39}
    BodyLengths = {1, 9}
    ShortLengths = {0, 3}
    MaxSaid = 2
INVARIANTS
    TypeOK
    HeardAsSaid
    FramesAreUnambiguous
    OrderedStreamIsDense
CHECK_DEADLOCK FALSE
