SPECIFICATION Spec
CONSTANTS
    Clients = {c1, c2}
    MaxIds = 3
SYMMETRY Symmetry
INVARIANT
    LeaversAreRemoved
CHECK_DEADLOCK FALSE
