SPECIFICATION Spec
CONSTANTS
    Clients = {c1, c2}
    MaxIds = 3
SYMMETRY Symmetry
INVARIANTS
    TypeOK
    OneSeesTheOther
    MembersKnowEachOther
    LeavesAreForTheGone
CHECK_DEADLOCK FALSE
