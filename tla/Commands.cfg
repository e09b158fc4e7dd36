SPECIFICATION Spec
CONSTANTS
    c1 = c1  c2 = c2  c3 = c3
    Clients <- Two
    NMaps = 2
    Times = {1}
    LapCounts = {1, 2}
    Voters <- Two
    Askers <- One
INVARIANTS
    TypeOK
    LobbyKnowsTheNextRace
    VotesAreForAnotherMap
PROPERTIES
    RaceIsFixed
    SwitchNeedsAMajority
    VoteDecidesTheNextMap
