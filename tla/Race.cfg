SPECIFICATION Spec
CONSTANTS
    c1 = c1  c2 = c2  c3 = c3
    Clients <- Three
    NMaps = 1
    Times = {1}
    LapCounts = {1}
    Voters <- Nobody
    Askers <- One
INVARIANTS
    RaceHasALobby
    EndIsDueWhenAllAreHome
    NothingLeftOfTheLastRace
PROPERTIES
    GoWaitsForEveryone
    StartIsUnanimous
    ImplementsRaceCycle
    AFinishEndsTheRace
