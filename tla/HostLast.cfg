SPECIFICATION Spec
CONSTANTS
    c1 = c1  c2 = c2  c3 = c3
    Clients <- Two
    NMaps = 1
    Times = {2, 5}
    LapCounts = {1}
    Voters <- Nobody
    Askers <- Nobody
PROPERTIES
    HostIsListedLast
