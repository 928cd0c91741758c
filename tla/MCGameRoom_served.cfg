SPECIFICATION FairSpec
CONSTANTS
    Users = {u1, u2}
    Androids = {a1}
    Items = {i1, i2}
    Tables = {t1}
    MinPlayers = 2
    MaxPlayers = 3
    Conflicts = {}
    PoorAndroids = FALSE
    MaxStale = 1
    Nobody = Nobody
PROPERTIES
    RoundEnds
    EverybodyIsServed
