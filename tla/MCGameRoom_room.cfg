SPECIFICATION Spec
CONSTANTS
    Users = {u1, u2, u3}
    Androids = {a1}
    Items = {i1, i2, i3}
    Tables = {t1}
    MinPlayers = 2
    MaxPlayers = 3
    Conflicts = {{u1, u2}}
    PoorAndroids = TRUE
    MaxStale = 1
    Nobody = Nobody
SYMMETRY InterchangeableThings
INVARIANTS
    TypeOK
    SeatIsFound
    OnlineWhileSeated
    RoundIsAlive
    MatchingGoesOn
PROPERTIES
    RoundKeptUnlessStale
