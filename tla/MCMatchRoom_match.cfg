SPECIFICATION Spec
CONSTANTS
    Users = {u1, u2}
    Androids = {a1, a2, a3}
    Matches = {m1}
    NumTables = 2
    TableSize = 2
    Draws = {2}
    MaxPlayers = 4
    Reserved = 2
    Games <- TwoGamesThenOne
    Pass <- FourToTwoToNone
    Awards <- ThreeAwards
    Fee = 1
    InitCoins = 1
    AtLeast = 1
    Scores = {0, 2}
    Purse = 1
    HasOpenTimes = TRUE
    MaxEntries = 1
    Nobody = Nobody
SYMMETRY Interchangeable
INVARIANTS
    TypeOK
    NobodyIsLost
    MoneyConserved
PROPERTIES
    RankIsKept
