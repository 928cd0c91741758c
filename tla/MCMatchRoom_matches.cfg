SPECIFICATION Spec
CONSTANTS
    Users = {u1, u2}
    Androids = {a1, a2, a3, a4, a5, a6}
    Matches = {m1, m2}
    NumTables = 3
    TableSize = 2
    Draws = {2}
    MaxPlayers = 4
    Reserved = 3
    Games <- OneGame
    Pass <- OneRound
    Awards <- ThreeAwards
    Fee = 1
    InitCoins = 1
    AtLeast = 1
    Scores = {1}
    Purse = 1
    HasOpenTimes = FALSE
    MaxEntries = 1
    Nobody = Nobody
SYMMETRY Interchangeable
CHECK_DEADLOCK FALSE
INVARIANTS
    OneMatchPerTable
    InOneMatch
    OneWaits
    AndroidsReserved
