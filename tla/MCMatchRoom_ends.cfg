SPECIFICATION FairSpec
CONSTANTS
    Users = {u1, u2}
    Androids = {a1, a2, a3}
    Matches = {m1}
    NumTables = 2
    TableSize = 2
    Draws = {2}
    MaxPlayers = 4
    Reserved = 3
    Games <- ThreeGamesThenOne
    Pass <- FourToTwoToNone
    Awards <- OneAward
    Fee = 1
    InitCoins = 1
    AtLeast = 0
    Scores = {1}
    Purse = 1
    HasOpenTimes = FALSE
    MaxEntries = 1
    Nobody = Nobody
CHECK_DEADLOCK FALSE
INVARIANTS
    InStepAtTable
PROPERTIES
    MatchEnds
    EveryoneStarts
