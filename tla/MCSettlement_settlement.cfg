SPECIFICATION Spec
CONSTANTS
    Chairs = {0, 1, 2, 3}
    Androids = {1}
    Scores = {7, 130}
    Hands = {1, 4}
    CellScore = 1
    JettionList <- Jettons
    CallMulti <- OneTwoFour
    RevenueRatio = 5
    ReduceRatio = 10
CHECK_DEADLOCK FALSE
INVARIANTS
    SmallForSmall
    BetsAreCovered
    BooksBalance
