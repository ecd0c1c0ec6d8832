SPECIFICATION SagaFairSpec
CONSTANTS
    Winner = w
    Seller = s
    Losers = {l1, l2}
    Price = 2
    LoserAmount = 1
    SellerInitial = 1
    MayFail = TRUE
    MayTimeout = TRUE
    MayCancel = TRUE
    MayCrash = TRUE
    MaySpend = TRUE
INVARIANTS CompletedMeansSettled LosersKeepTheirMoney FailureUndone
PROPERTIES SagaEnds
CHECK_DEADLOCK FALSE
