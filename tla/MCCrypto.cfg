SPECIFICATION FairSpec
CONSTANTS
    w1 = w1  r1 = r1  r2 = r2  d1 = d1  h1 = h1
    Withdrawals = {w1}
    Requests = {r1, r2}
    AmountOf <- MCAmountOf
    Fees = {1}
    FeesMove = FALSE
    Batch = 1
    NoOne = NoOne
    OpeningWallet = 3
    Deposits = {d1}
    Handlers = {h1}
    ValueOf <- MCValueOf
    Swept = {d1}
    Nothing = Nothing
    Sweeper = Sweeper
    MaxDeaths = 1
INVARIANTS PendingIsTheHolds GivenBackOnItsWord
PROPERTY AnswersAreLearned
CHECK_DEADLOCK FALSE
