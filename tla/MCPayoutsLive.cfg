SPECIFICATION FairSpec
CONSTANTS
    a = a  r1 = r1  r2 = r2  w1 = w1  w2 = w2
    Payouts = {a}
    Requests = {r1, r2}
    Workers = {w1}
    Nobody = Nobody
    For <- MCForOne
    AmountOf <- MCAmountOf
    FeeOf <- MCFeeOf
    Roles = {"webhook", "sweep"}
    OpeningWallet = 4
    OtherHolds = 3
PROPERTIES HeldIsDecided
CHECK_DEADLOCK FALSE
