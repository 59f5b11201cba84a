SPECIFICATION Spec
CONSTANTS
    a = a  r1 = r1  r2 = r2  w1 = w1  w2 = w2
    Payouts = {a}
    Requests = {r1, r2}
    Workers = {w1, w2}
    Nobody = Nobody
    For <- MCForOne
    AmountOf <- MCAmountOf
    FeeOf <- MCFeeOf
    Roles = {"webhook", "sweep", "list", "recover", "delivered"}
    OpeningWallet = 4
    OtherHolds = 3
INVARIANTS TypeOK PaidOrReturned RowTellsLedger BooksMatchHolds
PROPERTY ImplementsHold
CHECK_DEADLOCK FALSE
