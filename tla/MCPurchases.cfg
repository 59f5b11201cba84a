SPECIFICATION FairSpec
CONSTANTS
    k1 = k1  a = a  r1 = r1  r2 = r2  w1 = w1  w2 = w2
    Keys = {k1}
    References = {a}
    KeyOf <- MCKeyOf
    Requests = {r1, r2}
    Workers = {w1, w2}
    Nobody = Nobody
    For <- MCFor
    AmountOf <- MCAmountOf
    Roles = {"sweep", "resolve"}
    OpeningWallet = 3
    OtherHolds = 3
INVARIANTS DeliveredOrReturned BoughtOnce RowTellsLedger
PROPERTIES ImplementsHold DecisionIsLearned
CHECK_DEADLOCK FALSE
