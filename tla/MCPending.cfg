SPECIFICATION Spec
CONSTANTS
    ca = ca  cb = cb  h1 = h1  h2 = h2  d1 = d1  d2 = d2  g = g
    authA = authA  overA = overA  underA = underA  expiryA = expiryA
    authB = authB  settleB = settleB  refundB = refundB
    againA = againA  looseSettle = looseSettle  looseExpiry = looseExpiry
    Auths = {ca, cb}
    Events = {authA, overA, underA, expiryA, authB, settleB, refundB,
              againA, looseSettle, looseExpiry}
    Handlers = {h1, h2}
    KindOf <- MCKindOf
    AuthOf <- MCAuthOf
    AmountOf <- MCAmountOf
    Unnamed = Unnamed  NoEvent = NoEvent
    OpeningCard = 4
    Submissions = {g}
    Desks = {d1, d2}
    PayoutOf <- MCPayoutOf
    Nothing = Nothing
SYMMETRY MCSymmetry
INVARIANTS PendingIsTheHolds EachHoldPaysItself ClosedByOneEvent StatusTellsLedger
CHECK_DEADLOCK FALSE
