SPECIFICATION LimitsSpec
CONSTANTS
    t1 = t1  t2 = t2  b1 = b1  h1 = h1  h2 = h2  ann = ann  ben = ben
    Requests = {t1, t2, b1}
    Handlers = {h1, h2}
    ScopeOf <- MCScopeOf
    Amount <- MCAmount
    Payee <- MCPayee
    Nobody = Nobody
    Levels = {2, 3}
    CountHourly <- MCCountHourly
    Strangers = 1
    Hour = 2
    Day = 3
    MaxClock = 3
SYMMETRY Symmetry
INVARIANTS DayWithinCeiling HourWithinCount
CHECK_DEADLOCK FALSE
