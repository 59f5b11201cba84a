SPECIFICATION ClientFairSpec
CONSTANTS
    c1 = c1  c2 = c2
    Calls = {c1, c2}
    Flights = {1, 2, 3}
    MaxPage = 1
    MaxToken = 3
    None = None
INVARIANTS OnlyLossIsReuse SignedOutIsOut
PROPERTY CallsEnd
CHECK_DEADLOCK FALSE
