SPECIFICATION Spec
CONSTANTS
    d1 = d1  d2 = d2  l1 = l1  l2 = l2  h1 = h1  h2 = h2  e1 = e1  c1 = c1  s1 = s1  s2 = s2
    Devices = {d1, d2}
    Logins = {l1, l2}
    Holders = {h1, h2}
    Evictions = {e1}
    Codes = {c1}
    Admins = {s1}
    Free = Free
    MaxAttempts = 2
    MaxPassword = 1
    MaxGeneration = 1
SYMMETRY MCSymmetry
INVARIANTS TypeOK NoSessionOnRevokedDevice ReplayRevokes
PROPERTIES RevocationIsFinal
CHECK_DEADLOCK FALSE
