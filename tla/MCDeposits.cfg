SPECIFICATION FairSpec
CONSTANTS
    onPaystack = onPaystack  onKora = onKora  onBitnob = onBitnob
    h1 = h1  h2 = h2
    Deposits = {onBitnob, onPaystack, onKora}
    Handlers = {h1, h2}
    RailOf <- MCRailOf
    IdOf <- MCIdOf
    Window = 2
    Asked = {"bitnob", "kora"}
    Large = {onBitnob, onPaystack, onKora}
    MaxArrivals = 1
    Nothing = Nothing
INVARIANTS CreditedOnce SuspenseIsThere
PROPERTY ArrivalIsBooked
CHECK_DEADLOCK FALSE
