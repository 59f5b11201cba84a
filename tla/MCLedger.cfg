SPECIFICATION FairSpec
CONSTANTS
    Posters = {p1, p2}
    w1 = w1  w2 = w2  fN = fN  fU = fU
    k1 = k1  k2 = k2  k3 = k3
    Keys = {k1, k2, k3}
    NoKey = NoKey
    NoOne = NoOne
    Accounts = {w1, w2, fN, fU}
    Customer = {w1, w2}
    Currencies = {"NGN", "USD"}
    CurrencyOf <- MCCurrencyOf
    Intents <- MCIntents
    MaxCalls = 3
INVARIANTS NoOverdraft NoDrift OneEntryPerKey HookIffEntry Conserved AnswersAreTrue
PROPERTIES ImplementsAtomic PostReturns
CHECK_DEADLOCK FALSE
