SPECIFICATION OutboxFairSpec
CONSTANTS
    code = code  receipt = receipt  f1 = f1
    Messages = {code, receipt}
    Security = {code}
    Fast = {f1}
    Sweeper = Sweeper
    Batch = 2
    Ceiling = 3
    NoMessage = NoMessage
INVARIANTS OneSenderPerLease
PROPERTIES EveryMessageEnds
CHECK_DEADLOCK FALSE
