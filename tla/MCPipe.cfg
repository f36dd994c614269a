SPECIFICATION ProtocolSpec
CONSTANTS
    r1 = r1
    r2 = r2
    NoRequest = NoRequest
    Bubble = Bubble
    Request <- MCRequest
    Invalid <- MCInvalid
    Count <- MCCount
    Outcome <- MCOutcome
    BANKS = 4
    MERGE = 2
    MaxTokens = 6
INVARIANTS Conservation OutputIsOldest
PROPERTIES EveryTokenDelivered
