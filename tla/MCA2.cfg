SPECIFICATION Spec
CONSTANTS
    MaxN = 3
    NoRequest = NoRequest
    NoResponse = NoResponse
    Bubble = Bubble
    Request <- MCRequest
    Invalid <- MCInvalid
    Count <- MCCount
    Outcome <- MCOutcome
    LANES = 1
    CYC = 128
    DEPTH = 1
    BANKS = 23
    MERGE = 3
INVARIANTS OwnedContext StartDoneProtocol CycleContract
PROPERTIES AnswersAreDecisions EveryRequestAnswered
