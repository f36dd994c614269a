SPECIFICATION Spec
CONSTANTS
    MaxEval = 3
    NoRequest = NoRequest
    NoResponse = NoResponse
    Request <- MCRequest
    Invalid <- MCInvalid
    Count <- MCCount
    Outcome <- MCOutcome
    LANES = 4
    CYC = 2
    DEPTH = 1
INVARIANTS LaneBestOfShare PulsesCollected
PROPERTIES AnswersAreDecisions EveryRequestAnswered
