SPECIFICATION Spec
CONSTANTS
    NoRequest = NoRequest
    NoResponse = NoResponse
    Request <- MCRequest
    Invalid <- MCInvalid
    Count <- MCCount
    Outcome <- MCOutcome
    Lines <- MCLines
    NextCount <- MCNextCount
    Leaf <- MCLeaf
    WL = 4
    MaxEval = 2
    LANES = 1
    CYC = 2
    DEPTH = 2
INVARIANTS JobsAreConsistent BestsOfFinishedRoots
PROPERTIES AnswersAreTwoPieceDecisions EveryRequestAnswered
