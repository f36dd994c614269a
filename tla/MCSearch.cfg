SPECIFICATION PipelineSpec
CONSTANTS
    MaxN = 4
    NoRequest = NoRequest
    Bubble = Bubble
    Request <- MCRequest
    Invalid <- MCInvalid
    Count <- MCCount
    Outcome <- MCOutcome
    BANKS = 3
    MERGE = 1
INVARIANTS TokensInOrder RunningBest
PROPERTIES DoneIsComplete
