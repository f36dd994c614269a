SPECIFICATION Spec
CONSTANTS
    W = 10
    H = 20
    PRECISION = 3
    Builds <- MCBuilds
    Boards <- MCBoards
    Asked <- MCAsked
INVARIANTS ResultIsRule UnitsInStep LatencyContract ArchitecturesAgree
