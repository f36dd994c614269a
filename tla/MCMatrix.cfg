SPECIFICATION Spec
CONSTANTS
    Runner = {r1, r2}
    NoFile = NoFile
    Empty = Empty
    Stale = Stale
    None = None
    Together = FALSE
    Version = {"good", "bad"}
    Config = {"a2"}
    Path = {"here", "there"}
    Here = "here"
    Job = {"j1", "j2"}
    ConfigOf <- MCConfigOf
    MeetsTiming <- MCMeets
    OverBudget <- MCOver
    Jobs <- MCJobs
    Decisions <- MCDecisions
    Correct = {"good"}
    MaxFaults = 1
    MaxChanges = 1
    MaxAttempts = 1
INVARIANTS OneRunner AcceptedIsLive
PROPERTIES FinishedIsAccepted AttemptsStand MatrixSettles
