SPECIFICATION LockSpec
CONSTANTS
    Runner = {r1, r2}
    NoFile = NoFile
    Empty = Empty
    Stale = Stale
    Together = TRUE
INVARIANTS OneRunner
