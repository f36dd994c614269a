SPECIFICATION PlaySpec
CONSTANTS
    W = 4
    H = 4
    PRECISION = 0
    Dealt = {0, 1, 2, 3, 4, 5, 6}
    First = {2, 6}
    Shown = {1}
    MaxPieces = 3
INVARIANTS PlayTypeOK RulesAgree
PROPERTIES CellsConserved
CHECK_DEADLOCK FALSE
