SPECIFICATION SuiteSpec
CONSTANTS
    Version = {v1, v2}
    Key = {"capped", "toppedOut"}
    Cap = 5
    Every = 2
    Length <- MCLength
    Suite <- MCSuite
    MaxStops = 3
    MaxEdits = 1
INVARIANTS RecordsAreUninterrupted StopCost
PROPERTIES SuiteIsAnalysed
