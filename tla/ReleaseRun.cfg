SPECIFICATION Spec
CONSTANTS
    UJob = {u05, u20}
    Self = u20
    MayBlock = {u20}
    EJob = {e00}
    Outside = {mac, ci}
    Remote = ci
    Commands = 2
    Absent = Absent
    Torn = Torn
    Empty = Empty
    MaxFaults = 1
    MaxChanges = 1
INVARIANTS EvidenceIsLatest
PROPERTIES OkIsEarned ReleaseConverges
CHECK_DEADLOCK FALSE
