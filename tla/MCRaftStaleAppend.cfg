SPECIFICATION Spec
CONSTANTS
    N = 2
    Capacity = 2
    MayFail = {}
    Duplicates = FALSE
    Starters <- OneTerm
    MaxRequests = 3
    MaxMsgs = 2
    MaxRestarts = 0
    MaxSnapshots = 1
    Snapshotters = {1, 2}
VIEW LiveView
INVARIANTS AppliedOnMajority
