SPECIFICATION Spec
CONSTANTS
    N = 5
    Capacity = 2
    MayFail = {}
    Duplicates = FALSE
    Starters <- Five
    MaxRequests = 3
    MaxMsgs = 2
    MaxRestarts = 0
    MaxSnapshots = 0
    Snapshotters = {}
VIEW LiveView
CONSTRAINT Partitioned
INVARIANTS InvalidatedFinal
