SPECIFICATION Spec
CONSTANTS
    N = 3
    Capacity = 2
    MayFail = {"log_offer"}
    Duplicates = FALSE
    Starters <- OneTerm
    MaxRequests = 2
    MaxMsgs = 1
    MaxRestarts = 1
    MaxSnapshots = 1
    Snapshotters = {1}
VIEW LiveView
INVARIANTS TypeOK
PROPERTIES CommittedKept
