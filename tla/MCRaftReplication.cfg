SPECIFICATION Spec
CONSTANTS
    N = 3
    Capacity = 2
    MayFail = {}
    Duplicates = TRUE
    Starters <- OneThenTwo
    MaxRequests = 2
    MaxMsgs = 2
    MaxRestarts = 1
    MaxSnapshots = 0
    Snapshotters = {}
VIEW LiveView
CONSTRAINT NotAllAtOnce
INVARIANTS ElectionSafety LogMatching LeaderCompleteness StateMachineSafety AppliedOnMajority CommittedFinal NeverStopped MatchIdxSound
PROPERTIES VoteOncePerTerm CommittedKept
