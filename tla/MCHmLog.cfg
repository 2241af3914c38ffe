SPECIFICATION FairSpec
CONSTANTS
    Producer = {p1, p2}
    Level = {0, 1}
    Free = Free
    MaxLogs = 3
INVARIANTS InOrder
PROPERTIES CancelsWhenDrained ShutdownCompletes
