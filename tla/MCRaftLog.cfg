SPECIFICATION Spec
CONSTANTS
    Entry = {e1, e2}
    NoEntry = NoEntry
    Capacity = 2
    Callbacks = {"log_offer", "log_pop", "log_poll", "log_clear"}
    MaxSize = 4
    MaxIdx = 6
SYMMETRY EntrySymmetry
INVARIANTS
    RingInv
    BatchIsLogSegment
PROPERTIES
    PopPollReleaseExactly
    ImplementsAbstractLog
