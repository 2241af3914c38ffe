SPECIFICATION FairSpec
CONSTANTS
    Address = {a, b}
    NoAddress = NoAddress
    Recipient = {"r1", "r2", "r3"}
    EmailTable <- ThreeRows
    MaxChanges = 2
    MaxOdd = 1
INVARIANTS FlaggedWasTried RowsDiffer
PROPERTIES StableAddressReported
