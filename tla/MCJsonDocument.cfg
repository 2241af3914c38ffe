CONSTANTS
    Values <- MCValues
    Documents <- MCDocuments
    ExtraBytes = {0, 78, 255}
    Pairs <- MCPairs
    Moves <- MCMoves
    Flats <- MCFlats
    Dumps <- MCDumps
    BufferSize = 16
    IndentSize = 4
SPECIFICATION DocumentSpec
CHECK_DEADLOCK FALSE
INVARIANTS RoundTrip PrefixRejected BsonSizes DocumentsRead PatchMakesTarget MoveBack UnflattenRestores DumpReadsBack
