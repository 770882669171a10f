CONSTANTS
    p1 = p1
    p2 = p2
    n1 = n1
    n2 = n2
    NoOne = NoOne
    Programs <- MCPrograms
    Commands <- MCCommands
    Words <- MCWords
    KeyCount = 2
    Count = 2
    MaxBatchSize = 1
    ChunkSize = 2
    Workers = 2
SPECIFICATION FilesFairSpec
INVARIANTS
    UpdatesOwnKeys
    RefusedForCause
    PostedOnce
PROPERTIES
    FileSettles
CHECK_DEADLOCK FALSE
