SPECIFICATION FairSpec
CONSTANTS
    Workers = {w1}
    Nobody = nobody
    Orphan = orphan
    NumLogs = 2
    MaxBlock = 3
    blockOf <- SparseBlockOf
    confirmations = 0
    range = 2
    MaxReorgDepth = 1
    MaxForks = 1
    MaxFaults = 0
    MayBackfill = {}
    AcquireMayFail = {}
INVARIANT ReorgShows
