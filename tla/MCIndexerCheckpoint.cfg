SPECIFICATION FairSpec
CONSTANTS
    Workers = {w1, w2}
    Nobody = nobody
    Orphan = orphan
    NumLogs = 2
    MaxBlock = 4
    blockOf <- SparseBlockOf
    confirmations = 1
    range = 2
    MaxReorgDepth = 0
    MaxForks = 0
    MaxFaults = 1
    MayBackfill = {}
    AcquireMayFail = {}
PROPERTY CheckpointMonotone
