SPECIFICATION FairSpec
CONSTANTS
    Workers = {w1, w2}
    Nobody = nobody
    Orphan = orphan
    NumLogs = 3
    MaxBlock = 3
    blockOf <- MCBlockOf
    confirmations = 1
    range = 1
    MaxReorgDepth = 1
    MaxForks = 1
    MaxFaults = 2
    MayBackfill = {w2}
    AcquireMayFail = {w2}
INVARIANTS TypeOK AppliedInOrder CheckpointCovered
PROPERTIES CheckpointSettles LedgerSpec
