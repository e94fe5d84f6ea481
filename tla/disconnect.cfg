\* A client goes away while its dequeue waits for the log.
CONSTANTS
    a = a
    c1 = c1
    c2 = c2
    sw = sw
    Base <- OneBase
    MaxAttempts = 2
    Clients <- OneClient
    Sweepers <- OneSweeper
    Creators <- OneClient
    CreateNames <- BaseName
    ReqNames <- BaseName
    HasWal = TRUE
    Faults <- NoFaults
    DropOps <- DequeueDrops
    MaxMsgs = 1
    MaxIds = 1
    MaxBatch = 1
    MaxCrashes = 0
SPECIFICATION Spec
INVARIANTS NoLoss
