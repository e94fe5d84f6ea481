\* One request at a time; a crash may leave a part of a line.
CONSTANTS
    a = a
    c1 = c1
    c2 = c2
    sw = sw
    Base <- OneBase
    MaxAttempts = 2
    Clients <- OneClient
    Sweepers <- OneSweeper
    Creators <- OneClient
    CreateNames <- BaseName
    ReqNames <- BaseName
    HasWal = TRUE
    Faults <- Tears
    DropOps <- NoDrops
    MaxMsgs = 2
    MaxIds = 1
    MaxBatch = 1
    MaxCrashes = 1
SPECIFICATION Spec
INVARIANTS NoLoss
