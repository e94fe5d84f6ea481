\* Two clients and the cleanup loop, log failures, no crash.
CONSTANTS
    a = a
    c1 = c1
    c2 = c2
    sw = sw
    Base <- OneBase
    MaxAttempts = 2
    Clients <- TwoClients
    Sweepers <- OneSweeper
    Creators <- OneClient
    CreateNames <- BaseName
    ReqNames <- WithDlq
    HasWal = TRUE
    Faults <- WalFails
    DropOps <- SafeDrops
    MaxMsgs = 2
    MaxIds = 2
    MaxBatch = 2
    MaxCrashes = 0
SPECIFICATION Spec
INVARIANTS TypeOK NoLoss SingleCopy RemovedGone RetriesFirst AttemptsCounted
PROPERTY Linearizable
