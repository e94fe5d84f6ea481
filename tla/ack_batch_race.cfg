\* An ack_batch and a nack of one task at the same time.
CONSTANTS
    a = a
    c1 = c1
    c2 = c2
    sw = sw
    Base <- OneBase
    MaxAttempts = 2
    Clients <- TwoClients
    Sweepers <- OneSweeper
    Creators <- OneClient
    CreateNames <- BaseName
    ReqNames <- BaseName
    HasWal = TRUE
    Faults <- NoFaults
    DropOps <- NoDrops
    MaxMsgs = 1
    MaxIds = 1
    MaxBatch = 1
    MaxCrashes = 0
SPECIFICATION Spec
INVARIANTS AckedGone
