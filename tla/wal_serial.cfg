\* One request at a time, log failures and crashes between any two stages.
CONSTANTS
    a = a
    c1 = c1
    c2 = c2
    sw = sw
    Base <- OneBase
    MaxAttempts = 2
    Clients <- OneClient
    Sweepers <- OneClient
    Creators <- OneClient
    CreateNames <- BaseName
    ReqNames <- WithDlq
    HasWal = TRUE
    Faults <- WalFailsCuts
    DropOps <- NoDrops
    MaxMsgs = 3
    MaxIds = 3
    MaxBatch = 2
    MaxCrashes = 2
SPECIFICATION Spec
INVARIANTS RecoveryExact DurableLive DurableAck FreshInOrder DeliveryBound
