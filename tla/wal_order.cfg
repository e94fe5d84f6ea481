\* Two requests whose log entries and changes come in different orders.
CONSTANTS
    a = a
    c1 = c1
    c2 = c2
    sw = sw
    Base <- OneBase
    MaxAttempts = 2
    Clients <- TwoClients
    Sweepers <- OneSweeper
    Creators <- OneClient
    CreateNames <- BaseName
    ReqNames <- BaseName
    HasWal = TRUE
    Faults <- NoFaults
    DropOps <- NoDrops
    MaxMsgs = 2
    MaxIds = 2
    MaxBatch = 1
    MaxCrashes = 0
SPECIFICATION Spec
INVARIANTS DurableLive
