\* A node that purges its log, restarts and applies it again.
CONSTANTS
    a = a
    c1 = c1
    c2 = c2
    Base <- OneBase
    MaxAttempts = 2
    Clients <- OneClient
    Sweeper = sw
    ReqNames <- BaseName
    MaxMsgs = 2
    MaxLog = 6
    MaxBatch = 2
    MaxCrashes = 1
SPECIFICATION Spec
INVARIANTS TypeOK NoLoss SingleCopy AckedGoneTillRestart
PROPERTY AppliesOperations
