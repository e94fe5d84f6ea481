\* An acknowledged message and a restart.
CONSTANTS
    a = a
    c1 = c1
    c2 = c2
    Base <- OneBase
    MaxAttempts = 2
    Clients <- OneClient
    Sweeper = sw
    ReqNames <- BaseName
    MaxMsgs = 1
    MaxLog = 7
    MaxBatch = 1
    MaxCrashes = 1
SPECIFICATION Spec
INVARIANTS AckedGone
