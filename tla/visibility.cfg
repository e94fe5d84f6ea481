\* Two tasks, heartbeats, a restart.
CONSTANTS
    m1 = m1
    m2 = m2
    Msgs <- TwoMsgs
    MaxAttempts = 2
    Timeout = 1
    MaxBeats = 1
    MaxCrashes = 1
SPECIFICATION Spec
INVARIANT TypeOK
PROPERTIES NotBeforeTimeout ScanRespectsHeartbeat AbandonedReturns EventuallySettled
