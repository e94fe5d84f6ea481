\* Two requests and the cleanup loop on two threads; no append fails.
CONSTANTS
    r1 = r1
    r2 = r2
    cl = cl
    Requests <- TwoRequests
    Cleaner = cl
    Workers = 2
    FailingOps <- NoOps
SPECIFICATION Spec
CHECK_DEADLOCK FALSE
PROPERTY HealthAnswered
