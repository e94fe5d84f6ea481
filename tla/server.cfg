\* Two requests and the cleanup loop, a thread for each; appends that fail, but
\* not that of a nack.
CONSTANTS
    r1 = r1
    r2 = r2
    cl = cl
    Requests <- TwoRequests
    Cleaner = cl
    Workers = 3
    FailingOps <- AllButNack
SPECIFICATION Spec
CHECK_DEADLOCK FALSE
INVARIANTS TypeOK NoWaitCycle
PROPERTIES Answered ShutsDown
