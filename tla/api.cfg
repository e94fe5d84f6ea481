\* One message through names, formats, failing appends and dead letter queues.
CONSTANTS
    Names <- LimitNames
    Values <- EdgeValues
    MaxAttempts = 2
    MaxFailures = 4
SPECIFICATION Spec
INVARIANTS TypeOK ValuePreserved Fetchable
