SPECIFICATION Spec
CONSTANTS
    w1 = w1
    w2 = w2
    r1 = r1
    r2 = r2
    r3 = r3
    Requests <- Parts
    Rank <- Order
    Workers <- Tasks
    Capacity = 2
    MaxRetries = 1
    Closes = TRUE
INVARIANTS TypeOK AdmissionBalanced OnePlace NothingLeftBehind ClosedQuiet
PROPERTIES NoCallAfterStop EveryRequestResolves
CHECK_DEADLOCK FALSE
