\* A restored run cannot be started.
SPECIFICATION Spec
CONSTANTS
    Tasks = {1, 2}
    DependsOn <- PairDependsOn
    Durable = {2}
    InPlace = {2}
    Remote = {1}
    Budget = 2
    Faults = {"crash", "start"}
    MaxUpsets = 2
    MaxAttempts = 3
    NoTask = 0
\* A recorded run that nobody resumes is the end.
CHECK_DEADLOCK FALSE
INVARIANTS
    KeepsStaging
