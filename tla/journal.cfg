\* An episode under every disturbance.
SPECIFICATION FairSpec
CONSTANTS
    Tasks = {1, 2, 3, 4}
    DependsOn <- EpisodeDependsOn
    Durable = {2, 4}
    InPlace = {2}
    Remote = {1, 3}
    Budget = 2
    Faults = {"crash", "drain", "cancel", "save", "late", "lock", "worker", "start",
              "ledger"}
    MaxUpsets = 3
    MaxAttempts = 3
    NoTask = 0
\* A recorded run that nobody resumes is the end.
CHECK_DEADLOCK FALSE
INVARIANTS
    TypeOK
    FirstStopRecovers
PROPERTIES
    Keeps
    NoSilentRepeat
    Settles
