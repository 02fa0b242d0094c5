\* A strict-natural season is drained, cancelled and submitted again.
SPECIFICATION Spec
CONSTANTS
    Runs = {"user"}
    Tasks = {1, 2, 3, 4}
    Groups = {"g1", "g2"}
    Resources = {"media", "tts"}
    RunOf <- JoinRunOf
    GroupOf <- JoinGroupOf
    ResourceOf <- JoinResourceOf
    DependsOn <- JoinDependsOn
    GroupsOf <- JoinGroupsOf
    Limit <- JoinLimit
    Durable = {3, 4}
    Background = {}
    Automatic = {}
    Natural = {"user"}
    Journaled = {"user"}
    Extraction = "media"
    Retries = 1
    MaxSubmissions = 2
    Controls = {"cancel", "drain", "resubmit"}
    NoRun = "no run"
\* The thread ends when no work is left and callers may stop calling.
CHECK_DEADLOCK FALSE
INVARIANTS
    WorkInv
PROPERTIES
    Executes
    NaturalForwarding
