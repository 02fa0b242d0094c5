\* Two runs of different origin compete for one worker under every control.
SPECIFICATION Spec
CONSTANTS
    Runs = {"user", "auto"}
    Tasks = {1, 2, 3}
    Groups = {"g1", "g2"}
    Resources = {"media", "tts"}
    RunOf <- ChainRunOf
    GroupOf <- ChainGroupOf
    ResourceOf <- ChainResourceOf
    DependsOn <- ChainDependsOn
    GroupsOf <- ChainGroupsOf
    Limit <- ChainLimit
    Durable = {2}
    Background = {"auto"}
    Automatic = {"auto"}
    Natural = {}
    Journaled = {"user"}
    Extraction = "media"
    Retries = 1
    MaxSubmissions = 2
    Controls = {"cancel", "background", "pause", "close", "fault"}
    NoRun = "no run"
\* The thread ends when no work is left and callers may stop calling.
CHECK_DEADLOCK FALSE
INVARIANTS
    TypeOK
    WindowExact
    NoOrphanWork
    NoLostWakeup
