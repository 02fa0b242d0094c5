\* A strict-natural season is drained.
SPECIFICATION FairSpec
CONSTANTS
    Runs = {"user"}
    Tasks = {1, 2, 3}
    Groups = {"g1", "g2"}
    Resources = {"media"}
    RunOf <- SeasonRunOf
    GroupOf <- SeasonGroupOf
    ResourceOf <- SeasonResourceOf
    DependsOn <- SeasonDependsOn
    GroupsOf <- SeasonGroupsOf
    Limit <- SeasonLimit
    Durable = {2, 3}
    Background = {}
    Automatic = {}
    Natural = {"user"}
    Journaled = {"user"}
    Extraction = "media"
    Retries = 1
    MaxSubmissions = 2
    Controls = {"drain"}
    NoRun = "no run"
\* The thread ends when no work is left and callers may stop calling.
CHECK_DEADLOCK FALSE
PROPERTIES
    DrainResolves
