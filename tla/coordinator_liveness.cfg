\* A ready-first run of Auto with a locked publication ends, whether it loses its
\* journal, is cancelled, drained, held back by the switch for a while, or left
\* alone.
SPECIFICATION FairSpec
CONSTANTS
    Runs = {"user"}
    Tasks = {1, 2, 3}
    Groups = {"g1", "g2"}
    Resources = {"media", "filesystem"}
    RunOf <- CoverRunOf
    GroupOf <- CoverGroupOf
    ResourceOf <- CoverResourceOf
    DependsOn <- CoverDependsOn
    GroupsOf <- CoverGroupsOf
    Limit <- CoverLimit
    Durable = {1, 2}
    Background = {}
    Automatic = {"user"}
    Natural = {}
    Journaled = {"user"}
    Extraction = "media"
    Retries = 1
    MaxSubmissions = 1
    Controls = {"cancel", "drain", "background"}
    NoRun = "no run"
\* The thread ends when no work is left and callers may stop calling.
CHECK_DEADLOCK FALSE
PROPERTIES
    RunResolves
    DrainResolves
    CancelResolves
