SPECIFICATION Spec
CONSTANTS
    show = show
    film = film
    NoSet = NoSet
    Sets <- Both
    FilesOf <- Files
    Downloaded <- Torrent
    Ordinals = {1, 2}
    MaxFaults = 2
INVARIANTS TypeOK NoContentLost NoSharedDestination NamedIsThere AllOrNothing
PROPERTIES OthersKept MoveFinishes
CHECK_DEADLOCK FALSE
