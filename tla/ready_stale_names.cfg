SPECIFICATION Spec
CONSTANTS
    show = show
    film = film
    NoSet = NoSet
    Sets <- Both
    FilesOf <- Files
    Downloaded <- Torrent
    Ordinals = {1, 2}
    MaxFaults = 2
INVARIANTS NamesFollow
CHECK_DEADLOCK FALSE
