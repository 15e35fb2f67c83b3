SPECIFICATION LogLiveSpec
CONSTANTS
    RotateSize = 3
    KeepFiles = 2
    KeepDays = 1
    MaxLine = 2
    MaxDay = 2
    MaxTurns = 1
    MaxWrites = 11
    MaxRestarts = 1
INVARIANT
    FolderBounded
PROPERTIES
    TailReachesDay
CHECK_DEADLOCK FALSE
