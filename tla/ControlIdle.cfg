SPECIFICATION FairSpec
CONSTANTS
    Admins = {s1}
    UintMod = 4
    Times = {0, 2}
    Elapses = {0, 1}
    MaxSessions = 1
    MaxCommands = 1
CHECK_DEADLOCK FALSE
PROPERTY
    IdleShutdownStops
