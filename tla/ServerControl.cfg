SPECIFICATION FairSpec
CONSTANTS
    Admins = {s1, s2}
    UintMod = 4
    Times = {0, 2}
    Elapses = {0, 1}
    MaxSessions = 1
    MaxCommands = 2
INVARIANTS
    TypeOK
    OneAdmin
PROPERTIES
    ShutdownStops
    StopEndsServer
CHECK_DEADLOCK FALSE
