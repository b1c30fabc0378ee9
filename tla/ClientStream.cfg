SPECIFICATION FairSpec
CONSTANTS
    UnkMod = 3
    ClientUnks = {2}
    MapSize = 3
    PieceSize = 2
    MaxStream = 10
INVARIANT
    TypeOK
PROPERTIES
    
    AcceptedSent
    
CHECK_DEADLOCK FALSE
