SPECIFICATION Spec
CONSTANTS
    p1 = p1
    p2 = p2
    item = item
    bolt = bolt
    stone = stone
    here = here
    there = there
    Pack = Pack
    None = None
    Players <- MCPlayers
    Items <- MCItems
    Missiles <- MCMissiles
    Fixtures <- MCFixtures
    MapFile <- MCMapFile
    Places <- MCPlaces
    Near <- MCNear
    Start = here
    Spawn = there
    MaxExtent = 2
SYMMETRY MCSymmetry
INVARIANTS
    TypeOK
    ExtentsNameObjects
    TablesLive
    PlayersReached
    SightComplete
    OnlyExcusedDangling
CHECK_DEADLOCK FALSE
