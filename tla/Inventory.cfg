SPECIFICATION Spec
CONSTANTS
    p1 = p1
    p2 = p2
    sword = sword
    kitSword = kitSword
    apple = apple
    None = None
    Players = {p1, p2}
    Items = {sword, kitSword, apple}
    OnMap = {sword, apple}
    Secondary = 2
    SlotOf <- MCSlotOf
    Wearable = {sword, kitSword}
    Food = {apple}
    Usable = {apple}
INVARIANTS
    TypeOK
    ExclusiveOwner
    NothingStranded
    WornCarried
    
    NoneDangling
PROPERTY
    OwnershipKept
SYMMETRY MCSymmetry
CHECK_DEADLOCK FALSE
