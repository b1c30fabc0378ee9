SPECIFICATION Spec
CONSTANTS
    Classes = {"warrior", "wizard", "other"}
    Warrior = "warrior"
    HealthOf <- MCHealthOf
    ManaOf <- MCManaOf
    Auras = {"HELD", "INVULNERABLE", "SNEAK"}
    TableFrames <- MCTableFrames
    SpellAuras = {"INVULNERABLE"}
    SpellFrames <- MCSpellFrames
    HeldFrames = 1
    SneakFrames = 99999
    Abilities = {"CHARGE", "TREAD"}
    AbilityDelay <- MCAbilityDelay
    Emotes = {"LAUGH"}
    Duration <- MCDuration
    Diffs = {1, 2}
    MinDiff = 1
    Hits = {2}
    Drains = {2}
    SpellCost = 2
    Regen = 1
    Junk = {0, 1}
    MaxDelta = 2
INVARIANTS
    TypeOK
    
    ManaBounded
    ChargePaid
PROPERTIES
    OnlyRespawnRevives
    HeldEnds
    ActsAgain
CHECK_DEADLOCK FALSE
