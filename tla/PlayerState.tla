----------------------------- MODULE PlayerState -----------------------------
(***************************************************************************)
(* The object of one player: Player, Unit and what of Object they use, for *)
(* health, mana, the action that is played, abilities and enchantments.    *)
(* A client's requests change it while its session is updated; the         *)
(* contacts that the physics finds after the pass change it by what other  *)
(* objects do; then Player::Update settles the damage and counts down.     *)
(* Only Update adds the damage to the health: until then a player who was  *)
(* killed is handled as one who lives.                                     *)
(*                                                                         *)
(* m_poison is never set to more than 0 and ENCHANT_RUN and ENCHANT_SHOCK  *)
(* are never set at all, so that poison and what these enchantments change *)
(* are left out.  The items that Die drops and Respawn hands out are in    *)
(* Inventory.                                                              *)
(***************************************************************************)
EXTENDS Integers

CONSTANTS
    Classes, Warrior,         \* the class byte; any value can be sent
    HealthOf, ManaOf,         \* of the classes that Respawn knows
    Auras, TableFrames,       \* enchantments and their entry in enchantTable
    SpellAuras, SpellFrames,  \* those that spells and items give
    HeldFrames, SneakFrames,  \* of a crash, and TreadLightlyDuration
    Abilities, AbilityDelay,  \* in Updates
    Emotes, Duration,         \* of each action, frames * 33: milliseconds
    Diffs, MinDiff,           \* the diff of a round; the thread's sleep
    Hits, Drains,             \* damage and healing; mana drained
    SpellCost, Regen,
    Junk,                     \* what memory may hold before a Respawn
    MaxDelta                  \* bound on the damage between two Updates

Named   == {"IDLE", "DEAD", "JUMP", "WALK", "RUN", "SNEAK", "SHIELD",
            "STRIKE", "CHARGE", "WARCRY"}
Actions == Named \union Emotes
Kits    == DOMAIN HealthOf
PerPoint == 5   \* health is counted in fifths of a point

ASSUME ClassAssumption ==
    /\ Warrior \in Kits /\ Kits \subseteq Classes
    /\ HealthOf \in [Kits -> Nat \ {0}] /\ ManaOf \in [Kits -> Nat]
ASSUME AuraAssumption ==
    /\ {"HELD", "INVULNERABLE", "SNEAK"} \subseteq Auras
    /\ TableFrames \in [Auras -> Nat] /\ SpellFrames \in [Auras -> Nat]
    /\ SpellAuras \subseteq Auras \ {"HELD", "SNEAK"}
    /\ HeldFrames \in 1..32767 /\ SneakFrames \in Nat \ {0}
ASSUME TimeAssumption ==
    /\ Abilities \subseteq {"CHARGE", "WARCRY", "TREAD", "WOLF"}
    /\ AbilityDelay \in [Abilities -> Nat \ {0}]
    /\ Emotes \intersect Named = {}
    /\ Duration \in [Actions -> Nat]
    /\ MinDiff \in Nat \ {0}
    /\ Diffs \subseteq Nat /\ \A d \in Diffs : d >= MinDiff
    /\ "WOLF" \in Abilities => "INFRAVISION" \in Auras
ASSUME AmountAssumption ==
    /\ Hits \subseteq Nat /\ Drains \subseteq Nat
    /\ SpellCost \in Nat /\ Regen \in Nat
    /\ Junk \subseteq Int /\ MaxDelta \in Nat
(* In milliseconds 90 * 33 < 30 * (300 - 1).                               *)
ASSUME ChargeAssumption ==
    "CHARGE" \in Abilities =>
        Duration["CHARGE"] < MinDiff * (AbilityDelay["CHARGE"] - 1)

VARIABLES
    u,        \* the player's object
    own,      \* the health in the last packet that its client was sent
    session,  \* "none", "half": a player not logged in, "in": STATUS_LOGGEDIN
    loading,  \* m_playerLoading
    phase,    \* what the world thread does
    pardon    \* history: respawned in the middle of the present charge

vars == <<u, own, session, loading, phase, pardon>>

TypeOK ==
    /\ u \in [class : Classes, health : Nat, maxHealth : Nat, delta : Int,
              mana : Int, maxMana : Int, action : Actions, time : Nat,
              auras : SUBSET Auras, left : [Auras -> Int],
              delay : [Abilities -> Nat]]
    /\ own \in Nat
    /\ session \in {"none", "half", "in"}
    /\ loading \in BOOLEAN
    /\ phase \in {"sessions", "contacts"}
    /\ pardon \in BOOLEAN

Cleared == [a \in Auras |-> 0]

(* The constructors set neither the mana nor the delays of the abilities.  *)
NewPlayer(c, mana, maxMana, delay) ==
    [class |-> c, health |-> 0, maxHealth |-> 0, delta |-> 0,
     mana |-> mana, maxMana |-> maxMana, action |-> "IDLE", time |-> 0,
     auras |-> {}, left |-> Cleared, delay |-> [a \in Abilities |-> delay]]

(* While there is no object u is one that nothing has happened to.         *)
NoPlayer == NewPlayer(Warrior, 0, 0, 0)

Init ==
    /\ u = NoPlayer /\ own = 0
    /\ session = "none" /\ loading = FALSE
    /\ phase = "sessions" /\ pardon = FALSE

-----------------------------------------------------------------------------
(* What Object, Unit and Player do with the object w.                      *)

IsDead(w) == w.health <= 0

Int16(n) == ((n + 32768) % 65536) - 32768

Damage(w, d) == IF IsDead(w) THEN w ELSE [w EXCEPT !.delta = @ - d]

(* Mutant: the dead are healed too.                                        *)
HealAll(w, h) == [w EXCEPT !.delta = @ + h]
Heal(w, h) == IF IsDead(w) THEN w ELSE [w EXCEPT !.delta = @ + h]

ManaDrain(w, d) ==
    IF w.maxMana <= 0 THEN w
    ELSE [w EXCEPT !.mana = IF @ - d < 0 THEN 0
                            ELSE IF @ - d > w.maxMana THEN w.maxMana
                            ELSE @ - d]

SetEnchant(w, a, frames) ==
    [w EXCEPT !.auras = @ \union {a},
              !.left[a] = IF Int16(frames) # 0 THEN Int16(frames)
                          ELSE TableFrames[a]]
UnsetEnchant(w, a) == [w EXCEPT !.auras = @ \ {a}, !.left[a] = 0]

(* SetActionAnim, which answers FALSE when another action is not over yet. *)
SetActionAnim(w, anim) ==
    IF w.time # 0 /\ w.action \notin {anim, "WALK", "RUN"} THEN w
    ELSE [w EXCEPT !.action = anim, !.time = Duration[anim]]
ResetActionAnim(w) == [w EXCEPT !.action = "IDLE", !.time = 0]

OfKit(w, table, kept) == IF w.class \in Kits THEN table[w.class] ELSE kept

(* Mutant: m_max_mana is set before m_mana.                                *)
FitOutMaxFirst(w) ==
    [w EXCEPT !.health = OfKit(w, HealthOf, @), !.mana = OfKit(w, ManaOf, @),
              !.maxHealth = OfKit(w, HealthOf, w.health), !.maxMana = w.mana]
FitOut(w) ==
    [w EXCEPT !.health = OfKit(w, HealthOf, @), !.mana = OfKit(w, ManaOf, @),
              !.maxHealth = OfKit(w, HealthOf, w.health),
              !.maxMana = OfKit(w, ManaOf, w.mana)]

(* The damage that waits, the action and its time stay as they are, and so *)
(* do the health, the mana and the delays of a class that is not known.    *)
Respawn(w) ==
    SetEnchant([FitOut(w) EXCEPT
                  !.auras = {}, !.left = Cleared,
                  !.delay = IF w.class = Warrior
                            THEN [a \in Abilities |-> 0] ELSE @],
               "INVULNERABLE", 0)

(* Mutant: a charge is paid for only if it is played.                      *)
ExecuteAbilityUnpaid(w, a) ==
    CASE a \in {"CHARGE", "WARCRY"} -> SetActionAnim(w, a)
      [] a = "TREAD" -> SetEnchant(w, "SNEAK", SneakFrames)
      [] a = "WOLF"  -> SetEnchant(w, "INFRAVISION",
                                   SpellFrames["INFRAVISION"])
(* The handlers of abilities.  That SetActionAnim may fail is not noticed. *)
ExecuteAbility(w, a) ==
    LET paid == [w EXCEPT !.delay[a] = AbilityDelay[a]]
    IN  CASE a \in {"CHARGE", "WARCRY"} -> SetActionAnim(paid, a)
          [] a = "TREAD" -> SetEnchant(paid, "SNEAK", SneakFrames)
          [] a = "WOLF"  -> SetEnchant(paid, "INFRAVISION",
                                       SpellFrames["INFRAVISION"])

(* The handlers of spells, and of the items that are used: the others do   *)
(* nothing to these fields.                                                *)
SpellEffects(w) ==
    {w} \union {Heal(w, h) : h \in Hits}
        \union {SetEnchant(w, a, SpellFrames[a]) : a \in SpellAuras}
(* A potion of health takes health, one of mana does nothing to those who  *)
(* have mana; any other may give an enchantment for its TableFrames.       *)
UseEffects(w) ==
    SpellEffects(w)
        \union {Heal(w, 0 - h) : h \in Hits}
        \union {ManaDrain(w, 0 - d) :
                  d \in IF w.maxMana = 0 THEN Drains ELSE {}}
        \union {SetEnchant(w, a, 0) : a \in SpellAuras}

-----------------------------------------------------------------------------
(* Player::Update and Unit::Update.                                        *)

(* The damage since the last Update; Die sets the health to 0.             *)
Settle(w) ==
    IF w.delta = 0 THEN w
    ELSE [w EXCEPT !.health = IF @ + w.delta > w.maxHealth THEN w.maxHealth
                              ELSE IF @ + w.delta <= 0 THEN 0
                              ELSE @ + w.delta,
                   !.delta = 0]

(* Only a warrior's abilities become ready again.                          *)
CountDelays(w) ==
    IF w.class # Warrior THEN w
    ELSE [w EXCEPT !.delay = [a \in Abilities |-> IF @[a] > 0 THEN @[a] - 1
                                                  ELSE 0]]

(* Mutants: the diff is not compared with the time; with a shield the time *)
(* of the old action is left standing.                                     *)
PlayOnPast(w, dt, shield) ==
    IF IsDead(w) THEN [w EXCEPT !.action = "DEAD", !.health = 0]
    ELSE IF w.time = 0 THEN ResetActionAnim(UnsetEnchant(w, "SNEAK"))
    ELSE [w EXCEPT !.time = @ - dt]
PlayOnStuck(w, dt, shield) ==
    IF IsDead(w) THEN [w EXCEPT !.action = "DEAD", !.health = 0]
    ELSE IF dt > w.time
    THEN LET idle == UnsetEnchant(w, "SNEAK")
         IN  IF shield THEN SetActionAnim(idle, "SHIELD")
             ELSE ResetActionAnim(idle)
    ELSE [w EXCEPT !.time = @ - dt]
(* When the time is out the shield is raised only if another action had    *)
(* none left; if not, the action stays for one more Update.                *)
PlayOn(w, dt, shield) ==
    IF IsDead(w) THEN [w EXCEPT !.action = "DEAD", !.health = 0]
    ELSE IF dt > w.time
    THEN LET idle == UnsetEnchant(w, "SNEAK")
         IN  [IF shield THEN SetActionAnim(idle, "SHIELD")
              ELSE ResetActionAnim(idle) EXCEPT !.time = 0]
    ELSE [w EXCEPT !.time = @ - dt]

(* Mutant: the enchantments of the dead do not run out.                    *)
CountEnchantsAlive(w) ==
    IF IsDead(w) THEN w
    ELSE [w EXCEPT
            !.left = [a \in Auras |-> IF @[a] > 0 THEN @[a] - 1 ELSE @[a]],
            !.auras = {a \in @ : w.left[a] # 0}]
(* A time below 0 is never counted.                                        *)
CountEnchants(w) ==
    [w EXCEPT !.left = [a \in Auras |-> IF @[a] > 0 THEN @[a] - 1 ELSE @[a]],
              !.auras = {a \in @ : w.left[a] # 0}]

Updated(w, dt, shield) ==
    CountEnchants(ManaDrain(PlayOn(CountDelays(Settle(w)), dt, shield),
                            -Regen))

-----------------------------------------------------------------------------
(* The requests of the client, in the pass over the sessions.              *)

Becomes(w) == u' = w /\ pardon' = (pardon /\ w.action = "CHARGE")

Handling == phase = "sessions" /\ session = "in"

(* A player may be made by a packet that is too short, and a second join   *)
(* reads the class of the same player again.                               *)
HandlePlayerJoin(c, complete) ==
    /\ phase = "sessions"
    /\ IF session = "none"
       THEN /\ \E mana, maxMana \in Junk, delay \in Junk \intersect Nat :
                  Becomes(NewPlayer(c, mana, maxMana, delay))
            /\ own' = 0
       ELSE Becomes([u EXCEPT !.class = c]) /\ UNCHANGED own
    /\ session' = IF complete THEN "in"
                  ELSE IF session = "none" THEN "half" ELSE session
    /\ loading' = (loading \/ complete)
    /\ UNCHANGED phase

(* Respawn reports the total health, to everybody.                         *)
Respawns(w) ==
    /\ u' = Respawn(w)
    /\ own' = u'.health
    /\ pardon' = (w.action = "CHARGE")

HandleClientReady ==
    /\ Handling /\ loading
    /\ loading' = FALSE
    /\ Respawns(u)
    /\ UNCHANGED <<session, phase>>

(* It is the stroke of a dead player that brings him back.                 *)
Attack ==
    /\ Handling
    /\ LET w == UnsetEnchant(SetActionAnim(u, "STRIKE"), "INVULNERABLE")
       IN  IF IsDead(w) THEN Respawns(w)
           ELSE Becomes(w) /\ UNCHANGED own
    /\ UNCHANGED <<session, loading, phase>>

(* Laugh, Point and Taunt.                                                 *)
Emote(e) ==
    /\ Handling
    /\ Becomes(SetActionAnim(u, e))
    /\ UNCHANGED <<own, session, loading, phase>>

(* Jump and RunningJump.                                                   *)
Jump ==
    /\ Handling
    /\ u.action \in {"IDLE", "WALK", "RUN", "SNEAK"}
    /\ Becomes(SetActionAnim(u, "JUMP"))
    /\ UNCHANGED <<own, session, loading, phase>>

(* far: out of the circle of TreadLightly; pace: by the distance.          *)
MoveTowards(far, pace) ==
    /\ Handling
    /\ ~IsDead(u) /\ "HELD" \notin u.auras
    /\ LET w == IF far THEN UnsetEnchant(u, "SNEAK") ELSE u
           anim == IF "SNEAK" \in w.auras THEN "SNEAK" ELSE pace
       IN  Becomes(SetActionAnim(w, anim))
    /\ UNCHANGED <<own, session, loading, phase>>

(* Whatever his class, and dead or alive.                                  *)
HandleTryAbility(a) ==
    /\ Handling
    /\ u.delay[a] = 0
    /\ Becomes(ExecuteAbility(u, a))
    /\ UNCHANGED <<own, session, loading, phase>>

Bounded(w) == w.delta \in -MaxDelta..MaxDelta

(* ExecuteSpell: on the caster, or in a projectile that he sends away.     *)
HandleTrySpell(w) ==
    /\ Handling
    /\ u.mana >= SpellCost
    /\ Becomes(ManaDrain(w, SpellCost)) /\ Bounded(w)
    /\ UNCHANGED <<own, session, loading, phase>>

HandleTryUse(w) ==
    /\ Handling
    /\ Becomes(w) /\ Bounded(w)
    /\ UNCHANGED <<own, session, loading, phase>>

LogoutPlayer ==
    /\ phase = "sessions" /\ session # "none"
    /\ u' = NoPlayer /\ own' = 0 /\ pardon' = FALSE
    /\ session' = "none" /\ loading' = FALSE
    /\ UNCHANGED phase

Handle ==
    \/ \E c \in Classes, complete \in BOOLEAN : HandlePlayerJoin(c, complete)
    \/ HandleClientReady
    \/ Attack
    \/ \E e \in Emotes : Emote(e)
    \/ Jump
    \/ \E far \in BOOLEAN, pace \in {"WALK", "RUN"} : MoveTowards(far, pace)
    \/ \E a \in Abilities : HandleTryAbility(a)
    \/ \E w \in SpellEffects(u) : HandleTrySpell(w)
    \/ \E w \in UseEffects(u) : HandleTryUse(w)
    \/ LogoutPlayer

-----------------------------------------------------------------------------
(* The round of the world: the pass, the contacts, the Updates.            *)

EndSessions ==
    /\ phase = "sessions"
    /\ phase' = "contacts"
    /\ UNCHANGED <<u, own, session, loading, pardon>>

Touching == phase = "contacts" /\ session # "none"

(* COLLIDE_DAMAGE, COLLIDE_MANADRAIN and the projectile of a spell touch   *)
(* the player.                                                             *)
Touched(w) ==
    /\ Touching
    /\ Becomes(w) /\ Bounded(w)
    /\ UNCHANGED <<own, session, loading, phase>>

(* GetHealth() * 0.2, in fifths of a point.                                *)
Crash(w) ==
    SetEnchant(Damage(ResetActionAnim(w), w.health \div PerPoint),
               "HELD", HeldFrames)

(* A wall, an obstacle or a player: their masks all have the bit.          *)
PlayerCollide ==
    /\ Touching
    /\ u.action = "CHARGE"
    /\ Becomes(Crash(u)) /\ Bounded(Crash(u))
    /\ UNCHANGED <<own, session, loading, phase>>

Contact ==
    \/ \E d \in Hits : Touched(Damage(u, d))
    \/ \E d \in Drains : Touched(ManaDrain(u, d))
    \/ \E w \in SpellEffects(u) : Touched(w)
    \/ PlayerCollide

(* Mutant: the packet is built before the health is limited.               *)
UpdateTellsUnlimited(dt, shield) ==
    /\ phase = "contacts"
    /\ phase' = "sessions"
    /\ IF session = "none" THEN UNCHANGED <<u, own, pardon>>
       ELSE /\ Becomes(Updated(u, dt, shield))
            /\ own' = IF u.delta # 0 THEN u.health + u.delta ELSE own
    /\ UNCHANGED <<session, loading>>
(* ObjectAccessor::Update comes to the player.  shield: he wears one.      *)
Update(dt, shield) ==
    /\ phase = "contacts"
    /\ phase' = "sessions"
    /\ IF session = "none" THEN UNCHANGED <<u, own, pardon>>
       ELSE /\ Becomes(Updated(u, dt, shield))
            /\ own' = IF u.delta # 0 THEN Settle(u).health ELSE own
    /\ UNCHANGED <<session, loading>>

UpdateObjects == \E dt \in Diffs, shield \in BOOLEAN : Update(dt, shield)

Next == Handle \/ EndSessions \/ Contact \/ UpdateObjects

Fairness == WF_vars(EndSessions) /\ WF_vars(UpdateObjects)

Spec == Init /\ [][Next]_vars /\ Fairness

-----------------------------------------------------------------------------
(* Properties.                                                             *)

(* The client shows the health that the server has, whatever part of the   *)
(* damage was cut off, and however the player died and came back: every    *)
(* change of m_health in Player::Update and Respawn is followed by a       *)
(* packet with the value that stays.                                       *)
OwnHealthTold == own = u.health

(* Since a player was fitted out for his class his mana is between 0 and   *)
(* the maximum: also if another join changed the class in between, and     *)
(* although drains, spells and regeneration work on a field that no        *)
(* constructor sets.                                                       *)
ManaBounded == u.maxHealth > 0 => u.mana \in 0..u.maxMana

(* No charge without its delay: HandleTryAbility cannot begin another one  *)
(* before this one is over, unless a respawn, which clears the delays but  *)
(* not the action, came in the middle of it.                               *)
ChargePaid == u.action = "CHARGE" => pardon \/ u.delay["CHARGE"] > 0

(* The dead come back by Respawn only: no healing, potion or spell that    *)
(* was on its way when the player died raises him.                         *)
OnlyRespawnRevives ==
    [][IsDead(u) /\ ~IsDead(u') => /\ "INVULNERABLE" \in u'.auras
                                   /\ u'.health = u'.maxHealth
                                   /\ u'.health = HealthOf[u'.class]]_vars

(* Who is held after a crash is let go, dead or alive: the delay of the    *)
(* ability is longer than the enchantment, so that it cannot be renewed    *)
(* for ever.                                                               *)
HeldEnds == "HELD" \in u.auras ~> "HELD" \notin u.auras

(* A charge ends, and who came back as a corpse, since Respawn leaves the  *)
(* action and its time alone, can act again, with or without a shield.  A  *)
(* client that joins over and over is given its charge back every time.    *)
ActsAgain ==
    \A a \in {"CHARGE", "DEAD"} :
        (u.action = a /\ ~IsDead(u)) ~> (u.action # a \/ IsDead(u) \/ pardon)
=============================================================================
