-------------------------- MODULE PlayerStateProofs --------------------------
(* The inductive invariant of PlayerState and the safety properties that   *)
(* follow from it.  What an operator does to the record of a player is     *)
(* stated once, as a lemma about any such record; a step of the system is  *)
(* then a composition of these.                                            *)
EXTENDS PlayerState, TLAPS

Body == [class : Classes, health : Nat, maxHealth : Nat, delta : Int,
         mana : Int, maxMana : Int, action : Actions, time : Nat,
         auras : SUBSET Auras, left : [Auras -> Int],
         delay : [Abilities -> Nat]]

(* Nothing waits for the dead, and whoever has health was fitted out.      *)
Sound(w) == /\ w \in Body
            /\ w.health <= w.maxHealth
            /\ w.health = 0 => w.delta = 0
            /\ w.maxHealth > 0 => w.mana \in 0..w.maxMana

(* The delay left is longer than what is left of the charge, by an Update  *)
(* to spare for the one in which a shield is not raised.                   *)
Paid(w) == w.action = "CHARGE" =>
              /\ "CHARGE" \in Abilities
              /\ w.delay["CHARGE"] > 0
              /\ w.time > 0 => w.time < MinDiff * (w.delay["CHARGE"] - 1)

Rest == /\ own = u.health
        /\ session \in {"none", "half", "in"} /\ loading \in BOOLEAN
        /\ phase \in {"sessions", "contacts"} /\ pardon \in BOOLEAN

IInv == Sound(u) /\ (pardon \/ Paid(u)) /\ Rest

(* What leaves health, action and delays alone.                            *)
Light(w, v) == /\ Sound(v)
               /\ v.health = w.health /\ v.action = w.action
               /\ v.time = w.time /\ v.delay = w.delay

-----------------------------------------------------------------------------
(* Lemmas about the operators.                                             *)

(* A 16 bit integer is an integer.                                         *)
LEMMA Int16Type ==
  ASSUME NEW n \in Int
  PROVE  Int16(n) \in Int
  BY DEF Int16

(* Damage waits until Update, and only for the living.                     *)
LEMMA DamageLight ==
  ASSUME NEW w, Sound(w), NEW d \in Int
  PROVE  Light(w, Damage(w, d))
  BY DEF Sound, Body, Light, Damage, IsDead

(* Healing is damage with the other sign.                                  *)
LEMMA HealLight ==
  ASSUME NEW w, Sound(w), NEW d \in Int
  PROVE  Light(w, Heal(w, d))
  BY DEF Sound, Body, Light, Heal, IsDead

(* Mana is kept within the maximum where there is one.                     *)
LEMMA ManaDrainLight ==
  ASSUME NEW w, Sound(w), NEW d \in Int
  PROVE  Light(w, ManaDrain(w, d))
  BY DEF Sound, Body, Light, ManaDrain

(* Enchantments matter to none of this.                                    *)
Dressed(w, A, L) == [w EXCEPT !.auras = A, !.left = L]
LEMMA DressedLight ==
  ASSUME NEW w, Sound(w), NEW A \in SUBSET Auras, NEW L \in [Auras -> Int]
  PROVE  /\ Light(w, Dressed(w, A, L)) /\ Dressed(w, A, L).auras = A
         /\ Dressed(w, A, L).class = w.class
         /\ Dressed(w, A, L).maxHealth = w.maxHealth
  BY DEF Sound, Body, Light, Dressed

(* The enchantments that a player has.                                     *)
LEMMA DressTypes ==
  ASSUME NEW w, Sound(w)
  PROVE  w.auras \in SUBSET Auras /\ w.left \in [Auras -> Int]
  BY DEF Sound, Body

(* An enchantment is on from now, for a 16 bit number of Updates.          *)
LEMMA SetEnchantLight ==
  ASSUME NEW w, Sound(w), NEW a \in Auras, NEW n \in Int
  PROVE  LET v == SetEnchant(w, a, n)
         IN  /\ Light(w, v) /\ a \in v.auras
             /\ v.class = w.class /\ v.maxHealth = w.maxHealth
<1>1. Int16(n) \in Int  BY Int16Type
<1>2. TableFrames[a] \in Nat  BY AuraAssumption
<1> DEFINE t == IF Int16(n) # 0 THEN Int16(n) ELSE TableFrames[a]
           L == [w.left EXCEPT ![a] = t]
<1>3. t \in Int  BY <1>1, <1>2
<1> DEFINE v == SetEnchant(w, a, n)
<1>4. v = Dressed(w, w.auras \union {a}, L)
  BY DEF SetEnchant, Dressed
<1> HIDE DEF t
<1>5. w.auras \union {a} \in SUBSET Auras /\ L \in [Auras -> Int]
  BY <1>3, DressTypes
<1> HIDE DEF L, v
<1>6. Light(w, v) /\ v.auras = w.auras \union {a}
      /\ v.class = w.class /\ v.maxHealth = w.maxHealth
  BY <1>4, <1>5, DressedLight
<1> QED  BY <1>6 DEF v

(* An enchantment taken off.                                               *)
LEMMA UnsetEnchantLight ==
  ASSUME NEW w, Sound(w), NEW a \in Auras
  PROVE  Light(w, UnsetEnchant(w, a))
<1> DEFINE L == [w.left EXCEPT ![a] = 0]
<1>1. UnsetEnchant(w, a) = Dressed(w, w.auras \ {a}, L)
  BY DEF UnsetEnchant, Dressed
<1>2. w.auras \ {a} \in SUBSET Auras /\ L \in [Auras -> Int]
  BY DressTypes
<1> HIDE DEF L
<1> QED  BY <1>1, <1>2, DressedLight

(* Enchantments are counted down and run out.                              *)
LEMMA CountEnchantsLight ==
  ASSUME NEW w, Sound(w)
  PROVE  Light(w, CountEnchants(w))
<1> DEFINE A == {a \in w.auras : w.left[a] # 0}
           L == [a \in Auras |-> IF w.left[a] > 0 THEN w.left[a] - 1
                                 ELSE w.left[a]]
<1>1. CountEnchants(w) = Dressed(w, A, L)
  BY DEF CountEnchants, Dressed, Sound, Body
<1>2. A \in SUBSET Auras /\ L \in [Auras -> Int]
  BY DressTypes
<1> HIDE DEF A, L
<1> QED  BY <1>1, <1>2, DressedLight

(* A light change is sound, and composes.                                  *)
LEMMA LightSound ==
  ASSUME NEW w, NEW v, Light(w, v)
  PROVE  Sound(v)
  BY DEF Light
LEMMA LightTrans ==
  ASSUME NEW w, NEW v, NEW x, Light(w, v), Light(v, x)
  PROVE  Light(w, x)
  BY DEF Light
LEMMA LightPaid ==
  ASSUME NEW w, NEW v, Light(w, v), Paid(w)
  PROVE  Paid(v)
  BY DEF Light, Paid

(* An action other than a charge is played, or nothing happens.            *)
LEMMA SetActionAnimSound ==
  ASSUME NEW w, Sound(w), NEW a \in Actions
  PROVE  LET v == SetActionAnim(w, a)
         IN  /\ Sound(v) /\ v.health = w.health /\ v.delay = w.delay
             /\ Paid(w) /\ a # "CHARGE" => Paid(v)
             /\ v = w \/ (v.action = a /\ v.time = Duration[a])
<1>1. Duration[a] \in Nat  BY TimeAssumption
<1> DEFINE v == [w EXCEPT !.action = a, !.time = Duration[a]]
<1>2. /\ Sound(v) /\ v.health = w.health /\ v.delay = w.delay
      /\ v.action = a /\ v.time = Duration[a]
  BY <1>1 DEF Sound, Body
<1>3. a # "CHARGE" => Paid(v)
  BY <1>2 DEF Paid
<1> HIDE DEF v
<1>4. SetActionAnim(w, a) = w \/ SetActionAnim(w, a) = v
  BY DEF SetActionAnim, v
<1> QED  BY <1>2, <1>3, <1>4

(* The player stands still.                                                *)
LEMMA ResetActionAnimSound ==
  ASSUME NEW w, Sound(w)
  PROVE  LET v == ResetActionAnim(w)
         IN  Sound(v) /\ v.health = w.health /\ Paid(v)
  BY DEF Sound, Body, ResetActionAnim, Actions, Named, Paid

(* A kit gives health, mana and both maxima together; whose class has none *)
(* keeps what he had, and it becomes the maximum.                          *)
LEMMA FitOutSound ==
  ASSUME NEW w, Sound(w)
  PROVE  LET v == FitOut(w)
         IN  /\ Sound(v)
             /\ v.class = w.class /\ v.action = w.action /\ v.time = w.time
             /\ v.health = v.maxHealth
             /\ v.health # w.health => v.health = HealthOf[w.class]
<1> DEFINE h == OfKit(w, HealthOf, w.health)
           m == OfKit(w, ManaOf, w.mana)
           v == [w EXCEPT !.health = h, !.mana = m,
                          !.maxHealth = h, !.maxMana = m]
<1>1. FitOut(w) = v
  BY DEF FitOut, Sound, Body
<1>2. w.class \in Kits => HealthOf[w.class] \in Nat \ {0}
                         /\ ManaOf[w.class] \in Nat
  BY ClassAssumption DEF Kits
<1>3. h \in Nat /\ m \in Int /\ (h > 0 => m >= 0)
  BY <1>2 DEF OfKit, Sound, Body
<1>4. h = 0 => w.health = 0
  BY <1>2 DEF OfKit
<1>5. h # w.health => h = HealthOf[w.class]
  BY DEF OfKit
<1>6. w.health = 0 => w.delta = 0
  BY DEF Sound
<1> HIDE DEF h, m
<1>7. v \in Body
  BY <1>3 DEF Sound, Body
<1>8. /\ v.health = h /\ v.maxHealth = h /\ v.mana = m /\ v.maxMana = m
      /\ v.delta = w.delta /\ v.class = w.class /\ v.action = w.action
      /\ v.time = w.time
  BY DEF Sound, Body
<1> HIDE DEF v
<1>9. Sound(v)
  BY <1>3, <1>4, <1>6, <1>7, <1>8 DEF Sound
<1> QED  BY <1>1, <1>5, <1>8, <1>9

(* Respawn: as fitted out, and invulnerable.                               *)
LEMMA RespawnSound ==
  ASSUME NEW w, Sound(w)
  PROVE  LET v == Respawn(w)
         IN  /\ Sound(v) /\ v.action = w.action
             /\ "INVULNERABLE" \in v.auras
             /\ v.class = w.class /\ v.health = v.maxHealth
             /\ v.health # w.health => v.health = HealthOf[w.class]
<1> DEFINE f == FitOut(w)
           D == IF w.class = Warrior THEN [a \in Abilities |-> 0] ELSE f.delay
           e == [f EXCEPT !.delay = D]
           v == [e EXCEPT !.auras = {}, !.left = Cleared]
           x == SetEnchant(v, "INVULNERABLE", 0)
<1>1. /\ Sound(f) /\ f.class = w.class /\ f.action = w.action
      /\ f.health = f.maxHealth
      /\ f.health # w.health => f.health = HealthOf[w.class]
  BY FitOutSound
<1>2. Respawn(w) = x
  BY DEF Respawn
<1> HIDE DEF f
<1>3. D \in [Abilities -> Nat]
  BY <1>1 DEF Sound, Body
<1> HIDE DEF D
<1>4. /\ Sound(e) /\ e.class = f.class /\ e.action = f.action
      /\ e.health = f.health /\ e.maxHealth = f.maxHealth
  BY <1>1, <1>3 DEF Sound, Body
<1> HIDE DEF e
<1>5. {} \in SUBSET Auras /\ Cleared \in [Auras -> Int]
  BY DEF Cleared
<1> HIDE DEF v
<1>6. Light(e, v) /\ v.class = e.class /\ v.maxHealth = e.maxHealth
  <2>1. v = Dressed(e, {}, Cleared)  BY DEF v, Dressed
  <2> QED  BY <1>4, <1>5, <2>1, DressedLight
<1>7. "INVULNERABLE" \in Auras  BY AuraAssumption
<1>8. Sound(v)
  BY <1>6, LightSound
<1>9. /\ Light(v, x) /\ "INVULNERABLE" \in x.auras
      /\ x.class = v.class /\ x.maxHealth = v.maxHealth
  BY <1>7, <1>8, SetEnchantLight
<1> HIDE DEF x
<1> QED  BY <1>1, <1>2, <1>4, <1>6, <1>9 DEF Light

-----------------------------------------------------------------------------
(* Update.                                                                 *)

(* The fields that settling sets.                                          *)
LEMMA Wounded ==
  ASSUME NEW w, Sound(w), NEW h \in Nat, h <= w.maxHealth,
         NEW v, v = [w EXCEPT !.health = h, !.delta = 0]
  PROVE  /\ Sound(v) /\ v.health = h
         /\ v.action = w.action /\ v.time = w.time /\ v.delay = w.delay
<1>1. v \in Body
  <2>1. w \in Body  BY DEF Sound
  <2>2. 0 \in Int  OBVIOUS
  <2> QED  BY <2>1, <2>2 DEF Body
<1>2. /\ v.health = h /\ v.delta = 0 /\ v.maxHealth = w.maxHealth
      /\ v.mana = w.mana /\ v.maxMana = w.maxMana
      /\ v.action = w.action /\ v.time = w.time /\ v.delay = w.delay
  BY DEF Sound, Body
<1> QED  BY <1>1, <1>2 DEF Sound

(* The damage is settled: the dead stay dead.                              *)
LEMMA SettleSound ==
  ASSUME NEW w, Sound(w)
  PROVE  LET v == Settle(w)
         IN  /\ Sound(v)
             /\ v.action = w.action /\ v.time = w.time /\ v.delay = w.delay
             /\ w.health = 0 => v.health = 0
             /\ w.delta = 0 => v.health = w.health
<1>1. CASE w.delta = 0
  BY <1>1 DEF Settle
<1>2. CASE w.delta # 0
  <2> DEFINE h == IF w.health + w.delta > w.maxHealth THEN w.maxHealth
                  ELSE IF w.health + w.delta <= 0 THEN 0
                  ELSE w.health + w.delta
             v == [w EXCEPT !.health = h, !.delta = 0]
  <2>1. Settle(w) = v
    BY <1>2 DEF Settle, Sound, Body
  <2>2. h \in Nat /\ h <= w.maxHealth
    BY DEF Sound, Body
  <2>3. w.health # 0
    BY <1>2 DEF Sound
  <2> HIDE DEF h
  <2>4. /\ Sound(v) /\ v.action = w.action /\ v.time = w.time
        /\ v.delay = w.delay
    BY <2>2, Wounded
  <2> QED  BY <1>2, <2>1, <2>3, <2>4
<1> QED  BY <1>1, <1>2

(* The slack of Paid is used up by one Update at a time.                   *)
LEMMA Slack ==
  ASSUME NEW t \in Nat, NEW m \in Nat, NEW n \in Nat, m > 0,
         NEW d \in Nat, d >= m, t < m * (n - 1)
  PROVE  /\ n > 1
         /\ t > d => t - d < m * ((n - 1) - 1)
<1>1. n > 1
  <2>1. SUFFICES ASSUME n <= 1 PROVE FALSE  OBVIOUS
  <2>2. CASE n = 0  BY <2>2
  <2>3. CASE n = 1  BY <2>3
  <2> QED  BY <2>1, <2>2, <2>3
<1>2. m * ((n - 1) - 1) = m * (n - 1) - m  OBVIOUS
<1> QED  BY <1>1, <1>2

(* The delays of a warrior are counted down.                               *)
LEMMA CountDelaysSound ==
  ASSUME NEW w, Sound(w)
  PROVE  LET v == CountDelays(w)
         IN  /\ Sound(v)
             /\ v.health = w.health /\ v.action = w.action /\ v.time = w.time
             /\ \A a \in Abilities : v.delay[a] >= w.delay[a] - 1
<1>1. CASE w.class # Warrior
  BY <1>1 DEF CountDelays, Sound, Body
<1>2. CASE w.class = Warrior
  <2> DEFINE D == [a \in Abilities |-> IF w.delay[a] > 0 THEN w.delay[a] - 1
                                       ELSE 0]
             v == [w EXCEPT !.delay = D]
  <2>1. CountDelays(w) = v
    BY <1>2 DEF CountDelays, Sound, Body
  <2>2. D \in [Abilities -> Nat]
    BY DEF Sound, Body
  <2>3. \A a \in Abilities : D[a] >= w.delay[a] - 1
    BY DEF Sound, Body
  <2> HIDE DEF D
  <2>4. /\ Sound(v) /\ v.health = w.health /\ v.action = w.action
        /\ v.time = w.time /\ v.delay = D
    BY <2>2 DEF Sound, Body
  <2> HIDE DEF v
  <2> QED  BY <2>1, <2>2, <2>3, <2>4
<1> QED  BY <1>1, <1>2


(* What is played goes on, ends, or gives way to standing still, a raised  *)
(* shield or death.                                                        *)
LEMMA PlayOnSound ==
  ASSUME NEW w, Sound(w), NEW dt \in Diffs, NEW shield \in BOOLEAN
  PROVE  LET v == PlayOn(w, dt, shield)
         IN  /\ Sound(v) /\ v.health = w.health /\ v.delay = w.delay
             /\ v.action = "CHARGE" =>
                  /\ w.action = "CHARGE"
                  /\ \/ w.time > 0 /\ v.time = 0
                     \/ v.time = w.time - dt
<1>1. dt \in Nat \ {0}
  BY TimeAssumption
<1>2. {"DEAD", "SHIELD", "IDLE"} \subseteq Actions /\ "SNEAK" \in Auras
  BY AuraAssumption DEF Actions, Named
<1>3. CASE IsDead(w)
  <2> DEFINE v == [w EXCEPT !.action = "DEAD", !.health = 0]
  <2>1. PlayOn(w, dt, shield) = v
    BY <1>3 DEF PlayOn
  <2>2. w.health = 0
    BY <1>3 DEF IsDead, Sound, Body
  <2>3. /\ Sound(v) /\ v.health = 0 /\ v.delay = w.delay /\ v.action = "DEAD"
    BY <1>2, <2>2 DEF Sound, Body
  <2> HIDE DEF v
  <2> QED  BY <2>1, <2>2, <2>3
<1>4. CASE ~IsDead(w) /\ dt > w.time
  <2> DEFINE idle == UnsetEnchant(w, "SNEAK")
             r == IF shield THEN SetActionAnim(idle, "SHIELD")
                  ELSE ResetActionAnim(idle)
             v == [r EXCEPT !.time = 0]
  <2>1. PlayOn(w, dt, shield) = v
    BY <1>4 DEF PlayOn
  <2>2. Light(w, idle)
    BY <1>2, UnsetEnchantLight
  <2>3. Sound(idle) /\ idle.health = w.health /\ idle.action = w.action
        /\ idle.time = w.time /\ idle.delay = w.delay
    BY <2>2 DEF Light
  <2> HIDE DEF idle
  <2>4. /\ Sound(r) /\ r.health = w.health /\ r.delay = w.delay
        /\ r.action = "CHARGE" => w.action = "CHARGE" /\ w.time # 0
    <3>1. CASE shield
      <4>1. LET x == SetActionAnim(idle, "SHIELD")
            IN  /\ Sound(x) /\ x.health = w.health /\ x.delay = w.delay
                /\ x = idle \/ x.action = "SHIELD"
        BY <1>2, <2>3, SetActionAnimSound
      <4>2. idle.time = 0 => SetActionAnim(idle, "SHIELD").action = "SHIELD"
        BY <2>3 DEF SetActionAnim, Sound, Body
      <4> QED  BY <2>3, <3>1, <4>1, <4>2
    <3>2. CASE ~shield
      <4>1. LET x == ResetActionAnim(idle)
            IN  Sound(x) /\ x.health = idle.health
        BY <2>3, ResetActionAnimSound
      <4>2. ResetActionAnim(idle).action = "IDLE"
            /\ ResetActionAnim(idle).delay = idle.delay
        BY <2>3 DEF ResetActionAnim, Sound, Body
      <4> QED  BY <2>3, <3>2, <4>1, <4>2
    <3> QED  BY <3>1, <3>2
  <2> HIDE DEF r
  <2>5. /\ Sound(v) /\ v.health = r.health /\ v.delay = r.delay
        /\ v.action = r.action /\ v.time = 0
    BY <2>4 DEF Sound, Body
  <2>6. w.time \in Nat
    BY DEF Sound, Body
  <2> HIDE DEF v
  <2> QED  BY <2>1, <2>4, <2>5, <2>6
<1>5. CASE ~IsDead(w) /\ ~(dt > w.time)
  <2> DEFINE v == [w EXCEPT !.time = @ - dt]
  <2>1. PlayOn(w, dt, shield) = v
    BY <1>5 DEF PlayOn
  <2>2. w.time - dt \in Nat
    BY <1>1, <1>5 DEF Sound, Body
  <2>3. /\ Sound(v) /\ v.health = w.health /\ v.delay = w.delay
        /\ v.action = w.action /\ v.time = w.time - dt
    BY <2>2 DEF Sound, Body
  <2> HIDE DEF v
  <2> QED  BY <2>1, <2>3
<1> QED  BY <1>3, <1>4, <1>5

(* A whole Update.                                                         *)
LEMMA UpdatedSound ==
  ASSUME NEW w, Sound(w), NEW dt \in Diffs, NEW shield \in BOOLEAN
  PROVE  LET v == Updated(w, dt, shield)
         IN  /\ Sound(v) /\ v.health = Settle(w).health
             /\ Paid(w) => Paid(v)
             /\ v.action = "CHARGE" => w.action = "CHARGE"
<1> DEFINE s == Settle(w)
           c == CountDelays(s)
           p == PlayOn(c, dt, shield)
           m == ManaDrain(p, -Regen)
           e == CountEnchants(m)
<1>1. Updated(w, dt, shield) = e
  BY DEF Updated
<1>2. Sound(s) /\ s.action = w.action /\ s.time = w.time /\ s.delay = w.delay
  BY SettleSound
<1> HIDE DEF s
<1>3. /\ Sound(c) /\ c.health = s.health /\ c.action = s.action
      /\ c.time = s.time /\ \A a \in Abilities : c.delay[a] >= s.delay[a] - 1
  BY <1>2, CountDelaysSound
<1> HIDE DEF c
<1>4. /\ Sound(p) /\ p.health = c.health /\ p.delay = c.delay
      /\ p.action = "CHARGE" =>
           /\ c.action = "CHARGE"
           /\ \/ c.time > 0 /\ p.time = 0
              \/ p.time = c.time - dt
  BY <1>3, PlayOnSound
<1> HIDE DEF p
<1>5. -Regen \in Int
  BY AmountAssumption
<1>6. Light(p, m)
  BY <1>4, <1>5, ManaDrainLight
<1> HIDE DEF m
<1>7. Light(m, e)
  BY <1>6, LightSound, CountEnchantsLight
<1> HIDE DEF e
<1>8. Light(p, e)
  BY <1>6, <1>7, LightTrans
<1>9. ASSUME Paid(w) PROVE Paid(p)
  <2>1. SUFFICES ASSUME p.action = "CHARGE"
                 PROVE  /\ "CHARGE" \in Abilities
                        /\ p.delay["CHARGE"] > 0
                        /\ p.time > 0 =>
                             p.time < MinDiff * (p.delay["CHARGE"] - 1)
    BY DEF Paid
  <2>2. w.action = "CHARGE"
    BY <1>2, <1>3, <1>4, <2>1
  <2> DEFINE n == w.delay["CHARGE"]
             k == p.delay["CHARGE"]
  <2>3. /\ "CHARGE" \in Abilities /\ n > 0
        /\ w.time > 0 => w.time < MinDiff * (n - 1)
    BY <1>9, <2>2 DEF Paid
  <2>4. n \in Nat /\ k \in Nat /\ w.time \in Nat /\ p.time \in Nat
    BY <1>4, <2>3 DEF Sound, Body
  <2>5. k >= n - 1
    BY <1>2, <1>3, <1>4, <2>3
  <2>6. MinDiff \in Nat /\ MinDiff > 0 /\ dt \in Nat /\ dt >= MinDiff
    BY TimeAssumption
  <2>7. p.time \in {0, w.time - dt} /\ w.time > 0
    BY <1>2, <1>3, <1>4, <2>1, <2>4, <2>6
  <2> HIDE DEF n, k
  <2>8. /\ n > 1
        /\ w.time > dt => w.time - dt < MinDiff * ((n - 1) - 1)
    BY <2>3, <2>4, <2>6, <2>7, Slack
  <2>9. MinDiff * ((n - 1) - 1) <= MinDiff * (k - 1)
    <3>1. MinDiff * (k - 1) - MinDiff * ((n - 1) - 1) = MinDiff * (k - (n - 1))
      BY <2>4, <2>6
    <3>2. k - (n - 1) \in Nat
      BY <2>4, <2>5
    <3>3. MinDiff * (k - (n - 1)) >= 0
      BY <2>6, <3>2
    <3>4. MinDiff * (k - 1) \in Int /\ MinDiff * ((n - 1) - 1) \in Int
      BY <2>4, <2>6
    <3> HIDE DEF n, k
    <3> QED  BY <3>1, <3>3, <3>4
  <2>10. k > 0
    BY <2>4, <2>5, <2>8
  <2>11. p.time > 0 => p.time < MinDiff * (k - 1)
    <3>1. SUFFICES ASSUME p.time > 0 PROVE p.time < MinDiff * (k - 1)
      OBVIOUS
    <3>2. p.time = w.time - dt /\ w.time > dt
      BY <2>4, <2>6, <2>7, <3>1
    <3>3. MinDiff * (k - 1) \in Int /\ MinDiff * ((n - 1) - 1) \in Int
      BY <2>4, <2>6
    <3> QED  BY <2>4, <2>6, <2>8, <2>9, <3>2, <3>3
  <2> QED  BY <2>3, <2>10, <2>11 DEF k
<1>10. Paid(w) => Paid(e)
  BY <1>8, <1>9, LightPaid
<1>11. e.action = "CHARGE" => w.action = "CHARGE"
  BY <1>2, <1>3, <1>4, <1>8 DEF Light
<1> QED  BY <1>1, <1>3, <1>4, <1>8, <1>10, <1>11 DEF Light, s

-----------------------------------------------------------------------------
(* The actions.                                                            *)

(* A new player has no health and plays nothing.                           *)
LEMMA NewPlayerSound ==
  ASSUME NEW c \in Classes, NEW mana \in Int, NEW maxMana \in Int,
         NEW delay \in Nat
  PROVE  LET v == NewPlayer(c, mana, maxMana, delay)
         IN  Sound(v) /\ Paid(v) /\ v.health = 0
<1> DEFINE D == [a \in Abilities |-> delay]
           v == NewPlayer(c, mana, maxMana, delay)
<1>1. Cleared \in [Auras -> Int] /\ "IDLE" \in Actions
      /\ D \in [Abilities -> Nat]
  BY DEF Cleared, Actions, Named
<1>2. v = [class |-> c, health |-> 0, maxHealth |-> 0, delta |-> 0,
           mana |-> mana, maxMana |-> maxMana, action |-> "IDLE", time |-> 0,
           auras |-> {}, left |-> Cleared, delay |-> D]
  BY DEF NewPlayer
<1> HIDE DEF D, v
<1>3. v \in Body
  BY <1>1, <1>2 DEF Body
<1>4. v.health = 0 /\ v.maxHealth = 0 /\ v.delta = 0 /\ v.action = "IDLE"
  BY <1>2
<1> QED  BY <1>3, <1>4 DEF Sound, Paid, v

(* A spell and a used item change nothing but what is light.               *)
LEMMA EffectsLight ==
  ASSUME NEW w, Sound(w), NEW v \in UseEffects(w)
  PROVE  Light(w, v)
<1>1. CASE v \in SpellEffects(w)
  <2>1. CASE v = w  BY <2>1 DEF Light
  <2>2. ASSUME NEW h \in Hits, v = Heal(w, h) PROVE Light(w, v)
    BY <2>2, HealLight, AmountAssumption
  <2>3. ASSUME NEW a \in SpellAuras, v = SetEnchant(w, a, SpellFrames[a])
        PROVE  Light(w, v)
    <3>1. a \in Auras /\ SpellFrames[a] \in Int
      BY AuraAssumption
    <3> QED  BY <2>3, <3>1, SetEnchantLight
  <2> QED  BY <1>1, <2>1, <2>2, <2>3 DEF SpellEffects
<1>2. ASSUME NEW h \in Hits, v = Heal(w, 0 - h) PROVE Light(w, v)
  <2>1. 0 - h \in Int  BY AmountAssumption
  <2> QED  BY <1>2, <2>1, HealLight
<1>3. ASSUME NEW d \in Drains, v = ManaDrain(w, 0 - d) PROVE Light(w, v)
  <2>1. 0 - d \in Int  BY AmountAssumption
  <2> QED  BY <1>3, <2>1, ManaDrainLight
<1>4. ASSUME NEW a \in SpellAuras, v = SetEnchant(w, a, 0) PROVE Light(w, v)
  <2>1. a \in Auras  BY AuraAssumption
  <2> QED  BY <1>4, <2>1, SetEnchantLight
<1> QED  BY <1>1, <1>2, <1>3, <1>4 DEF UseEffects

(* An ability that is ready is paid for before it is played.               *)
LEMMA ExecuteAbilitySound ==
  ASSUME NEW w, Sound(w), NEW a \in Abilities, w.delay[a] = 0
  PROVE  LET v == ExecuteAbility(w, a)
         IN  Sound(v) /\ v.health = w.health /\ (Paid(w) => Paid(v))
<1> DEFINE D == [w.delay EXCEPT ![a] = AbilityDelay[a]]
           p == [w EXCEPT !.delay = D]
<1>1. AbilityDelay[a] \in Nat /\ AbilityDelay[a] > 0
  BY TimeAssumption
<1>2. D \in [Abilities -> Nat]
  BY <1>1 DEF Sound, Body
<1>3. "CHARGE" \in Abilities =>
        D["CHARGE"] = IF a = "CHARGE" THEN AbilityDelay[a]
                      ELSE w.delay["CHARGE"]
  BY DEF Sound, Body
<1> HIDE DEF D
<1>4. /\ Sound(p) /\ p.health = w.health /\ p.action = w.action
      /\ p.time = w.time /\ p.delay = D
  BY <1>2 DEF Sound, Body
<1> HIDE DEF p
<1>5. Paid(w) /\ a # "CHARGE" => Paid(p)
  BY <1>3, <1>4 DEF Paid
<1>6. ExecuteAbility(w, a) =
        CASE a \in {"CHARGE", "WARCRY"} -> SetActionAnim(p, a)
          [] a = "TREAD" -> SetEnchant(p, "SNEAK", SneakFrames)
          [] a = "WOLF"  -> SetEnchant(p, "INFRAVISION",
                                       SpellFrames["INFRAVISION"])
  BY DEF ExecuteAbility, p, D
<1>7. CASE a = "CHARGE"
  <2>1. "CHARGE" \in Actions
    BY DEF Actions, Named
  <2> DEFINE v == SetActionAnim(p, "CHARGE")
  <2>2. /\ Sound(v) /\ v.health = p.health /\ v.delay = p.delay
        /\ v = p \/ (v.action = "CHARGE" /\ v.time = Duration["CHARGE"])
    BY <1>4, <2>1, SetActionAnimSound
  <2> HIDE DEF v
  <2>3. v.delay["CHARGE"] = AbilityDelay["CHARGE"]
    BY <1>3, <1>4, <1>7, <2>2
  <2>4. Paid(w) => w.action # "CHARGE"
    BY <1>7 DEF Paid
  <2>5. Paid(w) => Paid(v)
    BY <1>1, <1>4, <1>7, <2>2, <2>3, <2>4, ChargeAssumption DEF Paid
  <2>6. ExecuteAbility(w, a) = v
    BY <1>6, <1>7 DEF v
  <2> QED  BY <1>4, <2>2, <2>5, <2>6
<1>8. CASE a = "WARCRY"
  <2>1. "WARCRY" \in Actions
    BY DEF Actions, Named
  <2>2. LET v == SetActionAnim(p, "WARCRY")
        IN  Sound(v) /\ v.health = p.health /\ (Paid(p) => Paid(v))
    BY <1>4, <2>1, SetActionAnimSound
  <2>3. ExecuteAbility(w, a) = SetActionAnim(p, "WARCRY")
    BY <1>6, <1>8
  <2> QED  BY <1>4, <1>5, <1>8, <2>2, <2>3
<1>9. CASE a = "TREAD"
  <2>1. "SNEAK" \in Auras /\ SneakFrames \in Int
    BY AuraAssumption
  <2>2. Light(p, SetEnchant(p, "SNEAK", SneakFrames))
    BY <1>4, <2>1, SetEnchantLight
  <2>3. ExecuteAbility(w, a) = SetEnchant(p, "SNEAK", SneakFrames)
    BY <1>6, <1>9
  <2> QED  BY <1>4, <1>5, <1>9, <2>2, <2>3, LightPaid DEF Light
<1>10. CASE a = "WOLF"
  <2>1. "INFRAVISION" \in Auras
    BY <1>10, TimeAssumption
  <2>2. SpellFrames["INFRAVISION"] \in Int
    BY <2>1, AuraAssumption
  <2>3. Light(p, SetEnchant(p, "INFRAVISION", SpellFrames["INFRAVISION"]))
    BY <1>4, <2>1, <2>2, SetEnchantLight
  <2>4. ExecuteAbility(w, a)
          = SetEnchant(p, "INFRAVISION", SpellFrames["INFRAVISION"])
    BY <1>6, <1>10
  <2> QED  BY <1>4, <1>5, <1>10, <2>3, <2>4, LightPaid DEF Light
<1> QED  BY <1>7, <1>8, <1>9, <1>10, TimeAssumption

(* The part of IInv about the record and the history.                      *)
Good == Sound(u) /\ (pardon \/ Paid(u)) /\ pardon \in BOOLEAN

(* What Becomes does, if the new record is sound.                          *)
LEMMA BecomesGood ==
  ASSUME Good, NEW w, Sound(w), Paid(u) => Paid(w), Becomes(w)
  PROVE  Good' /\ u' = w
<1>1. u' = w /\ pardon' = (pardon /\ w.action = "CHARGE")
  BY DEF Becomes
<1>2. pardon' \in BOOLEAN
  BY <1>1
<1>3. pardon' \/ Paid(u')
  <2>1. CASE w.action # "CHARGE"
    BY <1>1, <2>1 DEF Paid
  <2>2. CASE w.action = "CHARGE" /\ pardon
    BY <1>1, <2>2
  <2>3. CASE ~pardon
    BY <1>1, <2>3 DEF Good
  <2> QED  BY <2>1, <2>2, <2>3
<1> QED  BY <1>1, <1>2, <1>3 DEF Good, Sound, Paid

(* The whole of what the steps keep, and how the dead come back.           *)
Revived == IsDead(u) /\ ~IsDead(u') =>
              /\ "INVULNERABLE" \in u'.auras
              /\ u'.health = u'.maxHealth
              /\ u'.health = HealthOf[u'.class]

(* A step that leaves the health alone, and tells nothing.                 *)
LEMMA QuietStep ==
  ASSUME IInv, NEW w, Sound(w), Paid(u) => Paid(w), w.health = u.health,
         Becomes(w), own' = own,
         session' \in {"none", "half", "in"}, loading' \in BOOLEAN,
         phase' \in {"sessions", "contacts"}
  PROVE  IInv' /\ Revived
<1>1. Good
  BY DEF IInv, Good, Rest
<1>2. Good' /\ u' = w
  BY <1>1, BecomesGood
<1>3. own' = u'.health
  BY <1>2 DEF IInv, Rest
<1> QED  BY <1>2, <1>3 DEF IInv, Good, Rest, Revived, IsDead

(* The same, for a light change.                                           *)
LEMMA LightStep ==
  ASSUME IInv, NEW w, Light(u, w), Becomes(w), own' = own,
         session' \in {"none", "half", "in"}, loading' \in BOOLEAN,
         phase' \in {"sessions", "contacts"}
  PROVE  IInv' /\ Revived
<1>1. Sound(w) /\ w.health = u.health
  BY DEF Light
<1>2. Paid(u) => Paid(w)
  BY LightPaid
<1> QED  BY <1>1, <1>2, QuietStep

(* The same, for a light change after which another action than a charge   *)
(* is played.                                                              *)
LEMMA PlayStep ==
  ASSUME IInv, NEW w, Light(u, w), NEW a \in Actions, a # "CHARGE",
         Becomes(SetActionAnim(w, a)), own' = own,
         session' \in {"none", "half", "in"}, loading' \in BOOLEAN,
         phase' \in {"sessions", "contacts"}
  PROVE  IInv' /\ Revived
<1>1. Sound(w) /\ w.health = u.health
  BY DEF Light
<1>2. Paid(u) => Paid(w)
  BY LightPaid
<1>3. LET v == SetActionAnim(w, a)
      IN  Sound(v) /\ v.health = w.health /\ (Paid(w) => Paid(v))
  BY <1>1, SetActionAnimSound
<1> QED  BY <1>1, <1>2, <1>3, QuietStep

(* A respawn, of a player whose record changed lightly before.             *)
LEMMA RespawnStep ==
  ASSUME IInv, NEW w, Sound(w), w.health = u.health, Respawns(w),
         session' \in {"none", "half", "in"}, loading' \in BOOLEAN,
         phase' \in {"sessions", "contacts"}
  PROVE  IInv' /\ Revived
<1> DEFINE v == Respawn(w)
<1>1. u' = v /\ own' = u'.health /\ pardon' = (w.action = "CHARGE")
  BY DEF Respawns
<1>2. /\ Sound(v) /\ v.action = w.action /\ "INVULNERABLE" \in v.auras
      /\ v.class = w.class /\ v.health = v.maxHealth
      /\ v.health # w.health => v.health = HealthOf[w.class]
  BY RespawnSound
<1> HIDE DEF v
<1>3. pardon' \/ Paid(u')
  BY <1>1, <1>2 DEF Paid
<1>4. Sound(u') /\ pardon' \in BOOLEAN
  BY <1>1, <1>2
<1>5. Revived
  BY <1>1, <1>2 DEF Revived, IsDead
<1> QED  BY <1>1, <1>3, <1>4, <1>5 DEF IInv, Rest, Sound, Paid

(* The requests of the client.                                             *)
LEMMA HandleStep ==
  ASSUME IInv, Handle
  PROVE  IInv' /\ Revived
<1> DEFINE Typed == /\ session' \in {"none", "half", "in"}
                    /\ loading' \in BOOLEAN
                    /\ phase' \in {"sessions", "contacts"}
<1>1. /\ Sound(u) /\ Light(u, u) /\ own = u.health
      /\ session \in {"none", "half", "in"} /\ loading \in BOOLEAN
      /\ phase \in {"sessions", "contacts"}
  BY DEF IInv, Rest, Light
<1>2. UNCHANGED <<session, loading, phase>> => Typed
  BY <1>1
<1>3. /\ {"STRIKE", "JUMP", "SNEAK", "WALK", "RUN"} \subseteq Actions
      /\ Emotes \subseteq Actions /\ "CHARGE" \notin Emotes
  BY TimeAssumption DEF Actions, Named
<1>4. "SNEAK" \in Auras /\ "INVULNERABLE" \in Auras
  BY AuraAssumption
<1>5. ASSUME NEW c \in Classes, NEW complete \in BOOLEAN,
             HandlePlayerJoin(c, complete)
      PROVE  IInv' /\ Revived
  <2>1. Typed
    BY <1>1, <1>5 DEF HandlePlayerJoin
  <2>2. CASE session = "none"
    <3>1. PICK mana \in Junk, maxMana \in Junk, delay \in Junk \intersect Nat :
            Becomes(NewPlayer(c, mana, maxMana, delay))
      BY <1>5, <2>2 DEF HandlePlayerJoin
    <3> DEFINE w == NewPlayer(c, mana, maxMana, delay)
    <3>2. Sound(w) /\ Paid(w) /\ w.health = 0
      BY AmountAssumption, NewPlayerSound
    <3>3. own' = 0
      BY <1>5, <2>2 DEF HandlePlayerJoin
    <3> HIDE DEF w
    <3>4. Good
      BY DEF IInv, Good, Rest
    <3>5. Good' /\ u' = w
      BY <3>1, <3>2, <3>4, BecomesGood DEF w
    <3> QED  BY <2>1, <3>2, <3>3, <3>5 DEF IInv, Good, Rest, Revived, IsDead
  <2>3. CASE session # "none"
    <3> DEFINE w == [u EXCEPT !.class = c]
    <3>1. Becomes(w) /\ own' = own
      BY <1>5, <2>3 DEF HandlePlayerJoin
    <3>2. Light(u, w)
      BY <1>1 DEF Sound, Body, Light
    <3> HIDE DEF w
    <3> QED  BY <2>1, <3>1, <3>2, LightStep
  <2> QED  BY <2>2, <2>3
<1>6. CASE HandleClientReady
  <2>1. Typed /\ Respawns(u)
    BY <1>1, <1>6 DEF HandleClientReady
  <2> QED  BY <1>1, <2>1, RespawnStep
<1>7. CASE Attack
  <2> DEFINE s == SetActionAnim(u, "STRIKE")
             w == UnsetEnchant(s, "INVULNERABLE")
  <2>1. /\ Typed
        /\ IF IsDead(w) THEN Respawns(w) ELSE Becomes(w) /\ UNCHANGED own
    BY <1>2, <1>7 DEF Attack
  <2>2. Sound(s) /\ s.health = u.health /\ (Paid(u) => Paid(s))
    BY <1>1, <1>3, SetActionAnimSound
  <2> HIDE DEF s
  <2>3. Light(s, w)
    BY <1>4, <2>2, UnsetEnchantLight
  <2> HIDE DEF w
  <2>4. Sound(w) /\ w.health = u.health
    BY <2>2, <2>3 DEF Light
  <2>5. Paid(u) => Paid(w)
    BY <2>2, <2>3, LightPaid
  <2>6. CASE IsDead(w)
    BY <2>1, <2>4, <2>6, RespawnStep
  <2>7. CASE ~IsDead(w)
    BY <2>1, <2>4, <2>5, <2>7, QuietStep
  <2> QED  BY <2>6, <2>7
<1>8. ASSUME NEW e \in Emotes, Emote(e) PROVE IInv' /\ Revived
  <2>1. Typed /\ Becomes(SetActionAnim(u, e)) /\ own' = own
    BY <1>2, <1>8 DEF Emote
  <2>2. e \in Actions /\ e # "CHARGE"
    BY <1>3
  <2> QED  BY <1>1, <2>1, <2>2, PlayStep
<1>9. CASE Jump
  <2>1. Typed /\ Becomes(SetActionAnim(u, "JUMP")) /\ own' = own
    BY <1>2, <1>9 DEF Jump
  <2>2. "JUMP" \in Actions /\ "JUMP" # "CHARGE"
    BY <1>3
  <2> QED  BY <1>1, <2>1, <2>2, PlayStep
<1>10. ASSUME NEW far \in BOOLEAN, NEW pace \in {"WALK", "RUN"},
              MoveTowards(far, pace)
       PROVE  IInv' /\ Revived
  <2> DEFINE w == IF far THEN UnsetEnchant(u, "SNEAK") ELSE u
             anim == IF "SNEAK" \in w.auras THEN "SNEAK" ELSE pace
  <2>1. Typed /\ Becomes(SetActionAnim(w, anim)) /\ own' = own
    BY <1>2, <1>10 DEF MoveTowards
  <2>2. Light(u, w)
    BY <1>1, <1>4, UnsetEnchantLight
  <2>3. anim \in Actions /\ anim # "CHARGE"
    BY <1>3
  <2> HIDE DEF w, anim
  <2> QED  BY <2>1, <2>2, <2>3, PlayStep
<1>11. ASSUME NEW a \in Abilities, HandleTryAbility(a) PROVE IInv' /\ Revived
  <2> DEFINE w == ExecuteAbility(u, a)
  <2>1. Typed /\ u.delay[a] = 0 /\ Becomes(w) /\ own' = own
    BY <1>2, <1>11 DEF HandleTryAbility
  <2>2. Sound(w) /\ w.health = u.health /\ (Paid(u) => Paid(w))
    BY <1>1, <2>1, ExecuteAbilitySound
  <2> HIDE DEF w
  <2> QED  BY <2>1, <2>2, QuietStep
<1>12. ASSUME NEW w \in SpellEffects(u), HandleTrySpell(w)
       PROVE  IInv' /\ Revived
  <2> DEFINE v == ManaDrain(w, SpellCost)
  <2>1. Typed /\ Becomes(v) /\ own' = own
    BY <1>2, <1>12 DEF HandleTrySpell
  <2>2. w \in UseEffects(u)
    BY DEF UseEffects
  <2>3. Light(u, w)
    BY <1>1, <2>2, EffectsLight
  <2>4. SpellCost \in Int
    BY AmountAssumption
  <2>5. Light(w, v)
    BY <2>3, <2>4, LightSound, ManaDrainLight
  <2> HIDE DEF v
  <2>6. Light(u, v)
    BY <2>3, <2>5, LightTrans
  <2> QED  BY <2>1, <2>6, LightStep
<1>13. ASSUME NEW w \in UseEffects(u), HandleTryUse(w)
       PROVE  IInv' /\ Revived
  <2>1. Typed /\ Becomes(w) /\ own' = own
    BY <1>2, <1>13 DEF HandleTryUse
  <2>2. Light(u, w)
    BY <1>1, EffectsLight
  <2> QED  BY <2>1, <2>2, LightStep
<1>14. CASE LogoutPlayer
  <2>1. /\ u' = NoPlayer /\ own' = 0 /\ pardon' = FALSE
        /\ session' = "none" /\ loading' = FALSE /\ phase' = phase
    BY <1>14 DEF LogoutPlayer
  <2>2. Sound(NoPlayer) /\ Paid(NoPlayer) /\ NoPlayer.health = 0
    <3>1. Warrior \in Classes  BY ClassAssumption
    <3> QED  BY <3>1, NewPlayerSound DEF NoPlayer
  <2>3. Sound(u') /\ Paid(u') /\ u'.health = 0
    BY <2>1, <2>2
  <2>4. Rest'
    BY <1>1, <2>1, <2>3 DEF Rest
  <2>5. Revived
    BY <2>3 DEF Revived, IsDead
  <2> QED  BY <2>3, <2>4, <2>5 DEF IInv, Sound, Paid
<1> QED  BY <1>5, <1>6, <1>7, <1>8, <1>9, <1>10, <1>11, <1>12, <1>13, <1>14
         DEF Handle

(* What other objects do to the player.                                    *)
LEMMA ContactStep ==
  ASSUME IInv, Contact
  PROVE  IInv' /\ Revived
<1> DEFINE Typed == /\ session' \in {"none", "half", "in"}
                    /\ loading' \in BOOLEAN
                    /\ phase' \in {"sessions", "contacts"}
<1>1. Sound(u)
  BY DEF IInv
<1>2. UNCHANGED <<session, loading, phase>> => Typed
  BY DEF IInv, Rest
<1>3. ASSUME NEW w, Light(u, w), Touched(w) PROVE IInv' /\ Revived
  <2>1. Typed /\ Becomes(w) /\ own' = own
    BY <1>2, <1>3 DEF Touched
  <2> QED  BY <1>3, <2>1, LightStep
<1>4. ASSUME NEW d \in Hits, Touched(Damage(u, d)) PROVE IInv' /\ Revived
  <2>1. Light(u, Damage(u, d))
    BY <1>1, DamageLight, AmountAssumption
  <2> QED  BY <1>3, <1>4, <2>1
<1>5. ASSUME NEW d \in Drains, Touched(ManaDrain(u, d)) PROVE IInv' /\ Revived
  <2>1. Light(u, ManaDrain(u, d))
    BY <1>1, ManaDrainLight, AmountAssumption
  <2> QED  BY <1>3, <1>5, <2>1
<1>6. ASSUME NEW w \in SpellEffects(u), Touched(w) PROVE IInv' /\ Revived
  <2>1. w \in UseEffects(u)
    BY DEF UseEffects
  <2>2. Light(u, w)
    BY <1>1, <2>1, EffectsLight
  <2> QED  BY <1>3, <1>6, <2>2
<1>7. CASE PlayerCollide
  <2> DEFINE r == ResetActionAnim(u)
             h == u.health \div PerPoint
             d == Damage(r, h)
             c == SetEnchant(d, "HELD", HeldFrames)
  <2>1. Typed /\ Becomes(c) /\ own' = own
    BY <1>2, <1>7 DEF PlayerCollide, Crash
  <2>2. Sound(r) /\ r.health = u.health /\ Paid(r)
    BY <1>1, ResetActionAnimSound
  <2>3. h \in Int
    BY <1>1 DEF PerPoint, Sound, Body
  <2>4. "HELD" \in Auras /\ HeldFrames \in Int
    BY AuraAssumption
  <2> HIDE DEF r, h
  <2>5. Light(r, d)
    BY <2>2, <2>3, DamageLight
  <2> HIDE DEF d
  <2>6. Light(d, c)
    BY <2>4, <2>5, LightSound, SetEnchantLight
  <2> HIDE DEF c
  <2>7. Light(r, c)
    BY <2>5, <2>6, LightTrans
  <2>8. Sound(c) /\ c.health = u.health
    BY <2>2, <2>7 DEF Light
  <2>9. Paid(c)
    BY <2>2, <2>7, LightPaid
  <2> QED  BY <2>1, <2>8, <2>9, QuietStep
<1> QED  BY <1>4, <1>5, <1>6, <1>7 DEF Contact

(* Player::Update.                                                         *)
LEMMA UpdateStep ==
  ASSUME IInv, UpdateObjects
  PROVE  IInv' /\ Revived
<1>1. PICK dt \in Diffs, shield \in BOOLEAN : Update(dt, shield)
  BY DEF UpdateObjects
<1>2. /\ Sound(u) /\ own = u.health
      /\ session \in {"none", "half", "in"} /\ loading \in BOOLEAN
  BY DEF IInv, Rest
<1>3. phase' = "sessions" /\ session' = session /\ loading' = loading
  BY <1>1 DEF Update
<1>4. CASE session = "none"
  <2>1. UNCHANGED <<u, own, pardon>>
    BY <1>1, <1>4 DEF Update
  <2> QED  BY <1>2, <1>3, <2>1 DEF IInv, Rest, Revived, Sound, Paid, IsDead
<1>5. CASE session # "none"
  <2> DEFINE w == Updated(u, dt, shield)
  <2>1. Becomes(w) /\ own' = IF u.delta # 0 THEN Settle(u).health ELSE own
    BY <1>1, <1>5 DEF Update
  <2>2. Sound(w) /\ w.health = Settle(u).health /\ (Paid(u) => Paid(w))
    BY <1>2, UpdatedSound
  <2>3. /\ u.health = 0 => Settle(u).health = 0
        /\ u.delta = 0 => Settle(u).health = u.health
    BY <1>2, SettleSound
  <2> HIDE DEF w
  <2>4. Good
    BY DEF IInv, Good, Rest
  <2>5. Good' /\ u' = w
    BY <2>1, <2>2, <2>4, BecomesGood
  <2>6. own' = u'.health
    BY <1>2, <2>1, <2>2, <2>3, <2>5
  <2>7. u.health \in Nat
    BY <1>2 DEF Sound, Body
  <2>8. IsDead(u) => IsDead(u')
    BY <2>2, <2>3, <2>5, <2>7 DEF IsDead
  <2> QED  BY <1>2, <1>3, <2>5, <2>6, <2>8 DEF IInv, Good, Rest, Revived
<1> QED  BY <1>4, <1>5

(* Every step.                                                             *)
LEMMA StepInvariant ==
  ASSUME IInv, [Next]_vars
  PROVE  IInv' /\ (Revived \/ UNCHANGED vars)
<1>1. CASE EndSessions
  BY <1>1 DEF EndSessions, IInv, Rest, Revived, Sound, Paid, IsDead
<1>2. CASE UNCHANGED vars
  BY <1>2 DEF vars, IInv, Rest, Sound, Paid
<1> QED  BY <1>1, <1>2, HandleStep, ContactStep, UpdateStep DEF Next

(* At first there is no player.                                            *)
LEMMA InitInvariant == Init => IInv
<1>1. Warrior \in Classes  BY ClassAssumption
<1>2. Sound(NoPlayer) /\ Paid(NoPlayer) /\ NoPlayer.health = 0
  BY <1>1, NewPlayerSound DEF NoPlayer
<1> QED  BY <1>2 DEF Init, IInv, Rest

-----------------------------------------------------------------------------
(* The theorems.                                                           *)

(* The record of a player is sound, a charge is paid for, and the client   *)
(* was told its health, in every state.                                    *)
THEOREM Inductive == Spec => []IInv
<1>1. IInv /\ [Next]_vars => IInv'
  BY StepInvariant
<1> QED  BY InitInvariant, <1>1, PTL DEF Spec

(* Health, mana, times and delays keep their types: no time or delay is    *)
(* counted below 0.                                                        *)
THEOREM TypeCorrect == Spec => []TypeOK
<1>1. IInv => TypeOK
  BY DEF IInv, Sound, Body, Rest, TypeOK
<1> QED  BY Inductive, <1>1, PTL

(* The client shows the health that the server has.                        *)
THEOREM OwnHealthToldHolds == Spec => []OwnHealthTold
<1>1. IInv => OwnHealthTold
  BY DEF IInv, Rest, OwnHealthTold
<1> QED  BY Inductive, <1>1, PTL

(* Mana stays between 0 and the maximum once a kit was given.              *)
THEOREM ManaBoundedHolds == Spec => []ManaBounded
<1>1. IInv => ManaBounded
  BY DEF IInv, Sound, ManaBounded
<1> QED  BY Inductive, <1>1, PTL

(* No charge lasts as long as its delay, but one that a respawn pardoned.  *)
THEOREM ChargePaidHolds == Spec => []ChargePaid
<1>1. IInv => ChargePaid
  BY DEF IInv, Paid, ChargePaid
<1> QED  BY Inductive, <1>1, PTL

(* Only Respawn brings the dead back.                                      *)
THEOREM OnlyRespawnRevivesHolds == Spec => OnlyRespawnRevives
<1>1. IInv /\ [Next]_vars => [Revived]_vars
  BY StepInvariant
<1>2. [Revived]_vars
        => [IsDead(u) /\ ~IsDead(u') => /\ "INVULNERABLE" \in u'.auras
                                       /\ u'.health = u'.maxHealth
                                       /\ u'.health = HealthOf[u'.class]]_vars
  BY DEF Revived
<1> QED  BY Inductive, <1>1, <1>2, PTL DEF Spec, OnlyRespawnRevives

-----------------------------------------------------------------------------
(* How long a crash holds the player.  What does not crash him neither     *)
(* gives him the enchantment nor more of its time.                         *)
HeldSame(w, v) ==
    "HELD" \in v.auras => "HELD" \in w.auras /\ v.left["HELD"] = w.left["HELD"]

LEMMA SetOtherHeld ==
  ASSUME NEW w, Sound(w), NEW a \in Auras \ {"HELD"}, NEW n \in Int
  PROVE  HeldSame(w, SetEnchant(w, a, n))
<1> DEFINE t == IF Int16(n) # 0 THEN Int16(n) ELSE TableFrames[a]
<1> HIDE DEF t
<1>1. /\ [w EXCEPT !.auras = @ \union {a}, !.left[a] = t].auras
           = w.auras \union {a}
      /\ [w EXCEPT !.auras = @ \union {a}, !.left[a] = t].left
           = [w.left EXCEPT ![a] = t]
  BY DEF Sound, Body
<1>2. [w.left EXCEPT ![a] = t]["HELD"] = w.left["HELD"]
  BY AuraAssumption, DressTypes
<1> QED  BY <1>1, <1>2 DEF HeldSame, SetEnchant, t

LEMMA UnsetHeld ==
  ASSUME NEW w, Sound(w), NEW a \in Auras \ {"HELD"}
  PROVE  HeldSame(w, UnsetEnchant(w, a))
<1>1. /\ UnsetEnchant(w, a).auras = w.auras \ {a}
      /\ UnsetEnchant(w, a).left = [w.left EXCEPT ![a] = 0]
  BY DEF UnsetEnchant, Sound, Body
<1>2. [w.left EXCEPT ![a] = 0]["HELD"] = w.left["HELD"]
  BY AuraAssumption, DressTypes
<1> QED  BY <1>1, <1>2 DEF HeldSame

(* What touches no enchantment at all.                                     *)
LEMMA PlainHeld ==
  ASSUME NEW w, Sound(w), NEW d \in Int, NEW a \in Actions
  PROVE  /\ HeldSame(w, Damage(w, d)) /\ HeldSame(w, Heal(w, d))
         /\ HeldSame(w, ManaDrain(w, d))
         /\ HeldSame(w, SetActionAnim(w, a)) /\ HeldSame(w, ResetActionAnim(w))
         /\ HeldSame(w, Settle(w)) /\ HeldSame(w, CountDelays(w))
  BY DEF Sound, Body, HeldSame, Damage, Heal, ManaDrain, SetActionAnim,
         ResetActionAnim, Settle, CountDelays

LEMMA HeldTrans ==
  ASSUME NEW w, NEW v, NEW x, HeldSame(w, v), HeldSame(v, x)
  PROVE  HeldSame(w, x)
  BY DEF HeldSame

(* The spells and items.                                                   *)
LEMMA EffectsHeld ==
  ASSUME NEW w, Sound(w), NEW v \in UseEffects(w)
  PROVE  HeldSame(w, v)
<1>1. /\ \A h \in Hits : h \in Int /\ 0 - h \in Int
      /\ \A d \in Drains : d \in Int /\ 0 - d \in Int
      /\ SpellAuras \subseteq Auras \ {"HELD"} /\ 0 \in Int
      /\ \A a \in Auras : SpellFrames[a] \in Int
      /\ HeldSame(w, w) /\ "IDLE" \in Actions
  BY AmountAssumption, AuraAssumption DEF HeldSame, Actions, Named
<1>2. \A a \in SpellAuras : /\ HeldSame(w, SetEnchant(w, a, SpellFrames[a]))
                            /\ HeldSame(w, SetEnchant(w, a, 0))
  BY <1>1, SetOtherHeld
<1>3. \A h \in Hits : HeldSame(w, Heal(w, h)) /\ HeldSame(w, Heal(w, 0 - h))
  BY <1>1, PlainHeld
<1>4. \A d \in Drains : HeldSame(w, ManaDrain(w, 0 - d))
  BY <1>1, PlainHeld
<1> QED  BY <1>1, <1>2, <1>3, <1>4 DEF UseEffects, SpellEffects

LEMMA AbilityHeld ==
  ASSUME NEW w, Sound(w), NEW a \in Abilities
  PROVE  HeldSame(w, ExecuteAbility(w, a))
<1> DEFINE p == [w EXCEPT !.delay[a] = AbilityDelay[a]]
<1>1. Sound(p) /\ HeldSame(w, p)
  <2>1. AbilityDelay[a] \in Nat
    BY TimeAssumption
  <2>2. [w.delay EXCEPT ![a] = AbilityDelay[a]] \in [Abilities -> Nat]
    BY <2>1 DEF Sound, Body
  <2>3. p = [w EXCEPT !.delay = [w.delay EXCEPT ![a] = AbilityDelay[a]]]
    BY DEF Sound, Body
  <2> HIDE DEF p
  <2> QED  BY <2>2, <2>3 DEF Sound, Body, HeldSame
<1>2. /\ a \in {"CHARGE", "WARCRY", "TREAD", "WOLF"}
      /\ a \in {"CHARGE", "WARCRY"} => a \in Actions
      /\ a = "WOLF" => "INFRAVISION" \in Auras \ {"HELD"}
      /\ "SNEAK" \in Auras \ {"HELD"}
  BY TimeAssumption, AuraAssumption DEF Actions, Named
<1> HIDE DEF p
<1>3. a \in {"CHARGE", "WARCRY"} => HeldSame(p, SetActionAnim(p, a))
  BY <1>1, <1>2, PlainHeld, 0 \in Int
<1>4. /\ HeldSame(p, SetEnchant(p, "SNEAK", SneakFrames))
      /\ a = "WOLF" =>
           HeldSame(p, SetEnchant(p, "INFRAVISION", SpellFrames["INFRAVISION"]))
  <2>1. /\ SneakFrames \in Int
        /\ a = "WOLF" => SpellFrames["INFRAVISION"] \in Int
    BY <1>2, AuraAssumption
  <2> QED  BY <1>1, <1>2, <2>1, SetOtherHeld
<1>5. HeldSame(p, ExecuteAbility(w, a))
  BY <1>2, <1>3, <1>4 DEF ExecuteAbility, p
<1> QED  BY <1>1, <1>5, HeldTrans

(* A respawn takes every enchantment off and gives another.                *)
LEMMA RespawnHeld ==
  ASSUME NEW w, Sound(w)
  PROVE  "HELD" \notin Respawn(w).auras
<1> DEFINE f == FitOut(w)
<1>1. Sound(f)
  BY FitOutSound
<1> HIDE DEF f
<1>2. Respawn(w).auras = {} \union {"INVULNERABLE"}
  BY <1>1 DEF Respawn, SetEnchant, f, Sound, Body
<1> QED  BY <1>2

(* What is left of it after an Update.                                     *)
LEMMA UpdatedHeld ==
  ASSUME NEW w, Sound(w), NEW dt \in Diffs, NEW shield \in BOOLEAN,
         "HELD" \in w.auras => w.left["HELD"] \in Nat
  PROVE  LET v == Updated(w, dt, shield)
         IN  "HELD" \in v.auras => /\ "HELD" \in w.auras /\ w.left["HELD"] > 0
                                   /\ v.left["HELD"] = w.left["HELD"] - 1
<1> DEFINE s == Settle(w)
           c == CountDelays(s)
           p == PlayOn(c, dt, shield)
           m == ManaDrain(p, -Regen)
<1>0. Updated(w, dt, shield) = CountEnchants(m)
  BY DEF Updated
<1>1. 0 \in Int /\ -Regen \in Int /\ {"IDLE", "SHIELD"} \subseteq Actions
      /\ "SNEAK" \in Auras \ {"HELD"} /\ "HELD" \in Auras
  BY AmountAssumption, AuraAssumption DEF Actions, Named
<1>2. Sound(s) /\ HeldSame(w, s)
  BY <1>1, SettleSound, PlainHeld
<1> HIDE DEF s
<1>3. Sound(c) /\ HeldSame(s, c)
  BY <1>1, <1>2, CountDelaysSound, PlainHeld
<1> HIDE DEF c
<1>4. Sound(p) /\ HeldSame(c, p)
  <2>1. Sound(p)
    BY <1>3, PlayOnSound
  <2> DEFINE idle == UnsetEnchant(c, "SNEAK")
             r    == IF shield THEN SetActionAnim(idle, "SHIELD")
                     ELSE ResetActionAnim(idle)
  <2>2. Sound(idle) /\ HeldSame(c, idle)
    BY <1>1, <1>3, UnsetEnchantLight, UnsetHeld DEF Light
  <2> HIDE DEF idle
  <2>3. Sound(r) /\ HeldSame(idle, r)
    BY <1>1, <2>2, PlainHeld, SetActionAnimSound, ResetActionAnimSound
  <2> HIDE DEF r
  <2>4. HeldSame(c, [r EXCEPT !.time = 0])
    BY <2>2, <2>3 DEF HeldSame, Sound, Body
  <2>5. /\ HeldSame(c, [c EXCEPT !.action = "DEAD", !.health = 0])
        /\ HeldSame(c, [c EXCEPT !.time = @ - dt])
    BY <1>3 DEF HeldSame, Sound, Body
  <2>6. HeldSame(c, p)
    BY <2>4, <2>5 DEF PlayOn, r, idle
  <2> QED  BY <2>1, <2>6
<1> HIDE DEF p
<1>5. Sound(m) /\ HeldSame(p, m)
  BY <1>1, <1>4, ManaDrainLight, PlainHeld DEF Light
<1> HIDE DEF m
<1>6. HeldSame(w, m)
  BY <1>2, <1>3, <1>4, <1>5 DEF HeldSame
<1>7. "HELD" \in CountEnchants(m).auras =>
        /\ "HELD" \in m.auras /\ m.left["HELD"] # 0
        /\ CountEnchants(m).left["HELD"] =
             IF m.left["HELD"] > 0 THEN m.left["HELD"] - 1 ELSE m.left["HELD"]
  BY <1>1, <1>5 DEF CountEnchants, Sound, Body
<1> QED  BY <1>0, <1>6, <1>7 DEF HeldSame

(* The time of the enchantment is at most that of a crash, and nobody is   *)
(* held where there is no player.                                          *)
HeldBounded ==
  /\ "HELD" \in u.auras => u.left["HELD"] \in 0..HeldFrames
  /\ session = "none" => "HELD" \notin u.auras

(* Update, which ends the round, takes one from it; a crash alone gives it *)
(* or sets it back.                                                        *)
HeldCounts ==
  "HELD" \in u'.auras =>
    \/ PlayerCollide
    \/ /\ "HELD" \in u.auras
       /\ u'.left["HELD"] =
            u.left["HELD"] - (IF phase = "contacts" /\ phase' = "sessions"
                              THEN 1 ELSE 0)

(* Steps that leave the enchantment as it is.                              *)
LEMMA SameHeld ==
  ASSUME HeldBounded, u' = u \/ HeldSame(u, u'), phase' = phase \/ phase = "sessions",
         "HELD" \in u.auras => u.left["HELD"] \in Int,
         session' = "none" => session = "none"
  PROVE  HeldBounded' /\ HeldCounts
BY DEF HeldBounded, HeldCounts, HeldSame

LEMMA HandleHeld ==
  ASSUME IInv, HeldBounded, Handle
  PROVE  HeldBounded' /\ HeldCounts
<1>1. /\ Sound(u) /\ phase = "sessions" /\ phase' = phase
      /\ "HELD" \in u.auras => u.left["HELD"] \in Int
  <2>1. Sound(u)
    BY DEF IInv
  <2>2. "HELD" \in Auras
    BY AuraAssumption
  <2>3. u.left["HELD"] \in Int
    BY <2>1, <2>2, DressTypes
  <2>4. phase = "sessions" /\ phase' = phase
    BY DEF Handle, HandlePlayerJoin, HandleClientReady, Attack, Emote, Jump,
           MoveTowards, HandleTryAbility, HandleTrySpell, HandleTryUse,
           LogoutPlayer, Handling
  <2> QED  BY <2>1, <2>3, <2>4
<1>2. /\ {"STRIKE", "JUMP", "SNEAK", "WALK", "RUN"} \union Emotes \subseteq Actions
      /\ {"SNEAK", "INVULNERABLE"} \subseteq Auras \ {"HELD"}
      /\ SpellCost \in Int /\ 0 \in Int
  BY AuraAssumption, AmountAssumption DEF Actions, Named
<1>3. ASSUME NEW w, HeldSame(u, w), Becomes(w), session' = session
      PROVE  HeldBounded' /\ HeldCounts
  BY <1>1, <1>3, SameHeld DEF Becomes
<1>4. ASSUME NEW w, Sound(w), Respawns(w), session' = session, session # "none"
      PROVE  HeldBounded' /\ HeldCounts
  BY <1>4, RespawnHeld DEF Respawns, HeldBounded, HeldCounts
<1>5. ASSUME NEW a \in Actions
      PROVE  HeldSame(u, SetActionAnim(u, a)) /\ Sound(SetActionAnim(u, a))
  BY <1>1, <1>2, PlainHeld, SetActionAnimSound
<1>6. ASSUME NEW c \in Classes, NEW complete \in BOOLEAN,
             HandlePlayerJoin(c, complete)
      PROVE  HeldBounded' /\ HeldCounts
  <2>1. CASE session = "none"
    <3>1. u'.auras = {}
      BY <1>6, <2>1 DEF HandlePlayerJoin, Becomes, NewPlayer
    <3> QED  BY <3>1 DEF HeldBounded, HeldCounts
  <2>2. CASE session # "none"
    <3>1. u' = [u EXCEPT !.class = c] /\ session' # "none"
      BY <1>6, <2>2 DEF HandlePlayerJoin, Becomes
    <3>2. HeldSame(u, u')
      BY <1>1, <3>1 DEF HeldSame, Sound, Body
    <3> QED  BY <1>1, <3>1, <3>2, SameHeld
  <2> QED  BY <2>1, <2>2
<1>7. CASE HandleClientReady
  BY <1>1, <1>4, <1>7 DEF HandleClientReady, Handling
<1>8. CASE Attack
  <2> DEFINE v == SetActionAnim(u, "STRIKE")
             w == UnsetEnchant(v, "INVULNERABLE")
  <2>1. Sound(v) /\ HeldSame(u, v)
    BY <1>2, <1>5
  <2> HIDE DEF v
  <2>2. Sound(w) /\ HeldSame(v, w)
    BY <1>2, <2>1, UnsetEnchantLight, UnsetHeld DEF Light
  <2> HIDE DEF w
  <2>3. HeldSame(u, w)
    BY <2>1, <2>2, HeldTrans
  <2>4. /\ Respawns(w) \/ Becomes(w)
        /\ session' = session /\ session # "none"
    BY <1>8 DEF Attack, Handling, v, w
  <2> QED  BY <1>3, <1>4, <2>2, <2>3, <2>4
<1>9. CASE (\E e \in Emotes : Emote(e)) \/ Jump
  BY <1>2, <1>3, <1>5, <1>9 DEF Emote, Jump
<1>10. ASSUME NEW far \in BOOLEAN, NEW pace \in {"WALK", "RUN"},
              MoveTowards(far, pace)
       PROVE  HeldBounded' /\ HeldCounts
  <2> DEFINE w    == IF far THEN UnsetEnchant(u, "SNEAK") ELSE u
             anim == IF "SNEAK" \in w.auras THEN "SNEAK" ELSE pace
  <2>1. Becomes(SetActionAnim(w, anim)) /\ session' = session
    BY <1>10 DEF MoveTowards
  <2>2. Sound(w) /\ HeldSame(u, w)
    BY <1>1, <1>2, UnsetEnchantLight, UnsetHeld DEF Light, HeldSame
  <2>3. anim \in Actions
    BY <1>2
  <2> HIDE DEF w, anim
  <2>4. HeldSame(w, SetActionAnim(w, anim))
    BY <1>2, <2>2, <2>3, PlainHeld
  <2> QED  BY <1>3, <2>1, <2>2, <2>4, HeldTrans
<1>11. CASE \E a \in Abilities : HandleTryAbility(a)
  BY <1>1, <1>3, <1>11, AbilityHeld DEF HandleTryAbility
<1>12. ASSUME NEW w \in SpellEffects(u), HandleTrySpell(w)
       PROVE  HeldBounded' /\ HeldCounts
  <2>1. w \in UseEffects(u)
    BY DEF UseEffects
  <2>2. HeldSame(u, w) /\ Sound(w)
    BY <1>1, <2>1, EffectsHeld, EffectsLight DEF Light
  <2>3. HeldSame(w, ManaDrain(w, SpellCost))
    BY <1>2, <2>2, PlainHeld
  <2> QED  BY <1>3, <1>12, <2>2, <2>3, HeldTrans DEF HandleTrySpell
<1>13. CASE \E w \in UseEffects(u) : HandleTryUse(w)
  BY <1>1, <1>3, <1>13, EffectsHeld DEF HandleTryUse
<1>14. CASE LogoutPlayer
  <2>1. u'.auras = {}
    BY <1>14 DEF LogoutPlayer, NoPlayer, NewPlayer
  <2> QED  BY <2>1 DEF HeldBounded, HeldCounts
<1> QED  BY <1>6, <1>7, <1>8, <1>9, <1>10, <1>11, <1>12, <1>13, <1>14
         DEF Handle

LEMMA ContactHeld ==
  ASSUME IInv, HeldBounded, Contact
  PROVE  HeldBounded' /\ HeldCounts
<1>1. /\ Sound(u) /\ u.left["HELD"] \in Int
      /\ \A h \in Hits : h \in Int
      /\ \A d \in Drains : d \in Int
      /\ "IDLE" \in Actions
  BY DressTypes, AuraAssumption, AmountAssumption DEF IInv, Actions, Named
<1>2. ASSUME NEW w, HeldSame(u, w), Touched(w)
      PROVE  HeldBounded' /\ HeldCounts
  BY <1>1, <1>2, SameHeld DEF Touched, Becomes
<1>3. CASE \E d \in Hits : Touched(Damage(u, d))
  BY <1>1, <1>2, <1>3, PlainHeld
<1>4. CASE \E d \in Drains : Touched(ManaDrain(u, d))
  BY <1>1, <1>2, <1>4, PlainHeld
<1>5. CASE \E w \in SpellEffects(u) : Touched(w)
  BY <1>1, <1>2, <1>5, EffectsHeld DEF UseEffects
<1>6. CASE PlayerCollide
  <2> DEFINE d == Damage(ResetActionAnim(u), u.health \div PerPoint)
  <2>1. Sound(d)
    <3>1. Sound(ResetActionAnim(u))
      BY <1>1, ResetActionAnimSound
    <3>2. u.health \div PerPoint \in Int
      BY <1>1 DEF PerPoint, Sound, Body
    <3> QED  BY <3>1, <3>2, DamageLight DEF Light
  <2>2. u' = SetEnchant(d, "HELD", HeldFrames) /\ session' # "none"
    BY <1>6 DEF PlayerCollide, Crash, Becomes, Touching
  <2> HIDE DEF d
  <2>3. HeldFrames \in 1..32767 /\ "HELD" \in Auras
    BY AuraAssumption
  <2>4. Int16(HeldFrames) = HeldFrames
    BY <2>3 DEF Int16
  <2>5. u'.left = [d.left EXCEPT !["HELD"] = HeldFrames]
    <3> DEFINE t == IF Int16(HeldFrames) # 0 THEN Int16(HeldFrames)
                    ELSE TableFrames["HELD"]
    <3>1. t = HeldFrames
      BY <2>3, <2>4
    <3>2. u' = [d EXCEPT !.auras = d.auras \union {"HELD"},
                         !.left = [d.left EXCEPT !["HELD"] = t]]
      BY <2>2 DEF SetEnchant
    <3> HIDE DEF t
    <3> QED  BY <2>1, <3>1, <3>2 DEF Sound, Body
  <2>6. u'.left["HELD"] = HeldFrames
    BY <2>1, <2>3, <2>5, DressTypes
  <2>7. HeldFrames \in 0..HeldFrames
    BY <2>3
  <2> QED  BY <1>6, <2>2, <2>6, <2>7 DEF HeldBounded, HeldCounts
<1> QED  BY <1>3, <1>4, <1>5, <1>6 DEF Contact

LEMMA UpdateHeld ==
  ASSUME IInv, HeldBounded, UpdateObjects
  PROVE  HeldBounded' /\ HeldCounts
<1>1. PICK dt \in Diffs, shield \in BOOLEAN : Update(dt, shield)
  BY DEF UpdateObjects
<1>2. phase = "contacts" /\ phase' = "sessions" /\ session' = session
  BY <1>1 DEF Update
<1>3. CASE session = "none"
  <2>1. u' = u /\ "HELD" \notin u.auras
    BY <1>1, <1>3 DEF Update, HeldBounded
  <2> QED  BY <1>2, <2>1 DEF HeldBounded, HeldCounts
<1>4. CASE session # "none"
  <2>1. u' = Updated(u, dt, shield)
    BY <1>1, <1>4 DEF Update, Becomes
  <2>2. /\ Sound(u) /\ HeldFrames \in Nat
        /\ "HELD" \in u.auras => u.left["HELD"] \in 0..HeldFrames
    BY AuraAssumption DEF IInv, HeldBounded
  <2>3. "HELD" \in u'.auras => /\ "HELD" \in u.auras /\ u.left["HELD"] > 0
                               /\ u'.left["HELD"] = u.left["HELD"] - 1
    BY <2>1, <2>2, UpdatedHeld
  <2> QED  BY <1>2, <1>4, <2>2, <2>3 DEF HeldBounded, HeldCounts
<1> QED  BY <1>3, <1>4

LEMMA HeldNext ==
  ASSUME IInv, HeldBounded, [Next]_vars
  PROVE  HeldBounded' /\ [HeldCounts]_vars
<1>1. CASE UNCHANGED vars
  BY <1>1 DEF vars, HeldBounded
<1>2. CASE EndSessions
  <2>1. "HELD" \in u.auras => u.left["HELD"] \in Int
    BY DressTypes, AuraAssumption DEF IInv
  <2> QED  BY <1>2, <2>1 DEF EndSessions, HeldBounded, HeldCounts
<1> QED  BY <1>1, <1>2, HandleHeld, ContactHeld, UpdateHeld DEF Next

LEMMA HeldInit == Init => HeldBounded
BY DEF Init, HeldBounded, NoPlayer, NewPlayer

(* Whoever a crash holds has at most its time before him (Player::Collide, *)
(* Unit::SetEnchant): a 16 bit field, in which the time fits.              *)
THEOREM HeldBoundedHolds == Spec => []HeldBounded
<1>1. IInv /\ HeldBounded /\ [Next]_vars => HeldBounded'
  BY HeldNext
<1> QED  BY <1>1, HeldInit, InitInvariant, Inductive, PTL DEF Spec

(* Every Update brings him nearer to the end of it, dead or alive, and     *)
(* nothing but another crash sets it back: no spell, no item, no join and  *)
(* no respawn (Unit::Update).  What is left of HeldEnds is that Updates    *)
(* come and that crashes stop.                                             *)
HeldRunsDown == [][HeldCounts]_vars

THEOREM HeldRunsDownHolds == Spec => HeldRunsDown
<1>1. IInv /\ HeldBounded /\ [Next]_vars => [HeldCounts]_vars
  BY HeldNext
<1> QED  BY <1>1, HeldBoundedHolds, Inductive, PTL DEF Spec, HeldRunsDown
=============================================================================
