--------------------------- MODULE InventoryProofs ---------------------------
(***************************************************************************)
(* Proofs about Inventory.  What the methods of Player do to one player    *)
(* comes first, as lemmas about the operators; then the inductive          *)
(* invariant, one step for each handler; then the theorems, of which the   *)
(* last, the refinement of ItemOwnership, has its own lemmas before it.    *)
(***************************************************************************)
EXTENDS Inventory, TLAPS

USE DEF Slots, Primary, NoSlot

WornSlots == Slots \ {Secondary}

(* One player: its equipment is carried and its client knows.              *)
WornOK(pl) ==
    \A s \in WornSlots :
      pl.equipment[s] # None => /\ pl.equipment[s] \in pl.inventory
                                /\ SlotOf[pl.equipment[s]] = s
KnownOK(pl) ==
    /\ pl.told = pl.inventory
    /\ \A x \in Items : x \in pl.toldWorn <=>
                          \E s \in WornSlots : pl.equipment[s] = x
PlayerOK(pl) == pl \in Player /\ WornOK(pl) /\ KnownOK(pl)

-----------------------------------------------------------------------------
(* Dequip leaves the inventory alone, and x out of the worn slots.         *)
LEMMA DequipOK ==
    ASSUME NEW pl, PlayerOK(pl), NEW x \in Items \union {None}
    PROVE  /\ PlayerOK(Dequip(pl, x))
           /\ Dequip(pl, x).inventory = pl.inventory
           /\ Dequip(pl, x).exists = pl.exists
           /\ \A s \in WornSlots : Dequip(pl, x).equipment[s] =
                 IF pl.equipment[s] = x THEN None ELSE pl.equipment[s]
           /\ x \in Items => x \notin Dequip(pl, x).toldWorn
<1> DEFINE d == Dequip(pl, x)
<1> USE SlotAssumption, ItemAssumption
<1>1. pl \in Player /\ WornOK(pl) /\ KnownOK(pl)
  BY DEF PlayerOK
<1>2. /\ d.exists = pl.exists /\ d.dead = pl.dead /\ d.loading = pl.loading
      /\ d.inventory = pl.inventory /\ d.told = pl.told
      /\ d.equipment = [s \in Slots |->
                          IF pl.equipment[s] = x /\ FirstSlot(pl, s) THEN None
                          ELSE pl.equipment[s]]
      /\ d.toldWorn = IF \E s \in Slots : pl.equipment[s] = x
                      THEN pl.toldWorn \ {x} ELSE pl.toldWorn
  BY <1>1 DEF Dequip, Player
<1>3. d \in Player
  BY <1>1, <1>2 DEF Dequip, Player
<1>4. ASSUME NEW s \in WornSlots
      PROVE  d.equipment[s] = IF pl.equipment[s] = x THEN None
                              ELSE pl.equipment[s]
  <2>1. CASE pl.equipment[s] = x /\ x # None
    <3>1. SlotOf[x] = s
      BY <1>1, <2>1 DEF WornOK
    <3>2. ASSUME NEW t \in Slots, t < s PROVE pl.equipment[t] # x
      <4>1. t \in WornSlots
        BY <3>2 DEF WornSlots
      <4> QED
        BY <1>1, <2>1, <3>1, <3>2, <4>1 DEF WornOK, WornSlots
    <3> QED
      BY <1>2, <2>1, <3>2 DEF FirstSlot, WornSlots
  <2>2. CASE pl.equipment[s] # x \/ x = None
    BY <1>2, <2>2 DEF WornSlots
  <2> QED
    BY <2>1, <2>2
<1>5. WornOK(d)
  BY <1>1, <1>2, <1>4 DEF WornOK
<1>6. KnownOK(d)
  <2>1. ASSUME NEW y \in Items
        PROVE  y \in d.toldWorn <=> \E s \in WornSlots : d.equipment[s] = y
    <3>1. CASE y = x
      <4>1. \A s \in WornSlots : d.equipment[s] # y
        BY <1>4, <3>1
      <4>2. y \notin d.toldWorn
        BY <1>1, <1>2, <3>1 DEF KnownOK, WornSlots
      <4> QED
        BY <4>1, <4>2
    <3>2. CASE y # x
      <4>1. y \in d.toldWorn <=> y \in pl.toldWorn
        BY <1>2, <3>2
      <4>2. \A s \in WornSlots : d.equipment[s] = y <=> pl.equipment[s] = y
        BY <1>4, <3>2
      <4> QED
        BY <1>1, <4>1, <4>2 DEF KnownOK
    <3> QED
      BY <3>1, <3>2
  <2> QED
    BY <1>1, <1>2, <2>1 DEF KnownOK
<1>7. x \in Items => x \notin d.toldWorn
  BY <1>4, <1>6 DEF KnownOK
<1> QED
  BY <1>2, <1>3, <1>4, <1>5, <1>6, <1>7 DEF PlayerOK

(* Wear puts a carried item into an empty slot of its own.                 *)
LEMMA WearOK ==
    ASSUME NEW pl, PlayerOK(pl), NEW x \in pl.inventory,
           SlotOf[x] # NoSlot, pl.equipment[SlotOf[x]] = None
    PROVE  /\ PlayerOK(Wear(pl, SlotOf[x], x))
           /\ Wear(pl, SlotOf[x], x).inventory = pl.inventory
           /\ Wear(pl, SlotOf[x], x).exists = pl.exists
<1> DEFINE w == Wear(pl, SlotOf[x], x)
<1> USE SlotAssumption, ItemAssumption
<1>1. pl \in Player /\ WornOK(pl) /\ KnownOK(pl)
  BY DEF PlayerOK
<1>2. x \in Items /\ SlotOf[x] \in WornSlots
  BY <1>1 DEF Player, WornSlots
<1>3. /\ w.exists = pl.exists /\ w.dead = pl.dead /\ w.loading = pl.loading
      /\ w.inventory = pl.inventory /\ w.told = pl.told
      /\ w.equipment = [pl.equipment EXCEPT ![SlotOf[x]] = x]
      /\ w.toldWorn = pl.toldWorn \union {x}
  BY <1>1 DEF Wear, Player
<1>4. w \in Player
  BY <1>1, <1>2, <1>3 DEF Wear, Player, WornSlots
<1>5. \A s \in WornSlots : w.equipment[s] = IF s = SlotOf[x] THEN x
                                            ELSE pl.equipment[s]
  BY <1>1, <1>2, <1>3 DEF Player, WornSlots
<1>6. WornOK(w)
  BY <1>1, <1>2, <1>3, <1>5 DEF WornOK
<1>7. KnownOK(w)
  <2>1. ASSUME NEW y \in Items
        PROVE  y \in w.toldWorn <=> \E s \in WornSlots : w.equipment[s] = y
    <3>1. CASE y = x
      BY <1>2, <1>3, <1>5, <3>1
    <3>2. CASE y # x
      BY <1>1, <1>2, <1>3, <1>5, <3>2 DEF KnownOK
    <3> QED
      BY <3>1, <3>2
  <2> QED
    BY <1>1, <1>3, <2>1 DEF KnownOK
<1> QED
  BY <1>3, <1>4, <1>6, <1>7 DEF PlayerOK
(* Equip takes off what was worn in the slot, and then wears x.            *)
LEMMA EquipOK ==
    ASSUME NEW pl, PlayerOK(pl), NEW x \in Items
    PROVE  /\ PlayerOK(Equip(pl, x))
           /\ Equip(pl, x).inventory = pl.inventory
           /\ Equip(pl, x).exists = pl.exists
<1> USE SlotAssumption, ItemAssumption
<1>1. CASE x \notin pl.inventory \/ SlotOf[x] = NoSlot
  BY <1>1 DEF Equip
<1>2. CASE x \in pl.inventory /\ SlotOf[x] # NoSlot
  <2> DEFINE old == pl.equipment[SlotOf[x]]
             d   == Dequip(pl, old)
  <2>1. SlotOf[x] \in WornSlots /\ old \in Items \union {None}
    BY <1>2 DEF PlayerOK, Player, WornSlots
  <2>2. /\ PlayerOK(d) /\ d.inventory = pl.inventory /\ d.exists = pl.exists
        /\ d.equipment[SlotOf[x]] = None
    BY <2>1, DequipOK
  <2> HIDE DEF d
  <2>3. /\ PlayerOK(Wear(d, SlotOf[x], x))
        /\ Wear(d, SlotOf[x], x).inventory = d.inventory
        /\ Wear(d, SlotOf[x], x).exists = d.exists
    BY <1>2, <2>2, WearOK
  <2>4. Equip(pl, x) = Wear(d, SlotOf[x], x)
    BY <1>2 DEF Equip, d
  <2> QED
    BY <2>2, <2>3, <2>4
<1> QED
  BY <1>1, <1>2

(* An item that leaves the inventory is taken off first.                   *)
LEMMA RemoveOK ==
    ASSUME NEW pl, PlayerOK(pl), NEW x \in Items
    PROVE  /\ PlayerOK(RemoveFromInventory(pl, x))
           /\ RemoveFromInventory(pl, x).inventory = pl.inventory \ {x}
           /\ RemoveFromInventory(pl, x).exists = pl.exists
<1> USE SlotAssumption, ItemAssumption
<1>1. CASE x \notin pl.inventory
  BY <1>1 DEF RemoveFromInventory
<1>2. CASE x \in pl.inventory
  <2> DEFINE d == Dequip(pl, x)
             r == RemoveFromInventory(pl, x)
  <2>1. /\ PlayerOK(d) /\ d.inventory = pl.inventory /\ d.exists = pl.exists
        /\ \A s \in WornSlots : d.equipment[s] # x
        /\ x \notin d.toldWorn
    <3>1. x \in Items \union {None} /\ x # None
      OBVIOUS
    <3>2. \A s \in WornSlots : d.equipment[s] =
            IF pl.equipment[s] = x THEN None ELSE pl.equipment[s]
      BY <3>1, DequipOK
    <3> QED
      BY <3>1, <3>2, DequipOK
  <2>2. r = [d EXCEPT !.inventory = @ \ {x}, !.told = @ \ {x}]
    BY <1>2 DEF RemoveFromInventory
  <2> HIDE DEF d, r
  <2>3. d \in Player /\ WornOK(d) /\ KnownOK(d)
    BY <2>1 DEF PlayerOK
  <2>4. /\ r \in Player
        /\ r.exists = d.exists /\ r.equipment = d.equipment
        /\ r.toldWorn = d.toldWorn
        /\ r.inventory = d.inventory \ {x} /\ r.told = d.told \ {x}
    BY <2>2, <2>3 DEF Player
  <2>5. WornOK(r)
    BY <2>1, <2>3, <2>4 DEF WornOK
  <2>6. KnownOK(r)
    BY <2>3, <2>4 DEF KnownOK
  <2>7. PlayerOK(r)
    BY <2>4, <2>5, <2>6 DEF PlayerOK
  <2> QED
    BY <2>1, <2>4, <2>7 DEF r
<1> QED
  BY <1>1, <1>2

(* A dead player has and wears nothing.                                    *)
LEMMA DropAllOK ==
    ASSUME NEW pl, PlayerOK(pl)
    PROVE  /\ PlayerOK(DropAll(pl))
           /\ DropAll(pl).inventory = {}
           /\ DropAll(pl).exists = pl.exists
<1> DEFINE d == DropAll(pl)
<1> USE SlotAssumption, ItemAssumption
<1>1. pl \in Player /\ WornOK(pl) /\ KnownOK(pl)
  BY DEF PlayerOK
<1>2. /\ d.exists = pl.exists /\ d.inventory = {} /\ d.told = {}
      /\ d.equipment = [s \in Slots |->
                          IF /\ pl.equipment[s] \in pl.inventory
                             /\ FirstSlot(pl, s)
                          THEN None ELSE pl.equipment[s]]
      /\ d.toldWorn = pl.toldWorn \ {pl.equipment[s] : s \in
                         {s \in Slots : pl.equipment[s] \in pl.inventory}}
  BY <1>1 DEF DropAll, Player, KnownOK
<1>3. d \in Player
  BY <1>1, <1>2 DEF DropAll, Player
<1>4. ASSUME NEW s \in WornSlots PROVE d.equipment[s] = None
  <2>1. CASE pl.equipment[s] # None
    <3>1. pl.equipment[s] \in pl.inventory /\ SlotOf[pl.equipment[s]] = s
      BY <1>1, <2>1 DEF WornOK
    <3>2. ASSUME NEW t \in Slots, t < s
          PROVE  pl.equipment[t] # pl.equipment[s]
      <4>1. t \in WornSlots
        BY <3>2 DEF WornSlots
      <4> QED
        BY <1>1, <2>1, <3>1, <3>2, <4>1 DEF WornOK, WornSlots
    <3> QED
      BY <1>2, <3>1, <3>2 DEF FirstSlot, WornSlots
  <2>2. CASE pl.equipment[s] = None
    BY <1>1, <1>2, <2>2 DEF WornSlots, Player
  <2> QED
    BY <2>1, <2>2
<1>5. ASSUME NEW x \in Items PROVE x \notin d.toldWorn
  <2>1. CASE x \in pl.toldWorn
    <3>1. PICK s \in WornSlots : pl.equipment[s] = x
      BY <1>1, <2>1 DEF KnownOK
    <3>2. pl.equipment[s] \in pl.inventory
      BY <1>1, <3>1 DEF WornOK
    <3> QED
      BY <1>2, <3>1, <3>2 DEF WornSlots
  <2> QED
    BY <1>2, <2>1
<1>6. WornOK(d) /\ KnownOK(d)
  BY <1>2, <1>4, <1>5 DEF WornOK, KnownOK
<1> QED
  BY <1>2, <1>3, <1>6 DEF PlayerOK

(* New items for different slots are picked up, and worn where the slot    *)
(* is empty.                                                               *)
LEMMA PickupOK ==
    ASSUME NEW pl, PlayerOK(pl), NEW X \in SUBSET Items,
           X \intersect pl.inventory = {},
           \A x, y \in X : SlotOf[x] = SlotOf[y] => x = y
    PROVE  /\ PlayerOK(Pickup(pl, X))
           /\ Pickup(pl, X).inventory = pl.inventory \union X
           /\ Pickup(pl, X).exists = pl.exists
<1> DEFINE worn == {x \in X \intersect Wearable : pl.equipment[SlotOf[x]] = None}
           d    == Pickup(pl, X)
<1> USE SlotAssumption, ItemAssumption
<1>1. pl \in Player /\ WornOK(pl) /\ KnownOK(pl)
  BY DEF PlayerOK
<1>2. /\ worn \subseteq X
      /\ \A x \in worn : SlotOf[x] \in WornSlots /\ pl.equipment[SlotOf[x]] = None
  BY DEF WornSlots
<1>3. /\ d.exists = pl.exists /\ d.inventory = pl.inventory \union X
      /\ d.told = pl.told \union X
      /\ d.equipment = [s \in Slots |->
                          IF \E x \in worn : SlotOf[x] = s
                          THEN CHOOSE x \in worn : SlotOf[x] = s
                          ELSE pl.equipment[s]]
      /\ d.toldWorn = pl.toldWorn \union worn
  BY <1>1 DEF Pickup, Player
<1>4. ASSUME NEW x \in worn PROVE d.equipment[SlotOf[x]] = x
  <2>1. \A y \in worn : SlotOf[y] = SlotOf[x] => y = x
    BY <1>2
  <2>2. (CHOOSE y \in worn : SlotOf[y] = SlotOf[x]) = x
    BY <2>1
  <2> QED
    BY <1>2, <1>3, <2>2 DEF WornSlots
<1>5. ASSUME NEW s \in Slots, \A x \in worn : SlotOf[x] # s
      PROVE  d.equipment[s] = pl.equipment[s]
  BY <1>3, <1>5
<1> HIDE DEF worn
<1>6. d \in Player
  <2>1. d.equipment \in [Slots -> Items \union {None}]
    BY <1>1, <1>2, <1>3, <1>4, <1>5 DEF Player
  <2> QED
    BY <1>1, <1>2, <1>3, <2>1 DEF Pickup, Player, worn
<1> HIDE DEF d
<1>7. WornOK(d)
  BY <1>1, <1>2, <1>3, <1>4, <1>5 DEF WornOK, WornSlots
<1>8. ASSUME NEW y \in Items
      PROVE  y \in d.toldWorn <=> \E s \in WornSlots : d.equipment[s] = y
  <2>1. CASE y \in worn
    BY <1>2, <1>3, <1>4, <2>1
  <2>2. CASE y \notin worn /\ y \in pl.toldWorn
    <3>1. PICK s \in WornSlots : pl.equipment[s] = y
      BY <1>1, <2>2 DEF KnownOK
    <3>2. d.equipment[s] = y
      BY <1>2, <1>5, <3>1 DEF WornSlots
    <3> QED
      BY <1>3, <2>2, <3>2
  <2>3. CASE y \notin worn /\ y \notin pl.toldWorn
    <3>1. ASSUME NEW s \in WornSlots PROVE d.equipment[s] # y
      <4>1. CASE \E x \in worn : SlotOf[x] = s
        BY <1>4, <2>3, <4>1
      <4>2. CASE \A x \in worn : SlotOf[x] # s
        BY <1>1, <1>5, <2>3, <4>2 DEF KnownOK, WornSlots
      <4> QED
        BY <4>1, <4>2
    <3> QED
      BY <1>3, <2>3, <3>1
  <2> QED
    BY <2>1, <2>2, <2>3
<1>9. KnownOK(d)
  BY <1>1, <1>3, <1>8 DEF KnownOK
<1> QED
  BY <1>3, <1>6, <1>7, <1>9 DEF PlayerOK, d

(* The secondary weapon is not worn; NULL changes nothing.                 *)
LEMMA EquipSecondaryOK ==
    ASSUME NEW pl, PlayerOK(pl), NEW x \in Items \union {None}
    PROVE  /\ PlayerOK(EquipSecondary(pl, x))
           /\ EquipSecondary(pl, x).inventory = pl.inventory
           /\ EquipSecondary(pl, x).exists = pl.exists
<1> USE SlotAssumption, ItemAssumption
<1>1. CASE x = None
  BY <1>1 DEF EquipSecondary, PlayerOK, Player
<1>2. CASE x # None
  <2> DEFINE d == Dequip(pl, x)
             r == EquipSecondary(pl, x)
  <2>1. PlayerOK(d) /\ d.inventory = pl.inventory /\ d.exists = pl.exists
    BY DequipOK
  <2>2. r = [d EXCEPT !.equipment = [@ EXCEPT ![Secondary] = x]]
    BY <1>2 DEF EquipSecondary
  <2> HIDE DEF d, r
  <2>3. d \in Player /\ WornOK(d) /\ KnownOK(d)
    BY <2>1 DEF PlayerOK
  <2>4. /\ r \in Player
        /\ r.exists = d.exists /\ r.inventory = d.inventory
        /\ r.told = d.told /\ r.toldWorn = d.toldWorn
        /\ \A s \in WornSlots : r.equipment[s] = d.equipment[s]
    BY <2>2, <2>3 DEF Player, WornSlots
  <2>5. WornOK(r) /\ KnownOK(r)
    BY <2>3, <2>4 DEF WornOK, KnownOK
  <2> QED
    BY <2>1, <2>4, <2>5 DEF PlayerOK, r
<1> QED
  BY <1>1, <1>2
-----------------------------------------------------------------------------
(* The inductive invariant.  The three last parts are about what the       *)
(* handlers rely on: a session with no player has no items, a kit is new   *)
(* to everyone, and an item that waits for its deletion cannot be picked   *)
(* up, unless it was used by someone who did not carry it.                 *)
AllPlayersOK  == \A p \in Players : PlayerOK(player[p])
Absent        == \A p \in Players : ~player[p].exists => player[p].inventory = {}
Unborn        == \A x \in Items : obj[x] = "unborn" =>
                    /\ x \notin hidden /\ x \notin removeList
                    /\ x \notin foreign
                    /\ \A p \in Players : x \notin player[p].inventory
RemovedHidden == \A x \in removeList : x \in hidden \/ x \in foreign

IInv == /\ TypeOK
        /\ AllPlayersOK
        /\ Absent
        /\ ExclusiveOwner
        /\ NothingStranded
        /\ NoneDangling
        /\ Unborn
        /\ RemovedHidden
(* A new player, and a session without one, have and wear nothing.         *)
LEMMA NewPlayerOK ==
    /\ PlayerOK(NewPlayer) /\ NewPlayer.exists /\ NewPlayer.inventory = {}
    /\ PlayerOK(NoPlayer) /\ ~NoPlayer.exists /\ NoPlayer.inventory = {}
<1> USE SlotAssumption
<1>1. /\ NewPlayer \in Player /\ NewPlayer.exists
      /\ NewPlayer.inventory = {} /\ NewPlayer.told = {}
      /\ NewPlayer.toldWorn = {}
      /\ \A s \in WornSlots : NewPlayer.equipment[s] = None
  BY DEF NewPlayer, Player, WornSlots
<1>2. /\ NoPlayer \in Player /\ ~NoPlayer.exists
      /\ NoPlayer.inventory = {} /\ NoPlayer.told = {}
      /\ NoPlayer.toldWorn = {}
      /\ \A s \in WornSlots : NoPlayer.equipment[s] = None
  BY DEF NoPlayer, NewPlayer, Player, WornSlots
<1> QED
  BY <1>1, <1>2, ItemAssumption DEF PlayerOK, WornOK, KnownOK

LEMMA InitOK == Init => IInv
<1> SUFFICES ASSUME Init PROVE IInv
  OBVIOUS
<1> USE SlotAssumption, ItemAssumption DEF Init
<1>1. NoPlayer \in Player /\ NoPlayer.inventory = {} /\ ~NoPlayer.exists
  BY NewPlayerOK DEF PlayerOK
<1>2. PlayerOK(NoPlayer)
  BY NewPlayerOK
<1>3. \A p \in Players : player[p] = NoPlayer
  OBVIOUS
<1>4. TypeOK
  BY <1>1 DEF TypeOK
<1>5. AllPlayersOK /\ Absent
  BY <1>1, <1>2, <1>3 DEF AllPlayersOK, Absent
<1>6. ExclusiveOwner /\ NothingStranded /\ NoneDangling
  BY <1>1, <1>3 DEF ExclusiveOwner, NothingStranded, NoneDangling
<1>7. Unborn /\ RemovedHidden
  BY <1>1, <1>3 DEF Unborn, RemovedHidden
<1> QED
  BY <1>4, <1>5, <1>6, <1>7 DEF IInv

(* What a step that changes one player leaves to show.                     *)
LEMMA OnePlayer ==
    ASSUME IInv, NEW p \in Players, NEW pl, PlayerOK(pl), Becomes(p, pl),
           ~pl.exists => pl.inventory = {}
    PROVE  /\ player' \in [Players -> Player]
           /\ AllPlayersOK' /\ Absent'
           /\ player'[p].inventory = pl.inventory
           /\ \A q \in Players \ {p} :
                 player'[q].inventory = player[q].inventory
<1>1. player \in [Players -> Player] /\ pl \in Player
  BY DEF IInv, TypeOK, PlayerOK
<1>2. player' = [player EXCEPT ![p] = pl]
  BY DEF Becomes
<1>3. \A q \in Players : player'[q] = IF q = p THEN pl ELSE player[q]
  BY <1>1, <1>2
<1>4. AllPlayersOK'
  BY <1>3 DEF IInv, AllPlayersOK
<1>5. Absent'
  BY <1>3 DEF IInv, Absent
<1> QED
  BY <1>1, <1>2, <1>3, <1>4, <1>5

(* A handler that leaves the items where they are.                         *)
LEMMA Wearing ==
    ASSUME IInv, NEW p \in Players, NEW pl, PlayerOK(pl), Becomes(p, pl),
           pl.exists \/ pl.exists = player[p].exists,
           pl.inventory = player[p].inventory,
           UNCHANGED <<obj, hidden, removeList, lost, foreign>>,
           crashed' \in BOOLEAN, crashed' => foreign # {}
    PROVE  IInv'
<1>1. /\ player' \in [Players -> Player]
      /\ AllPlayersOK' /\ Absent'
      /\ \A q \in Players : player'[q].inventory = player[q].inventory
  BY OnePlayer DEF IInv, Absent
<1>2. TypeOK'
  BY <1>1 DEF IInv, TypeOK
<1>3. ExclusiveOwner'
  BY <1>1 DEF IInv, ExclusiveOwner
<1>4. NothingStranded'
  BY <1>1 DEF IInv, NothingStranded
<1>5. NoneDangling'
  BY <1>1 DEF IInv, NoneDangling
<1>6. Unborn' /\ RemovedHidden'
  BY <1>1 DEF IInv, Unborn, RemovedHidden
<1> QED
  BY <1>1, <1>2, <1>3, <1>4, <1>5, <1>6 DEF IInv

LEMMA TryEquipStep ==
    ASSUME IInv, NEW p \in Players, NEW x \in Items, HandleTryEquip(p, x)
    PROVE  IInv'
<1> DEFINE pl == Equip(player[p], x)
<1> USE SlotAssumption, ItemAssumption
<1>1. PlayerOK(player[p])
  BY DEF IInv, AllPlayersOK
<1>2. /\ PlayerOK(pl) /\ pl.exists = player[p].exists
      /\ pl.inventory = player[p].inventory
  BY <1>1, EquipOK
<1>3. crashed' => foreign # {}
  <2> SUFFICES ASSUME crashed' PROVE foreign # {}
    OBVIOUS
  <2> DEFINE old == player[p].equipment[SlotOf[x]]
  <2>1. SlotOf[x] \in WornSlots /\ old # None /\ obj[old] = "freed"
    BY DEF HandleTryEquip, WornSlots
  <2>2. old \in player[p].inventory
    BY <1>1, <2>1 DEF PlayerOK, WornOK
  <2> QED
    BY <2>1, <2>2 DEF IInv, NoneDangling
<1>4. crashed' \in BOOLEAN
  BY DEF HandleTryEquip
<1>5. Becomes(p, pl) /\ UNCHANGED <<obj, hidden, removeList, lost, foreign>>
  BY DEF HandleTryEquip
<1> QED
  BY <1>2, <1>3, <1>4, <1>5, Wearing

LEMMA TryDequipStep ==
    ASSUME IInv, NEW p \in Players, NEW x \in Items, HandleTryDequip(p, x)
    PROVE  IInv'
<1> DEFINE pl == Dequip(player[p], x)
<1>1. PlayerOK(player[p]) /\ x \in Items \union {None}
  BY DEF IInv, AllPlayersOK
<1>2. /\ PlayerOK(pl) /\ pl.exists = player[p].exists
      /\ pl.inventory = player[p].inventory
  BY <1>1, DequipOK
<1>3. /\ Becomes(p, pl) /\ ~crashed'
      /\ UNCHANGED <<obj, hidden, removeList, lost, foreign>>
  BY DEF HandleTryDequip, Handling
<1>4. crashed' \in BOOLEAN
  BY DEF HandleTryDequip, IInv, TypeOK
<1> QED
  BY <1>2, <1>3, <1>4, Wearing

LEMMA SecondaryStep ==
    ASSUME IInv, NEW p \in Players, NEW x \in Items \union {None},
           HandleReportSecondaryWeapon(p, x)
    PROVE  IInv'
<1> DEFINE pl == EquipSecondary(player[p], x)
<1>1. PlayerOK(player[p])
  BY DEF IInv, AllPlayersOK
<1>2. /\ PlayerOK(pl) /\ pl.exists = player[p].exists
      /\ pl.inventory = player[p].inventory
  BY <1>1, EquipSecondaryOK
<1>3. /\ Becomes(p, pl) /\ ~crashed'
      /\ UNCHANGED <<obj, hidden, removeList, lost, foreign>>
  BY DEF HandleReportSecondaryWeapon, Handling
<1>4. crashed' \in BOOLEAN
  BY DEF HandleReportSecondaryWeapon, IInv, TypeOK
<1> QED
  BY <1>2, <1>3, <1>4, Wearing
(* An item that may be picked up is in no inventory.                       *)
LEMMA Pickable ==
    ASSUME IInv, NEW x \in Items, obj[x] = "live", x \notin hidden
    PROVE  \A q \in Players : x \notin player[q].inventory
BY DEF IInv, ExclusiveOwner

LEMMA TryGetStep ==
    ASSUME IInv, NEW p \in Players, NEW x \in Items, HandleTryGet(p, x)
    PROVE  IInv'
<1> DEFINE has  == Pickup(player[p], {x})
           eats == RemoveFromInventory(has, x)
<1> USE SlotAssumption, ItemAssumption
<1>1. PlayerOK(player[p]) /\ player[p].exists
  BY DEF IInv, AllPlayersOK, HandleTryGet, Handling
<1>2. /\ obj[x] = "live" /\ x \notin hidden /\ ~crashed
      /\ hidden' = hidden \union {x}
      /\ obj' = obj /\ lost' = lost /\ foreign' = foreign /\ ~crashed'
      /\ \/ Becomes(p, has) /\ removeList' = removeList
         \/ Becomes(p, eats) /\ removeList' = removeList \union {x}
  BY DEF HandleTryGet, Found, Handling
<1>3. \A q \in Players : x \notin player[q].inventory
  BY <1>2, Pickable
<1>4. /\ PlayerOK(has) /\ has.exists
      /\ has.inventory = player[p].inventory \union {x}
  <2>1. /\ {x} \in SUBSET Items
        /\ {x} \intersect player[p].inventory = {}
        /\ \A y, z \in {x} : SlotOf[y] = SlotOf[z] => y = z
    BY <1>3
  <2> QED
    BY <1>1, <2>1, PickupOK
<1> HIDE DEF has
<1>5. /\ PlayerOK(eats) /\ eats.exists
      /\ eats.inventory = player[p].inventory
  <2>1. /\ PlayerOK(eats) /\ eats.exists
        /\ eats.inventory = has.inventory \ {x}
    BY <1>4, RemoveOK
  <2> QED
    BY <1>3, <1>4, <2>1
<1> HIDE DEF eats
<1>6. x \in removeList => x \in foreign
  BY <1>2 DEF IInv, RemovedHidden
<1>7. crashed' \in BOOLEAN
  BY DEF HandleTryGet, IInv, TypeOK
<1>8. CASE Becomes(p, has) /\ removeList' = removeList
  <2>1. /\ player' \in [Players -> Player] /\ AllPlayersOK' /\ Absent'
        /\ player'[p].inventory = player[p].inventory \union {x}
        /\ \A q \in Players \ {p} :
              player'[q].inventory = player[q].inventory
    BY <1>4, <1>8, OnePlayer
  <2>2. TypeOK'
    BY <1>2, <1>7, <1>8, <2>1 DEF IInv, TypeOK
  <2>3. ExclusiveOwner'
    BY <1>2, <1>3, <2>1 DEF IInv, ExclusiveOwner
  <2>4. NothingStranded'
    BY <1>2, <1>8, <2>1 DEF IInv, NothingStranded
  <2>5. NoneDangling'
    BY <1>2, <1>6, <1>8, <2>1 DEF IInv, NoneDangling
  <2>6. Unborn' /\ RemovedHidden'
    BY <1>2, <1>8, <2>1 DEF IInv, Unborn, RemovedHidden
  <2> QED
    BY <2>1, <2>2, <2>3, <2>4, <2>5, <2>6 DEF IInv
<1>9. CASE Becomes(p, eats) /\ removeList' = removeList \union {x}
  <2>1. /\ player' \in [Players -> Player] /\ AllPlayersOK' /\ Absent'
        /\ \A q \in Players : player'[q].inventory = player[q].inventory
    BY <1>5, <1>9, OnePlayer
  <2>2. TypeOK'
    BY <1>2, <1>7, <1>9, <2>1 DEF IInv, TypeOK
  <2>3. ExclusiveOwner'
    BY <1>2, <2>1 DEF IInv, ExclusiveOwner
  <2>4. NothingStranded'
    BY <1>2, <1>9, <2>1 DEF IInv, NothingStranded
  <2>5. NoneDangling'
    BY <1>2, <1>3, <1>9, <2>1 DEF IInv, NoneDangling
  <2>6. Unborn' /\ RemovedHidden'
    BY <1>2, <1>9, <2>1 DEF IInv, Unborn, RemovedHidden
  <2> QED
    BY <2>1, <2>2, <2>3, <2>4, <2>5, <2>6 DEF IInv
<1> QED
  BY <1>2, <1>8, <1>9

LEMMA TryDropStep ==
    ASSUME IInv, NEW p \in Players, NEW x \in Items, HandleTryDrop(p, x)
    PROVE  IInv'
<1> DEFINE pl == RemoveFromInventory(player[p], x)
<1>1. PlayerOK(player[p]) /\ player[p].exists /\ x \in player[p].inventory
  BY DEF IInv, AllPlayersOK, HandleTryDrop, Handling
<1>2. /\ ~crashed' /\ hidden' = hidden \ {x} /\ Becomes(p, pl)
      /\ obj' = obj /\ lost' = lost /\ foreign' = foreign
      /\ removeList' = removeList
  BY DEF HandleTryDrop, Handling
<1>3. /\ PlayerOK(pl) /\ pl.exists
      /\ pl.inventory = player[p].inventory \ {x}
  BY <1>1, RemoveOK
<1>4. crashed' \in BOOLEAN
  BY DEF HandleTryDrop, IInv, TypeOK
<1> HIDE DEF pl
<1>5. /\ player' \in [Players -> Player] /\ AllPlayersOK' /\ Absent'
      /\ player'[p].inventory = player[p].inventory \ {x}
      /\ \A q \in Players \ {p} :
            player'[q].inventory = player[q].inventory
  BY <1>2, <1>3, OnePlayer
<1>6. TypeOK'
  BY <1>2, <1>4, <1>5 DEF IInv, TypeOK
<1>7. ExclusiveOwner'
  BY <1>1, <1>2, <1>5 DEF IInv, ExclusiveOwner
<1>8. NothingStranded'
  BY <1>2, <1>5 DEF IInv, NothingStranded
<1>9. NoneDangling'
  BY <1>2, <1>5 DEF IInv, NoneDangling
<1>10. Unborn'
  BY <1>2, <1>5 DEF IInv, Unborn
<1>11. RemovedHidden'
  BY <1>1, <1>2 DEF IInv, RemovedHidden, NoneDangling
<1> QED
  BY <1>5, <1>6, <1>7, <1>8, <1>9, <1>10, <1>11 DEF IInv

LEMMA TryUseStep ==
    ASSUME IInv, NEW p \in Players, NEW x \in Items, HandleTryUse(p, x)
    PROVE  IInv'
<1> DEFINE pl == RemoveFromInventory(player[p], x)
<1>1. PlayerOK(player[p]) /\ player[p].exists
  BY DEF IInv, AllPlayersOK, HandleTryUse, Handling
<1>2. /\ obj[x] = "live" /\ ~crashed' /\ Becomes(p, pl)
      /\ obj' = obj /\ lost' = lost /\ hidden' = hidden
      /\ removeList' = removeList \union {x}
      /\ foreign' = IF x \in player[p].inventory \union removeList THEN foreign
                    ELSE foreign \union {x}
  BY DEF HandleTryUse, Handling, Found
<1>3. /\ PlayerOK(pl) /\ pl.exists
      /\ pl.inventory = player[p].inventory \ {x}
  BY <1>1, RemoveOK
<1>4. crashed' \in BOOLEAN
  BY DEF HandleTryUse, IInv, TypeOK
<1> HIDE DEF pl
<1>5. /\ player' \in [Players -> Player] /\ AllPlayersOK' /\ Absent'
      /\ player'[p].inventory = player[p].inventory \ {x}
      /\ \A q \in Players \ {p} :
            player'[q].inventory = player[q].inventory
  BY <1>2, <1>3, OnePlayer
<1>6. TypeOK'
  BY <1>2, <1>4, <1>5 DEF IInv, TypeOK
<1>7. ExclusiveOwner'
  BY <1>2, <1>5 DEF IInv, ExclusiveOwner
<1>8. NothingStranded'
  BY <1>2, <1>5 DEF IInv, NothingStranded
<1>9. NoneDangling'
  <2>1. ASSUME NEW q \in Players, x \in player'[q].inventory
        PROVE  x \in foreign'
    <3>1. q # p /\ x \in player[q].inventory
      BY <1>5, <2>1
    <3>2. x \notin player[p].inventory
      BY <3>1 DEF IInv, ExclusiveOwner
    <3>3. x \in removeList => x \in foreign
      BY <3>1 DEF IInv, NoneDangling
    <3> QED
      BY <1>2, <3>2, <3>3
  <2> QED
    BY <1>2, <1>5, <2>1 DEF IInv, NoneDangling
<1>10. Unborn'
  BY <1>2, <1>5 DEF IInv, Unborn
<1>11. RemovedHidden'
  BY <1>2 DEF IInv, RemovedHidden, ExclusiveOwner
<1> QED
  BY <1>5, <1>6, <1>7, <1>8, <1>9, <1>10, <1>11 DEF IInv
LEMMA RespawnStep ==
    ASSUME IInv, NEW p \in Players, NEW K, NEW loading \in BOOLEAN,
           player[p].exists, ~crashed, Respawn(p, K, loading)
    PROVE  IInv'
<1> DEFINE has == Pickup(player[p], K)
           pl  == [has EXCEPT !.dead = FALSE, !.loading = loading]
<1>1. PlayerOK(player[p])
  BY DEF IInv, AllPlayersOK
<1>2. /\ K \in SUBSET Items /\ \A x \in K : obj[x] = "unborn"
      /\ \A x, y \in K : SlotOf[x] = SlotOf[y] => x = y
  BY ItemAssumption DEF Respawn, Kits
<1>3. /\ Becomes(p, pl)
      /\ obj' = [x \in Items |-> IF x \in K THEN "live" ELSE obj[x]]
      /\ hidden' = hidden \union K
      /\ removeList' = removeList /\ lost' = lost /\ foreign' = foreign
      /\ ~crashed'
  BY DEF Respawn
<1>4. \A q \in Players : K \intersect player[q].inventory = {}
  BY <1>2 DEF IInv, Unborn
<1>5. /\ PlayerOK(has) /\ has.exists
      /\ has.inventory = player[p].inventory \union K
  BY <1>1, <1>2, <1>4, PickupOK
<1> HIDE DEF has
<1>6. /\ PlayerOK(pl) /\ pl.exists
      /\ pl.inventory = player[p].inventory \union K
  <2>1. /\ pl \in Player /\ pl.exists = has.exists
        /\ pl.inventory = has.inventory /\ pl.equipment = has.equipment
        /\ pl.told = has.told /\ pl.toldWorn = has.toldWorn
    BY <1>5 DEF PlayerOK, Player
  <2> QED
    BY <1>5, <2>1 DEF PlayerOK, WornOK, KnownOK
<1> HIDE DEF pl
<1>7. crashed' \in BOOLEAN
  BY DEF Respawn, IInv, TypeOK
<1>8. /\ player' \in [Players -> Player] /\ AllPlayersOK' /\ Absent'
      /\ player'[p].inventory = player[p].inventory \union K
      /\ \A q \in Players \ {p} :
            player'[q].inventory = player[q].inventory
  BY <1>3, <1>6, OnePlayer
<1>9. \A x \in Items : obj'[x] = IF x \in K THEN "live" ELSE obj[x]
  BY <1>3
<1>10. TypeOK'
  BY <1>2, <1>3, <1>7, <1>8 DEF IInv, TypeOK
<1>11. player \in [Players -> Player]
  BY DEF IInv, TypeOK
<1>12. ExclusiveOwner'
  <2>1. ASSUME NEW q \in Players, NEW r \in Players, q # r
        PROVE  player'[q].inventory \intersect player'[r].inventory = {}
    BY <1>4, <1>8, <2>1 DEF IInv, ExclusiveOwner
  <2>2. ASSUME NEW q \in Players, NEW x \in player'[q].inventory,
               obj'[x] = "live"
        PROVE  x \in hidden'
    <3>1. x \in K \/ x \in player[q].inventory
      BY <1>8
    <3>2. x \in Items
      BY <1>2, <1>11, <3>1 DEF Player
    <3> QED
      BY <1>3, <1>9, <2>2, <3>1, <3>2 DEF IInv, ExclusiveOwner
  <2> QED
    BY <2>1, <2>2 DEF ExclusiveOwner
<1>13. NothingStranded'
  BY <1>3, <1>8 DEF IInv, NothingStranded
<1>14. NoneDangling'
  <2>1. ASSUME NEW q \in Players, NEW x \in player'[q].inventory,
               x \in removeList' \/ obj'[x] = "freed"
        PROVE  x \in foreign'
    <3>1. x \in K \/ x \in player[q].inventory
      BY <1>8
    <3>2. x \in Items
      BY <1>2, <1>11, <3>1 DEF Player
    <3>3. x \notin K
      BY <1>2, <1>3, <1>9, <2>1, <3>2 DEF IInv, Unborn
    <3> QED
      BY <1>3, <1>9, <2>1, <3>1, <3>2, <3>3 DEF IInv, NoneDangling
  <2>2. \A x \in removeList' : obj'[x] = "live"
    BY <1>3, <1>9 DEF IInv, NoneDangling, TypeOK
  <2> QED
    BY <1>3, <2>1, <2>2 DEF NoneDangling
<1>15. Unborn'
  BY <1>3, <1>8, <1>9 DEF IInv, Unborn
<1>16. RemovedHidden'
  BY <1>3 DEF IInv, RemovedHidden
<1> QED
  BY <1>8, <1>10, <1>12, <1>13, <1>14, <1>15, <1>16 DEF IInv

LEMMA ClientReadyStep ==
    ASSUME IInv, NEW p \in Players, NEW K, HandleClientReady(p, K)
    PROVE  IInv'
<1>1. player[p].exists /\ ~crashed /\ Respawn(p, K, FALSE)
  BY DEF HandleClientReady, Handling
<1> QED
  BY <1>1, RespawnStep

LEMMA AttackStep ==
    ASSUME IInv, NEW p \in Players, NEW K, Attack(p, K)
    PROVE  IInv'
<1>1. player[p].exists /\ ~crashed /\ Respawn(p, K, player[p].loading)
  BY DEF Attack, Handling
<1>2. player[p].loading \in BOOLEAN
  BY DEF IInv, TypeOK, Player
<1> QED
  BY <1>1, <1>2, RespawnStep

LEMMA LogoutStep ==
    ASSUME IInv, NEW p \in Players, LogoutPlayer(p)
    PROVE  IInv'
<1>1. /\ Becomes(p, NoPlayer) /\ ~crashed'
      /\ lost' = lost \union player[p].inventory
      /\ obj' = obj /\ hidden' = hidden /\ removeList' = removeList
      /\ foreign' = foreign
  BY DEF LogoutPlayer, Handling
<1>2. PlayerOK(NoPlayer) /\ NoPlayer.inventory = {}
  BY NewPlayerOK
<1>3. player[p].inventory \subseteq Items /\ crashed' \in BOOLEAN
  BY DEF LogoutPlayer, IInv, TypeOK, Player
<1>4. /\ player' \in [Players -> Player] /\ AllPlayersOK' /\ Absent'
      /\ player'[p].inventory = {}
      /\ \A q \in Players \ {p} :
            player'[q].inventory = player[q].inventory
  BY <1>1, <1>2, OnePlayer
<1>5. TypeOK'
  BY <1>1, <1>3, <1>4 DEF IInv, TypeOK
<1>6. ExclusiveOwner'
  BY <1>1, <1>4 DEF IInv, ExclusiveOwner
<1>7. NothingStranded'
  BY <1>1, <1>4 DEF IInv, NothingStranded
<1>8. NoneDangling'
  BY <1>1, <1>4 DEF IInv, NoneDangling
<1>9. Unborn' /\ RemovedHidden'
  BY <1>1, <1>4 DEF IInv, Unborn, RemovedHidden
<1> QED
  BY <1>4, <1>5, <1>6, <1>7, <1>8, <1>9 DEF IInv
(* A join keeps the items of the session's player, of whom a new one has   *)
(* none.                                                                   *)
LEMMA JoinedOK ==
    ASSUME IInv, NEW p \in Players
    PROVE  /\ PlayerOK(Joined(p)) /\ Joined(p).exists
           /\ Joined(p).inventory = player[p].inventory
<1>1. CASE player[p].exists
  BY <1>1 DEF Joined, IInv, AllPlayersOK
<1>2. CASE ~player[p].exists
  BY <1>2, NewPlayerOK DEF Joined, IInv, Absent
<1> QED
  BY <1>1, <1>2

LEMMA PlayerJoinStep ==
    ASSUME IInv, NEW p \in Players, HandlePlayerJoin(p)
    PROVE  IInv'
<1> DEFINE j  == Joined(p)
           pl == [j EXCEPT !.loading = TRUE]
<1>1. /\ Becomes(p, pl) /\ ~crashed' /\ removeList' = {}
      /\ obj' = [x \in Items |-> IF x \in removeList THEN "freed" ELSE obj[x]]
      /\ hidden' = hidden \ removeList
      /\ lost' = lost /\ foreign' = foreign
  BY DEF HandlePlayerJoin, RemoveAllObjects
<1>2. PlayerOK(pl) /\ pl.exists /\ pl.inventory = player[p].inventory
  <2>1. PlayerOK(j) /\ j.exists /\ j.inventory = player[p].inventory
    BY JoinedOK
  <2> HIDE DEF j
  <2>2. /\ pl \in Player /\ pl.exists = j.exists
        /\ pl.inventory = j.inventory /\ pl.equipment = j.equipment
        /\ pl.told = j.told /\ pl.toldWorn = j.toldWorn
    BY <2>1 DEF PlayerOK, Player
  <2> QED
    BY <2>1, <2>2 DEF PlayerOK, WornOK, KnownOK
<1> HIDE DEF pl
<1>3. /\ player' \in [Players -> Player] /\ AllPlayersOK' /\ Absent'
      /\ \A q \in Players : player'[q].inventory = player[q].inventory
  BY <1>1, <1>2, OnePlayer
<1>4. /\ \A x \in Items : obj'[x] = IF x \in removeList THEN "freed" ELSE obj[x]
      /\ \A q \in Players : player[q].inventory \subseteq Items
  BY <1>1 DEF IInv, TypeOK, Player
<1>5. TypeOK'
  BY <1>1, <1>3 DEF HandlePlayerJoin, IInv, TypeOK
<1>6. ExclusiveOwner'
  BY <1>1, <1>3, <1>4 DEF IInv, ExclusiveOwner
<1>7. NothingStranded'
  BY <1>1, <1>3 DEF IInv, NothingStranded
<1>8. NoneDangling'
  BY <1>1, <1>3, <1>4 DEF IInv, NoneDangling
<1>9. Unborn' /\ RemovedHidden'
  BY <1>1, <1>3, <1>4 DEF IInv, Unborn, RemovedHidden
<1> QED
  BY <1>3, <1>5, <1>6, <1>7, <1>8, <1>9 DEF IInv

LEMMA PlayerJoinShortStep ==
    ASSUME IInv, NEW p \in Players, HandlePlayerJoinShort(p)
    PROVE  IInv'
<1> DEFINE pl == Joined(p)
<1>1. PlayerOK(pl) /\ pl.exists /\ pl.inventory = player[p].inventory
  BY JoinedOK
<1>2. /\ Becomes(p, pl) /\ crashed' = crashed /\ ~crashed
      /\ UNCHANGED <<obj, hidden, removeList, lost, foreign>>
  BY DEF HandlePlayerJoinShort
<1>3. crashed' \in BOOLEAN
  BY <1>2 DEF IInv, TypeOK
<1> QED
  BY <1>1, <1>2, <1>3, Wearing

LEMMA UpdateStep ==
    ASSUME IInv, NEW D \in SUBSET Players, ObjectAccessorUpdate(D)
    PROVE  IInv'
<1>1. /\ player' = [p \in Players |->
                      IF p \in D THEN [DropAll(player[p]) EXCEPT !.dead = TRUE]
                      ELSE player[p]]
      /\ removeList' = {}
      /\ obj' = [x \in Items |-> IF x \in removeList THEN "freed" ELSE obj[x]]
      /\ hidden' = (hidden \ removeList)
                     \ UNION {player[p].inventory : p \in D}
      /\ lost' = lost /\ foreign' = foreign
      /\ crashed' = \E p \in D : \E x \in player[p].inventory : obj'[x] = "freed"
  BY DEF ObjectAccessorUpdate, RemoveAllObjects
<1>2. ASSUME NEW p \in Players
      PROVE  /\ PlayerOK(player'[p]) /\ player'[p].exists = player[p].exists
             /\ player'[p].inventory = IF p \in D THEN {}
                                       ELSE player[p].inventory
  <2>1. PlayerOK(player[p])
    BY DEF IInv, AllPlayersOK
  <2>2. CASE p \in D
    <3> DEFINE d == DropAll(player[p])
    <3>1. PlayerOK(d) /\ d.inventory = {} /\ d.exists = player[p].exists
      BY <2>1, DropAllOK
    <3>2. player'[p] = [d EXCEPT !.dead = TRUE]
      BY <1>1, <2>2
    <3> HIDE DEF d
    <3>3. /\ player'[p] \in Player /\ player'[p].exists = d.exists
          /\ player'[p].inventory = d.inventory
          /\ player'[p].equipment = d.equipment
          /\ player'[p].told = d.told /\ player'[p].toldWorn = d.toldWorn
      BY <3>1, <3>2 DEF PlayerOK, Player
    <3> QED
      BY <2>2, <3>1, <3>3 DEF PlayerOK, WornOK, KnownOK
  <2>3. CASE p \notin D
    BY <1>1, <2>1, <2>3
  <2> QED
    BY <2>2, <2>3
<1>3. AllPlayersOK' /\ Absent'
  BY <1>2 DEF IInv, AllPlayersOK, Absent
<1>4. /\ \A x \in Items : obj'[x] = IF x \in removeList THEN "freed" ELSE obj[x]
      /\ \A q \in Players : player[q].inventory \subseteq Items
  BY <1>1 DEF IInv, TypeOK, Player
<1>5. TypeOK'
  <2>1. player' \in [Players -> Player]
    BY <1>1, <1>2 DEF PlayerOK
  <2>2. crashed' \in BOOLEAN
    BY <1>1
  <2>3. obj' \in [Items -> {"unborn", "live", "freed"}]
    BY <1>1 DEF IInv, TypeOK
  <2>4. hidden' \subseteq Items /\ removeList' \subseteq Items
    BY <1>1 DEF IInv, TypeOK
  <2> QED
    BY <1>1, <2>1, <2>2, <2>3, <2>4 DEF IInv, TypeOK
<1>6. ExclusiveOwner'
  <2>1. ASSUME NEW p \in Players, NEW q \in Players, p # q
        PROVE  player'[p].inventory \intersect player'[q].inventory = {}
    BY <1>2, <2>1 DEF IInv, ExclusiveOwner
  <2>2. ASSUME NEW p \in Players, NEW x \in player'[p].inventory,
               obj'[x] = "live"
        PROVE  x \in hidden'
    <3>1. p \notin D /\ x \in player[p].inventory
      BY <1>2
    <3>2. x \in Items /\ x \notin removeList /\ obj[x] = "live"
      BY <1>4, <2>2, <3>1
    <3>3. x \in hidden
      BY <3>1, <3>2 DEF IInv, ExclusiveOwner
    <3>4. \A q \in D : x \notin player[q].inventory
      BY <3>1 DEF IInv, ExclusiveOwner
    <3> QED
      BY <1>1, <3>2, <3>3, <3>4
  <2> QED
    BY <2>1, <2>2 DEF ExclusiveOwner
<1>7. NothingStranded'
  <2>1. ASSUME NEW x \in hidden'
        PROVE  x \in lost' \/ \E p \in Players : x \in player'[p].inventory
    <3>1. /\ x \in hidden /\ x \notin removeList
          /\ \A q \in D : x \notin player[q].inventory
      BY <1>1
    <3>2. x \in lost \/ \E p \in Players : x \in player[p].inventory
      BY <3>1 DEF IInv, NothingStranded
    <3> QED
      BY <1>1, <1>2, <3>1, <3>2
  <2> QED
    BY <2>1 DEF NothingStranded
<1>8. NoneDangling'
  <2>1. ASSUME NEW p \in Players, NEW x \in player[p].inventory,
               obj'[x] = "freed"
        PROVE  x \in foreign
    BY <1>4, <2>1 DEF IInv, NoneDangling
  <2>2. crashed' => foreign' # {}
    BY <1>1, <2>1
  <2>3. ASSUME NEW p \in Players, NEW x \in player'[p].inventory,
               x \in removeList' \/ obj'[x] = "freed"
        PROVE  x \in foreign'
    <3>1. x \in player[p].inventory
      BY <1>2
    <3> QED
      BY <1>1, <2>1, <2>3, <3>1
  <2>4. \A x \in removeList' : obj'[x] = "live"
    BY <1>1
  <2> QED
    BY <2>2, <2>3, <2>4 DEF NoneDangling
<1>9. Unborn'
  <2>1. ASSUME NEW x \in Items, obj'[x] = "unborn"
        PROVE  /\ x \notin hidden' /\ x \notin removeList'
               /\ x \notin foreign'
               /\ \A p \in Players : x \notin player'[p].inventory
    <3>1. obj[x] = "unborn"
      BY <1>4, <2>1
    <3> QED
      BY <1>1, <1>2, <3>1 DEF IInv, Unborn
  <2> QED
    BY <2>1 DEF Unborn
<1>10. RemovedHidden'
  BY <1>1 DEF RemovedHidden
<1> QED
  BY <1>3, <1>5, <1>6, <1>7, <1>8, <1>9, <1>10 DEF IInv
LEMMA StepOK == IInv /\ [Next]_vars => IInv'
<1> SUFFICES ASSUME IInv, [Next]_vars PROVE IInv'
  OBVIOUS
<1>1. ASSUME NEW p \in Players, Handle(p) PROVE IInv'
  <2>1. ASSUME NEW x \in Items, HandleTryGet(p, x) PROVE IInv'
    BY <2>1, TryGetStep
  <2>2. ASSUME NEW x \in Items, HandleTryDrop(p, x) PROVE IInv'
    BY <2>2, TryDropStep
  <2>3. ASSUME NEW x \in Items, HandleTryUse(p, x) PROVE IInv'
    BY <2>3, TryUseStep
  <2>4. ASSUME NEW x \in Items, HandleTryEquip(p, x) PROVE IInv'
    BY <2>4, TryEquipStep
  <2>5. ASSUME NEW x \in Items, HandleTryDequip(p, x) PROVE IInv'
    BY <2>5, TryDequipStep
  <2>6. ASSUME NEW x \in Items \union {None}, HandleReportSecondaryWeapon(p, x)
        PROVE  IInv'
    BY <2>6, SecondaryStep
  <2>7. CASE HandlePlayerJoin(p)
    BY <2>7, PlayerJoinStep
  <2>8. CASE HandlePlayerJoinShort(p)
    BY <2>8, PlayerJoinShortStep
  <2>9. ASSUME NEW K \in Kits, HandleClientReady(p, K) PROVE IInv'
    BY <2>9, ClientReadyStep
  <2>10. ASSUME NEW K \in Kits, Attack(p, K) PROVE IInv'
    BY <2>10, AttackStep
  <2>11. CASE LogoutPlayer(p)
    BY <2>11, LogoutStep
  <2> QED
    BY <1>1, <2>1, <2>2, <2>3, <2>4, <2>5, <2>6, <2>7, <2>8, <2>9, <2>10,
       <2>11
       DEF Handle
<1>2. ASSUME NEW D \in SUBSET Players, ObjectAccessorUpdate(D) PROVE IInv'
  BY <1>2, UpdateStep
<1>3. CASE UNCHANGED vars
  BY <1>3 DEF vars, IInv, TypeOK, AllPlayersOK, Absent, ExclusiveOwner,
              NothingStranded, NoneDangling, Unborn, RemovedHidden
<1> QED
  BY <1>1, <1>2, <1>3 DEF Next

(* IInv is an invariant of the specification.                              *)
THEOREM Inductive == Spec => []IInv
<1> QED
  BY InitOK, StepOK, PTL DEF Spec

-----------------------------------------------------------------------------
(* The variables have their types in every state, whatever the players,    *)
(* the items and the slots are (the handlers of Inventory).                *)
THEOREM TypeCorrect == Spec => []TypeOK
<1>1. IInv => TypeOK
  BY DEF IInv
<1> QED
  BY <1>1, Inductive, PTL

(* No item is in two inventories, and one that is in an inventory lies     *)
(* where nobody can pick it up (Player::Pickup, Object::DropAll, Respawn). *)
THEOREM ExclusiveOwnerHolds == Spec => []ExclusiveOwner
<1>1. IInv => ExclusiveOwner
  BY DEF IInv
<1> QED
  BY <1>1, Inductive, PTL

(* An item nobody can pick up is carried, is about to be deleted, or was   *)
(* lost with a player (RemoveFromInventory, LogoutPlayer).                 *)
THEOREM NothingStrandedHolds == Spec => []NothingStranded
<1>1. IInv => NothingStranded
  BY DEF IInv
<1> QED
  BY <1>1, Inductive, PTL

(* What is worn is carried, in the slot of its subclass (Unit::Equip,      *)
(* Unit::Dequip, Player::RemoveFromInventory).                             *)
THEOREM WornCarriedHolds == Spec => []WornCarried
<1>1. IInv => WornCarried
  BY DEF IInv, AllPlayersOK, PlayerOK, WornOK, WornCarried, WornSlots
<1> QED
  BY <1>1, Inductive, PTL

(* What the client was told of its inventory and of what it wears is what  *)
(* the server has (the reports of Player::Pickup, Equip, Dequip and        *)
(* RemoveFromInventory).                                                   *)
THEOREM ClientKnowsHolds == Spec => []ClientKnows
<1>1. IInv => ClientKnows
  <2> SUFFICES ASSUME IInv, NEW p \in Players
               PROVE  /\ player[p].told = player[p].inventory
                      /\ player[p].toldWorn =
                           {player[p].equipment[s] : s \in WornSlots} \ {None}
    BY DEF ClientKnows, WornSlots
  <2>1. player[p] \in Player /\ KnownOK(player[p])
    BY DEF IInv, AllPlayersOK, PlayerOK
  <2>2. /\ player[p].toldWorn \subseteq Items
        /\ \A s \in WornSlots : player[p].equipment[s] \in Items \union {None}
    BY <2>1 DEF Player, WornSlots
  <2> QED
    BY <2>1, <2>2, ItemAssumption DEF KnownOK
<1> QED
  BY <1>1, Inductive, PTL

(* As long as nobody uses what he does not carry, nothing deleted is       *)
(* pointed at, deleted again or touched (the use handlers,                 *)
(* RemoveAllObjectsInRemoveList).                                          *)
THEOREM NoneDanglingHolds == Spec => []NoneDangling
<1>1. IInv => NoneDangling
  BY DEF IInv
<1> QED
  BY <1>1, Inductive, PTL

-----------------------------------------------------------------------------
(* The refinement.  Where an item is, for the invariant's states.          *)
PlaceFacts ==
    \A x \in Items :
      \/ obj[x] = "unborn" /\ x \notin foreign /\ PlaceOf(x) = "unmade"
      \/ x \in foreign /\ PlaceOf(x) = "spoiled"
      \/ obj[x] = "freed" /\ x \notin foreign /\ PlaceOf(x) = "gone"
      \/ obj[x] = "live" /\ x \in removeList \ foreign /\ PlaceOf(x) = "going"
      \/ /\ obj[x] = "live" /\ x \notin removeList \union foreign
         /\ \E p \in Players : /\ x \in player[p].inventory
                               /\ PlaceOf(x) = p
      \/ /\ obj[x] = "live" /\ x \notin removeList \union foreign
         /\ \A p \in Players : x \notin player[p].inventory
         /\ PlaceOf(x) = IF x \in hidden THEN "lost" ELSE "ground"

LEMMA PlaceNow == IInv => PlaceFacts
<1> SUFFICES ASSUME IInv, NEW x \in Items
             PROVE  \/ /\ obj[x] = "unborn" /\ x \notin foreign
                       /\ PlaceOf(x) = "unmade"
                    \/ x \in foreign /\ PlaceOf(x) = "spoiled"
                    \/ /\ obj[x] = "freed" /\ x \notin foreign
                       /\ PlaceOf(x) = "gone"
                    \/ /\ obj[x] = "live" /\ x \in removeList \ foreign
                       /\ PlaceOf(x) = "going"
                    \/ /\ obj[x] = "live" /\ x \notin removeList \union foreign
                       /\ \E p \in Players : /\ x \in player[p].inventory
                                             /\ PlaceOf(x) = p
                    \/ /\ obj[x] = "live" /\ x \notin removeList \union foreign
                       /\ \A p \in Players : x \notin player[p].inventory
                       /\ PlaceOf(x) = IF x \in hidden THEN "lost"
                                       ELSE "ground"
  BY DEF PlaceFacts
<1>1. /\ obj[x] \in {"unborn", "live", "freed"}
      /\ obj[x] = "unborn" => x \notin foreign
      /\ x \in removeList => obj[x] = "live"
  BY DEF IInv, TypeOK, Unborn, NoneDangling
<1>2. CASE obj[x] = "unborn"
  BY <1>1, <1>2 DEF PlaceOf
<1>3. CASE x \in foreign
  BY <1>1, <1>3 DEF PlaceOf
<1>4. CASE obj[x] = "freed" /\ x \notin foreign
  BY <1>4 DEF PlaceOf
<1>5. CASE x \in removeList \ foreign
  BY <1>1, <1>5 DEF PlaceOf
<1>6. CASE obj[x] = "live" /\ x \notin removeList \union foreign
  <2>1. PlaceOf(x) =
          IF \E p \in Players : x \in player[p].inventory
          THEN CHOOSE p \in Players : x \in player[p].inventory
          ELSE IF x \in hidden THEN "lost" ELSE "ground"
    BY <1>6 DEF PlaceOf
  <2> QED
    BY <1>6, <2>1
<1> QED
  BY <1>1, <1>2, <1>3, <1>4, <1>5, <1>6

LEMMA PlaceNext == IInv' => PlaceFacts'
BY PlaceNow, PTL

(* Where an item that is carried is.                                       *)
LEMMA AtOwner ==
    ASSUME IInv, PlaceFacts, NEW p \in Players, NEW x \in Items
    PROVE  PlaceOf(x) = p <=> x \in player[p].inventory /\ x \notin foreign
<1>1. x \in player[p].inventory /\ x \notin foreign
        => obj[x] = "live" /\ x \notin removeList
  BY DEF IInv, TypeOK, Unborn, NoneDangling
<1>2. \A q \in Players : /\ x \in player[p].inventory
                         /\ x \in player[q].inventory
                         => p = q
  BY DEF IInv, ExclusiveOwner
<1> QED
  BY <1>1, <1>2, PlayerAssumption DEF PlaceFacts

LEMMA AtOwnerNext ==
    ASSUME IInv', PlaceFacts', NEW p \in Players, NEW x \in Items
    PROVE  PlaceOf(x)' = p <=> x \in player'[p].inventory /\ x \notin foreign'
<1>1. x \in player'[p].inventory /\ x \notin foreign'
        => obj'[x] = "live" /\ x \notin removeList'
  BY DEF IInv, TypeOK, Unborn, NoneDangling
<1>2. \A q \in Players : /\ x \in player'[p].inventory
                         /\ x \in player'[q].inventory
                         => p = q
  BY DEF IInv, ExclusiveOwner
<1> QED
  BY <1>1, <1>2, PlayerAssumption DEF PlaceFacts

(* An item of which nothing changed keeps its place.                       *)
LEMMA SamePlace ==
    ASSUME IInv, IInv', PlaceFacts, PlaceFacts', NEW x \in Items,
           \A q \in Players : x \in player'[q].inventory
                                <=> x \in player[q].inventory,
           obj'[x] = obj[x], x \in hidden' <=> x \in hidden,
           x \in removeList' <=> x \in removeList,
           x \in foreign' <=> x \in foreign
    PROVE  PlaceOf(x)' = PlaceOf(x)
<1>1. \A q \in Players : PlaceOf(x)' = q <=> PlaceOf(x) = q
  BY AtOwner, AtOwnerNext
<1> QED
  BY <1>1 DEF PlaceFacts

(* A move as the abstract specification has it.                            *)
LEMMA Moved ==
    ASSUME NEW X, NEW to,
           \A x \in Items : PlaceOf(x)' = IF x \in X THEN to ELSE PlaceOf(x)
    PROVE  Ownership!MoveTo(X, to)
BY DEF Ownership!MoveTo

Places == [x \in Items |-> PlaceOf(x)]

LEMMA NotMoved ==
    ASSUME \A x \in Items : PlaceOf(x)' = PlaceOf(x)
    PROVE  Places' = Places
BY DEF Places

(* What is known of both states of a step.                                 *)
Both == IInv /\ IInv' /\ PlaceFacts /\ PlaceFacts'

(* A handler that leaves the items where they are.                         *)
LEMMA StayMaps ==
    ASSUME Both, UNCHANGED <<obj, hidden, removeList, foreign>>,
           \A q \in Players : player'[q].inventory = player[q].inventory
    PROVE  [Ownership!Next]_Places
<1>1. \A x \in Items : PlaceOf(x)' = PlaceOf(x)
  BY SamePlace DEF Both
<1> QED
  BY <1>1, NotMoved

LEMMA WearMaps ==
    ASSUME Both, NEW p \in Players,
           \/ \E x \in Items : HandleTryEquip(p, x) \/ HandleTryDequip(p, x)
           \/ \E x \in Items \union {None} : HandleReportSecondaryWeapon(p, x)
           \/ HandlePlayerJoinShort(p)
    PROVE  [Ownership!Next]_Places
<1>1. PlayerOK(player[p])
  BY DEF Both, IInv, AllPlayersOK
<1>2. /\ \A x \in Items :
           /\ Equip(player[p], x).inventory = player[p].inventory
           /\ Dequip(player[p], x).inventory = player[p].inventory
      /\ \A x \in Items \union {None} :
           EquipSecondary(player[p], x).inventory = player[p].inventory
      /\ Joined(p).inventory = player[p].inventory
  BY <1>1, EquipOK, DequipOK, EquipSecondaryOK, JoinedOK DEF Both
<1>3. \E pl : Becomes(p, pl) /\ pl.inventory = player[p].inventory
  BY <1>2 DEF HandleTryEquip, HandleTryDequip, HandleReportSecondaryWeapon,
              HandlePlayerJoinShort
<1>4. player \in [Players -> Player]
  BY DEF Both, IInv, TypeOK
<1>5. \A q \in Players : player'[q].inventory = player[q].inventory
  BY <1>3, <1>4 DEF Becomes
<1>6. UNCHANGED <<obj, hidden, removeList, foreign>>
  BY DEF HandleTryEquip, HandleTryDequip, HandleReportSecondaryWeapon,
         HandlePlayerJoinShort
<1> QED
  BY <1>5, <1>6, StayMaps

(* Only the place of x changes.                                            *)
LEMMA OneMoved ==
    ASSUME Both, NEW x \in Items, NEW to, PlaceOf(x)' = to,
           \A y \in Items \ {x} :
             /\ \A q \in Players : y \in player'[q].inventory
                                     <=> y \in player[q].inventory
             /\ obj'[y] = obj[y] /\ (y \in hidden' <=> y \in hidden)
             /\ y \in removeList' <=> y \in removeList
             /\ y \in foreign' <=> y \in foreign
    PROVE  Ownership!MoveTo({x}, to)
<1>1. \A y \in Items \ {x} : PlaceOf(y)' = PlaceOf(y)
  BY SamePlace DEF Both
<1>2. \A y \in Items : PlaceOf(y)' = IF y \in {x} THEN to ELSE PlaceOf(y)
  BY <1>1
<1> QED
  BY <1>2, Moved

LEMMA TryGetMaps ==
    ASSUME Both, NEW p \in Players, NEW x \in Items, HandleTryGet(p, x)
    PROVE  [Ownership!Next]_Places
<1> DEFINE has  == Pickup(player[p], {x})
           eats == RemoveFromInventory(has, x)
<1>1. /\ obj[x] = "live" /\ x \notin hidden
      /\ hidden' = hidden \union {x} /\ obj' = obj /\ foreign' = foreign
      /\ \/ Becomes(p, has) /\ removeList' = removeList
         \/ Becomes(p, eats) /\ removeList' = removeList \union {x}
  BY DEF HandleTryGet, Found
<1>2. \A q \in Players : x \notin player[q].inventory
  BY <1>1, Pickable DEF Both
<1>3. has.inventory = player[p].inventory \union {x} /\ PlayerOK(has)
  <2>1. /\ PlayerOK(player[p]) /\ {x} \in SUBSET Items
        /\ {x} \intersect player[p].inventory = {}
        /\ \A y, z \in {x} : SlotOf[y] = SlotOf[z] => y = z
    BY <1>2 DEF Both, IInv, AllPlayersOK
  <2> QED
    BY <2>1, PickupOK
<1> HIDE DEF has
<1>4. eats.inventory = player[p].inventory
  <2>1. eats.inventory = has.inventory \ {x}
    BY <1>3, RemoveOK
  <2> QED
    BY <1>2, <1>3, <2>1
<1> HIDE DEF eats
<1>5. player \in [Players -> Player]
  BY DEF Both, IInv, TypeOK
<1>6. CASE x \in foreign
  <2>1. PlaceOf(x) = "spoiled" /\ PlaceOf(x)' = "spoiled"
    BY <1>1, <1>6 DEF Both, PlaceFacts
  <2>2. ASSUME NEW y \in Items \ {x} PROVE PlaceOf(y)' = PlaceOf(y)
    <3>1. \A q \in Players : y \in player'[q].inventory
                               <=> y \in player[q].inventory
      BY <1>1, <1>3, <1>4, <1>5 DEF Becomes
    <3> QED
      BY <1>1, <3>1, SamePlace DEF Both
  <2>3. \A y \in Items : PlaceOf(y)' = PlaceOf(y)
    BY <2>1, <2>2
  <2> QED
    BY <2>3, NotMoved
<1>7. CASE x \notin foreign
  <2>1. x \notin removeList
    BY <1>1, <1>7 DEF Both, IInv, RemovedHidden
  <2>2. x \in Ownership!Of("ground")
    BY <1>1, <1>2, <1>7, <2>1 DEF Both, PlaceFacts, Ownership!Of
  <2>3. CASE Becomes(p, has) /\ removeList' = removeList
    <3>1. /\ player'[p].inventory = player[p].inventory \union {x}
          /\ \A q \in Players \ {p} :
                player'[q].inventory = player[q].inventory
      BY <1>3, <1>5, <2>3 DEF Becomes
    <3>2. PlaceOf(x)' = p
      BY <1>1, <1>7, <3>1, AtOwnerNext DEF Both
    <3>3. Ownership!MoveTo({x}, p)
      BY <1>1, <2>3, <3>1, <3>2, OneMoved
    <3> QED
      BY <2>2, <3>3 DEF Ownership!Next, Ownership!Take
  <2>4. CASE Becomes(p, eats) /\ removeList' = removeList \union {x}
    <3>1. \A q \in Players : player'[q].inventory = player[q].inventory
      BY <1>4, <1>5, <2>4 DEF Becomes
    <3>2. PlaceOf(x)' = "going"
      BY <1>1, <1>7, <2>4 DEF Both, PlaceFacts
    <3>3. Ownership!MoveTo({x}, "going")
      BY <1>1, <2>4, <3>1, <3>2, OneMoved
    <3> QED
      BY <2>2, <3>3 DEF Ownership!Next, Ownership!Use
  <2> QED
    BY <1>1, <2>3, <2>4
<1> QED
  BY <1>6, <1>7

LEMMA TryDropMaps ==
    ASSUME Both, NEW p \in Players, NEW x \in Items, HandleTryDrop(p, x)
    PROVE  [Ownership!Next]_Places
<1> DEFINE pl == RemoveFromInventory(player[p], x)
<1>1. /\ x \in player[p].inventory /\ Becomes(p, pl)
      /\ hidden' = hidden \ {x} /\ obj' = obj /\ foreign' = foreign
      /\ removeList' = removeList /\ obj[x] = "live"
  BY DEF HandleTryDrop, Found
<1>2. pl.inventory = player[p].inventory \ {x}
  BY RemoveOK DEF Both, IInv, AllPlayersOK
<1> HIDE DEF pl
<1>3. /\ player'[p].inventory = player[p].inventory \ {x}
      /\ \A q \in Players \ {p} :
            player'[q].inventory = player[q].inventory
  BY <1>1, <1>2 DEF Both, IInv, TypeOK, Becomes
<1>4. CASE x \in foreign
  <2>1. PlaceOf(x) = "spoiled" /\ PlaceOf(x)' = "spoiled"
    BY <1>1, <1>4 DEF Both, PlaceFacts
  <2>2. \A y \in Items \ {x} : PlaceOf(y)' = PlaceOf(y)
    BY <1>1, <1>3, SamePlace DEF Both
  <2> QED
    BY <2>1, <2>2, NotMoved
<1>5. CASE x \notin foreign
  <2>1. x \in Ownership!Of(p)
    BY <1>1, <1>5, AtOwner DEF Both, Ownership!Of
  <2>2. x \notin removeList
    BY <1>1, <1>5 DEF Both, IInv, NoneDangling
  <2>3. \A q \in Players : x \notin player'[q].inventory
    BY <1>1, <1>3 DEF Both, IInv, ExclusiveOwner
  <2>4. PlaceOf(x)' = "ground"
    BY <1>1, <1>5, <2>2, <2>3 DEF Both, PlaceFacts
  <2>5. Ownership!MoveTo({x}, "ground")
    BY <1>1, <1>3, <2>4, OneMoved
  <2> QED
    BY <2>1, <2>5 DEF Ownership!Next, Ownership!Drop
<1> QED
  BY <1>4, <1>5

LEMMA TryUseMaps ==
    ASSUME Both, NEW p \in Players, NEW x \in Items, HandleTryUse(p, x)
    PROVE  [Ownership!Next]_Places
<1> DEFINE pl == RemoveFromInventory(player[p], x)
<1>1. /\ obj[x] = "live" /\ Becomes(p, pl) /\ obj' = obj /\ hidden' = hidden
      /\ removeList' = removeList \union {x}
      /\ foreign' = IF x \in player[p].inventory \union removeList THEN foreign
                    ELSE foreign \union {x}
  BY DEF HandleTryUse, Found
<1>2. pl.inventory = player[p].inventory \ {x}
  BY RemoveOK DEF Both, IInv, AllPlayersOK
<1> HIDE DEF pl
<1>3. /\ player'[p].inventory = player[p].inventory \ {x}
      /\ \A q \in Players \ {p} :
            player'[q].inventory = player[q].inventory
  BY <1>1, <1>2 DEF Both, IInv, TypeOK, Becomes
<1>4. CASE x \in foreign \union removeList
  <2>1. foreign' = foreign
    BY <1>1, <1>4 DEF Both, IInv, NoneDangling
  <2>2. PlaceOf(x)' = PlaceOf(x)
    BY <1>1, <1>4, <2>1 DEF Both, PlaceFacts
  <2>3. \A y \in Items \ {x} : PlaceOf(y)' = PlaceOf(y)
    BY <1>1, <1>3, <2>1, SamePlace DEF Both
  <2> QED
    BY <2>2, <2>3, NotMoved
<1>5. CASE x \notin foreign \union removeList /\ x \in player[p].inventory
  <2>1. x \in Ownership!Of(p)
    BY <1>5, AtOwner DEF Both, Ownership!Of
  <2>2. PlaceOf(x)' = "going"
    BY <1>1, <1>5 DEF Both, PlaceFacts
  <2>3. Ownership!MoveTo({x}, "going")
    BY <1>1, <1>3, <1>5, <2>2, OneMoved
  <2> QED
    BY <2>1, <2>3 DEF Ownership!Next, Ownership!Use
<1>6. CASE x \notin foreign \union removeList /\ x \notin player[p].inventory
  <2>1. \/ \E q \in Players : PlaceOf(x) = q
        \/ PlaceOf(x) \in {"lost", "ground"}
    BY <1>1, <1>6 DEF Both, PlaceFacts
  <2>2. PlaceOf(x)' = "spoiled"
    BY <1>1, <1>6 DEF Both, PlaceFacts
  <2>3. Ownership!MoveTo({x}, "spoiled")
    BY <1>1, <1>3, <1>6, <2>2, OneMoved
  <2> QED
    BY <2>1, <2>3 DEF Ownership!Next, Ownership!Spoil, Ownership!Of
<1> QED
  BY <1>4, <1>5, <1>6

LEMMA RespawnMaps ==
    ASSUME Both, NEW p \in Players, NEW K, NEW loading,
           Respawn(p, K, loading)
    PROVE  [Ownership!Next]_Places
<1> DEFINE has == Pickup(player[p], K)
<1>1. /\ K \in SUBSET Items /\ \A x \in K : obj[x] = "unborn"
      /\ \A x, y \in K : SlotOf[x] = SlotOf[y] => x = y
  BY ItemAssumption DEF Respawn, Kits
<1>2. /\ Becomes(p, [has EXCEPT !.dead = FALSE, !.loading = loading])
      /\ obj' = [x \in Items |-> IF x \in K THEN "live" ELSE obj[x]]
      /\ hidden' = hidden \union K
      /\ removeList' = removeList /\ foreign' = foreign
  BY DEF Respawn
<1>3. \A q \in Players : K \intersect player[q].inventory = {}
  BY <1>1 DEF Both, IInv, Unborn
<1>4. PlayerOK(has) /\ has.inventory = player[p].inventory \union K
  BY <1>1, <1>3, PickupOK DEF Both, IInv, AllPlayersOK
<1> HIDE DEF has
<1>5. /\ player'[p].inventory = player[p].inventory \union K
      /\ \A q \in Players \ {p} :
            player'[q].inventory = player[q].inventory
  BY <1>2, <1>4 DEF Both, IInv, TypeOK, Becomes, PlayerOK, Player
<1>6. ASSUME NEW x \in K
      PROVE  /\ x \in Items /\ PlaceOf(x) = "unmade" /\ PlaceOf(x)' = p
  <2>1. x \in Items /\ x \notin foreign
    BY <1>1 DEF Both, IInv, Unborn
  <2>2. PlaceOf(x) = "unmade"
    BY <1>1, <2>1 DEF Both, PlaceFacts
  <2>3. PlaceOf(x)' = p
    BY <1>2, <1>5, <2>1, AtOwnerNext DEF Both
  <2> QED
    BY <2>1, <2>2, <2>3
<1>7. ASSUME NEW x \in Items \ K PROVE PlaceOf(x)' = PlaceOf(x)
  BY <1>2, <1>5, SamePlace DEF Both
<1>8. Ownership!MoveTo(K, p)
  BY <1>6, <1>7, Moved
<1>9. K \subseteq Ownership!Of("unmade")
  BY <1>6 DEF Ownership!Of
<1> QED
  BY <1>1, <1>8, <1>9 DEF Ownership!Next, Ownership!HandOut

LEMMA LogoutMaps ==
    ASSUME Both, NEW p \in Players, LogoutPlayer(p)
    PROVE  [Ownership!Next]_Places
<1>1. /\ obj' = obj /\ hidden' = hidden /\ removeList' = removeList
      /\ foreign' = foreign
      /\ player'[p].inventory = {}
      /\ \A q \in Players \ {p} :
            player'[q].inventory = player[q].inventory
  BY NewPlayerOK DEF LogoutPlayer, Becomes, Both, IInv, TypeOK
<1>2. Ownership!Of(p) = {x \in player[p].inventory : x \notin foreign}
  BY AtOwner DEF Both, IInv, TypeOK, Player, Ownership!Of
<1>3. ASSUME NEW x \in Ownership!Of(p) PROVE PlaceOf(x)' = "lost"
  <2>1. x \in Items /\ x \in player[p].inventory /\ x \notin foreign
    BY <1>2 DEF Ownership!Of
  <2>2. obj[x] = "live" /\ x \notin removeList
    BY <2>1 DEF Both, IInv, TypeOK, Unborn, NoneDangling
  <2>3. x \in hidden /\ \A q \in Players : x \notin player'[q].inventory
    BY <1>1, <2>1, <2>2 DEF Both, IInv, ExclusiveOwner
  <2> QED
    BY <1>1, <2>1, <2>2, <2>3 DEF Both, PlaceFacts
<1>4. ASSUME NEW x \in Items \ Ownership!Of(p)
      PROVE  PlaceOf(x)' = PlaceOf(x)
  <2>1. CASE x \in foreign
    BY <1>1, <2>1 DEF Both, PlaceFacts, IInv, Unborn
  <2>2. CASE x \notin foreign
    <3>1. x \notin player[p].inventory
      BY <1>2, <2>2
    <3> QED
      BY <1>1, <3>1, SamePlace DEF Both
  <2> QED
    BY <2>1, <2>2
<1>5. Ownership!MoveTo(Ownership!Of(p), "lost")
  BY <1>3, <1>4, Moved
<1> QED
  BY <1>5 DEF Ownership!Next, Ownership!Leave

(* The list is emptied, and those in D drop all they have.                 *)
LEMMA RoundMaps ==
    ASSUME Both, NEW D \in SUBSET Players,
           removeList' = {}, foreign' = foreign,
           \A x \in Items :
             obj'[x] = IF x \in removeList THEN "freed" ELSE obj[x],
           hidden' = (hidden \ removeList)
                       \ UNION {player[p].inventory : p \in D},
           \A p \in Players : player'[p].inventory =
              IF p \in D THEN {} ELSE player[p].inventory
    PROVE  [Ownership!Next]_Places
<1>1. ASSUME NEW x \in Items
      PROVE  PlaceOf(x)' = IF PlaceOf(x) = "going" THEN "gone"
                           ELSE IF PlaceOf(x) \in D THEN "ground"
                           ELSE PlaceOf(x)
  <2>1. \A q \in Players : q # "going" /\ q # "spoiled" /\ q # "unmade"
                           /\ q # "gone" /\ q # "lost" /\ q # "ground"
    BY PlayerAssumption
  <2>2. CASE x \in foreign
    <3>1. PlaceOf(x) = "spoiled" /\ PlaceOf(x)' = "spoiled"
      BY <2>2 DEF Both, PlaceFacts
    <3> QED
      BY <2>1, <3>1
  <2>3. CASE obj[x] = "unborn"
    <3>1. x \notin foreign /\ x \notin removeList
      BY <2>3 DEF Both, IInv, Unborn
    <3>2. PlaceOf(x) = "unmade" /\ PlaceOf(x)' = "unmade"
      BY <2>3, <3>1 DEF Both, PlaceFacts
    <3> QED
      BY <2>1, <3>2
  <2>4. CASE obj[x] = "freed" /\ x \notin foreign
    <3>1. PlaceOf(x) = "gone" /\ PlaceOf(x)' = "gone"
      BY <2>4 DEF Both, PlaceFacts
    <3> QED
      BY <2>1, <3>1
  <2>5. CASE x \in removeList \ foreign
    <3>1. PlaceOf(x) = "going" /\ PlaceOf(x)' = "gone"
      BY <2>5 DEF Both, PlaceFacts, IInv, NoneDangling
    <3> QED
      BY <3>1
  <2>6. CASE obj[x] = "live" /\ x \notin removeList \union foreign
    <3>1. CASE \E p \in D : x \in player[p].inventory
      <4>1. PICK p \in D : x \in player[p].inventory
        BY <3>1
      <4>2. PlaceOf(x) = p
        BY <2>6, <4>1, AtOwner DEF Both
      <4>3. /\ \A q \in Players : x \notin player'[q].inventory
            /\ x \notin hidden'
        BY <4>1 DEF Both, IInv, ExclusiveOwner
      <4>4. PlaceOf(x)' = "ground"
        BY <2>6, <4>3 DEF Both, PlaceFacts
      <4> QED
        BY <2>1, <4>1, <4>2, <4>4
    <3>2. CASE \A p \in D : x \notin player[p].inventory
      <4>1. PlaceOf(x)' = PlaceOf(x)
        BY <2>6, <3>2, SamePlace DEF Both
      <4>2. PlaceOf(x) \notin D
        BY <3>2, AtOwner DEF Both
      <4>3. PlaceOf(x) # "going"
        BY <2>1, <2>6 DEF Both, PlaceFacts
      <4> QED
        BY <4>1, <4>2, <4>3
    <3> QED
      BY <3>1, <3>2
  <2> QED
    BY <2>2, <2>3, <2>4, <2>5, <2>6 DEF Both, IInv, TypeOK
<1>2. Ownership!EndRound(D)
  BY <1>1 DEF Ownership!EndRound
<1> QED
  BY <1>2 DEF Ownership!Next

LEMMA PlayerJoinMaps ==
    ASSUME Both, NEW p \in Players, HandlePlayerJoin(p)
    PROVE  [Ownership!Next]_Places
<1> DEFINE j  == Joined(p)
           pl == [j EXCEPT !.loading = TRUE]
<1>1. /\ Becomes(p, pl) /\ removeList' = {}
      /\ obj' = [x \in Items |-> IF x \in removeList THEN "freed" ELSE obj[x]]
      /\ hidden' = hidden \ removeList /\ foreign' = foreign
  BY DEF HandlePlayerJoin, RemoveAllObjects
<1>2. PlayerOK(j) /\ j.inventory = player[p].inventory
  BY JoinedOK DEF Both
<1> HIDE DEF j
<1>3. \A q \in Players : player'[q].inventory =
         IF q \in {} THEN {} ELSE player[q].inventory
  BY <1>1, <1>2 DEF Both, IInv, TypeOK, Becomes, PlayerOK, Player
<1>4. hidden' = (hidden \ removeList) \ UNION {player[q].inventory : q \in {}}
  BY <1>1
<1>5. \A x \in Items :
        obj'[x] = IF x \in removeList THEN "freed" ELSE obj[x]
  BY <1>1
<1>6. {} \in SUBSET Players /\ removeList' = {} /\ foreign' = foreign
  BY <1>1
<1> HIDE DEF pl
<1> QED
  BY <1>3, <1>4, <1>5, <1>6, RoundMaps

LEMMA UpdateMaps ==
    ASSUME Both, NEW D \in SUBSET Players, ObjectAccessorUpdate(D)
    PROVE  [Ownership!Next]_Places
<1>1. /\ player' = [p \in Players |->
                      IF p \in D THEN [DropAll(player[p]) EXCEPT !.dead = TRUE]
                      ELSE player[p]]
      /\ removeList' = {}
      /\ obj' = [x \in Items |-> IF x \in removeList THEN "freed" ELSE obj[x]]
      /\ hidden' = (hidden \ removeList)
                     \ UNION {player[p].inventory : p \in D}
      /\ foreign' = foreign
  BY DEF ObjectAccessorUpdate, RemoveAllObjects
<1>2. ASSUME NEW p \in Players
      PROVE  player'[p].inventory = IF p \in D THEN {} ELSE player[p].inventory
  <2> DEFINE d == DropAll(player[p])
  <2>1. PlayerOK(d) /\ d.inventory = {}
    BY DropAllOK DEF Both, IInv, AllPlayersOK
  <2>2. player'[p] = IF p \in D THEN [d EXCEPT !.dead = TRUE] ELSE player[p]
    BY <1>1
  <2> HIDE DEF d
  <2> QED
    BY <2>1, <2>2 DEF PlayerOK, Player
<1> QED
  BY <1>1, <1>2, RoundMaps

(* Every step is one of an ownership, or changes no place.                 *)
LEMMA NextMaps == IInv /\ IInv' /\ [Next]_vars => [Ownership!Next]_Places
<1> SUFFICES ASSUME IInv, IInv', [Next]_vars
             PROVE  [Ownership!Next]_Places
  OBVIOUS
<1>1. Both
  BY PlaceNow, PlaceNext DEF Both
<1>2. ASSUME NEW p \in Players, Handle(p) PROVE [Ownership!Next]_Places
  <2>1. CASE \E x \in Items : HandleTryGet(p, x)
    BY <1>1, <2>1, TryGetMaps
  <2>2. CASE \E x \in Items : HandleTryDrop(p, x)
    BY <1>1, <2>2, TryDropMaps
  <2>3. CASE \E x \in Items : HandleTryUse(p, x)
    BY <1>1, <2>3, TryUseMaps
  <2>4. CASE \/ \E x \in Items : HandleTryEquip(p, x) \/ HandleTryDequip(p, x)
             \/ \E x \in Items \union {None} : HandleReportSecondaryWeapon(p, x)
             \/ HandlePlayerJoinShort(p)
    BY <1>1, <2>4, WearMaps
  <2>5. CASE HandlePlayerJoin(p)
    BY <1>1, <2>5, PlayerJoinMaps
  <2>6. CASE \E K \in Kits : HandleClientReady(p, K) \/ Attack(p, K)
    BY <1>1, <2>6, RespawnMaps DEF HandleClientReady, Attack
  <2>7. CASE LogoutPlayer(p)
    BY <1>1, <2>7, LogoutMaps
  <2> QED
    BY <1>2, <2>1, <2>2, <2>3, <2>4, <2>5, <2>6, <2>7 DEF Handle
<1>3. ASSUME NEW D \in SUBSET Players, ObjectAccessorUpdate(D)
      PROVE  [Ownership!Next]_Places
  BY <1>1, <1>3, UpdateMaps
<1>4. CASE UNCHANGED vars
  BY <1>1, <1>4, StayMaps DEF vars
<1> QED
  BY <1>2, <1>3, <1>4 DEF Next

(* Inventories, the hidden position and the list to remove implement an    *)
(* ownership: an item goes to another owner only over the ground, and only *)
(* what was used is deleted, for any players, items and slots (the         *)
(* handlers, Object::DropAll, RemoveAllObjectsInRemoveList).               *)
THEOREM OwnershipKeptHolds == Spec => OwnershipKept
<1>1. Init => Ownership!Init
  <2> SUFFICES ASSUME Init PROVE Ownership!Init
    OBVIOUS
  <2>1. \A p \in Players : player[p].inventory = {}
    BY NewPlayerOK DEF Init
  <2>2. PlaceFacts
    BY InitOK, PlaceNow
  <2>3. \A x \in Items : PlaceOf(x) \in {"unmade", "ground"}
    BY <2>1, <2>2 DEF Init, PlaceFacts
  <2> QED
    BY <2>3 DEF Ownership!Init
<1>2. IInv /\ IInv' /\ [Next]_vars
        => [Ownership!Next]_([x \in Items |-> PlaceOf(x)])
  BY NextMaps DEF Places
<1> QED
  BY <1>1, <1>2, Inductive, PTL DEF Spec, OwnershipKept, Ownership!Spec

-----------------------------------------------------------------------------
(* What the refinement says of single steps.  Where an item may be next:   *)
(* with another owner only from the ground, never back from the list to    *)
(* remove, and never out of the hidden position into an inventory.         *)
Onward ==
    \A x \in Items :
      /\ PlaceOf(x) \in Players /\ PlaceOf(x)' \in Players
           => PlaceOf(x) = PlaceOf(x)'
      /\ PlaceOf(x) \in {"going", "gone"} => PlaceOf(x)' \in {"going", "gone"}
      /\ PlaceOf(x) = "gone" => PlaceOf(x)' = "gone"
      /\ PlaceOf(x) = "lost" => PlaceOf(x)' \in {"lost", "spoiled"}
      /\ PlaceOf(x) = "spoiled" => PlaceOf(x)' = "spoiled"

LEMMA OnwardOK ==
    ASSUME PlaceFacts, PlaceFacts', [Ownership!Next]_Places
    PROVE  Onward
<1> SUFFICES ASSUME NEW x \in Items
             PROVE  /\ PlaceOf(x) \in Players /\ PlaceOf(x)' \in Players
                         => PlaceOf(x) = PlaceOf(x)'
                    /\ PlaceOf(x) \in {"going", "gone"}
                         => PlaceOf(x)' \in {"going", "gone"}
                    /\ PlaceOf(x) = "gone" => PlaceOf(x)' = "gone"
                    /\ PlaceOf(x) = "lost" => PlaceOf(x)' \in {"lost", "spoiled"}
                    /\ PlaceOf(x) = "spoiled" => PlaceOf(x)' = "spoiled"
  BY DEF Onward
<1> DEFINE old == PlaceOf(x)
           new == PlaceOf(x)'
<1>1. \/ new = old
      \/ old = "ground"
      \/ old \in Players /\ new \in {"ground", "going", "spoiled", "lost"}
      \/ old = "lost" /\ new = "spoiled"
      \/ old = "unmade"
      \/ old = "going" /\ new = "gone"
  <2>1. CASE UNCHANGED Places
    BY <2>1 DEF Places
  <2>2. ASSUME NEW p \in Players, NEW y \in Items,
               Ownership!Take(p, y) \/ Ownership!Drop(p, y)
                 \/ Ownership!Use(p, y)
        PROVE  \/ new = old
               \/ old = "ground"
               \/ old \in Players /\ new \in {"ground", "going"}
    BY <2>2 DEF Ownership!Take, Ownership!Drop, Ownership!Use,
                Ownership!MoveTo, Ownership!Of
  <2>3. ASSUME NEW y \in Items, Ownership!Spoil(y)
        PROVE  \/ new = old
               \/ old = "ground"
               \/ old \in Players /\ new = "spoiled"
               \/ old = "lost" /\ new = "spoiled"
    BY <2>3 DEF Ownership!Spoil, Ownership!MoveTo, Ownership!Of
  <2>4. ASSUME NEW p \in Players, NEW X \in SUBSET Items,
               Ownership!HandOut(p, X)
        PROVE  new = old \/ old = "unmade"
    BY <2>4 DEF Ownership!HandOut, Ownership!MoveTo, Ownership!Of
  <2>5. ASSUME NEW p \in Players, Ownership!Leave(p)
        PROVE  new = old \/ (old \in Players /\ new = "lost")
    <3>1. new = IF x \in Ownership!Of(p) THEN "lost" ELSE old
      BY <2>5 DEF Ownership!Leave, Ownership!MoveTo
    <3>2. x \in Ownership!Of(p) => old = p
      BY DEF Ownership!Of
    <3> QED
      BY <3>1, <3>2
  <2>6. ASSUME NEW D \in SUBSET Players, Ownership!EndRound(D)
        PROVE  \/ new = old
               \/ old = "going" /\ new = "gone"
               \/ old \in Players /\ new = "ground"
    BY <2>6 DEF Ownership!EndRound
  <2> QED
    BY <2>1, <2>2, <2>3, <2>4, <2>5, <2>6 DEF Ownership!Next
<1>2. /\ old \in Players => old \notin {"unmade", "ground", "going", "gone",
                                     "lost", "spoiled"}
      /\ new \in Players => new \notin {"unmade", "ground", "going", "gone",
                                     "lost", "spoiled"}
  BY PlayerAssumption
<1> HIDE DEF old, new
<1>3. old \in Players /\ new \in Players => old = new
  BY <1>1, <1>2
<1>4. /\ old \in {"going", "gone"} => new \in {"going", "gone"}
      /\ old = "gone" => new = "gone"
      /\ old = "lost" => new \in {"lost", "spoiled"}
      /\ old = "spoiled" => new = "spoiled"
  BY <1>1, <1>2
<1> QED
  BY <1>3, <1>4 DEF old, new

LEMMA StepOnward == IInv /\ IInv' /\ [Next]_vars => Onward /\ PlaceFacts
                                                   /\ PlaceFacts'
BY NextMaps, PlaceNow, PlaceNext, OnwardOK

(* No step takes an item from one player and puts it in the inventory of   *)
(* another: it has to lie on the ground in between, unless somebody used   *)
(* it who did not carry it (HandleTryGet takes what nobody owns, the       *)
(* handlers that give up an item put it on the map or on the list).        *)
NoHandover ==
    \A p, q \in Players, x \in Items \ foreign' :
      x \in player[p].inventory /\ x \in player'[q].inventory => p = q

THEOREM NoHandoverHolds == Spec => [][NoHandover]_vars
<1>1. ASSUME IInv, IInv', [Next]_vars PROVE NoHandover
  <2>1. Onward /\ PlaceFacts /\ PlaceFacts'
    BY <1>1, StepOnward
  <2>2. ASSUME NEW p \in Players, NEW q \in Players,
               NEW x \in Items \ foreign',
               x \in player[p].inventory, x \in player'[q].inventory
        PROVE  p = q
    <3>1. x \notin foreign
      BY <2>1, <2>2, PlayerAssumption DEF Onward, PlaceFacts
    <3>2. PlaceOf(x) = p
      BY <1>1, <2>1, <2>2, <3>1, AtOwner
    <3>3. PlaceOf(x)' = q
      BY <1>1, <2>1, <2>2, AtOwnerNext
    <3> QED
      BY <2>1, <3>2, <3>3 DEF Onward
  <2> QED
    BY <2>2 DEF NoHandover
<1> QED
  BY <1>1, Inductive, PTL DEF Spec

(* What is on the list to remove stays there until it is deleted, and      *)
(* nothing deleted comes back: no inventory ever takes it again (the list  *)
(* of Object::Destroy, emptied by RemoveAllObjectsInRemoveList).           *)
UsedIsUsedUp ==
    \A x \in Items \ foreign :
      x \in removeList \/ obj[x] = "freed" =>
        /\ x \in removeList' \/ obj'[x] = "freed"
        /\ \A p \in Players : x \notin player'[p].inventory

THEOREM UsedIsUsedUpHolds == Spec => [][UsedIsUsedUp]_vars
<1>1. ASSUME IInv, IInv', [Next]_vars PROVE UsedIsUsedUp
  <2>1. Onward /\ PlaceFacts /\ PlaceFacts'
    BY <1>1, StepOnward
  <2>2. ASSUME NEW x \in Items \ foreign, x \in removeList \/ obj[x] = "freed"
        PROVE  /\ x \in removeList' \/ obj'[x] = "freed"
               /\ \A p \in Players : x \notin player'[p].inventory
    <3>1. PlaceOf(x) \in {"going", "gone"}
      BY <1>1, <2>1, <2>2 DEF PlaceFacts, IInv, NoneDangling
    <3>2. PlaceOf(x)' \in {"going", "gone"}
      BY <2>1, <3>1 DEF Onward
    <3>3. x \in removeList' \/ obj'[x] = "freed"
      BY <2>1, <3>2, PlayerAssumption DEF PlaceFacts
    <3>4. x \notin foreign'
      BY <2>1, <3>2, PlayerAssumption DEF PlaceFacts
    <3> QED
      BY <1>1, <2>1, <3>2, <3>3, <3>4, AtOwnerNext, PlayerAssumption
  <2> QED
    BY <2>2 DEF UsedIsUsedUp
<1> QED
  BY <1>1, Inductive, PTL DEF Spec

(* What a player who left took along never gets into an inventory again:   *)
(* it stays at the hidden position, live and owned by nobody, until it is  *)
(* used by somebody who has it not (LogoutPlayer deletes the owner only).  *)
LeftStaysLost ==
    \A x \in Items :
      PlaceOf(x) = "lost" =>
        x \in foreign' \/ /\ x \in hidden' /\ obj'[x] = "live"
                          /\ \A p \in Players : x \notin player'[p].inventory

THEOREM LeftStaysLostHolds == Spec => [][LeftStaysLost]_vars
<1>1. ASSUME IInv, IInv', [Next]_vars PROVE LeftStaysLost
  <2>1. Onward /\ PlaceFacts'
    BY <1>1, StepOnward
  <2>2. ASSUME NEW x \in Items, PlaceOf(x) = "lost"
        PROVE  \/ x \in foreign'
               \/ /\ x \in hidden' /\ obj'[x] = "live"
                  /\ \A p \in Players : x \notin player'[p].inventory
    <3>1. PlaceOf(x)' \in {"lost", "spoiled"}
      BY <2>1, <2>2 DEF Onward
    <3> QED
      BY <2>1, <3>1, PlayerAssumption DEF PlaceFacts
  <2> QED
    BY <2>2 DEF LeftStaysLost
<1> QED
  BY <1>1, Inductive, PTL DEF Spec
=============================================================================
