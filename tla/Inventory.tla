------------------------------ MODULE Inventory ------------------------------
(***************************************************************************)
(* Who carries what, and what is worn: picking up, dropping, using and     *)
(* equipping, death, respawn and logout, and the deletion of items that    *)
(* were used.                                                              *)
(*                                                                         *)
(* All of it runs on the world thread, a handler or a pass over the        *)
(* objects at a time.  What is hard is what a long run of calls leaves     *)
(* behind: the code keeps no owner in the item.  An item is in an          *)
(* inventory if it lies at (5880, 5880), a player's m_inventory and        *)
(* m_equipment are bare pointers, and a request may name an item that its  *)
(* player no longer has, because it was dropped, used or lost in a death   *)
(* while the request was under way.                                        *)
(*                                                                         *)
(* Requests are taken to name items; no player is close enough to the      *)
(* corner of the map to drop anything at (5880, 5880) itself.              *)
(***************************************************************************)
EXTENDS Integers

CONSTANTS
    Players,      \* one Player object at a time for each session
    Items,        \* the items, on the map or in a kit of Player::Respawn
    None,         \* NULL
    OnMap,        \* the items of the map; the others are created later
    Secondary,    \* SLOT_WEP_SECONDARY, the last slot (12)
    SlotOf,       \* the slot Unit::Equip finds in an item's subclass
    Wearable,     \* items whose pickup handler is that of armor or weapons
    Food,         \* items whose pickup handler is that of food
    Usable        \* items with a use handler

Slots   == 0..Secondary
Primary == Secondary - 1
NoSlot  == Secondary + 1      \* a subclass that is no slot

ASSUME SlotAssumption == /\ Secondary \in Nat \ {0}
                         /\ SlotOf \in [Items -> (Slots \ {Secondary})
                                                   \union {NoSlot}]
ASSUME ItemAssumption == /\ None \notin Items
                         /\ OnMap \subseteq Items
                         /\ Wearable \subseteq {x \in Items : SlotOf[x] # NoSlot}
                         /\ Food \subseteq Usable \ Wearable
                         /\ Usable \subseteq Items
(* The places of ItemOwnership that are not players.                       *)
ASSUME PlayerAssumption ==
    Players \intersect {"unmade", "ground", "going", "gone", "lost",
                        "spoiled"} = {}

Player == [exists    : BOOLEAN,                  \* _player is not NULL
           dead      : BOOLEAN,                  \* m_health <= 0
           loading   : BOOLEAN,                  \* m_playerLoading
           inventory : SUBSET Items,             \* m_inventory
           equipment : [Slots -> Items \union {None}],
           told      : SUBSET Items,   \* history: picked up, says the client
           toldWorn  : SUBSET Items]   \* history: equipped, says the client

VARIABLES
    obj,          \* "unborn", "live" or "freed", for each item
    hidden,       \* items at (5880, 5880): WorldObject::InAnInventory
    player,       \* the players
    removeList,   \* ObjectAccessor::i_objectsToRemove
    lost,         \* history: items whose owner logged out with them
    foreign,      \* history: items used by someone who did not carry them
    crashed       \* a freed item was used

vars == <<obj, hidden, player, removeList, lost, foreign, crashed>>

TypeOK ==
    /\ obj \in [Items -> {"unborn", "live", "freed"}]
    /\ hidden \subseteq Items
    /\ player \in [Players -> Player]
    /\ removeList \subseteq Items
    /\ lost \subseteq Items
    /\ foreign \subseteq Items
    /\ crashed \in BOOLEAN

(* Player::Player: no health before the first respawn.                     *)
NewPlayer == [exists |-> TRUE, dead |-> TRUE, loading |-> FALSE,
              inventory |-> {}, equipment |-> [s \in Slots |-> None],
              told |-> {}, toldWorn |-> {}]
NoPlayer == [NewPlayer EXCEPT !.exists = FALSE]

Init ==
    /\ obj = [x \in Items |-> IF x \in OnMap THEN "live" ELSE "unborn"]
    /\ hidden = {}
    /\ player = [p \in Players |-> NoPlayer]
    /\ removeList = {}
    /\ lost = {}
    /\ foreign = {}
    /\ crashed = FALSE

-----------------------------------------------------------------------------
(* What the methods of Unit and Player do to a player.                     *)

(* The slot that Unit::Dequip's loop comes to first.                       *)
FirstSlot(pl, s) == \A t \in Slots : t < s => pl.equipment[t] # pl.equipment[s]

(* Player::Dequip, Unit::Dequip.  For NULL it does nothing.                *)
Dequip(pl, x) ==
    [pl EXCEPT
       !.equipment = [s \in Slots |->
                        IF pl.equipment[s] = x /\ FirstSlot(pl, s) THEN None
                        ELSE pl.equipment[s]],
       !.toldWorn = IF \E s \in Slots : pl.equipment[s] = x THEN @ \ {x} ELSE @]

Wear(pl, s, x) == [pl EXCEPT !.equipment = [@ EXCEPT ![s] = x],
                             !.toldWorn = @ \union {x}]

(* Mutant: what was worn there before is not taken off first.              *)
EquipOver(pl, x) ==
    IF x \notin pl.inventory \/ SlotOf[x] = NoSlot THEN pl
    ELSE Wear(pl, SlotOf[x], x)
(* Player::Equip, Unit::Equip.                                             *)
Equip(pl, x) ==
    IF x \notin pl.inventory \/ SlotOf[x] = NoSlot THEN pl
    ELSE Wear(Dequip(pl, pl.equipment[SlotOf[x]]), SlotOf[x], x)

(* Mutant: the item stays in its slot, and the client is not told.         *)
RemoveWorn(pl, x) ==
    IF x \notin pl.inventory THEN pl
    ELSE [pl EXCEPT !.inventory = @ \ {x}, !.told = @ \ {x}]
(* Player::RemoveFromInventory, less the item's new position.              *)
RemoveFromInventory(pl, x) ==
    IF x \notin pl.inventory THEN pl
    ELSE [Dequip(pl, x) EXCEPT !.inventory = @ \ {x}, !.told = @ \ {x}]

(* Object::DropAll: RemoveFromInventory of everything.                     *)
DropAll(pl) ==
    [pl EXCEPT
       !.equipment = [s \in Slots |->
                        IF pl.equipment[s] \in pl.inventory /\ FirstSlot(pl, s)
                        THEN None ELSE pl.equipment[s]],
       !.inventory = {},
       !.told = @ \ pl.inventory,
       !.toldWorn = @ \ {pl.equipment[s] : s \in
                           {s \in Slots : pl.equipment[s] \in pl.inventory}}]

(* Player::Pickup of new items for different slots, and what their pickup  *)
(* handlers, ArmorPickup and WeaponPickup, wear of them.                   *)
Pickup(pl, X) ==
    LET worn == {x \in X \intersect Wearable : pl.equipment[SlotOf[x]] = None}
    IN  [pl EXCEPT
           !.inventory = @ \union X,
           !.told = @ \union X,
           !.equipment = [s \in Slots |->
                            IF \E x \in worn : SlotOf[x] = s
                            THEN CHOOSE x \in worn : SlotOf[x] = s
                            ELSE pl.equipment[s]],
           !.toldWorn = @ \union worn]

(* Mutant: a swap that does not mind an empty slot.                        *)
EquipSecondarySwaps(pl, x) ==
    LET new   == IF x # None THEN x ELSE pl.equipment[Primary]
        moved == [Dequip(pl, new) EXCEPT
                    !.equipment = [@ EXCEPT ![Secondary] = new]]
    IN  IF x = None THEN Wear(moved, Primary, pl.equipment[Secondary])
        ELSE moved
(* Player::EquipSecondary: NULL is meant to swap the weapons.              *)
EquipSecondary(pl, x) ==
    IF x = None /\ x \notin pl.inventory THEN pl
    ELSE LET new   == IF x # None THEN x ELSE pl.equipment[Primary]
             moved == [Dequip(pl, new) EXCEPT
                         !.equipment = [@ EXCEPT ![Secondary] = new]]
         IN  IF x = None THEN Equip(moved, pl.equipment[Secondary]) ELSE moved

-----------------------------------------------------------------------------
(* The handlers.                                                           *)

Handling(p) == ~crashed /\ player[p].exists
Becomes(p, pl) == player' = [player EXCEPT ![p] = pl]

(* objmgr.GetObj finds every object that has not been deleted.             *)
Found(x) == x \in Items /\ obj[x] = "live"

(* Mutant: what lies in an inventory may be picked up.                     *)
HandleTryGetCarried(p, x) ==
    /\ Handling(p)
    /\ Found(x)
    /\ hidden' = hidden \union {x}
    /\ Becomes(p, Pickup(player[p], {x}))
    /\ UNCHANGED <<obj, removeList, lost, foreign, crashed>>

(* HandleTryGetOpcode, for an item in reach.  FoodPickup may use it.       *)
HandleTryGet(p, x) ==
    /\ Handling(p)
    /\ Found(x)
    /\ x \notin hidden
    /\ hidden' = hidden \union {x}
    /\ LET has == Pickup(player[p], {x})
       IN  \/ Becomes(p, has) /\ UNCHANGED removeList
           \/ /\ x \in Food
              /\ Becomes(p, RemoveFromInventory(has, x))
              /\ removeList' = removeList \union {x}
    /\ UNCHANGED <<obj, lost, foreign, crashed>>

HandleTryDrop(p, x) ==
    /\ Handling(p)
    /\ Found(x)
    /\ x \in player[p].inventory
    /\ Becomes(p, RemoveFromInventory(player[p], x))
    /\ hidden' = hidden \ {x}
    /\ UNCHANGED <<obj, removeList, lost, foreign, crashed>>

(* Mutants: the used item is not deleted; it stays in the inventory.       *)
HandleTryUseForgets(p, x) ==
    /\ Handling(p)
    /\ Found(x)
    /\ x \in Usable
    /\ Becomes(p, RemoveFromInventory(player[p], x))
    /\ UNCHANGED <<obj, hidden, removeList, lost, foreign, crashed>>
HandleTryUseKeeps(p, x) ==
    /\ Handling(p)
    /\ Found(x)
    /\ x \in Usable
    /\ removeList' = removeList \union {x}
    /\ foreign' = IF x \in player[p].inventory \union removeList THEN foreign
                  ELSE foreign \union {x}
    /\ UNCHANGED <<obj, hidden, player, lost, crashed>>

(* The use handlers do not ask who has the item: one that the player does  *)
(* not carry is only put on the list of objects to remove.                 *)
HandleTryUse(p, x) ==
    /\ Handling(p)
    /\ Found(x)
    /\ x \in Usable
    /\ Becomes(p, RemoveFromInventory(player[p], x))
    /\ removeList' = removeList \union {x}
    /\ foreign' = IF x \in player[p].inventory \union removeList THEN foreign
                  ELSE foreign \union {x}
    /\ UNCHANGED <<obj, hidden, lost, crashed>>

(* What was worn in the slot is asked for its subclass and its extent.     *)
HandleTryEquip(p, x) ==
    /\ Handling(p)
    /\ Found(x)
    /\ Becomes(p, Equip(player[p], x))
    /\ crashed' = /\ x \in player[p].inventory
                  /\ SlotOf[x] # NoSlot
                  /\ LET old == player[p].equipment[SlotOf[x]]
                     IN  old # None /\ obj[old] = "freed"
    /\ UNCHANGED <<obj, hidden, removeList, lost, foreign>>

HandleTryDequip(p, x) ==
    /\ Handling(p)
    /\ Found(x)
    /\ Becomes(p, Dequip(player[p], x))
    /\ UNCHANGED <<obj, hidden, removeList, lost, foreign, crashed>>

HandleReportSecondaryWeapon(p, x) ==
    /\ Handling(p)
    /\ Found(x) \/ x = None
    /\ Becomes(p, EquipSecondary(player[p], x))
    /\ UNCHANGED <<obj, hidden, removeList, lost, foreign, crashed>>

(* ObjectAccessor::RemoveAllObjectsInRemoveList.                           *)
RemoveAllObjects ==
    /\ obj' = [x \in Items |-> IF x \in removeList THEN "freed" ELSE obj[x]]
    /\ removeList' = {}

(* HandlePlayerJoinOpcode: InsertPlayer also empties the list.  A packet   *)
(* that is cut short makes a player, and no more.                          *)
Joined(p) == IF player[p].exists THEN player[p] ELSE NewPlayer

HandlePlayerJoin(p) ==
    /\ ~crashed
    /\ RemoveAllObjects
    /\ Becomes(p, [Joined(p) EXCEPT !.loading = TRUE])
    /\ hidden' = hidden \ removeList
    /\ UNCHANGED <<lost, foreign, crashed>>

HandlePlayerJoinShort(p) ==
    /\ ~crashed
    /\ Becomes(p, Joined(p))
    /\ UNCHANGED <<obj, hidden, removeList, lost, foreign, crashed>>

(* Player::Respawn creates the kit of the player's class: one item for     *)
(* each of some slots.  What the player has stays where it is.             *)
Kits == {K \in SUBSET {x \in Wearable : obj[x] = "unborn"} :
           \A x, y \in K : SlotOf[x] = SlotOf[y] => x = y}

Respawn(p, K, loading) ==
    /\ K \in Kits
    /\ Becomes(p, [Pickup(player[p], K) EXCEPT !.dead = FALSE,
                                               !.loading = loading])
    /\ obj' = [x \in Items |-> IF x \in K THEN "live" ELSE obj[x]]
    /\ hidden' = hidden \union K
    /\ UNCHANGED <<removeList, lost, foreign, crashed>>

HandleClientReady(p, K) ==
    /\ Handling(p)
    /\ player[p].loading
    /\ Respawn(p, K, FALSE)

(* Player::Attack of a player who is dead.                                 *)
Attack(p, K) ==
    /\ Handling(p)
    /\ player[p].dead
    /\ Respawn(p, K, player[p].loading)

(* Mutant: the items are deleted with the player.                          *)
LogoutPlayerDeletes(p) ==
    /\ Handling(p)
    /\ Becomes(p, NoPlayer)
    /\ obj' = [x \in Items |-> IF x \in player[p].inventory THEN "freed"
                               ELSE obj[x]]
    /\ lost' = lost \union player[p].inventory
    /\ UNCHANGED <<hidden, removeList, foreign, crashed>>
(* WorldSession::LogoutPlayer: the items stay at (5880, 5880).             *)
LogoutPlayer(p) ==
    /\ Handling(p)
    /\ Becomes(p, NoPlayer)
    /\ lost' = lost \union player[p].inventory
    /\ UNCHANGED <<obj, hidden, removeList, foreign, crashed>>

(* ObjectAccessor::Update: the list first, and then the players, of whom   *)
(* some die (Player::Update, Object::Die).                                 *)
ObjectAccessorUpdate(D) ==
    /\ ~crashed
    /\ \A p \in D : player[p].exists /\ ~player[p].dead
    /\ RemoveAllObjects
    /\ player' = [p \in Players |->
                    IF p \in D THEN [DropAll(player[p]) EXCEPT !.dead = TRUE]
                    ELSE player[p]]
    /\ hidden' = (hidden \ removeList)
                   \ UNION {player[p].inventory : p \in D}
    /\ crashed' = \E p \in D : \E x \in player[p].inventory : obj'[x] = "freed"
    /\ UNCHANGED <<lost, foreign>>

-----------------------------------------------------------------------------
Handle(p) ==
    \/ \E x \in Items : \/ HandleTryGet(p, x)
                        \/ HandleTryDrop(p, x)
                        \/ HandleTryUse(p, x)
                        \/ HandleTryEquip(p, x)
                        \/ HandleTryDequip(p, x)
    \/ \E x \in Items \union {None} : HandleReportSecondaryWeapon(p, x)
    \/ HandlePlayerJoin(p)
    \/ HandlePlayerJoinShort(p)
    \/ \E K \in Kits : HandleClientReady(p, K) \/ Attack(p, K)
    \/ LogoutPlayer(p)

Next ==
    \/ \E p \in Players : Handle(p)
    \/ \E D \in SUBSET Players : ObjectAccessorUpdate(D)

Spec == Init /\ [][Next]_vars

-----------------------------------------------------------------------------
(* Properties.                                                             *)

(* No item is in two inventories, and one that is in an inventory cannot   *)
(* be picked up: AddToInventory has only the item's position to go by,     *)
(* which dropping, dying, using and respawning have to keep right.         *)
ExclusiveOwner ==
    /\ \A p, q \in Players :
         p # q => player[p].inventory \intersect player[q].inventory = {}
    /\ \A p \in Players : \A x \in player[p].inventory :
         obj[x] = "live" => x \in hidden

(* An item at (5880, 5880), where nobody can pick it up, is carried, about *)
(* to be deleted, or was lost with a player who logged out                 *)
(* (Player::RemoveFromInventory, NewPickup, the use handlers).             *)
NothingStranded ==
    \A x \in hidden : \/ \E p \in Players : x \in player[p].inventory
                      \/ x \in removeList
                      \/ x \in lost

(* What is worn, but for the secondary weapon, is carried, and by one slot *)
(* only: no way out of the inventory leaves a worn item behind             *)
(* (Player::RemoveFromInventory, Unit::Dequip, EquipSecondary).            *)
WornCarried ==
    \A p \in Players, s \in Slots \ {Secondary} :
      LET x == player[p].equipment[s]
      IN  x # None => x \in player[p].inventory /\ SlotOf[x] = s

(* The client's picture of its inventory and of what it wears, from the    *)
(* pickup, drop, equip and dequip reports it got, is the server's          *)
(* (Player::Pickup, Equip, Dequip, RemoveFromInventory).                   *)
ClientKnows ==
    \A p \in Players :
      /\ player[p].told = player[p].inventory
      /\ player[p].toldWorn =
           {player[p].equipment[s] : s \in Slots \ {Secondary}} \ {None}

(* Items are deleted under their owner's feet only if someone else used    *)
(* them: as long as every use is of an item its player carries, or has     *)
(* just used up, no inventory and no slot but that of the secondary weapon *)
(* points at a deleted item, nothing is deleted twice, and nothing that    *)
(* was freed is touched (the use handlers, RemoveAllObjectsInRemoveList).  *)
NoneDangling ==
    /\ \A p \in Players : \A x \in player[p].inventory :
         x \in removeList \/ obj[x] = "freed" => x \in foreign
    /\ \A x \in removeList : obj[x] = "live"
    /\ crashed => foreign # {}

PlaceOf(x) ==
    CASE obj[x] = "unborn" -> "unmade"
      [] obj[x] # "unborn" /\ x \in foreign -> "spoiled"
      [] obj[x] = "freed" /\ x \notin foreign -> "gone"
      [] obj[x] = "live" /\ x \in removeList \ foreign -> "going"
      [] OTHER -> IF \E p \in Players : x \in player[p].inventory
                  THEN CHOOSE p \in Players : x \in player[p].inventory
                  ELSE IF x \in hidden THEN "lost" ELSE "ground"

Ownership == INSTANCE ItemOwnership WITH place <- [x \in Items |-> PlaceOf(x)]

(* Inventories, the hidden position, the list to remove and the objects    *)
(* together are an ownership: although no item names its owner, it goes to *)
(* another only over the ground, is deleted only when it was used, and     *)
(* stays where it is when its owner leaves (AddToInventory, the handlers,  *)
(* Object::DropAll, RemoveAllObjectsInRemoveList).                         *)
OwnershipKept == Ownership!Spec
=============================================================================
