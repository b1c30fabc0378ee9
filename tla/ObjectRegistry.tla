--------------------------- MODULE ObjectRegistry ---------------------------
(***************************************************************************)
(* ObjectMgr, which gives every object of the world an extent, the number  *)
(* that clients know it by, and ObjectAccessor, which keeps the players,   *)
(* the objects to update and those to remove, and fills the players'       *)
(* update queues.  All of it is on the world thread: a pass over the       *)
(* sessions, whose handlers create, move and delete objects, then the      *)
(* physics, then one Update of every object in i_objects.                  *)
(*                                                                         *)
(* Queues, inventories and tables hold bare pointers.  Nothing takes a     *)
(* deleted object out of a queue: it relies on SetPosition having done so, *)
(* when the object went out of sight.                                      *)
(***************************************************************************)
EXTENDS Integers, FiniteSets, Sequences

CONSTANTS
    Players,      \* objects of type 0x2C9, each for one login
    Items,        \* what can be picked up, and used up
    Missiles,     \* projectiles of spells: Magic
    Fixtures,     \* immobile objects
    MapFile,      \* the objects in a map's file, with extent and position
    MaxExtent,    \* MAX_EXTENT
    Places, Near, \* positions, and which one is seen from which
    Start, Spawn, \* where a player is made, and respawns
    Pack,         \* the position (5880, 5880)
    None

Objs    == Players \union Items \union Missiles \union Fixtures
Extents == 0..MaxExtent
Life    == {"unborn", "live", "freed"}
Updated == Players \union Missiles   \* those with an update in thing.bin

ASSUME ExtentAssumption == /\ MaxExtent \in Nat
                           /\ MapFile \in Seq([obj : Items \union Fixtures,
                                              extent : Nat, at : Places])
ASSUME KindAssumption ==
    /\ Players \intersect (Items \union Missiles \union Fixtures) = {}
    /\ Items \intersect (Missiles \union Fixtures) = {}
    /\ Missiles \intersect Fixtures = {}
    /\ None \notin Objs
ASSUME PlaceAssumption ==
    /\ Start \in Places /\ Spawn \in Places /\ Pack \notin Places
    /\ Near \subseteq Places \X Places

VARIABLES
    life,         \* whether an object is allocated
    place,        \* its position
    inv,          \* m_inventory of each player
    mgr,          \* ObjectMgr: m_extent, objectExtents, objectTable
    updates,      \* ObjectAccessor::i_objects
    players,      \* i_players
    removeList,   \* i_objectsToRemove
    queue,        \* Player::updateQueue, less the player himself
    dead,         \* players without health
    loading,      \* players whose session has m_playerLoading
    joined,       \* players whose session is STATUS_LOGGEDIN
    phase,        \* what the world thread does
    todo,         \* the objects that this ObjectAccessor::Update comes to
    foreign,      \* history: items that somebody used who had them not
    moved,        \* history: players moved by a handler, with a queue to send
    crashed       \* something freed was touched: nothing is promised

objects  == <<life, place, inv>>
accessor == <<updates, players, removeList>>
sessions == <<dead, loading, joined>>
clock    == <<phase, todo>>
history  == <<foreign, moved, crashed>>
vars == <<objects, mgr, accessor, queue, sessions, clock, history>>

TypeOK ==
    /\ life \in [Objs -> Life]
    /\ place \in [Objs -> Places \union {Pack}]
    /\ inv \in [Players -> SUBSET Items]
    /\ mgr \in [extent : [Objs -> Extents],
                slots : [Extents -> Objs \union {None}],
                table : SUBSET Objs]
    /\ updates \subseteq Updated
    /\ players \in [Extents -> Players \union {None}]
    /\ removeList \subseteq Items
    /\ queue \in [Players -> SUBSET Objs]
    /\ dead \subseteq Players /\ loading \subseteq Players
    /\ joined \subseteq Players
    /\ phase \in {"load", "sessions", "update"}
    /\ todo \subseteq Updated
    /\ foreign \subseteq Items /\ moved \subseteq Players
    /\ crashed \in BOOLEAN

Init ==
    /\ life = [o \in Objs |-> "unborn"]
    /\ place = [o \in Objs |-> Start]
    /\ inv = [p \in Players |-> {}]
    /\ mgr = [extent |-> [o \in Objs |-> 0],
              slots |-> [e \in Extents |-> None], table |-> {}]
    /\ updates = {} /\ players = [e \in Extents |-> None] /\ removeList = {}
    /\ queue = [p \in Players |-> {}]
    /\ dead = {} /\ loading = {} /\ joined = {}
    /\ phase = "load" /\ todo = {}
    /\ foreign = {} /\ moved = {} /\ crashed = FALSE

-----------------------------------------------------------------------------
(* ObjectMgr.                                                              *)

Available(m, e) == e \in 1..MaxExtent /\ m.slots[e] = None

(* Mutant: 0 is one past the end.                                          *)
RequestExtentPast(m) ==
    IF \E e \in Extents : Available(m, e)
    THEN CHOOSE e \in Extents :
           Available(m, e) /\ \A d \in Extents : Available(m, d) => e <= d
    ELSE MaxExtent + 1
(* The lowest that is free, or INVALID_EXTENT, 0.                          *)
RequestExtent(m) ==
    IF \E e \in Extents : Available(m, e)
    THEN CHOOSE e \in Extents :
           Available(m, e) /\ \A d \in Extents : Available(m, d) => e <= d
    ELSE 0

Registered(m, o, e) == [extent |-> [m.extent EXCEPT ![o] = e],
                        slots |-> [m.slots EXCEPT ![e] = o],
                        table |-> m.table \union {o}]

(* Mutant: the extent in the file is taken as it is.                       *)
AddObjectAsFiled(m, o, wish) ==
    Registered(m, o, IF wish \in 1..MaxExtent THEN wish ELSE RequestExtent(m))
(* With no extent left, 0 is an index like any other.                      *)
AddObject(m, o, wish) ==
    Registered(m, o, IF Available(m, wish) THEN wish ELSE RequestExtent(m))

(* RemoveObject of each of D: the slot is cleared, whoever is in it.  All  *)
(* of D is deleted in the same step, so its extents are forgotten.         *)
RemoveObjects(m, D) ==
    [m EXCEPT
       !.extent = [o \in Objs |-> IF o \in D THEN 0 ELSE m.extent[o]],
       !.slots = [e \in Extents |->
                    IF \E o \in D \intersect m.table : m.extent[o] = e
                    THEN None ELSE m.slots[e]],
       !.table = @ \ D]

(* GetObj, for a request that names an extent.                             *)
GetObj(e) == IF mgr.slots[e] \in Fixtures THEN None ELSE mgr.slots[e]

-----------------------------------------------------------------------------
(* ObjectAccessor, and the queues.                                         *)

Accessible(pls) == {pls[e] : e \in Extents} \ {None}

(* PlayersCanSeePoint.  Nobody stands where (5880, 5880) can be seen.      *)
PlayersCanSee(q) == {v \in Accessible(players) : <<place[v], q>> \in Near}

(* Mutant: those who saw o and do not see it now keep it in their queue.   *)
SetPositionSilently(o, q) ==
    [v \in Players |-> IF v \in PlayersCanSee(q) THEN queue[v] \union ({o} \ {v})
                       ELSE queue[v]]
(* WorldObject::SetPosition, for the queues: the ones who see o in its new *)
(* position get it, and for those who saw it in the old one only it is     *)
(* ObjectOutOfSight.  What a player's queue has of himself is taken out    *)
(* before it is looked at.                                                 *)
SetPosition(o, q) ==
    [v \in Players |->
       IF v \in PlayersCanSee(q) THEN queue[v] \union ({o} \ {v})
       ELSE IF v \in PlayersCanSee(place[o]) THEN queue[v] \ {o}
       ELSE queue[v]]

(* Mutant: a player is shown to those who come later only.                 *)
MutualSightOnce(pls) ==
    [v \in Players |->
       IF v \notin Accessible(pls) THEN queue[v]
       ELSE queue[v] \union {o \in Accessible(pls) :
              \E d, e \in Extents : /\ pls[d] = o /\ pls[e] = v /\ d < e
                                    /\ <<place'[v], place'[o]>> \in Near}]
(* The rest of _update: the players see each other.                        *)
MutualSight(pls) ==
    [v \in Players |->
       IF v \notin Accessible(pls) THEN queue[v]
       ELSE queue[v] \union {o \in Accessible(pls) \ {v} :
                               <<place'[v], place'[o]>> \in Near}]

(* What is deleted has no position any more.                               *)
Unplaced(D) == [o \in Objs |-> IF o \in D THEN Start ELSE place[o]]

-----------------------------------------------------------------------------
(* The map's objects (CreateObjectFromFile), before there are players.     *)
Load(i) ==
    LET o == MapFile[i].obj
    IN  /\ phase = "load"
        /\ life[o] = "unborn"
        /\ \A j \in 1..(i - 1) : life[MapFile[j].obj] = "live"
        /\ life' = [life EXCEPT ![o] = "live"]
        /\ place' = [place EXCEPT ![o] = MapFile[i].at]
        /\ mgr' = AddObject(mgr, o, MapFile[i].extent)
        /\ UNCHANGED <<inv, accessor, queue, sessions, clock, history>>

(* The map is MapFile, or one with nothing on it.                          *)
Loaded ==
    /\ phase = "load"
    /\ \A i, j \in DOMAIN MapFile : life[MapFile[i].obj] = life[MapFile[j].obj]
    /\ phase' = "sessions"
    /\ UNCHANGED <<objects, mgr, accessor, queue, sessions, todo, history>>

-----------------------------------------------------------------------------
(* Handlers of the sessions.                                               *)

InSessions == phase = "sessions" /\ ~crashed
Alive(p)    == InSessions /\ life[p] = "live"
Handling(p) == Alive(p) /\ p \in joined     \* STATUS_LOGGEDIN

Made(p) == IF life[p] = "live" THEN mgr ELSE AddObject(mgr, p, 0)

(* Mutant: the player is known by the extent it had before it had one.     *)
HandlePlayerJoinEarly(p) ==
    /\ InSessions
    /\ life[p] # "freed"
    /\ mgr' = RemoveObjects(Made(p), removeList)
    /\ life' = [o \in Objs |-> IF o \in removeList THEN "freed"
                               ELSE IF o = p THEN "live" ELSE life[o]]
    /\ place' = Unplaced(removeList)
    /\ players' = [players EXCEPT ![mgr.extent[p]] = p]
    /\ updates' = updates \union {p}
    /\ removeList' = {}
    /\ dead' = IF life[p] = "live" THEN dead ELSE dead \union {p}
    /\ loading' = loading \union {p} /\ joined' = joined \union {p}
    /\ UNCHANGED <<inv, clock, history>>
    /\ queue' = MutualSight(players')
(* HandlePlayerJoinOpcode: the player is made, inserted, and shown.        *)
HandlePlayerJoin(p) ==
    /\ InSessions
    /\ life[p] # "freed"
    /\ mgr' = RemoveObjects(Made(p), removeList)
    /\ life' = [o \in Objs |-> IF o \in removeList THEN "freed"
                               ELSE IF o = p THEN "live" ELSE life[o]]
    /\ place' = Unplaced(removeList)
    /\ players' = [players EXCEPT ![Made(p).extent[p]] = p]
    /\ updates' = updates \union {p}
    /\ removeList' = {}
    /\ dead' = IF life[p] = "live" THEN dead ELSE dead \union {p}
    /\ loading' = loading \union {p} /\ joined' = joined \union {p}
    /\ UNCHANGED <<inv, clock, history>>
    /\ queue' = MutualSight(players')

(* A join packet that is cut short makes a player whom nobody is shown.    *)
HandlePlayerJoinShort(p) ==
    /\ InSessions
    /\ life[p] = "unborn"
    /\ mgr' = AddObject(mgr, p, 0)
    /\ life' = [life EXCEPT ![p] = "live"]
    /\ updates' = updates \union {p}
    /\ dead' = dead \union {p}
    /\ UNCHANGED <<place, inv, players, removeList, queue, loading, joined,
                   clock, history>>

(* Who has nothing in his queue leaves nothing behind.                     *)
Moved(p, q) == IF q = place[p] \/ queue[p] = {} THEN moved
               ELSE moved \union {p}

(* Respawn, with one item for the kit, if there is one to be made.  It has *)
(* no position that anyone sees before it is in the inventory.             *)
NewItems == {x \in Items : life[x] = "unborn"}
Kits == IF NewItems = {} THEN {{}} ELSE {{x} : x \in NewItems}

Respawn(p, K, q) ==
    /\ life' = [o \in Objs |-> IF o \in K THEN "live" ELSE life[o]]
    /\ mgr' = IF K = {} THEN mgr
              ELSE AddObject(mgr, CHOOSE x \in K : TRUE, 0)
    /\ inv' = [inv EXCEPT ![p] = @ \union K]
    /\ place' = [o \in Objs |-> IF o = p THEN Spawn
                                ELSE IF o \in K THEN Pack ELSE place[o]]
    /\ queue' = q
    /\ dead' = dead \ {p}
    /\ UNCHANGED <<accessor, joined, clock, foreign, crashed>>

(* Whether all that SendUpdatePacket goes through is there.                *)
Intact(p) == \A o \in queue[p] : life[o] # "freed"

(* HandleClientReadyOpcode sends the queue before it respawns.             *)
HandleClientReady(p, K) ==
    /\ Handling(p)
    /\ p \in loading
    /\ Intact(p)
    /\ loading' = loading \ {p}
    /\ moved' = moved \ {p}
    /\ Respawn(p, K, [SetPosition(p, Spawn) EXCEPT ![p] = {}])

(* Player::Attack of one who is dead.                                      *)
Attack(p, K) ==
    /\ Handling(p)
    /\ p \in dead
    /\ UNCHANGED loading
    /\ moved' = Moved(p, Spawn)
    /\ Respawn(p, K, SetPosition(p, Spawn))

(* HandleTryGetOpcode.  FoodPickup may use the item at once.               *)
HandleTryGet(p, e) ==
    /\ Handling(p)
    /\ LET x == GetObj(e)
       IN  /\ x \in Items
           /\ place[x] # Pack /\ <<place[p], place[x]>> \in Near
           /\ place' = [place EXCEPT ![x] = Pack]
           /\ queue' = SetPosition(x, Pack)
           /\ \/ /\ inv' = [inv EXCEPT ![p] = @ \union {x}]
                 /\ UNCHANGED removeList
              \/ /\ removeList' = removeList \union {x}
                 /\ UNCHANGED inv
    /\ UNCHANGED <<life, mgr, updates, players, sessions, clock, history>>

HandleTryDrop(p, e, q) ==
    /\ Handling(p)
    /\ <<place[p], q>> \in Near
    /\ LET x == GetObj(e)
       IN  /\ x \in inv[p]
           /\ inv' = [inv EXCEPT ![p] = @ \ {x}]
           /\ place' = [place EXCEPT ![x] = q]
           /\ queue' = SetPosition(x, q)
    /\ UNCHANGED <<life, mgr, accessor, sessions, clock, history>>

(* The use handlers: an item that the player does not carry stays where it *)
(* is, and is deleted all the same.                                        *)
HandleTryUse(p, e) ==
    /\ Handling(p)
    /\ LET x == GetObj(e)
       IN  /\ x \in Items
           /\ inv' = [inv EXCEPT ![p] = @ \ {x}]
           /\ removeList' = removeList \union {x}
           /\ foreign' = IF x \in inv[p] \union removeList THEN foreign
                         ELSE foreign \union {x}
    /\ UNCHANGED <<life, place, mgr, updates, players, queue, sessions, clock,
                   moved, crashed>>

(* DoSpellProjectile: nothing ever deletes the projectile.                 *)
CastProjectile(p, m) ==
    /\ Handling(p)
    /\ life[m] = "unborn"
    /\ life' = [life EXCEPT ![m] = "live"]
    /\ place' = [place EXCEPT ![m] = place[p]]
    /\ mgr' = AddObject(mgr, m, 0)
    /\ updates' = updates \union {m}
    /\ UNCHANGED <<inv, players, removeList, queue, sessions, clock, history>>

(* HandleSpellTeleportToTarget: of the caster, or of a player whom a       *)
(* projectile hits when contacts are generated, right after the pass: that *)
(* may be one who has not joined.                                          *)
Teleport(p, q) ==
    /\ Alive(p)
    /\ p \in joined \/ \E m \in Missiles : life[m] = "live"
    /\ <<place[p], q>> \in Near
    /\ place' = [place EXCEPT ![p] = q]
    /\ queue' = SetPosition(p, q)
    /\ moved' = Moved(p, q)
    /\ UNCHANGED <<life, inv, mgr, accessor, sessions, clock, foreign, crashed>>

(* Mutant: the player's Update goes on being called.                       *)
LogoutPlayerUpdated(p) ==
    /\ Alive(p)
    /\ players' = [players EXCEPT ![mgr.extent[p]] = None]
    /\ mgr' = RemoveObjects(mgr, {p})
    /\ life' = [life EXCEPT ![p] = "freed"]
    /\ inv' = [inv EXCEPT ![p] = {}]
    /\ queue' = [queue EXCEPT ![p] = {}]
    /\ dead' = dead \ {p} /\ loading' = loading \ {p}
    /\ joined' = joined \ {p}
    /\ place' = Unplaced({p}) /\ moved' = moved \ {p}
    /\ UNCHANGED <<updates, removeList, clock, foreign, crashed>>
(* LogoutPlayer: RemovePlayer, delete, and RemoveFromWorld from there.     *)
LogoutPlayer(p) ==
    /\ Alive(p)
    /\ players' = [players EXCEPT ![mgr.extent[p]] = None]
    /\ mgr' = RemoveObjects(mgr, {p})
    /\ life' = [life EXCEPT ![p] = "freed"]
    /\ updates' = updates \ {p}
    /\ inv' = [inv EXCEPT ![p] = {}]
    /\ queue' = [queue EXCEPT ![p] = {}]
    /\ dead' = dead \ {p} /\ loading' = loading \ {p}
    /\ joined' = joined \ {p}
    /\ place' = Unplaced({p}) /\ moved' = moved \ {p}
    /\ UNCHANGED <<removeList, clock, foreign, crashed>>

-----------------------------------------------------------------------------
(* The rest of World::Update.                                              *)

(* World::QuickStep moves players, and tells no queue.  Then comes         *)
(* ObjectAccessor::Update, which begins with _update.                      *)
QuickStep(to) ==
    LET alive == {p \in Players : life[p] = "live"}
    IN  /\ InSessions
        /\ phase' = "update" /\ todo' = updates
        /\ place' = [o \in Objs |-> IF o \in removeList THEN Start
                                    ELSE IF o \in alive THEN to[o]
                                    ELSE place[o]]
        /\ life' = [o \in Objs |-> IF o \in removeList THEN "freed"
                                   ELSE life[o]]
        /\ mgr' = RemoveObjects(mgr, removeList)
        /\ removeList' = {}
        /\ UNCHANGED <<inv, updates, players, sessions, history>>
        /\ queue' = MutualSight(players)

Updating(o) == phase = "update" /\ ~crashed /\ o \in todo

(* Player::Update, of a player who may die there: DropAll, and the packet. *)
(* What UpdateView adds to the queue is in objectTable, and goes at once.  *)
UpdatePlayer(p, dies) ==
    LET dropped == IF dies THEN inv[p] ELSE {}
    IN  /\ Updating(p)
        /\ dies => p \notin dead
        /\ Intact(p) /\ \A x \in dropped : life[x] = "live"
        /\ inv' = [inv EXCEPT ![p] = @ \ dropped]
        /\ place' = [o \in Objs |-> IF o \in dropped THEN place[p]
                                    ELSE place[o]]
        /\ queue' = [v \in Players |->
                       IF v = p THEN {}
                       ELSE IF v \in PlayersCanSee(place[p])
                            THEN queue[v] \union dropped ELSE queue[v]]
        /\ moved' = moved \ {p}
        /\ dead' = IF dies THEN dead \union {p} ELSE dead
        /\ todo' = todo \ {p}
        /\ UNCHANGED <<life, mgr, accessor, loading, joined, phase, foreign,
                       crashed>>

(* Magic::Update, which shows the projectile where it is.                  *)
UpdateMissile(m) ==
    /\ Updating(m)
    /\ queue' = SetPosition(m, place[m])
    /\ todo' = todo \ {m}
    /\ UNCHANGED <<objects, mgr, accessor, sessions, phase, history>>

EndUpdate ==
    /\ phase = "update" /\ todo = {}
    /\ phase' = "sessions"
    /\ UNCHANGED <<objects, mgr, accessor, queue, sessions, todo, history>>

(* A freed object in the queue, or in the inventory of one who dies.       *)
UseFreed(p) ==
    /\ \/ Handling(p) /\ p \in loading /\ ~Intact(p)
       \/ Updating(p) /\ ~Intact(p)
       \/ Updating(p) /\ p \notin dead /\ \E x \in inv[p] : life[x] = "freed"
    /\ crashed' = TRUE
    /\ UNCHANGED <<objects, mgr, accessor, queue, sessions, clock, foreign,
                   moved>>

-----------------------------------------------------------------------------
Handle(p) ==
    \/ HandlePlayerJoin(p) \/ HandlePlayerJoinShort(p)
    \/ \E K \in Kits : HandleClientReady(p, K) \/ Attack(p, K)
    \/ \E e \in Extents : \/ HandleTryGet(p, e) \/ HandleTryUse(p, e)
                          \/ \E q \in Places : HandleTryDrop(p, e, q)
    \/ \E m \in Missiles : CastProjectile(p, m)
    \/ LogoutPlayer(p)

Next ==
    \/ \E i \in DOMAIN MapFile : Load(i)
    \/ Loaded
    \/ \E p \in Players : Handle(p)
    \/ \E p \in Players, q \in Places : Teleport(p, q)
    \/ \E to \in [Players -> Places] : QuickStep(to)
    \/ \E p \in Players, dies \in BOOLEAN : UpdatePlayer(p, dies)
    \/ \E m \in Missiles : UpdateMissile(m)
    \/ EndUpdate
    \/ \E p \in Players : UseFreed(p)

Spec == Init /\ [][Next]_vars

-----------------------------------------------------------------------------
(* Properties.                                                             *)

(* An extent names one object, which has it for its m_extent, and every    *)
(* object but those that came when all extents were taken can be found by  *)
(* its own: through extents from the map's file that are taken already,    *)
(* extents given back and given out again, and the clearing of a slot that *)
(* RemoveObject does not look at (AddObject, RemoveObject).                *)
ExtentsNameObjects ==
    /\ \A o \in mgr.table :
         mgr.extent[o] # 0 => mgr.slots[mgr.extent[o]] = o
    /\ \A e \in Extents :
         mgr.slots[e] # None => /\ mgr.slots[e] \in mgr.table
                                /\ mgr.extent[mgr.slots[e]] = e

(* objectTable, i_objects and i_players are gone through on every tick,    *)
(* and i_objectsToRemove deletes: they hold living objects only, even when *)
(* extents ran out and players share the entry for 0 (Object::~Object,     *)
(* ObjectAccessor::RemovePlayer).                                          *)
TablesLive ==
    \A o \in mgr.table \union updates \union Accessible(players)
               \union removeList : life[o] = "live"

(* Every player whose session is logged in is in i_players, and so gets    *)
(* the broadcasts and is shown to the others, unless there was no extent   *)
(* for it (InsertPlayer, RemovePlayer).                                    *)
PlayersReached ==
    \A p \in joined : mgr.extent[p] # 0 => players[mgr.extent[p]] = p

(* When a player's Update sends its queue, all players it sees are in it   *)
(* (_update, and SetPosition since then).                                  *)
SightComplete ==
    phase = "update" =>
      \A p \in todo \intersect Accessible(players) :
        \A o \in Accessible(players) \ {p} :
          <<place[p], place[o]>> \in Near => o \in queue[p]

(* The pointers to freed objects in the queues, which SendUpdatePacket     *)
(* follows, come in four ways: a player logged out, somebody used an item  *)
(* that he did not carry, the owner of the queue was teleported, or        *)
(* respawned in an attack, after he was shown the object and before his    *)
(* next packet, or the owner has no extent and was ousted from i_players.  *)
(* What the physics moves is no danger, and in no other way does anything  *)
(* that the code touches turn out to be freed (ObjectOutOfSight,           *)
(* SendUpdatePacket, Die).                                                 *)
Excused(v, o) == \/ o \in Players \/ o \in foreign
                 \/ v \in moved \/ mgr.extent[v] = 0

OnlyExcusedDangling ==
    /\ \A v \in Players : \A o \in queue[v] \union inv[v] :
         life[o] = "freed" => Excused(v, o)
    /\ crashed => \E v \in Players : \E o \in queue[v] \union inv[v] :
                    life[o] = "freed" /\ Excused(v, o)
=============================================================================
