--------------------------- MODULE WorldSessions ---------------------------
(***************************************************************************)
(* The life of a client session, from the UDP join datagram to the         *)
(* deletion of the WorldSession object, across the two threads that share  *)
(* it without a lock:                                                      *)
(*                                                                         *)
(*   - the network thread (Master::Run, SocketHandler::Select), which runs *)
(*     WorldSocket::OnRawData for each datagram and WorldSocket::OnDelete  *)
(*     when the socket fails;                                              *)
(*   - the world thread (WorldRunnable::run), which runs World::Update     *)
(*     and, from it, WorldSession::Update for every registered session.    *)
(*                                                                         *)
(* A session object is a handle, the pointer of the code: two sessions may *)
(* carry the same account id (the overflow id 0xFF), never the same        *)
(* handle.  One call of a map, queue or session method is one step; the    *)
(* look-up of OnRawData and the use of the pointer it returned are two,    *)
(* and so are the packets one WorldSession::Update handles.                *)
(***************************************************************************)
EXTENDS Integers, Sequences

CONSTANTS
    Addrs,        \* full client addresses, (port << 32) | ip
    Ips,          \* ip-only keys, ClientAddr & 0xFFFFFFFF
    IpOf,         \* the ip of each full address
    NoAddr,       \* the client of a session not yet created
    MaxId,        \* ids 1..MaxId start out free (31 in World::World)
    OverflowId,   \* what RequestFreeId answers when none is free (0xFF)
    ClientOps,    \* the queued opcodes the clients of an instance send
    MaxSessions,  \* bound on the session objects a behaviour creates
    MaxQueue,     \* bound on the packets waiting in one receive queue
    Timeout,      \* TIMEOUT_MS, in ticks
    Diffs         \* the diffs World::Update may be called with, in ticks

PoolIds  == 1..MaxId
Ids      == PoolIds \union {OverflowId}
Handles  == 1..MaxSessions
AddrKeys == Addrs \union Ips
NoId     == 0       \* no entry in WorldSocket::_sessions
Null     == 0       \* a NULL session pointer
Absent   == -1      \* no entry in World::m_sessions

ASSUME IdAssumption == /\ MaxId \in Nat
                       /\ OverflowId \in Nat
                       /\ OverflowId > MaxId
ASSUME AddrAssumption == /\ IpOf \in [Addrs -> Ips]
                         /\ Addrs \intersect Ips = {}
                         /\ NoAddr \notin Addrs
ASSUME BoundAssumption == /\ MaxSessions \in Nat
                          /\ MaxQueue \in Nat
                          /\ Timeout \in Nat \ {0}
(* No world tick is longer than the connection timeout: a process          *)
(* suspended for half a minute is outside the model.                       *)
ASSUME DiffAssumption == Diffs \subseteq 1..Timeout

Statuses == {"AUTHED", "CONFIRMED", "LOGGEDIN"}

(* Datagrams that never reach a receive queue: the LAN ping (a datagram    *)
(* shorter than a header, or a join cut short, does no more) and the join. *)
SocketOps == {"LanPing", "Join"}
(* Queued opcodes that bear on the session's life; "Game" is any other.    *)
SessionOps == {"JoinConfirmation", "PlayerJoin", "PlayerJoinShort",
               "ClientReady", "OutgoingClient", "Game"}
Packets == [from : Addrs, op : SessionOps]

ASSUME OpAssumption == ClientOps \subseteq SessionOps

Session == [obj     : {"unborn", "live", "freed"},
            id      : Ids \union {NoId},
            client  : Addrs \union {NoAddr},
            socket  : BOOLEAN,    \* _socket is not NULL
            status  : Statuses,
            player  : BOOLEAN,    \* _player is not NULL
            loading : BOOLEAN,
            leaving : BOOLEAN,    \* _logoutTime is set, and due
            timer   : 0..Timeout]

VARIABLES
    addrMap,      \* WorldSocket::_sessions
    freeIds,      \* World::m_freeids
    registry,     \* World::m_sessions
    kicked,       \* World::m_kicked_sessions
    sess,         \* the session objects
    recvQueue,    \* WorldSession::_recvQueue of each of them
    created,      \* how many session objects there have been
    inWorld,      \* sessions whose player is in ObjectAccessor::i_players
    net,          \* network thread: where it is, what it holds
    closing,      \* address keys OnDelete has still to visit
    world,        \* world thread: where it is, which session it updates
    pending,      \* registry entries the iteration may still visit
    crashed       \* a null or freed pointer brought the process down

netVars   == <<net, closing>>
worldVars == <<world, pending>>
vars == <<addrMap, freeIds, registry, kicked, sess, recvQueue, created,
          inWorld, net, closing, world, pending, crashed>>

Net == [pc : {"idle", "deliver", "closing", "removing", "closed"},
        sess : Handles \union {Null}, id : Ids \union {NoId},
        from : Addrs \union {NoAddr}, op : SocketOps \union SessionOps]
World == [pc : {"idle", "scan", "drain"},
          id : Ids \union {NoId}, sess : Handles \union {Null}]

IdleNet == [pc |-> "idle", sess |-> Null, id |-> NoId, from |-> NoAddr,
            op |-> "LanPing"]

TypeOK ==
    /\ addrMap \in [AddrKeys -> Ids \union {NoId}]
    /\ freeIds \subseteq PoolIds
    /\ registry \in [Ids -> Handles \union {Null, Absent}]
    /\ kicked \subseteq Handles
    /\ sess \in [Handles -> Session]
    /\ recvQueue \in [Handles -> Seq(Packets)]
    /\ created \in 0..MaxSessions
    /\ inWorld \subseteq Handles
    /\ net \in Net
    /\ closing \subseteq AddrKeys
    /\ world \in World
    /\ pending \subseteq Ids
    /\ crashed \in BOOLEAN

-----------------------------------------------------------------------------
(* WorldSession::WorldSession: what a new session object holds.            *)
NewSession(id, c) ==
    [obj |-> "live", id |-> id, client |-> c, socket |-> TRUE,
     status |-> "AUTHED", player |-> FALSE, loading |-> FALSE,
     leaving |-> FALSE, timer |-> Timeout]

Init ==
    /\ addrMap = [k \in AddrKeys |-> NoId]
    /\ freeIds = PoolIds
    /\ registry = [i \in Ids |-> Absent]
    /\ kicked = {}
    /\ sess = [h \in Handles |->
                 [NewSession(NoId, NoAddr) EXCEPT !.obj = "unborn",
                                                  !.socket = FALSE]]
    /\ recvQueue = [h \in Handles |-> <<>>]
    /\ created = 0
    /\ inWorld = {}
    /\ net = IdleNet
    /\ closing = {}
    /\ world = [pc |-> "idle", id |-> NoId, sess |-> Null]
    /\ pending = {}
    /\ crashed = FALSE

(* World::FindSession: NULL for an unknown id and for a kicked session.    *)
FindSession(id) ==
    IF id # NoId /\ registry[id] \in Handles THEN registry[id] ELSE Null

(* Mutant: the id handed out is not erased from the free ids.              *)
RequestsFreeIdTwice(id) ==
    /\ id \in (IF freeIds = {} THEN {OverflowId} ELSE freeIds)
    /\ \A j \in freeIds : id <= j
    /\ UNCHANGED freeIds

(* World::RequestFreeId picks the smallest free id, 0xFF if there is none. *)
RequestsFreeId(id) ==
    /\ id \in (IF freeIds = {} THEN {OverflowId} ELSE freeIds)
    /\ \A j \in freeIds : id <= j
    /\ freeIds' = freeIds \ {id}

(* WorldSession::LogoutPlayer takes the player out of the world and deletes *)
(* it, and drops the socket; the destructor calls it for a kicked session. *)
LoggedOut(s) == [s EXCEPT !.player = FALSE, !.socket = FALSE]
Freed(s)     == [LoggedOut(s) EXCEPT !.obj = "freed"]

-----------------------------------------------------------------------------
(* The network thread: WorldSocket::OnRawData.                             *)

(* The entry for the full address comes first, then the one for its ip.    *)
BoundTo(c) == IF addrMap[c] # NoId THEN addrMap[c] ELSE addrMap[IpOf[c]]

Receives(c, op) ==
    /\ ~crashed
    /\ net.pc = "idle"
    /\ op = "Join" => created < MaxSessions
    /\ LET h == FindSession(BoundTo(c))
       IN  h # Null => Len(recvQueue[h]) < MaxQueue

Holds(h, c, op) ==
    net' = [pc |-> "deliver", sess |-> h, id |-> NoId, from |-> c, op |-> op]

(* The full address is bound to a session id.                              *)
ReceiveKnown(c, op) ==
    /\ Receives(c, op)
    /\ addrMap[c] # NoId
    /\ Holds(FindSession(addrMap[c]), c, op)
    /\ UNCHANGED <<addrMap, freeIds, registry, kicked, sess, recvQueue,
                   created, inWorld, closing, worldVars, crashed>>

(* Mutants: the ip-only entry is not erased; the session is not told.      *)
ReceiveRebindCopies(c, op) ==
    /\ Receives(c, op)
    /\ addrMap[c] = NoId
    /\ LET id == addrMap[IpOf[c]]
           h  == FindSession(id)
       IN  /\ id # NoId
           /\ addrMap' = [addrMap EXCEPT ![c] = id]
           /\ Holds(h, c, op)
           /\ crashed' = (h = Null)
           /\ sess' = IF h = Null THEN sess
                      ELSE [sess EXCEPT ![h].client = c]
    /\ UNCHANGED <<freeIds, registry, kicked, recvQueue, created, inWorld,
                   closing, worldVars>>
ReceiveRebindUntold(c, op) ==
    /\ Receives(c, op)
    /\ addrMap[c] = NoId
    /\ LET id == addrMap[IpOf[c]]
       IN  /\ id # NoId
           /\ addrMap' = [addrMap EXCEPT ![c] = id, ![IpOf[c]] = NoId]
           /\ Holds(FindSession(id), c, op)
    /\ UNCHANGED <<freeIds, registry, kicked, sess, recvQueue, created,
                   inWorld, closing, worldVars, crashed>>

(* Only the ip is: the entry moves to the full address, and the session    *)
(* FindSession returned is told its client without a test for NULL.        *)
ReceiveRebind(c, op) ==
    /\ Receives(c, op)
    /\ addrMap[c] = NoId
    /\ addrMap[IpOf[c]] # NoId
    /\ LET id == addrMap[IpOf[c]]
           h  == FindSession(id)
       IN  /\ addrMap' = [addrMap EXCEPT ![c] = id, ![IpOf[c]] = NoId]
           /\ Holds(h, c, op)
           /\ crashed' = (h = Null)
           /\ sess' = IF h = Null THEN sess
                      ELSE [sess EXCEPT ![h].client = c]
    /\ UNCHANGED <<freeIds, registry, kicked, recvQueue, created, inWorld,
                   closing, worldVars>>

ReceiveStranger(c, op) ==
    /\ Receives(c, op)
    /\ addrMap[c] = NoId
    /\ addrMap[IpOf[c]] = NoId
    /\ Holds(Null, c, op)
    /\ UNCHANGED <<addrMap, freeIds, registry, kicked, sess, recvQueue,
                   created, inWorld, closing, worldVars, crashed>>

Receive(c, op) ==
    ReceiveKnown(c, op) \/ ReceiveRebind(c, op) \/ ReceiveStranger(c, op)

HasSession == net.sess # Null
(* The world thread deleted the session since OnRawData looked it up.      *)
HoldsFreed == HasSession /\ sess[net.sess].obj = "freed"

Delivering == ~crashed /\ net.pc = "deliver"
Delivered  == net' = IdleNet

(* CryptData and QueuePacket on a deleted object: the process may go down; *)
(* if it does not, the packet is lost with the memory it was written to.   *)
UseFreedSession ==
    /\ Delivering
    /\ HoldsFreed
    /\ crashed' = TRUE
    /\ UNCHANGED <<addrMap, freeIds, registry, kicked, sess, recvQueue,
                   created, inWorld, netVars, worldVars>>

HandleLANPing ==
    /\ Delivering
    /\ net.op = "LanPing"
    /\ Delivered
    /\ UNCHANGED <<addrMap, freeIds, registry, kicked, sess, recvQueue,
                   created, inWorld, closing, worldVars, crashed>>

(* World::AddSession: whatever the id named before is overwritten.  An     *)
(* entry inserted while World::Update iterates may be visited or missed.   *)
AddSession(id, h) ==
    /\ registry' = [registry EXCEPT ![id] = h]
    /\ \/ UNCHANGED pending
       \/ /\ world.pc # "idle"
          /\ registry[id] = Absent
          /\ pending' = pending \union {id}

(* WorldSocket::_HandleJoin: a new session for every join, whether or not  *)
(* the address already has one.                                            *)
HandleJoin ==
    /\ Delivering
    /\ net.op = "Join"
    /\ \E id \in Ids :
         /\ RequestsFreeId(id)
         /\ sess' = [sess EXCEPT ![created + 1] = NewSession(id, net.from)]
         /\ AddSession(id, created + 1)
         /\ addrMap' = [addrMap EXCEPT ![IpOf[net.from]] = id]
    /\ created' = created + 1
    /\ Delivered
    /\ UNCHANGED <<kicked, recvQueue, inWorld, closing, world, crashed>>

QueuePacket ==
    /\ Delivering
    /\ net.op \in SessionOps
    /\ HasSession
    /\ ~HoldsFreed
    /\ recvQueue' = [recvQueue EXCEPT ![net.sess] =
                       Append(@, [from |-> net.from, op |-> net.op])]
    /\ Delivered
    /\ UNCHANGED <<addrMap, freeIds, registry, kicked, sess, created, inWorld,
                   closing, worldVars, crashed>>

(* Out of place: no session, or one that is gone.                          *)
DropPacket ==
    /\ Delivering
    /\ net.op \in SessionOps
    /\ HasSession => HoldsFreed
    /\ Delivered
    /\ UNCHANGED <<addrMap, freeIds, registry, kicked, sess, recvQueue,
                   created, inWorld, closing, worldVars, crashed>>

-----------------------------------------------------------------------------
(* The network thread: the socket fails and SocketHandler drops it.        *)

OnDelete ==
    /\ ~crashed
    /\ net.pc = "idle"
    /\ net' = [net EXCEPT !.pc = "closing"]
    /\ closing' = {k \in AddrKeys : addrMap[k] # NoId}
    /\ UNCHANGED <<addrMap, freeIds, registry, kicked, sess, recvQueue,
                   created, inWorld, worldVars, crashed>>

(* One round of OnDelete's loop: FindSession and SetSocket(0), and then     *)
(* World::RemoveSession, which looks the id up again.                      *)
DropSocket(k) ==
    /\ ~crashed
    /\ net.pc = "closing"
    /\ k \in closing
    /\ closing' = closing \ {k}
    /\ LET h == FindSession(addrMap[k])
       IN  /\ sess' = IF h = Null THEN sess
                      ELSE [sess EXCEPT ![h].socket = FALSE]
           /\ net' = IF h = Null THEN net
                     ELSE [net EXCEPT !.pc = "removing", !.id = addrMap[k]]
    /\ UNCHANGED <<addrMap, freeIds, registry, kicked, recvQueue, created,
                   inWorld, worldVars, crashed>>

(* Mutants: the kicked session stays registered; it is deleted at once.    *)
RemoveSessionKeepsEntry ==
    /\ ~crashed
    /\ net.pc = "removing"
    /\ net' = [net EXCEPT !.pc = "closing", !.id = NoId]
    /\ LET h == FindSession(net.id)
       IN  kicked' = IF h # Null /\ ~sess[h].loading THEN kicked \union {h}
                     ELSE kicked
    /\ UNCHANGED <<addrMap, freeIds, registry, sess, recvQueue, created,
                   inWorld, closing, worldVars, crashed>>
RemoveSessionNow ==
    /\ ~crashed
    /\ net.pc = "removing"
    /\ net' = [net EXCEPT !.pc = "closing", !.id = NoId]
    /\ LET h == FindSession(net.id)
       IN  /\ sess' = IF h = Null THEN sess ELSE [sess EXCEPT ![h] = Freed(@)]
           /\ registry' = IF h = Null THEN registry
                          ELSE [registry EXCEPT ![net.id] = Null]
    /\ UNCHANGED <<addrMap, freeIds, kicked, recvQueue, created, inWorld,
                   closing, worldVars, crashed>>

(* A session that is loading stays where it is, and so does one that the   *)
(* world thread erased since.                                              *)
RemoveSession ==
    /\ ~crashed
    /\ net.pc = "removing"
    /\ net' = [net EXCEPT !.pc = "closing", !.id = NoId]
    /\ LET h == FindSession(net.id)
           removed == h # Null /\ ~sess[h].loading
       IN  /\ kicked' = IF removed THEN kicked \union {h} ELSE kicked
           /\ sess' = IF removed THEN [sess EXCEPT ![h].socket = FALSE]
                      ELSE sess
           /\ registry' = IF removed THEN [registry EXCEPT ![net.id] = Null]
                          ELSE registry
    /\ UNCHANGED <<addrMap, freeIds, recvQueue, created, inWorld, closing,
                   worldVars, crashed>>

SocketGone ==
    /\ ~crashed
    /\ net.pc = "closing"
    /\ closing = {}
    /\ net' = [net EXCEPT !.pc = "closed"]
    /\ UNCHANGED <<addrMap, freeIds, registry, kicked, sess, recvQueue,
                   created, inWorld, closing, worldVars, crashed>>

-----------------------------------------------------------------------------
(* The world thread: the session part of World::Update.                    *)

(* Mutant: the kicked sessions are forgotten instead of deleted.           *)
StartPassForgets ==
    /\ ~crashed
    /\ world.pc = "idle"
    /\ kicked' = {}
    /\ pending' = {i \in Ids : registry[i] # Absent}
    /\ world' = [world EXCEPT !.pc = "scan"]
    /\ UNCHANGED <<addrMap, freeIds, registry, sess, recvQueue, created,
                   inWorld, netVars, crashed>>

(* The session timer has passed: delete the kicked sessions, then iterate. *)
StartPass ==
    /\ ~crashed
    /\ world.pc = "idle"
    /\ sess' = [h \in Handles |-> IF h \in kicked THEN Freed(sess[h])
                                  ELSE sess[h]]
    /\ recvQueue' = [h \in Handles |-> IF h \in kicked THEN <<>>
                                       ELSE recvQueue[h]]
    /\ inWorld' = inWorld \ kicked
    /\ kicked' = {}
    /\ pending' = {i \in Ids : registry[i] # Absent}
    /\ world' = [world EXCEPT !.pc = "scan"]
    /\ UNCHANGED <<addrMap, freeIds, registry, created, netVars, crashed>>

SkipKicked(i) ==
    /\ ~crashed
    /\ world.pc = "scan"
    /\ i \in pending
    /\ registry[i] = Null
    /\ pending' = pending \ {i}
    /\ UNCHANGED <<addrMap, freeIds, registry, kicked, sess, recvQueue,
                   created, inWorld, netVars, world, crashed>>

(* The connection timer at the head of WorldSession::Update: a packet      *)
(* waiting restarts it unless it is at its full value, where it runs on.   *)
Heard(h) == recvQueue[h] # <<>> /\ sess[h].timer < Timeout
(* Mutants: no test for the end; the end before the packet; no logout.     *)
TimerUnderflows(h, diff) ==
    IF Heard(h) THEN [sess[h] EXCEPT !.timer = Timeout]
    ELSE [sess[h] EXCEPT !.timer = @ - diff]
TimerFirst(h, diff) ==
    IF sess[h].timer < diff THEN [sess[h] EXCEPT !.leaving = TRUE]
    ELSE IF Heard(h) THEN [sess[h] EXCEPT !.timer = Timeout]
    ELSE [sess[h] EXCEPT !.timer = @ - diff]
TimerStops(h, diff) ==
    IF Heard(h) THEN [sess[h] EXCEPT !.timer = Timeout]
    ELSE IF sess[h].timer < diff THEN sess[h]
    ELSE [sess[h] EXCEPT !.timer = @ - diff]
TimerRuns(h, diff) ==
    IF Heard(h) THEN [sess[h] EXCEPT !.timer = Timeout]
    ELSE IF sess[h].timer < diff THEN [sess[h] EXCEPT !.leaving = TRUE]
    ELSE [sess[h] EXCEPT !.timer = @ - diff]

BeginUpdate(i, diff) ==
    /\ ~crashed
    /\ world.pc = "scan"
    /\ i \in pending
    /\ registry[i] \in Handles
    /\ pending' = pending \ {i}
    /\ world' = [pc |-> "drain", id |-> i, sess |-> registry[i]]
    /\ sess' = [sess EXCEPT ![registry[i]] = TimerRuns(registry[i], diff)]
    /\ UNCHANGED <<addrMap, freeIds, registry, kicked, recvQueue, created,
                   inWorld, netVars, crashed>>

(* The packet loop runs while there are packets and the socket is set.     *)
TakesPacket(op) ==
    /\ ~crashed
    /\ world.pc = "drain"
    /\ sess[world.sess].socket
    /\ recvQueue[world.sess] # <<>>
    /\ Head(recvQueue[world.sess]).op = op
    /\ recvQueue' = [recvQueue EXCEPT ![world.sess] = Tail(@)]
    /\ UNCHANGED <<addrMap, freeIds, registry, kicked, created, netVars,
                   worldVars, crashed>>

HandleJoinConfirmation ==
    /\ TakesPacket("JoinConfirmation")
    /\ sess' = IF sess[world.sess].status = "AUTHED"
               THEN [sess EXCEPT ![world.sess].status = "CONFIRMED"]
               ELSE sess
    /\ UNCHANGED inWorld

(* The opcode table asks STATUS_AUTHED of this one, which every status     *)
(* satisfies: a repeated join loads the map again.                         *)
HandlePlayerJoin ==
    /\ TakesPacket("PlayerJoin")
    /\ sess' = [sess EXCEPT ![world.sess].player = TRUE,
                            ![world.sess].status = "LOGGEDIN",
                            ![world.sess].loading = TRUE]
    /\ inWorld' = inWorld \union {world.sess}

(* Mutant: the status is set before the packet is read.                    *)
HandlePlayerJoinEager ==
    /\ TakesPacket("PlayerJoinShort")
    /\ sess' = [sess EXCEPT ![world.sess].player = TRUE,
                            ![world.sess].status = "LOGGEDIN"]
    /\ UNCHANGED inWorld

(* Cut short: the player object exists, the world does not know it.        *)
HandlePlayerJoinShort ==
    /\ TakesPacket("PlayerJoinShort")
    /\ sess' = [sess EXCEPT ![world.sess].player = TRUE]
    /\ UNCHANGED inWorld

(* Opcodes that ask STATUS_LOGGEDIN are handled once there is a player.    *)
HandleClientReady ==
    /\ TakesPacket("ClientReady")
    /\ sess' = IF sess[world.sess].player
               THEN [sess EXCEPT ![world.sess].loading = FALSE] ELSE sess
    /\ UNCHANGED inWorld

HandleOutgoingClient ==
    /\ TakesPacket("OutgoingClient")
    /\ sess' = IF sess[world.sess].player
               THEN [sess EXCEPT ![world.sess].leaving = TRUE] ELSE sess
    /\ UNCHANGED inWorld

HandleOther ==
    /\ TakesPacket("Game")
    /\ UNCHANGED <<sess, inWorld>>

(* Mutant: loading is no excuse.                                           *)
LogsOutLoading(s) == ~s.socket \/ s.leaving

(* The end of WorldSession::Update and what World::Update does with its    *)
(* answer.  The entry deleted and erased is the one the iterator points at *)
(* now: NULL if the session was kicked meanwhile, another session if its   *)
(* id was given away meanwhile.                                            *)
LogsOut(s) == ~s.socket \/ (s.leaving /\ ~s.loading)

(* Mutant: after an erase the iteration begins again.                      *)
EndUpdateAgain ==
    /\ ~crashed
    /\ world.pc = "drain"
    /\ sess[world.sess].socket => recvQueue[world.sess] = <<>>
    /\ world' = [pc |-> "scan", id |-> NoId, sess |-> Null]
    /\ LET out     == LogsOut(sess[world.sess])
           deleted == IF out THEN {registry[world.id]} \ {Null} ELSE {}
           left    == IF out THEN {world.sess} ELSE {}
       IN  /\ sess' = [h \in Handles |->
                         IF h \in deleted THEN Freed(sess[h])
                         ELSE IF h \in left THEN LoggedOut(sess[h])
                         ELSE sess[h]]
           /\ recvQueue' = [h \in Handles |-> IF h \in deleted THEN <<>>
                                              ELSE recvQueue[h]]
           /\ inWorld' = (inWorld \ left) \ deleted
           /\ registry' = IF out THEN [registry EXCEPT ![world.id] = Absent]
                          ELSE registry
           /\ pending' = IF out THEN {i \in Ids : registry'[i] # Absent}
                         ELSE pending
    /\ UNCHANGED <<addrMap, freeIds, kicked, created, netVars, crashed>>
EndUpdate ==
    /\ ~crashed
    /\ world.pc = "drain"
    /\ sess[world.sess].socket => recvQueue[world.sess] = <<>>
    /\ world' = [pc |-> "scan", id |-> NoId, sess |-> Null]
    /\ LET out     == LogsOut(sess[world.sess])
           deleted == IF out THEN {registry[world.id]} \ {Null} ELSE {}
           left    == IF out THEN {world.sess} ELSE {}
       IN  /\ sess' = [h \in Handles |->
                         IF h \in deleted THEN Freed(sess[h])
                         ELSE IF h \in left THEN LoggedOut(sess[h])
                         ELSE sess[h]]
           /\ recvQueue' = [h \in Handles |-> IF h \in deleted THEN <<>>
                                              ELSE recvQueue[h]]
           /\ inWorld' = (inWorld \ left) \ deleted
           /\ registry' = IF out THEN [registry EXCEPT ![world.id] = Absent]
                          ELSE registry
    /\ UNCHANGED <<addrMap, freeIds, kicked, created, netVars, pending,
                   crashed>>

FinishPass ==
    /\ ~crashed
    /\ world.pc = "scan"
    /\ pending = {}
    /\ world' = [world EXCEPT !.pc = "idle"]
    /\ UNCHANGED <<addrMap, freeIds, registry, kicked, sess, recvQueue,
                   created, inWorld, netVars, pending, crashed>>

-----------------------------------------------------------------------------
HandlePacket ==
    \/ HandleJoinConfirmation
    \/ HandlePlayerJoin
    \/ HandlePlayerJoinShort
    \/ HandleClientReady
    \/ HandleOutgoingClient
    \/ HandleOther

Deliver ==
    \/ UseFreedSession
    \/ HandleLANPing
    \/ HandleJoin
    \/ QueuePacket
    \/ DropPacket

Close ==
    \/ \E k \in AddrKeys : DropSocket(k)
    \/ RemoveSession
    \/ SocketGone

WorldStep ==
    \/ StartPass
    \/ \E i \in Ids : SkipKicked(i)
    \/ \E i \in Ids, diff \in Diffs : BeginUpdate(i, diff)
    \/ HandlePacket
    \/ EndUpdate
    \/ FinishPass

Next ==
    \/ \E c \in Addrs, op \in SocketOps \union ClientOps : Receive(c, op)
    \/ Deliver
    \/ OnDelete
    \/ Close
    \/ WorldStep

Spec == Init /\ [][Next]_vars

(* Both threads loop until the server stops: each finishes what it began.  *)
(* No client is obliged to send anything, and no socket to fail.  Strong   *)
(* fairness of EndUpdate says that clients do not send faster than one     *)
(* WorldSession::Update handles, so that a receive queue that is empty     *)
(* again and again is one day found empty: nothing in the packet loop      *)
(* bounds how many packets one call handles.                               *)
FairSpec ==
    /\ Spec
    /\ WF_vars(WorldStep)
    /\ SF_vars(EndUpdate)
    /\ WF_vars(Deliver)
    /\ WF_vars(Close)

-----------------------------------------------------------------------------
(* Safety.                                                                 *)

Created == 1..created
Live(h) == sess[h].obj = "live"
FromPool(h) == sess[h].id \in PoolIds

(* No id of the pool is handed out twice (RequestFreeId, AddSession): two  *)
(* sessions that share an id share 0xFF, and a free id names no session,   *)
(* living or dead.                                                         *)
IdsExclusive ==
    \A h \in Created :
      /\ sess[h].id \notin freeIds
      /\ \A g \in Created : g # h /\ FromPool(h) => sess[g].id # sess[h].id

(* m_sessions and m_kicked_sessions account for the session objects: a     *)
(* registered pointer is alive and filed under its own id, and a living    *)
(* session with a pool id is registered or waiting to be deleted, not both *)
(* (AddSession, RemoveSession, World::Update: no leak and no double free). *)
RegistryExact ==
    /\ \A i \in Ids : registry[i] \in Handles =>
                        Live(registry[i]) /\ sess[registry[i]].id = i
    /\ \A h \in Created :
         /\ h \in kicked => Live(h) /\ registry[sess[h].id] # h
         /\ Live(h) /\ FromPool(h) =>
              registry[sess[h].id] = h \/ h \in kicked

(* The session World::Update is inside is never deleted under it, though   *)
(* the network thread may kick it at any moment: this is what              *)
(* m_kicked_sessions is for.                                               *)
UpdatedSessionLive == world.pc = "drain" => Live(world.sess)

(* A pool id answers to one address, and the session with that id, while   *)
(* it lives, sends its packets to the address it takes packets from        *)
(* (OnRawData's move of the ip-only entry to the full address, with        *)
(* SetClient).                                                             *)
BindingUnique ==
    \A h \in Created : FromPool(h) =>
      \A j, k \in AddrKeys :
        addrMap[j] = sess[h].id =>
          /\ addrMap[k] = sess[h].id => j = k
          /\ j \in Addrs /\ Live(h) => sess[h].client = j

(* No packet waits for a session of another client: what OnRawData queues  *)
(* is still of the session's own client when the world thread reads it.    *)
NoCrossDelivery ==
    \A h \in Created : FromPool(h) =>
      \A n \in 1..Len(recvQueue[h]) : recvQueue[h][n].from = sess[h].client

(* ObjectAccessor and the sessions agree: a player in the world belongs to *)
(* a living session that holds it, and a connected session that is logged  *)
(* in, or loading, has its player in the world, so that the handlers that  *)
(* use _player may (HandlePlayerJoinOpcode, LogoutPlayer).                 *)
PlayersInWorld ==
    /\ \A h \in inWorld : Live(h) /\ sess[h].player
    /\ \A h \in Created :
         Live(h) /\ sess[h].socket
           /\ (sess[h].loading \/ sess[h].status = "LOGGEDIN") => h \in inWorld

-----------------------------------------------------------------------------
(* Action properties.                                                      *)

(* A connected session is deleted only when it has left or timed out, and  *)
(* is not loading the map; with 0xFF another session's end may take it.    *)
OnlyLeaversDeleted ==
    [][\A h \in Handles :
         Live(h) /\ Live(h)' = FALSE /\ sess[h].socket
           => \/ sess[h].leaving /\ ~sess[h].loading
              \/ sess[h].id = OverflowId]_vars

(* The connection timer never gives up on a client that has a packet       *)
(* waiting (WorldSession::Update, before the packet loop).                 *)
TimeoutOnlyWhenSilent ==
    [][\A h \in Handles :
         world.pc = "scan" /\ ~sess[h].leaving /\ sess'[h].leaving
           => recvQueue[h] = <<>>]_vars

(* What SessionLife promises a session with an id of its own, in terms of  *)
(* the registry, the kicked list and the place of the world thread.  One   *)
(* that has 0xFF for an id is not seen.                                    *)
Own(P) == {h \in P : FromPool(h)}

ConnOf(h) ==
    IF ~FromPool(h) \/ sess[h].obj = "unborn" THEN "unmade"
    ELSE IF sess[h].obj = "freed" THEN "gone"
    ELSE IF h \in kicked THEN "kicked"
    ELSE IF sess[h].socket THEN "open" ELSE "cut"

LifeConn   == [h \in Handles |-> ConnOf(h)]
OwnLoading == {h \in Own(Handles) : sess[h].loading}
OwnLeaving == {h \in Own(Handles) : sess[h].leaving}
OwnDue     == {h \in Own(Handles) : /\ registry[sess[h].id] = h
                                   /\ sess[h].id \in pending}
OwnTurn    == IF world.pc = "drain" /\ FromPool(world.sess) THEN world.sess
              ELSE Null
InPass     == world.pc # "idle"

Life == INSTANCE SessionLife WITH
    Sessions <- Handles, None <- Null, conn <- LifeConn,
    loading <- OwnLoading, leaving <- OwnLeaving, inWorld <- Own(inWorld),
    pass <- InPass, due <- OwnDue, turn <- OwnTurn

(* Together the two threads keep the life of a session in order: its turns *)
(* in a pass that others join and are kicked from, who may end it and      *)
(* when, and its player's stay in the world (World::Update, RemoveSession, *)
(* WorldSession::Update, LogoutPlayer).                                    *)
LifeKept == Life!Spec

-----------------------------------------------------------------------------
(* Liveness, under FairSpec.                                               *)

(* A registered session whose client has stopped sending, and that is not  *)
(* loading, is deleted: the connection timer runs out (WorldSession::      *)
(* Update).                                                                *)
SilentRemoved ==
    \A h \in Handles :
      <>[](recvQueue[h] = <<>> /\ ~sess[h].loading)
        => [](Live(h) => <>(~Live(h) \/ crashed \/ sess[h].id = OverflowId))

(* A session OnDelete kicked is deleted by a later World::Update.          *)
KickedDeleted ==
    \A h \in Handles : h \in kicked ~> (~Live(h) \/ crashed)

-----------------------------------------------------------------------------
(* What the code's comments say of it, and it does not do.                 *)

(* "also can return NULL for kicked session" (World.cpp:121): the caller   *)
(* that moves an ip-only entry makes sure there is a session behind it.    *)
RebindFindsSession ==
    [][\A c \in Addrs, op \in SocketOps \union ClientOps :
         ReceiveRebind(c, op) => FindSession(addrMap[IpOf[c]]) # Null]_vars

(* "put it in the world session queue for this user" (WorldSocket.cpp:188): *)
(* a packet is not dropped while a registered session has its sender for   *)
(* client.                                                                 *)
JoinedClientHeard ==
    net.pc = "deliver" /\ ~crashed /\ net.op \in SessionOps /\ ~HasSession =>
      ~\E i \in Ids : registry[i] \in Handles
                        /\ sess[registry[i]].client = net.from

(* "and remove not active sessions from the list" (World.cpp:596): a       *)
(* registered session whose client has stopped sending is removed.         *)
InactiveRemoved ==
    \A h \in Handles :
      <>[](recvQueue[h] = <<>>)
        => [](Live(h) => <>(~Live(h) \/ crashed \/ sess[h].id = OverflowId))
=============================================================================
