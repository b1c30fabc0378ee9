------------------------ MODULE WorldSessionsProofs ------------------------
(* Proofs about WorldSessions, for any number of addresses, ids, sessions  *)
(* and any timeout.                                                        *)
EXTENDS WorldSessions, TLAPS

USE IdAssumption, AddrAssumption, BoundAssumption, DiffAssumption,
    OpAssumption

-----------------------------------------------------------------------------
(* Type correctness.                                                       *)

LEMMA Constants ==
    /\ PoolIds \subseteq Nat /\ Ids \subseteq Nat
    /\ NoId \notin Ids /\ Null \notin Handles /\ Absent \notin Handles
    /\ Null # Absent /\ OverflowId \notin PoolIds
    /\ Handles \subseteq Nat
BY DEF PoolIds, Ids, NoId, Null, Absent, Handles

(* The records that the actions build from a session are sessions.         *)
LEMMA SessionRecords ==
    /\ \A id \in Ids \union {NoId}, c \in Addrs \union {NoAddr} :
         NewSession(id, c) \in Session
    /\ \A s \in Session : LoggedOut(s) \in Session /\ Freed(s) \in Session
<1>1. ASSUME NEW id \in Ids \union {NoId}, NEW c \in Addrs \union {NoAddr}
      PROVE  NewSession(id, c) \in Session
  <2>1. Timeout \in 0..Timeout
    OBVIOUS
  <2> QED
    BY <2>1 DEF Session, NewSession, Statuses
<1>2. ASSUME NEW s \in Session
      PROVE  LoggedOut(s) \in Session
  BY DEF Session, LoggedOut
<1>3. ASSUME NEW s \in Session
      PROVE  [s EXCEPT !.obj = "freed"] \in Session
  BY DEF Session
<1> QED
  BY <1>1, <1>2, <1>3 DEF Freed

LEMMA InitType == Init => TypeOK
<1> SUFFICES ASSUME Init PROVE TypeOK
  OBVIOUS
<1>1. sess \in [Handles -> Session]
  <2>1. /\ NewSession(NoId, NoAddr) \in Session
    BY SessionRecords
  <2>2. [NewSession(NoId, NoAddr) EXCEPT !.obj = "unborn", !.socket = FALSE]
          \in Session
    BY <2>1 DEF Session
  <2> QED
    BY <2>2 DEF Init
<1>2. /\ net \in Net /\ world \in World
  BY DEF Init, Net, World, IdleNet, SocketOps
<1>3. /\ addrMap \in [AddrKeys -> Ids \union {NoId}]
      /\ registry \in [Ids -> Handles \union {Null, Absent}]
  BY DEF Init
<1>4. recvQueue \in [Handles -> Seq(Packets)]
  BY DEF Init
<1>5. created \in 0..MaxSessions
  BY DEF Init
<1>6. crashed \in BOOLEAN
  BY DEF Init
<1> QED
  BY <1>1, <1>2, <1>3, <1>4, <1>5, <1>6 DEF Init, TypeOK

(* FindSession answers with a pointer, NULL included.                      *)
LEMMA FindSessionType ==
    ASSUME TypeOK, NEW id \in Ids \union {NoId}
    PROVE  /\ FindSession(id) \in Handles \union {Null}
           /\ FindSession(id) # Null => id \in Ids /\ registry[id] = FindSession(id)
BY Constants DEF TypeOK, FindSession

LEMMA ReceiveType ==
    ASSUME TypeOK, NEW c \in Addrs, NEW op \in SocketOps \union ClientOps,
           Receive(c, op)
    PROVE  TypeOK'
<1>1. /\ c \in AddrKeys /\ IpOf[c] \in AddrKeys
      /\ addrMap[c] \in Ids \union {NoId}
      /\ addrMap[IpOf[c]] \in Ids \union {NoId}
  BY DEF TypeOK, AddrKeys
<1>2. ASSUME NEW h \in Handles \union {Null}, Holds(h, c, op)
      PROVE  net' \in Net
  BY <1>2 DEF Holds, Net
<1>3. CASE ReceiveKnown(c, op)
  BY <1>1, <1>2, <1>3, FindSessionType DEF ReceiveKnown, TypeOK, worldVars
<1>4. CASE ReceiveRebind(c, op)
  <2> DEFINE h == FindSession(addrMap[IpOf[c]])
  <2>1. h \in Handles \union {Null}
    BY <1>1, FindSessionType
  <2>2. net' \in Net
    BY <1>2, <1>4, <2>1 DEF ReceiveRebind
  <2>3. sess' \in [Handles -> Session]
    <3>1. CASE h = Null
      BY <1>4, <3>1 DEF ReceiveRebind, TypeOK
    <3>2. CASE h # Null
      <4>1. h \in Handles /\ sess[h] \in Session
        BY <2>1, <3>2 DEF TypeOK
      <4>2. [sess[h] EXCEPT !.client = c] \in Session
        BY <4>1 DEF Session
      <4>3. sess' = [sess EXCEPT ![h] = [sess[h] EXCEPT !.client = c]]
        BY <1>4, <3>2, <4>1 DEF ReceiveRebind, TypeOK
      <4> QED
        BY <4>1, <4>2, <4>3 DEF TypeOK
    <3> QED
      BY <3>1, <3>2
  <2>4. addrMap' \in [AddrKeys -> Ids \union {NoId}]
    BY <1>1, <1>4 DEF ReceiveRebind, TypeOK
  <2>5. crashed' \in BOOLEAN
    BY <1>4 DEF ReceiveRebind
  <2> QED
    BY <1>4, <2>2, <2>3, <2>4, <2>5 DEF ReceiveRebind, TypeOK, worldVars
<1>5. CASE ReceiveStranger(c, op)
  BY <1>2, <1>5 DEF ReceiveStranger, TypeOK, worldVars
<1> QED
  BY <1>3, <1>4, <1>5 DEF Receive

LEMMA IdleNetType == IdleNet \in Net
BY DEF IdleNet, Net, SocketOps

LEMMA DeliverType ==
    ASSUME TypeOK, Deliver, created < MaxSessions \/ net.op # "Join",
           net.pc = "deliver" => net.from \in Addrs
    PROVE  TypeOK'
<1>1. CASE UseFreedSession
  BY <1>1 DEF UseFreedSession, TypeOK, netVars, worldVars
<1>2. CASE HandleLANPing
  BY <1>2, IdleNetType DEF HandleLANPing, Delivered, TypeOK, worldVars
<1>3. CASE HandleJoin
  <2>1. PICK id \in Ids :
          /\ RequestsFreeId(id)
          /\ sess' = [sess EXCEPT ![created + 1] = NewSession(id, net.from)]
          /\ AddSession(id, created + 1)
          /\ addrMap' = [addrMap EXCEPT ![IpOf[net.from]] = id]
    BY <1>3 DEF HandleJoin
  <2>2. created + 1 \in Handles /\ created' \in 0..MaxSessions
    BY <1>3 DEF HandleJoin, Delivering, TypeOK, Handles
  <2>3. sess' \in [Handles -> Session]
    <3>1. NewSession(id, net.from) \in Session
      BY <1>3, SessionRecords DEF HandleJoin, Delivering
    <3> QED
      BY <2>1, <2>2, <3>1 DEF TypeOK
  <2>4. freeIds' \subseteq PoolIds
    BY <2>1 DEF RequestsFreeId, TypeOK
  <2>5. registry' \in [Ids -> Handles \union {Null, Absent}]
    BY <2>1, <2>2 DEF AddSession, TypeOK
  <2>6. pending' \subseteq Ids
    BY <2>1 DEF AddSession, TypeOK
  <2>7. addrMap' \in [AddrKeys -> Ids \union {NoId}]
    BY <2>1 DEF TypeOK
  <2> QED
    BY <1>3, <2>2, <2>3, <2>4, <2>5, <2>6, <2>7, IdleNetType
    DEF HandleJoin, Delivered, TypeOK
<1>4. CASE QueuePacket
  <2>1. net.sess \in Handles
    BY <1>4 DEF QueuePacket, HasSession, TypeOK, Net
  <2>2. [from |-> net.from, op |-> net.op] \in Packets
    BY <1>4 DEF QueuePacket, Delivering, Packets
  <2>3. recvQueue' \in [Handles -> Seq(Packets)]
    <3>1. recvQueue[net.sess] \in Seq(Packets)
      BY <2>1 DEF TypeOK
    <3>2. Append(recvQueue[net.sess], [from |-> net.from, op |-> net.op])
            \in Seq(Packets)
      BY <2>2, <3>1
    <3> QED
      BY <1>4, <2>1, <3>2 DEF QueuePacket, TypeOK
  <2> QED
    BY <1>4, <2>3, IdleNetType DEF QueuePacket, Delivered, TypeOK, worldVars
<1>5. CASE DropPacket
  BY <1>5, IdleNetType DEF DropPacket, Delivered, TypeOK, worldVars
<1> QED
  BY <1>1, <1>2, <1>3, <1>4, <1>5 DEF Deliver

(* SetSocket(0) leaves the rest of the session as it was.                  *)
LEMMA SocketDropped ==
    ASSUME TypeOK, NEW h \in Handles
    PROVE  [sess EXCEPT ![h].socket = FALSE] \in [Handles -> Session]
<1>1. sess[h] \in Session
  BY DEF TypeOK
<1>2. [sess[h] EXCEPT !.socket = FALSE] \in Session
  BY <1>1 DEF Session
<1>3. [sess EXCEPT ![h].socket = FALSE] =
        [sess EXCEPT ![h] = [sess[h] EXCEPT !.socket = FALSE]]
  BY DEF TypeOK
<1> QED
  BY <1>2, <1>3 DEF TypeOK

LEMMA CloseType ==
    ASSUME TypeOK, OnDelete \/ Close
    PROVE  TypeOK'
<1>1. CASE OnDelete
  BY <1>1 DEF OnDelete, TypeOK, Net, worldVars
<1>2. ASSUME NEW k \in AddrKeys, DropSocket(k)
      PROVE  TypeOK'
  <2> DEFINE h == FindSession(addrMap[k])
  <2>1. addrMap[k] \in Ids \union {NoId} /\ h \in Handles \union {Null}
    BY FindSessionType DEF TypeOK
  <2>2. sess' \in [Handles -> Session]
    <3>1. CASE h = Null
      BY <1>2, <3>1 DEF DropSocket, TypeOK
    <3>2. CASE h # Null
      BY <1>2, <2>1, <3>2, SocketDropped DEF DropSocket
    <3> QED
      BY <3>1, <3>2
  <2>3. net' \in Net
    <3>1. [net EXCEPT !.pc = "removing", !.id = addrMap[k]] \in Net
      BY <2>1 DEF TypeOK, Net
    <3> QED
      BY <1>2, <3>1 DEF DropSocket, TypeOK
  <2> QED
    BY <1>2, <2>2, <2>3 DEF DropSocket, TypeOK, worldVars
<1>3. CASE RemoveSession
  <2> DEFINE h == FindSession(net.id)
  <2>1. /\ net.id \in Ids \union {NoId} /\ h \in Handles \union {Null}
        /\ (h # Null => net.id \in Ids)
    BY FindSessionType DEF TypeOK, Net
  <2>2. sess' \in [Handles -> Session]
    <3>1. CASE h = Null
      BY <1>3, <3>1 DEF RemoveSession, TypeOK
    <3>2. CASE h # Null
      BY <1>3, <2>1, <3>2, SocketDropped DEF RemoveSession, TypeOK
    <3> QED
      BY <3>1, <3>2
  <2>3. kicked' \subseteq Handles
    BY <1>3, <2>1 DEF RemoveSession, TypeOK
  <2>4. registry' \in [Ids -> Handles \union {Null, Absent}]
    BY <1>3, <2>1 DEF RemoveSession, TypeOK
  <2>5. net' \in Net
    BY <1>3 DEF RemoveSession, TypeOK, Net
  <2> QED
    BY <1>3, <2>2, <2>3, <2>4, <2>5 DEF RemoveSession, TypeOK, worldVars
<1>4. CASE SocketGone
  BY <1>4 DEF SocketGone, TypeOK, Net, worldVars
<1> QED
  BY <1>1, <1>2, <1>3, <1>4 DEF Close

(* The session in hand while the world thread drains a queue.              *)
DrainOK == world.pc = "drain" => world.id \in Ids /\ world.sess \in Handles

LEMMA HandlePacketType ==
    ASSUME TypeOK, DrainOK, HandlePacket
    PROVE  /\ TypeOK'
           /\ world.pc = "drain" /\ world.sess \in Handles
           /\ recvQueue[world.sess] # <<>>
           /\ recvQueue' =
                [recvQueue EXCEPT ![world.sess] = Tail(recvQueue[world.sess])]
           /\ sess[world.sess].socket
           /\ \E st \in Statuses, pl, ld, lv \in BOOLEAN :
                sess' = [sess EXCEPT ![world.sess] =
                           [sess[world.sess] EXCEPT !.status = st,
                              !.player = pl, !.loading = ld, !.leaving = lv]]
           /\ UNCHANGED <<addrMap, freeIds, registry, kicked, created, net,
                          closing, world, pending, crashed>>
<1> DEFINE w == world.sess
           Upd(st, pl, ld, lv) ==
             [sess EXCEPT ![w] = [sess[w] EXCEPT !.status = st,
                                    !.player = pl, !.loading = ld,
                                    !.leaving = lv]]
<1>1. PICK op \in SessionOps : TakesPacket(op)
  BY DEF HandlePacket, HandleJoinConfirmation, HandlePlayerJoin,
         HandlePlayerJoinShort, HandleClientReady, HandleOutgoingClient,
         HandleOther, SessionOps
<1>2. /\ world.pc = "drain" /\ w \in Handles
      /\ sess[w] \in Session /\ recvQueue[w] \in Seq(Packets)
      /\ recvQueue[w] # <<>> /\ sess[w].socket
      /\ recvQueue' = [recvQueue EXCEPT ![w] = Tail(recvQueue[w])]
      /\ UNCHANGED <<addrMap, freeIds, registry, kicked, created, net,
                     closing, world, pending, crashed>>
  BY <1>1 DEF TakesPacket, TypeOK, DrainOK, netVars, worldVars
<1>3. /\ sess[w].status \in Statuses /\ sess[w].player \in BOOLEAN
      /\ sess[w].loading \in BOOLEAN /\ sess[w].leaving \in BOOLEAN
      /\ \A st \in Statuses, pl, ld, lv \in BOOLEAN :
           [sess[w] EXCEPT !.status = st, !.player = pl, !.loading = ld,
                           !.leaving = lv] \in Session
  BY <1>2 DEF Session
<1>4. /\ inWorld' \subseteq Handles
      /\ \E st \in Statuses, pl, ld, lv \in BOOLEAN :
            sess' = Upd(st, pl, ld, lv)
  <2>1. sess = Upd(sess[w].status, sess[w].player, sess[w].loading,
                   sess[w].leaving)
    BY <1>2 DEF TypeOK, Session
  <2>2. CASE HandleJoinConfirmation
    <3>1. sess' = sess \/ sess' = Upd("CONFIRMED", sess[w].player,
                                     sess[w].loading, sess[w].leaving)
      BY <1>2, <2>2 DEF HandleJoinConfirmation, TypeOK, Session
    <3>2. inWorld' \subseteq Handles
      BY <2>2 DEF HandleJoinConfirmation, TypeOK
    <3>3. "CONFIRMED" \in Statuses
      BY DEF Statuses
    <3> HIDE DEF Upd
    <3>4. CASE sess' = sess
      BY <1>3, <2>1, <3>2, <3>4
    <3>5. CASE sess' = Upd("CONFIRMED", sess[w].player, sess[w].loading,
                           sess[w].leaving)
      BY <1>3, <3>2, <3>3, <3>5
    <3> QED
      BY <3>1, <3>4, <3>5
  <2>3. CASE HandlePlayerJoin
    <3>1. sess' = Upd("LOGGEDIN", TRUE, TRUE, sess[w].leaving)
      BY <1>2, <2>3 DEF HandlePlayerJoin, TypeOK, Session
    <3> QED
      BY <1>2, <1>3, <2>3, <3>1 DEF HandlePlayerJoin, TypeOK, Statuses
  <2>4. CASE HandlePlayerJoinShort
    <3>1. sess' = Upd(sess[w].status, TRUE, sess[w].loading, sess[w].leaving)
      BY <1>2, <2>4 DEF HandlePlayerJoinShort, TypeOK, Session
    <3> QED
      BY <1>3, <2>4, <3>1 DEF HandlePlayerJoinShort, TypeOK
  <2>5. CASE HandleClientReady
    <3>1. sess' = sess \/ sess' = Upd(sess[w].status, sess[w].player, FALSE,
                                     sess[w].leaving)
      BY <1>2, <2>5 DEF HandleClientReady, TypeOK, Session
    <3>2. inWorld' \subseteq Handles
      BY <2>5 DEF HandleClientReady, TypeOK
    <3> HIDE DEF Upd
    <3> QED
      BY <1>3, <2>1, <3>1, <3>2, Zenon
  <2>6. CASE HandleOutgoingClient
    <3>1. sess' = sess \/ sess' = Upd(sess[w].status, sess[w].player,
                                     sess[w].loading, TRUE)
      BY <1>2, <2>6 DEF HandleOutgoingClient, TypeOK, Session
    <3>2. inWorld' \subseteq Handles
      BY <2>6 DEF HandleOutgoingClient, TypeOK
    <3> HIDE DEF Upd
    <3> QED
      BY <1>3, <2>1, <3>1, <3>2, Zenon
  <2>7. CASE HandleOther
    BY <1>3, <2>1, <2>7 DEF HandleOther, TypeOK
  <2> QED
    BY <2>2, <2>3, <2>4, <2>5, <2>6, <2>7 DEF HandlePacket
<1>5. sess' \in [Handles -> Session]
  <2>1. PICK st \in Statuses, pl \in BOOLEAN, ld \in BOOLEAN, lv \in BOOLEAN :
          sess' = Upd(st, pl, ld, lv)
    BY <1>4
  <2>2. [sess[w] EXCEPT !.status = st, !.player = pl, !.loading = ld,
                        !.leaving = lv] \in Session
    BY <1>3
  <2> QED
    BY <1>2, <2>1, <2>2 DEF TypeOK
<1>6. recvQueue' \in [Handles -> Seq(Packets)]
  <2>1. Tail(recvQueue[w]) \in Seq(Packets)
    BY <1>2
  <2> QED
    BY <1>2, <2>1 DEF TypeOK
<1> QED
  BY <1>2, <1>4, <1>5, <1>6 DEF TypeOK

LEMMA WorldStepType ==
    ASSUME TypeOK, DrainOK, WorldStep
    PROVE  TypeOK'
<1>1. CASE StartPass
  <2>1. sess' \in [Handles -> Session]
    BY <1>1, SessionRecords DEF StartPass, TypeOK
  <2>2. recvQueue' \in [Handles -> Seq(Packets)]
    <3>1. <<>> \in Seq(Packets)
      OBVIOUS
    <3> QED
      BY <1>1, <3>1 DEF StartPass, TypeOK
  <2> QED
    BY <1>1, <2>1, <2>2 DEF StartPass, TypeOK, World, netVars
<1>2. ASSUME NEW i \in Ids, SkipKicked(i)
      PROVE  TypeOK'
  BY <1>2 DEF SkipKicked, TypeOK, netVars
<1>3. ASSUME NEW i \in Ids, NEW diff \in Diffs, BeginUpdate(i, diff)
      PROVE  TypeOK'
  <2> DEFINE h == registry[i]
  <2>1. h \in Handles /\ sess[h] \in Session
    BY <1>3 DEF BeginUpdate, TypeOK
  <2>2. TimerRuns(h, diff) \in Session
    <3>1. /\ [sess[h] EXCEPT !.timer = Timeout] \in Session
          /\ [sess[h] EXCEPT !.leaving = TRUE] \in Session
      <4>1. Timeout \in 0..Timeout
        OBVIOUS
      <4> QED
        BY <2>1, <4>1 DEF Session
    <3>2. ASSUME ~(sess[h].timer < diff)
          PROVE  [sess[h] EXCEPT !.timer = sess[h].timer - diff] \in Session
      <4>1. sess[h].timer \in 0..Timeout /\ diff \in 1..Timeout
        BY <2>1 DEF Session
      <4>2. sess[h].timer - diff \in 0..Timeout
        BY <3>2, <4>1
      <4> QED
        BY <2>1, <4>2 DEF Session
    <3> QED
      BY <3>1, <3>2 DEF TimerRuns
  <2>3. sess' \in [Handles -> Session]
    BY <1>3, <2>1, <2>2 DEF BeginUpdate, TypeOK
  <2>4. world' \in World
    BY <1>3, <2>1 DEF BeginUpdate, World
  <2> QED
    BY <1>3, <2>3, <2>4 DEF BeginUpdate, TypeOK, netVars
<1>4. CASE HandlePacket
  BY <1>4, HandlePacketType
<1>5. CASE EndUpdate
  <2>1. sess' \in [Handles -> Session]
    BY <1>5, SessionRecords DEF EndUpdate, TypeOK
  <2>2. recvQueue' \in [Handles -> Seq(Packets)]
    <3>1. <<>> \in Seq(Packets)
      OBVIOUS
    <3> QED
      BY <1>5, <3>1 DEF EndUpdate, TypeOK
  <2>3. registry' \in [Ids -> Handles \union {Null, Absent}]
    BY <1>5 DEF EndUpdate, TypeOK
  <2>4. world' \in World
    BY <1>5 DEF EndUpdate, World
  <2>5. inWorld' \subseteq Handles
    BY <1>5 DEF EndUpdate, TypeOK
  <2> QED
    BY <1>5, <2>1, <2>2, <2>3, <2>4, <2>5 DEF EndUpdate, TypeOK, netVars
<1>6. CASE FinishPass
  BY <1>6 DEF FinishPass, TypeOK, World, netVars
<1> QED
  BY <1>1, <1>2, <1>3, <1>4, <1>5, <1>6 DEF WorldStep

-----------------------------------------------------------------------------
(* The inductive invariant.  What the properties say of the registry, the  *)
(* address map and the queues holds because of what the two threads hold   *)
(* between their steps, which the properties do not mention.               *)

(* Session objects appear in order and have an id from then on.            *)
CreatedOK ==
    \A h \in Handles :
      /\ sess[h].obj # "unborn" <=> h \in Created
      /\ h \in Created => sess[h].id \in Ids
      /\ h \notin Created => recvQueue[h] = <<>>

(* An address key with a pool id took it out of the free ids.              *)
KeysTaken == \A k \in AddrKeys : addrMap[k] \notin freeIds

(* What OnRawData carries from the look-up to the use: a pointer to a      *)
(* session there has been, found under the sender's full address.          *)
NetOK ==
    net.pc = "deliver" =>
      /\ net.from \in Addrs
      /\ net.op = "Join" => created < MaxSessions
      /\ net.sess \in Handles =>
           /\ net.sess \in Created
           /\ FromPool(net.sess) => addrMap[net.from] = sess[net.sess].id

(* A session reachable by its ip alone has not been sent anything yet.     *)
UnboundSilent ==
    \A h \in Created, k \in Ips :
      FromPool(h) /\ addrMap[k] = sess[h].id => recvQueue[h] = <<>>

(* Kicked sessions lost their socket to OnDelete, which has begun by then. *)
KickedOK ==
    \A h \in kicked : /\ h \in Created
                      /\ ~sess[h].socket
                      /\ net.pc \in {"closing", "removing", "closed"}

(* The session in hand while the world thread drains a queue.              *)
WorldOK ==
    world.pc = "drain" =>
      Live(world.sess) /\ sess[world.sess].id = world.id

IInv ==
    /\ TypeOK /\ DrainOK /\ CreatedOK /\ KeysTaken /\ NetOK
    /\ UnboundSilent /\ KickedOK /\ WorldOK
    /\ IdsExclusive /\ RegistryExact /\ BindingUnique /\ NoCrossDelivery
    /\ PlayersInWorld

LEMMA InitInv == Init => IInv
<1> SUFFICES ASSUME Init PROVE IInv
  OBVIOUS
<1>1. TypeOK
  BY InitType
<1>2. Created = {} /\ created = 0
  BY DEF Init, Created
<1>3. DrainOK /\ WorldOK /\ NetOK /\ KickedOK
  BY DEF Init, DrainOK, WorldOK, NetOK, KickedOK, IdleNet
<1>4. CreatedOK
  BY <1>2, SessionRecords DEF Init, CreatedOK, NewSession
<1>5. KeysTaken
  BY Constants DEF Init, KeysTaken, Ids
<1>6. RegistryExact
  BY <1>2, Constants DEF Init, RegistryExact
<1>7. /\ UnboundSilent /\ IdsExclusive /\ BindingUnique /\ NoCrossDelivery
      /\ PlayersInWorld
  BY <1>2 DEF Init, UnboundSilent, IdsExclusive, BindingUnique,
              NoCrossDelivery, PlayersInWorld
<1> QED
  BY <1>1, <1>3, <1>4, <1>5, <1>6, <1>7 DEF IInv

(* The steps that only move the network thread.                            *)
LEMMA NetFrame ==
    ASSUME IInv, TypeOK', NetOK', KickedOK',
           UNCHANGED <<addrMap, freeIds, registry, kicked, sess, recvQueue,
                       created, inWorld, world>>
    PROVE  IInv'
<1>1. DrainOK' /\ CreatedOK' /\ KeysTaken' /\ UnboundSilent' /\ WorldOK'
  BY DEF IInv, DrainOK, CreatedOK, KeysTaken, UnboundSilent, WorldOK, Created,
         FromPool, Live
<1>2. /\ IdsExclusive' /\ RegistryExact' /\ BindingUnique'
      /\ NoCrossDelivery' /\ PlayersInWorld'
  BY DEF IInv, IdsExclusive, RegistryExact, BindingUnique, NoCrossDelivery,
         PlayersInWorld, Created, FromPool, Live
<1> QED
  BY <1>1, <1>2 DEF IInv

(* What FindSession returns is registered, so alive, under the id asked.   *)
LEMMA FindSessionLive ==
    ASSUME IInv, NEW id \in Ids \union {NoId}, FindSession(id) # Null
    PROVE  /\ FindSession(id) \in Handles
           /\ FindSession(id) \in Created
           /\ Live(FindSession(id))
           /\ sess[FindSession(id)].id = id
           /\ id \in Ids /\ registry[id] = FindSession(id)
<1>1. /\ FindSession(id) \in Handles
      /\ id \in Ids /\ registry[id] = FindSession(id)
  BY FindSessionType DEF IInv
<1> QED
  BY <1>1 DEF IInv, RegistryExact, CreatedOK, Live

LEMMA ReceiveInv ==
    ASSUME IInv, NEW c \in Addrs, NEW op \in SocketOps \union ClientOps,
           Receive(c, op)
    PROVE  IInv'
<1>1. TypeOK'
  BY ReceiveType DEF IInv
<1>2. kicked = {} /\ (op = "Join" => created < MaxSessions)
  BY DEF IInv, KickedOK, Receive, ReceiveKnown, ReceiveRebind,
         ReceiveStranger, Receives
<1>3. /\ c \in AddrKeys /\ IpOf[c] \in AddrKeys /\ IpOf[c] \in Ips
      /\ IpOf[c] # c
      /\ addrMap[c] \in Ids \union {NoId}
      /\ addrMap[IpOf[c]] \in Ids \union {NoId}
      /\ NoId \notin Ids
  BY Constants DEF IInv, TypeOK, AddrKeys
<1>4. CASE ReceiveKnown(c, op)
  <2>1. NetOK'
    BY <1>2, <1>3, <1>4, FindSessionLive, Constants
    DEF ReceiveKnown, Holds, NetOK, Created, FromPool
  <2>2. KickedOK'
    BY <1>2, <1>4 DEF ReceiveKnown, KickedOK
  <2> QED
    BY <1>1, <1>4, <2>1, <2>2, NetFrame DEF ReceiveKnown, worldVars
<1>5. CASE ReceiveStranger(c, op)
  <2>1. NetOK' /\ KickedOK'
    BY <1>2, <1>5, Constants DEF ReceiveStranger, Holds, NetOK, KickedOK
  <2> QED
    BY <1>1, <1>5, <2>1, NetFrame DEF ReceiveStranger, worldVars
<1>6. CASE ReceiveRebind(c, op)
  <2> DEFINE id == addrMap[IpOf[c]]
             h  == FindSession(id)
  <2>1. /\ id \in Ids /\ id # NoId /\ addrMap[c] = NoId
        /\ addrMap' = [addrMap EXCEPT ![c] = id, ![IpOf[c]] = NoId]
        /\ Holds(h, c, op)
        /\ sess' = IF h = Null THEN sess ELSE [sess EXCEPT ![h].client = c]
        /\ UNCHANGED <<freeIds, registry, kicked, recvQueue, created, inWorld,
                       closing, world, pending>>
    BY <1>3, <1>6 DEF ReceiveRebind, worldVars
  <2>2. h # Null => /\ h \in Created /\ h \in Handles /\ Live(h)
                    /\ sess[h].id = id /\ registry[id] = h
    BY <1>3, <2>1, FindSessionLive
  <2>3. \A g \in Handles :
          /\ sess'[g].obj = sess[g].obj /\ sess'[g].id = sess[g].id
          /\ sess'[g].socket = sess[g].socket
          /\ sess'[g].player = sess[g].player
          /\ sess'[g].loading = sess[g].loading
          /\ sess'[g].status = sess[g].status
          /\ (g = h => sess'[g].client = c)
          /\ (g # h => sess'[g].client = sess[g].client)
    BY <2>1, <2>2, Constants DEF IInv, TypeOK, Session
  <2>4. Created' = Created /\ Created \subseteq Handles
    BY <2>1 DEF Created, IInv, TypeOK, Handles
  <2>5. \A k \in AddrKeys :
          addrMap'[k] = IF k = c THEN id
                        ELSE IF k = IpOf[c] THEN NoId ELSE addrMap[k]
    BY <1>3, <2>1 DEF IInv, TypeOK
  <2>6. DrainOK' /\ CreatedOK' /\ WorldOK'
    BY <2>1, <2>3, <2>4
    DEF IInv, DrainOK, CreatedOK, WorldOK, Live
  <2>7. KeysTaken'
    BY <1>3, <2>1, <2>5, Constants DEF IInv, KeysTaken, TypeOK, NoId, PoolIds
  <2>8. NetOK'
    <3>1. /\ net' = [pc |-> "deliver", sess |-> h, id |-> NoId, from |-> c,
                   op |-> op]
          /\ addrMap'[c] = id
      BY <1>3, <2>1, <2>5 DEF Holds
    <3>2. h \in Handles => h \in Created /\ sess'[h].id = id
      BY <2>2, <2>3, Constants
    <3> QED
      BY <1>2, <2>1, <2>4, <3>1, <3>2 DEF NetOK
  <2>9. UnboundSilent'
    <3> SUFFICES ASSUME NEW g \in Created, NEW k \in Ips, FromPool(g)',
                        addrMap'[k] = sess'[g].id
                 PROVE  recvQueue'[g] = <<>>
      BY <2>4 DEF UnboundSilent
    <3>1. FromPool(g) /\ sess'[g].id = sess[g].id /\ sess[g].id # NoId
      BY <2>3, <2>4, Constants DEF FromPool, NoId, PoolIds
    <3>2. k # c /\ k \in AddrKeys
      BY <1>3 DEF AddrKeys
    <3>3. addrMap[k] = sess[g].id
      BY <2>5, <3>1, <3>2
    <3> QED
      BY <2>1, <3>1, <3>3 DEF IInv, UnboundSilent
  <2>10. KickedOK'
    BY <1>2, <2>1 DEF KickedOK
  <2>11. IdsExclusive' /\ RegistryExact'
    BY <2>1, <2>3, <2>4
    DEF IInv, IdsExclusive, RegistryExact, FromPool, Live, TypeOK
  <2>12. BindingUnique'
    <3> SUFFICES ASSUME NEW g \in Created, FromPool(g)',
                        NEW j \in AddrKeys, NEW k \in AddrKeys,
                        addrMap'[j] = sess'[g].id
                 PROVE  /\ addrMap'[k] = sess'[g].id => j = k
                        /\ j \in Addrs /\ Live(g)' => sess'[g].client = j
      BY <2>4 DEF BindingUnique
    <3>1. /\ FromPool(g) /\ sess'[g].id = sess[g].id /\ sess[g].id # NoId
          /\ Live(g)' = Live(g)
      BY <2>3, <2>4, Constants DEF FromPool, NoId, PoolIds, Live
    <3>2. \A m, n \in AddrKeys :
            addrMap[m] = sess[g].id =>
              /\ addrMap[n] = sess[g].id => m = n
              /\ m \in Addrs /\ Live(g) => sess[g].client = m
      BY <3>1 DEF IInv, BindingUnique
    <3>3. sess[g].id = id /\ Live(g) => g = h
      <4>1. sess[g].id = id /\ Live(g) => registry[id] = g
        BY <1>2, <3>1 DEF IInv, RegistryExact
      <4> QED
        BY <2>1, <2>4, <4>1 DEF FindSession
    <3>4. sess[g].id = id => addrMap[IpOf[c]] = sess[g].id
      OBVIOUS
    <3>5. CASE sess[g].id = id
      <4>1. j = c
        BY <1>3, <2>5, <3>1, <3>2, <3>4, <3>5
      <4>2. addrMap'[k] = sess'[g].id => k = c
        BY <1>3, <2>5, <3>1, <3>2, <3>4, <3>5
      <4> QED
        BY <2>3, <2>4, <3>1, <3>3, <3>5, <4>1, <4>2
    <3>6. CASE sess[g].id # id
      <4>1. j # c /\ j # IpOf[c] /\ addrMap[j] = sess[g].id
        BY <2>5, <3>1, <3>6
      <4>2. addrMap'[k] = sess'[g].id => addrMap[k] = sess[g].id
        BY <2>5, <3>1, <3>6
      <4>3. g # h
        BY <2>2, <2>4, <3>6, Constants
      <4> QED
        BY <2>3, <2>4, <3>1, <3>2, <4>1, <4>2, <4>3
    <3> QED
      BY <3>5, <3>6
  <2>13. NoCrossDelivery'
    <3> SUFFICES ASSUME NEW g \in Created, FromPool(g)',
                        NEW n \in 1..Len(recvQueue[g])
                 PROVE  recvQueue[g][n].from = sess'[g].client
      BY <2>1, <2>4 DEF NoCrossDelivery
    <3>1. FromPool(g)
      BY <2>3, <2>4 DEF FromPool
    <3>2. CASE g = h
      <4>1. addrMap[IpOf[c]] = sess[g].id
        BY <2>2, <2>4, <3>2, Constants
      <4>2. recvQueue[g] = <<>>
        BY <1>3, <3>1, <4>1 DEF IInv, UnboundSilent
      <4> QED
        BY <4>2
    <3>3. CASE g # h
      BY <2>3, <2>4, <3>1, <3>3 DEF IInv, NoCrossDelivery
    <3> QED
      BY <3>2, <3>3
  <2>14. PlayersInWorld'
    BY <2>1, <2>3, <2>4 DEF IInv, PlayersInWorld, Live, TypeOK
  <2> QED
    BY <1>1, <2>6, <2>7, <2>8, <2>9, <2>10, <2>11, <2>12, <2>13, <2>14
    DEF IInv
<1> QED
  BY <1>4, <1>5, <1>6 DEF Receive

LEMMA HandleJoinInv ==
    ASSUME IInv, HandleJoin, TypeOK'
    PROVE  IInv'
<1> DEFINE h == created + 1
           c == net.from
<1>1. PICK id \in Ids :
        /\ RequestsFreeId(id)
        /\ sess' = [sess EXCEPT ![h] = NewSession(id, c)]
        /\ AddSession(id, h)
        /\ addrMap' = [addrMap EXCEPT ![IpOf[c]] = id]
  BY DEF HandleJoin
<1>2. /\ created' = created + 1 /\ net' = IdleNet
      /\ UNCHANGED <<kicked, recvQueue, inWorld, closing, world, crashed>>
      /\ net.pc = "deliver" /\ net.op = "Join"
  BY DEF HandleJoin, Delivered, Delivering
<1>3. /\ c \in Addrs /\ IpOf[c] \in AddrKeys /\ IpOf[c] \notin Addrs
      /\ h \in Handles /\ h \notin Created
      /\ Created' = Created \union {h} /\ Created \subseteq Handles
      /\ kicked = {}
  <2>1. c \in Addrs /\ created < MaxSessions /\ created \in 0..MaxSessions
    BY <1>2 DEF IInv, NetOK, TypeOK
  <2>2. kicked = {}
    BY <1>2 DEF IInv, KickedOK
  <2> QED
    BY <1>2, <2>1, <2>2 DEF AddrKeys, Handles, Created
<1>4. /\ sess'[h] = NewSession(id, c)
      /\ \A g \in Handles : g # h => sess'[g] = sess[g]
      /\ sess[h].obj = "unborn" /\ recvQueue[h] = <<>>
  BY <1>1, <1>3 DEF IInv, TypeOK, CreatedOK
<1>5. /\ sess'[h].obj = "live" /\ sess'[h].id = id /\ sess'[h].client = c
      /\ sess'[h].socket /\ ~sess'[h].loading /\ sess'[h].status = "AUTHED"
  BY <1>4 DEF NewSession
<1>6. /\ freeIds' \subseteq freeIds /\ id \notin freeIds'
      /\ id \in PoolIds => id \in freeIds
      /\ freeIds \subseteq PoolIds
  BY <1>1, Constants DEF RequestsFreeId, IInv, TypeOK, Ids
<1>7. /\ \A g \in Created : id \in PoolIds => sess[g].id # id
      /\ \A k \in AddrKeys : id \in PoolIds => addrMap[k] # id
  BY <1>6 DEF IInv, IdsExclusive, KeysTaken
<1>8. \A k \in AddrKeys :
        addrMap'[k] = IF k = IpOf[c] THEN id ELSE addrMap[k]
  BY <1>1, <1>3 DEF IInv, TypeOK
<1>9. \A i \in Ids : registry'[i] = IF i = id THEN h ELSE registry[i]
  BY <1>1 DEF AddSession, IInv, TypeOK
<1>10. DrainOK' /\ KickedOK'
  BY <1>2, <1>3 DEF IInv, DrainOK, KickedOK
<1>11. NetOK'
  BY <1>2 DEF NetOK, IdleNet
<1>12. CreatedOK'
  BY <1>2, <1>3, <1>4, <1>5 DEF IInv, CreatedOK
<1>13. KeysTaken'
  BY <1>6, <1>8 DEF IInv, KeysTaken
<1>14. WorldOK'
  <2>1. world.pc = "drain" => world.sess # h /\ world.sess \in Handles
    BY <1>4 DEF IInv, WorldOK, DrainOK, Live
  <2> QED
    BY <1>2, <1>4, <2>1 DEF IInv, WorldOK, Live
<1>15. UnboundSilent'
  <2> SUFFICES ASSUME NEW g \in Created', NEW k \in Ips, FromPool(g)',
                      addrMap'[k] = sess'[g].id
               PROVE  recvQueue[g] = <<>>
    BY <1>2 DEF UnboundSilent
  <2>1. CASE g = h
    BY <1>4, <2>1
  <2>2. CASE g # h
    <3>1. g \in Created /\ FromPool(g) /\ sess'[g] = sess[g]
      BY <1>3, <1>4, <2>2 DEF FromPool
    <3>2. k \in AddrKeys /\ addrMap[k] = sess[g].id
      BY <1>7, <1>8, <3>1 DEF AddrKeys, FromPool
    <3> QED
      BY <3>1, <3>2 DEF IInv, UnboundSilent
  <2> QED
    BY <2>1, <2>2
<1>16. IdsExclusive'
  <2>1. ASSUME NEW g \in Created'
        PROVE  sess'[g].id \notin freeIds'
    BY <1>3, <1>4, <1>5, <1>6 DEF IInv, IdsExclusive
  <2>2. ASSUME NEW g \in Created', NEW f \in Created', f # g, FromPool(g)'
        PROVE  sess'[f].id # sess'[g].id
    <3>1. CASE g = h
      BY <1>3, <1>4, <1>5, <1>7, <2>2, <3>1 DEF FromPool
    <3>2. CASE f = h
      BY <1>3, <1>4, <1>5, <1>7, <2>2, <3>2 DEF FromPool
    <3>3. CASE f # h /\ g # h
      BY <1>3, <1>4, <2>2, <3>3 DEF IInv, IdsExclusive, FromPool
    <3> QED
      BY <3>1, <3>2, <3>3
  <2> QED
    BY <2>1, <2>2 DEF IdsExclusive
<1>17. RegistryExact'
  <2>1. ASSUME NEW i \in Ids, registry'[i] \in Handles
        PROVE  Live(registry[i])' /\ sess'[registry'[i]].id = i
    <3>1. CASE i = id
      BY <1>5, <1>9, <3>1 DEF Live
    <3>2. CASE i # id
      <4>1. /\ registry'[i] = registry[i] /\ Live(registry[i])
            /\ sess[registry[i]].id = i
        BY <1>9, <2>1, <3>2 DEF IInv, RegistryExact
      <4>2. registry[i] # h
        BY <1>4, <4>1 DEF Live
      <4> QED
        BY <1>4, <2>1, <4>1, <4>2 DEF Live
    <3> QED
      BY <3>1, <3>2
  <2>2. ASSUME NEW g \in Created', Live(g)', FromPool(g)'
        PROVE  registry'[sess'[g].id] = g
    <3>1. CASE g = h
      BY <1>5, <1>9, <3>1
    <3>2. CASE g # h
      <4>1. g \in Created /\ sess'[g] = sess[g] /\ FromPool(g) /\ Live(g)
        BY <1>3, <1>4, <2>2, <3>2 DEF FromPool, Live
      <4>2. registry[sess[g].id] = g /\ sess[g].id # id /\ sess[g].id \in Ids
        BY <1>3, <1>7, <4>1 DEF IInv, RegistryExact, FromPool, CreatedOK
      <4> QED
        BY <1>9, <4>1, <4>2
    <3> QED
      BY <3>1, <3>2
  <2> QED
    BY <1>2, <1>3, <2>1, <2>2 DEF RegistryExact
<1>18. BindingUnique'
  <2> SUFFICES ASSUME NEW g \in Created', FromPool(g)',
                      NEW j \in AddrKeys, NEW k \in AddrKeys,
                      addrMap'[j] = sess'[g].id
               PROVE  /\ addrMap'[k] = sess'[g].id => j = k
                      /\ j \in Addrs /\ Live(g)' => sess'[g].client = j
    BY DEF BindingUnique
  <2>1. CASE g = h
    BY <1>3, <1>5, <1>7, <1>8, <2>1 DEF FromPool
  <2>2. CASE g # h
    <3>1. /\ g \in Created /\ sess'[g] = sess[g] /\ FromPool(g)
          /\ sess[g].id # id /\ Live(g)' = Live(g)
      BY <1>3, <1>4, <1>7, <2>2 DEF FromPool, Live
    <3>2. /\ addrMap[j] = sess[g].id
          /\ addrMap'[k] = sess[g].id => addrMap[k] = sess[g].id
      BY <1>8, <3>1
    <3> QED
      BY <3>1, <3>2 DEF IInv, BindingUnique
  <2> QED
    BY <2>1, <2>2
<1>19. NoCrossDelivery'
  <2> SUFFICES ASSUME NEW g \in Created', FromPool(g)',
                      NEW n \in 1..Len(recvQueue[g])
               PROVE  recvQueue[g][n].from = sess'[g].client
    BY <1>2 DEF NoCrossDelivery
  <2>1. CASE g = h
    BY <1>4, <2>1
  <2>2. CASE g # h
    BY <1>3, <1>4, <2>2 DEF IInv, NoCrossDelivery, FromPool
  <2> QED
    BY <2>1, <2>2
<1>20. PlayersInWorld'
  <2>1. ASSUME NEW g \in inWorld PROVE Live(g)' /\ sess'[g].player
    <3>1. Live(g) /\ sess[g].player /\ g # h /\ g \in Handles
      BY <1>4 DEF IInv, PlayersInWorld, Live, TypeOK
    <3> QED
      BY <1>4, <3>1 DEF Live
  <2>2. ASSUME NEW g \in Created', Live(g)', sess'[g].socket,
               sess'[g].loading \/ sess'[g].status = "LOGGEDIN"
        PROVE  g \in inWorld
    <3>1. g # h
      BY <1>5, <2>2
    <3> QED
      BY <1>3, <1>4, <2>2, <3>1 DEF IInv, PlayersInWorld, Live
  <2> QED
    BY <1>2, <2>1, <2>2 DEF PlayersInWorld
<1> QED
  BY <1>10, <1>11, <1>12, <1>13, <1>14, <1>15, <1>16, <1>17, <1>18, <1>19,
     <1>20 DEF IInv

LEMMA AppendIndex ==
    ASSUME NEW S, NEW q \in Seq(S), NEW e \in S,
           NEW n \in 1..Len(Append(q, e))
    PROVE  \/ n = Len(q) + 1 /\ Append(q, e)[n] = e
           \/ n \in 1..Len(q) /\ Append(q, e)[n] = q[n]
OBVIOUS

LEMMA QueuePacketInv ==
    ASSUME IInv, QueuePacket, TypeOK'
    PROVE  IInv'
<1> DEFINE h == net.sess
           pkt == [from |-> net.from, op |-> net.op]
<1>1. /\ net.pc = "deliver" /\ net' = IdleNet
      /\ recvQueue' = [recvQueue EXCEPT ![h] = Append(recvQueue[h], pkt)]
      /\ UNCHANGED <<addrMap, freeIds, registry, kicked, sess, created,
                     inWorld, closing, world>>
  BY DEF QueuePacket, Delivering, Delivered, worldVars
<1>2. /\ h \in Handles /\ h \in Created /\ net.from \in Addrs
      /\ FromPool(h) => addrMap[net.from] = sess[h].id
      /\ Live(h) /\ kicked = {}
  <2>1. h \in Handles /\ sess[h].obj # "freed" /\ sess[h] \in Session
    BY DEF QueuePacket, HasSession, HoldsFreed, IInv, TypeOK, Net
  <2>2. /\ h \in Created /\ net.from \in Addrs
        /\ FromPool(h) => addrMap[net.from] = sess[h].id
    BY <1>1, <2>1 DEF IInv, NetOK
  <2>3. Live(h)
    BY <2>1, <2>2 DEF IInv, CreatedOK, Session, Live
  <2>4. kicked = {}
    BY <1>1 DEF IInv, KickedOK
  <2> QED
    BY <2>1, <2>2, <2>3, <2>4
<1>3. \A g \in Handles :
        recvQueue'[g] = IF g = h THEN Append(recvQueue[h], pkt)
                        ELSE recvQueue[g]
  BY <1>1 DEF IInv, TypeOK
<1>4. Created' = Created /\ Created \subseteq Handles
  BY <1>1 DEF Created, Handles, IInv, TypeOK
<1>5. /\ DrainOK' /\ KeysTaken' /\ WorldOK' /\ NetOK' /\ KickedOK'
      /\ IdsExclusive' /\ RegistryExact' /\ BindingUnique'
      /\ PlayersInWorld'
  BY <1>1, <1>2, <1>4
  DEF IInv, DrainOK, KeysTaken, WorldOK, NetOK, KickedOK, IdsExclusive,
      RegistryExact, BindingUnique, PlayersInWorld, IdleNet, FromPool, Live
<1>6. CreatedOK'
  BY <1>1, <1>2, <1>3, <1>4 DEF IInv, CreatedOK
<1>7. UnboundSilent'
  <2> SUFFICES ASSUME NEW g \in Created, NEW k \in Ips, FromPool(g),
                      addrMap[k] = sess[g].id
               PROVE  recvQueue'[g] = <<>>
    BY <1>1, <1>4 DEF UnboundSilent, FromPool
  <2>1. g # h
    <3>1. k # net.from /\ k \in AddrKeys /\ net.from \in AddrKeys
      BY <1>2 DEF AddrKeys
    <3> QED
      BY <1>2, <3>1 DEF IInv, BindingUnique
  <2> QED
    BY <1>3, <1>4, <2>1 DEF IInv, UnboundSilent
<1>8. NoCrossDelivery'
  <2> SUFFICES ASSUME NEW g \in Created, FromPool(g),
                      NEW n \in 1..Len(recvQueue'[g])
               PROVE  recvQueue'[g][n].from = sess[g].client
    BY <1>1, <1>4 DEF NoCrossDelivery, FromPool
  <2>1. CASE g = h
    <3>1. net.from = sess[h].client
      BY <1>2, <2>1 DEF IInv, BindingUnique, AddrKeys
    <3>2. /\ recvQueue[h] \in Seq(Packets)
          /\ pkt \in Packets /\ pkt.from = net.from
      BY <1>2 DEF IInv, TypeOK, QueuePacket, Packets
    <3> HIDE DEF pkt
    <3>3. recvQueue'[g] = Append(recvQueue[h], pkt)
      BY <1>2, <1>3, <2>1
    <3>4. \A m \in 1..Len(recvQueue[h]) :
            recvQueue[h][m].from = sess[h].client
      BY <2>1 DEF IInv, NoCrossDelivery
    <3>5. \/ recvQueue'[g][n] = pkt
          \/ n \in 1..Len(recvQueue[h]) /\ recvQueue'[g][n] = recvQueue[h][n]
      BY <3>2, <3>3, AppendIndex
    <3> QED
      BY <2>1, <3>1, <3>2, <3>4, <3>5
  <2>2. CASE g # h
    BY <1>3, <1>4, <2>2 DEF IInv, NoCrossDelivery
  <2> QED
    BY <2>1, <2>2
<1> QED
  BY <1>5, <1>6, <1>7, <1>8 DEF IInv

LEMMA DeliverInv ==
    ASSUME IInv, Deliver
    PROVE  IInv'
<1>1. TypeOK'
  <2>1. net.pc = "deliver"
    BY DEF Deliver, UseFreedSession, HandleLANPing, HandleJoin, QueuePacket,
           DropPacket, Delivering
  <2> QED
    BY <2>1, DeliverType DEF IInv, NetOK
<1>2. kicked = {}
  BY DEF Deliver, UseFreedSession, HandleLANPing, HandleJoin, QueuePacket,
         DropPacket, Delivering, IInv, KickedOK
<1>3. CASE UseFreedSession
  <2>1. NetOK' /\ KickedOK'
    BY <1>2, <1>3
    DEF UseFreedSession, IInv, NetOK, KickedOK, netVars, Created, FromPool
  <2> QED
    BY <1>1, <1>3, <2>1, NetFrame DEF UseFreedSession, netVars, worldVars
<1>4. CASE HandleLANPing
  <2>1. NetOK' /\ KickedOK'
    BY <1>2, <1>4 DEF HandleLANPing, Delivered, IdleNet, NetOK, KickedOK
  <2> QED
    BY <1>1, <1>4, <2>1, NetFrame DEF HandleLANPing, worldVars
<1>5. CASE DropPacket
  <2>1. NetOK' /\ KickedOK'
    BY <1>2, <1>5 DEF DropPacket, Delivered, IdleNet, NetOK, KickedOK
  <2> QED
    BY <1>1, <1>5, <2>1, NetFrame DEF DropPacket, worldVars
<1> QED
  BY <1>1, <1>3, <1>4, <1>5, HandleJoinInv, QueuePacketInv DEF Deliver

(* The steps that change neither who a session is nor what it is sent:     *)
(* sockets may be dropped, and the rest of a session's record is its own.  *)
LEMMA IdentityFrame ==
    ASSUME IInv, TypeOK',
           UNCHANGED <<addrMap, freeIds, recvQueue, created, inWorld>>,
           \A g \in Handles :
             /\ sess'[g].obj = sess[g].obj /\ sess'[g].id = sess[g].id
             /\ sess'[g].client = sess[g].client
             /\ sess'[g].player = sess[g].player
             /\ sess'[g].loading = sess[g].loading
             /\ sess'[g].status = sess[g].status
             /\ sess'[g].socket => sess[g].socket
    PROVE  /\ CreatedOK' /\ KeysTaken' /\ UnboundSilent'
           /\ IdsExclusive' /\ BindingUnique' /\ NoCrossDelivery'
           /\ PlayersInWorld'
           /\ Created' = Created /\ Created \subseteq Handles
           /\ \A g \in Handles : /\ Live(g)' = Live(g)
                                 /\ FromPool(g)' = FromPool(g)
<1>1. /\ Created' = Created /\ Created \subseteq Handles
      /\ \A g \in Handles : /\ Live(g)' = Live(g)
                            /\ FromPool(g)' = FromPool(g)
  BY DEF Created, Handles, IInv, TypeOK, Live, FromPool
<1>2. CreatedOK' /\ KeysTaken' /\ UnboundSilent'
  BY <1>1 DEF IInv, CreatedOK, KeysTaken, UnboundSilent
<1>3. IdsExclusive' /\ NoCrossDelivery'
  BY <1>1 DEF IInv, IdsExclusive, NoCrossDelivery
<1>4. BindingUnique'
  BY <1>1 DEF IInv, BindingUnique
<1>5. PlayersInWorld'
  BY <1>1 DEF IInv, PlayersInWorld, TypeOK
<1> QED
  BY <1>1, <1>2, <1>3, <1>4, <1>5

LEMMA CloseInv ==
    ASSUME IInv, OnDelete \/ Close
    PROVE  IInv'
<1>1. TypeOK'
  BY CloseType DEF IInv
<1>2. CASE OnDelete
  <2>1. NetOK' /\ KickedOK'
    BY <1>2 DEF OnDelete, IInv, TypeOK, Net, NetOK, KickedOK
  <2> QED
    BY <1>1, <1>2, <2>1, NetFrame DEF OnDelete, worldVars
<1>3. CASE SocketGone
  <2>1. NetOK' /\ KickedOK'
    BY <1>3 DEF SocketGone, IInv, TypeOK, Net, NetOK, KickedOK, Created
  <2> QED
    BY <1>1, <1>3, <2>1, NetFrame DEF SocketGone, worldVars
<1>4. ASSUME NEW k \in AddrKeys, DropSocket(k)
      PROVE  IInv'
  <2> DEFINE h == FindSession(addrMap[k])
  <2>1. /\ UNCHANGED <<addrMap, freeIds, registry, kicked, recvQueue, created,
                       inWorld, world>>
        /\ sess' = IF h = Null THEN sess ELSE [sess EXCEPT ![h].socket = FALSE]
        /\ net'.pc \in {"closing", "removing"}
    BY <1>4 DEF DropSocket, IInv, TypeOK, Net, worldVars
  <2>2. h \in Handles \union {Null}
    BY FindSessionType DEF IInv, TypeOK
  <2>3. \A g \in Handles :
          /\ sess'[g].obj = sess[g].obj /\ sess'[g].id = sess[g].id
          /\ sess'[g].client = sess[g].client
          /\ sess'[g].player = sess[g].player
          /\ sess'[g].loading = sess[g].loading
          /\ sess'[g].status = sess[g].status
          /\ sess'[g].socket => sess[g].socket
    BY <2>1, <2>2 DEF IInv, TypeOK, Session
  <2>4. /\ CreatedOK' /\ KeysTaken' /\ UnboundSilent'
        /\ IdsExclusive' /\ BindingUnique' /\ NoCrossDelivery'
        /\ PlayersInWorld'
        /\ Created' = Created /\ Created \subseteq Handles
        /\ \A g \in Handles : /\ Live(g)' = Live(g)
                              /\ FromPool(g)' = FromPool(g)
    BY <1>1, <2>1, <2>3, IdentityFrame
  <2>5. DrainOK' /\ WorldOK'
    BY <2>1, <2>3, <2>4 DEF IInv, DrainOK, WorldOK
  <2>6. NetOK' /\ KickedOK'
    BY <2>1, <2>3, <2>4 DEF IInv, NetOK, KickedOK
  <2>7. RegistryExact'
    BY <2>1, <2>3, <2>4 DEF IInv, RegistryExact
  <2> QED
    BY <1>1, <2>4, <2>5, <2>6, <2>7 DEF IInv
<1>5. CASE RemoveSession
  <2> DEFINE h == FindSession(net.id)
             removed == h # Null /\ ~sess[h].loading
  <2>1. /\ UNCHANGED <<addrMap, freeIds, recvQueue, created, inWorld, world>>
        /\ kicked' = IF removed THEN kicked \union {h} ELSE kicked
        /\ sess' = IF removed THEN [sess EXCEPT ![h].socket = FALSE] ELSE sess
        /\ registry' = IF removed THEN [registry EXCEPT ![net.id] = Null]
                       ELSE registry
        /\ net'.pc = "closing"
    BY <1>5 DEF RemoveSession, IInv, TypeOK, Net, worldVars
  <2>2. h # Null => /\ h \in Handles /\ h \in Created /\ Live(h)
                    /\ sess[h].id = net.id /\ net.id \in Ids
    BY FindSessionLive DEF IInv, TypeOK, Net
  <2>3. \A g \in Handles :
          /\ sess'[g].obj = sess[g].obj /\ sess'[g].id = sess[g].id
          /\ sess'[g].client = sess[g].client
          /\ sess'[g].player = sess[g].player
          /\ sess'[g].loading = sess[g].loading
          /\ sess'[g].status = sess[g].status
          /\ sess'[g].socket => sess[g].socket
    BY <2>1, <2>2 DEF IInv, TypeOK, Session
  <2>4. /\ CreatedOK' /\ KeysTaken' /\ UnboundSilent'
        /\ IdsExclusive' /\ BindingUnique' /\ NoCrossDelivery'
        /\ PlayersInWorld'
        /\ Created' = Created /\ Created \subseteq Handles
        /\ \A g \in Handles : /\ Live(g)' = Live(g)
                              /\ FromPool(g)' = FromPool(g)
    BY <1>1, <2>1, <2>3, IdentityFrame
  <2>5. DrainOK' /\ WorldOK'
    BY <2>1, <2>3, <2>4 DEF IInv, DrainOK, WorldOK
  <2>6. NetOK'
    BY <2>1 DEF NetOK
  <2>7. KickedOK'
    <3>1. removed => ~sess'[h].socket
      BY <2>1, <2>2 DEF IInv, TypeOK, Session
    <3> QED
      BY <2>1, <2>2, <2>3, <2>4, <3>1 DEF IInv, KickedOK
  <2>8. RegistryExact'
    <3>1. CASE ~removed
      BY <2>1, <2>3, <2>4, <3>1 DEF IInv, RegistryExact
    <3>2. CASE removed
      <4>1. /\ \A i \in Ids : registry'[i] = IF i = net.id THEN Null
                                            ELSE registry[i]
            /\ kicked' = kicked \union {h}
        BY <2>1, <2>2, <3>2 DEF IInv, TypeOK
      <4>2. ASSUME NEW i \in Ids, registry'[i] \in Handles
            PROVE  Live(registry[i])' /\ sess'[registry'[i]].id = i
        <5>1. registry'[i] = registry[i] /\ registry[i] \in Handles
          BY <4>1, <4>2, Constants
        <5>2. Live(registry[i]) /\ sess[registry[i]].id = i
          BY <5>1 DEF IInv, RegistryExact
        <5> QED
          BY <2>3, <5>1, <5>2 DEF Live
      <4>3. ASSUME NEW g \in Created
            PROVE  /\ g \in kicked' => Live(g)' /\ registry'[sess'[g].id] # g
                   /\ Live(g)' /\ FromPool(g)' =>
                        registry'[sess'[g].id] = g \/ g \in kicked'
        <5>1. /\ g \in Handles /\ sess'[g].id = sess[g].id
              /\ sess[g].id \in Ids /\ Null # g
              /\ Live(g)' = Live(g) /\ FromPool(g)' = FromPool(g)
          BY <2>3, <2>4, Constants DEF IInv, CreatedOK
        <5>2. /\ g \in kicked => Live(g) /\ registry[sess[g].id] # g
              /\ Live(g) /\ FromPool(g) =>
                   registry[sess[g].id] = g \/ g \in kicked
          BY DEF IInv, RegistryExact
        <5>3. sess[g].id = net.id /\ registry[net.id] = g => g = h
          BY <5>1 DEF FindSession, PoolIds, Ids, NoId
        <5>4. h # Null /\ Live(h) /\ sess[h].id = net.id
          BY <2>2, <3>2
        <5>5. registry'[sess[g].id] =
                IF sess[g].id = net.id THEN Null ELSE registry[sess[g].id]
          BY <4>1, <5>1
        <5> HIDE DEF h
        <5>6. g \in kicked' => g \in kicked \/ g = h
          BY <4>1
        <5>7. g \in kicked' => Live(g)' /\ registry'[sess'[g].id] # g
          BY <5>1, <5>2, <5>4, <5>5, <5>6
        <5>8. Live(g)' /\ FromPool(g)' =>
                registry'[sess'[g].id] = g \/ g \in kicked'
          BY <4>1, <5>1, <5>2, <5>3, <5>5
        <5> QED
          BY <5>7, <5>8
      <4> QED
        BY <2>4, <4>2, <4>3 DEF RegistryExact
    <3> QED
      BY <3>1, <3>2
  <2> QED
    BY <1>1, <2>4, <2>5, <2>6, <2>7, <2>8 DEF IInv
<1> QED
  BY <1>2, <1>3, <1>4, <1>5 DEF Close

(* The two places that delete sessions: what holds of the survivors when a *)
(* set of living sessions is freed, and with them their queues.            *)
LEMMA FreedFrame ==
    ASSUME IInv, TypeOK', NEW D, NEW left,
           UNCHANGED <<addrMap, freeIds, created, net>>,
           \A h \in D \intersect Handles : Live(h),
           \A h \in left : Live(h),
           sess' = [h \in Handles |-> IF h \in D THEN Freed(sess[h])
                                     ELSE IF h \in left THEN LoggedOut(sess[h])
                                     ELSE sess[h]],
           recvQueue' = [h \in Handles |-> IF h \in D THEN <<>>
                                          ELSE recvQueue[h]],
           inWorld' = (inWorld \ left) \ D
    PROVE  /\ CreatedOK' /\ KeysTaken' /\ NetOK' /\ UnboundSilent'
           /\ IdsExclusive' /\ BindingUnique' /\ NoCrossDelivery'
           /\ PlayersInWorld'
           /\ Created' = Created /\ Created \subseteq Handles
           /\ \A h \in Handles :
                /\ sess'[h].id = sess[h].id /\ FromPool(h)' = FromPool(h)
                /\ Live(h)' = (Live(h) /\ h \notin D)
                /\ sess'[h].socket => sess[h].socket
<1>1. Created' = Created /\ Created \subseteq Handles
  BY DEF Created, Handles, IInv, TypeOK
<1>2. \A h \in Handles :
        /\ sess'[h].id = sess[h].id /\ sess'[h].client = sess[h].client
        /\ sess'[h].obj = IF h \in D THEN "freed" ELSE sess[h].obj
        /\ sess'[h].socket = (sess[h].socket /\ h \notin D /\ h \notin left)
        /\ sess'[h].player = (sess[h].player /\ h \notin D /\ h \notin left)
        /\ sess'[h].loading = sess[h].loading
        /\ sess'[h].status = sess[h].status
        /\ recvQueue'[h] = IF h \in D THEN <<>> ELSE recvQueue[h]
  <2> SUFFICES ASSUME NEW h \in Handles
               PROVE  /\ sess'[h].id = sess[h].id
                      /\ sess'[h].client = sess[h].client
                      /\ sess'[h].obj = IF h \in D THEN "freed" ELSE sess[h].obj
                      /\ sess'[h].socket =
                           (sess[h].socket /\ h \notin D /\ h \notin left)
                      /\ sess'[h].player =
                           (sess[h].player /\ h \notin D /\ h \notin left)
                      /\ sess'[h].loading = sess[h].loading
                      /\ sess'[h].status = sess[h].status
                      /\ recvQueue'[h] = IF h \in D THEN <<>>
                                         ELSE recvQueue[h]
    OBVIOUS
  <2>1. sess[h] \in Session
    BY DEF IInv, TypeOK
  <2>2. sess'[h] = IF h \in D THEN Freed(sess[h])
                   ELSE IF h \in left THEN LoggedOut(sess[h]) ELSE sess[h]
    OBVIOUS
  <2>3. CASE h \in D
    BY <2>1, <2>2, <2>3 DEF Session, Freed, LoggedOut
  <2>4. CASE h \notin D /\ h \in left
    BY <2>1, <2>2, <2>4 DEF Session, LoggedOut
  <2>5. CASE h \notin D /\ h \notin left
    BY <2>1, <2>2, <2>5 DEF Session
  <2> QED
    BY <2>3, <2>4, <2>5
<1>3. \A h \in Handles :
        /\ FromPool(h)' = FromPool(h)
        /\ Live(h)' = (Live(h) /\ h \notin D)
        /\ sess[h].obj # "unborn" <=> sess'[h].obj # "unborn"
  BY <1>2 DEF FromPool, Live
<1>4. CreatedOK' /\ KeysTaken' /\ NetOK'
  BY <1>1, <1>2, <1>3 DEF IInv, CreatedOK, KeysTaken, NetOK
<1>5. /\ IdsExclusive' /\ UnboundSilent' /\ BindingUnique'
  <2>1. IdsExclusive'
    BY <1>1, <1>2, <1>3 DEF IInv, IdsExclusive
  <2>2. UnboundSilent'
    <3> SUFFICES ASSUME NEW h \in Created, NEW k \in Ips, FromPool(h)',
                        addrMap[k] = sess'[h].id
                 PROVE  recvQueue'[h] = <<>>
      BY <1>1 DEF UnboundSilent
    <3>1. FromPool(h) /\ addrMap[k] = sess[h].id
      BY <1>1, <1>2, <1>3
    <3>2. recvQueue[h] = <<>>
      BY <3>1 DEF IInv, UnboundSilent
    <3> QED
      BY <1>1, <1>2, <3>2
  <2>3. BindingUnique'
    <3> SUFFICES ASSUME NEW h \in Created, FromPool(h)',
                        NEW j \in AddrKeys, NEW k \in AddrKeys,
                        addrMap[j] = sess'[h].id
                 PROVE  /\ addrMap[k] = sess'[h].id => j = k
                        /\ j \in Addrs /\ Live(h)' => sess'[h].client = j
      BY <1>1 DEF BindingUnique
    <3>1. /\ FromPool(h) /\ addrMap[j] = sess[h].id
          /\ sess'[h].id = sess[h].id /\ sess'[h].client = sess[h].client
          /\ Live(h)' => Live(h)
      BY <1>1, <1>2, <1>3
    <3>2. /\ addrMap[k] = sess[h].id => j = k
          /\ j \in Addrs /\ Live(h) => sess[h].client = j
      BY <3>1 DEF IInv, BindingUnique
    <3> QED
      BY <3>1, <3>2
  <2> QED
    BY <2>1, <2>2, <2>3
<1>6. NoCrossDelivery'
  BY <1>1, <1>2, <1>3 DEF IInv, NoCrossDelivery
<1>7. PlayersInWorld'
  BY <1>1, <1>2, <1>3 DEF IInv, PlayersInWorld, TypeOK
<1> QED
  BY <1>1, <1>2, <1>3, <1>4, <1>5, <1>6, <1>7

LEMMA StartPassInv ==
    ASSUME IInv, StartPass, TypeOK'
    PROVE  IInv'
<1> DEFINE left == {}
<1>1. /\ UNCHANGED <<addrMap, freeIds, registry, created, net>>
      /\ kicked' = {} /\ world'.pc = "scan"
      /\ sess' = [h \in Handles |-> IF h \in kicked THEN Freed(sess[h])
                                    ELSE IF h \in left THEN LoggedOut(sess[h])
                                    ELSE sess[h]]
      /\ recvQueue' = [h \in Handles |-> IF h \in kicked THEN <<>>
                                         ELSE recvQueue[h]]
      /\ inWorld' = (inWorld \ left) \ kicked
  BY DEF StartPass, netVars, IInv, TypeOK, World
<1>2. \A h \in kicked : /\ h \in Created /\ Live(h)
                        /\ registry[sess[h].id] # h
  BY DEF IInv, KickedOK, RegistryExact
<1>3. /\ CreatedOK' /\ KeysTaken' /\ NetOK' /\ UnboundSilent'
      /\ IdsExclusive' /\ BindingUnique' /\ NoCrossDelivery'
      /\ PlayersInWorld'
      /\ Created' = Created /\ Created \subseteq Handles
      /\ \A h \in Handles :
           /\ sess'[h].id = sess[h].id /\ FromPool(h)' = FromPool(h)
           /\ Live(h)' = (Live(h) /\ h \notin kicked)
  <2>1. \A h \in kicked \intersect Handles : Live(h)
    BY <1>2
  <2>2. \A h \in left : Live(h)
    OBVIOUS
  <2> HIDE DEF left
  <2> QED
    BY <1>1, <2>1, <2>2, FreedFrame
<1>4. DrainOK' /\ WorldOK' /\ KickedOK'
  BY <1>1 DEF DrainOK, WorldOK, KickedOK
<1>5. RegistryExact'
  <2>1. ASSUME NEW i \in Ids, registry[i] \in Handles
        PROVE  Live(registry[i])' /\ sess'[registry[i]].id = i
    <3>1. Live(registry[i]) /\ sess[registry[i]].id = i
      BY <2>1 DEF IInv, RegistryExact
    <3>2. registry[i] \notin kicked
      BY <1>2, <3>1
    <3>3. sess'[registry[i]] = sess[registry[i]] /\ registry' = registry
      BY <1>1, <2>1, <3>2
    <3> QED
      BY <3>1, <3>3 DEF Live
  <2>2. ASSUME NEW h \in Created, Live(h)', FromPool(h)'
        PROVE  registry[sess'[h].id] = h
    BY <1>3, <2>2 DEF IInv, RegistryExact
  <2> QED
    BY <1>1, <1>3, <2>1, <2>2 DEF RegistryExact
<1> QED
  BY <1>3, <1>4, <1>5 DEF IInv

LEMMA EndUpdateInv ==
    ASSUME IInv, EndUpdate, TypeOK'
    PROVE  IInv'
<1> DEFINE w   == world.sess
           out == LogsOut(sess[w])
           D   == IF out THEN {registry[world.id]} \ {Null} ELSE {}
           left == IF out THEN {w} ELSE {}
<1>1. /\ UNCHANGED <<addrMap, freeIds, kicked, created, net>>
      /\ world.pc = "drain" /\ world'.pc = "scan"
      /\ sess' = [h \in Handles |-> IF h \in D THEN Freed(sess[h])
                                    ELSE IF h \in left THEN LoggedOut(sess[h])
                                    ELSE sess[h]]
      /\ recvQueue' = [h \in Handles |-> IF h \in D THEN <<>>
                                         ELSE recvQueue[h]]
      /\ inWorld' = (inWorld \ left) \ D
      /\ registry' = IF out THEN [registry EXCEPT ![world.id] = Absent]
                     ELSE registry
  BY DEF EndUpdate, netVars
<1>2. /\ world.id \in Ids /\ w \in Handles /\ w \in Created
      /\ Live(w) /\ sess[w].id = world.id
  BY <1>1 DEF IInv, DrainOK, WorldOK, CreatedOK, Live
<1>3. \A h \in D \intersect Handles :
        Live(h) /\ sess[h].id = world.id /\ registry[world.id] = h
  BY <1>2 DEF IInv, RegistryExact
<1>4. /\ CreatedOK' /\ KeysTaken' /\ NetOK' /\ UnboundSilent'
      /\ IdsExclusive' /\ BindingUnique' /\ NoCrossDelivery'
      /\ PlayersInWorld'
      /\ Created' = Created /\ Created \subseteq Handles
      /\ \A h \in Handles :
           /\ sess'[h].id = sess[h].id /\ FromPool(h)' = FromPool(h)
           /\ Live(h)' = (Live(h) /\ h \notin D)
           /\ sess'[h].socket => sess[h].socket
  <2>1. /\ \A h \in D \intersect Handles : Live(h)
        /\ \A h \in left : Live(h)
    BY <1>2, <1>3
  <2> HIDE DEF D, left
  <2> QED
    BY <1>1, <2>1, FreedFrame
<1>5. DrainOK' /\ WorldOK' /\ KickedOK'
  BY <1>1, <1>4 DEF IInv, DrainOK, WorldOK, KickedOK
<1>6. \A i \in Ids : registry'[i] = IF out /\ i = world.id THEN Absent
                                    ELSE registry[i]
  BY <1>1 DEF IInv, TypeOK
<1>7. RegistryExact'
  <2>1. ASSUME NEW i \in Ids, registry'[i] \in Handles
        PROVE  Live(registry[i])' /\ sess'[registry'[i]].id = i
    <3>1. /\ registry'[i] = registry[i] /\ registry[i] \in Handles
          /\ ~out \/ i # world.id
      BY <1>6, <2>1, Constants
    <3>2. Live(registry[i]) /\ sess[registry[i]].id = i
      BY <3>1 DEF IInv, RegistryExact
    <3>3. registry[i] \notin D
      BY <1>3, <3>1, <3>2
    <3>4. sess'[registry[i]].obj = "live" /\ sess'[registry[i]].id = i
      <4> HIDE DEF D
      <4> QED
        BY <1>4, <3>1, <3>2, <3>3 DEF Live
    <3> QED
      BY <3>1, <3>4 DEF Live
  <2>2. ASSUME NEW h \in Created
        PROVE  /\ h \in kicked => Live(h)' /\ registry'[sess'[h].id] # h
               /\ Live(h)' /\ FromPool(h)' =>
                    registry'[sess'[h].id] = h \/ h \in kicked
    <3>1. /\ h \in Handles /\ sess[h].id \in Ids /\ sess'[h].id = sess[h].id
          /\ registry'[sess[h].id] = IF out /\ sess[h].id = world.id
                                     THEN Absent ELSE registry[sess[h].id]
          /\ Absent # h /\ Null # h
      BY <1>4, <1>6, Constants DEF IInv, CreatedOK
    <3>2. /\ h \in kicked => Live(h) /\ registry[sess[h].id] # h
          /\ Live(h) /\ FromPool(h) =>
               registry[sess[h].id] = h \/ h \in kicked
      BY DEF IInv, RegistryExact
    <3>3. h \in D <=> out /\ registry[world.id] = h
      BY <3>1
    <3>4. h \in D => sess[h].id = world.id
      BY <1>3, <3>1
    <3>5. Live(h)' = (Live(h) /\ h \notin D) /\ FromPool(h)' = FromPool(h)
      BY <1>4, <3>1
    <3> HIDE DEF D, out
    <3>6. h \in kicked => Live(h)' /\ registry'[sess'[h].id] # h
      BY <3>1, <3>2, <3>3, <3>4, <3>5
    <3>7. Live(h)' /\ FromPool(h)' =>
            registry'[sess'[h].id] = h \/ h \in kicked
      BY <3>1, <3>2, <3>3, <3>5
    <3> QED
      BY <3>6, <3>7
  <2> QED
    BY <1>1, <1>4, <2>1, <2>2 DEF RegistryExact
<1> QED
  BY <1>4, <1>5, <1>7 DEF IInv

LEMMA BeginUpdateInv ==
    ASSUME IInv, NEW i \in Ids, NEW diff \in Diffs, BeginUpdate(i, diff), TypeOK'
    PROVE  IInv'
<1> DEFINE h == registry[i]
<1>1. /\ UNCHANGED <<addrMap, freeIds, registry, kicked, recvQueue, created,
                     inWorld, net>>
      /\ h \in Handles
      /\ sess' = [sess EXCEPT ![h] = TimerRuns(h, diff)]
      /\ world' = [pc |-> "drain", id |-> i, sess |-> h]
  BY DEF BeginUpdate, netVars
<1>2. Live(h) /\ sess[h].id = i
  BY <1>1 DEF IInv, RegistryExact
<1>3. \A g \in Handles :
        /\ sess'[g].obj = sess[g].obj /\ sess'[g].id = sess[g].id
        /\ sess'[g].client = sess[g].client
        /\ sess'[g].player = sess[g].player
        /\ sess'[g].loading = sess[g].loading
        /\ sess'[g].status = sess[g].status
        /\ sess'[g].socket = sess[g].socket
  <2>1. sess[h] \in Session
    BY <1>1 DEF IInv, TypeOK
  <2>2. LET s == TimerRuns(h, diff)
        IN  /\ s.obj = sess[h].obj /\ s.id = sess[h].id
            /\ s.client = sess[h].client /\ s.player = sess[h].player
            /\ s.loading = sess[h].loading /\ s.status = sess[h].status
            /\ s.socket = sess[h].socket
    BY <2>1 DEF TimerRuns, Session
  <2> QED
    BY <1>1, <2>2 DEF IInv, TypeOK
<1>4. /\ CreatedOK' /\ KeysTaken' /\ UnboundSilent'
      /\ IdsExclusive' /\ BindingUnique' /\ NoCrossDelivery'
      /\ PlayersInWorld'
      /\ Created' = Created /\ Created \subseteq Handles
      /\ \A g \in Handles : Live(g)' = Live(g) /\ FromPool(g)' = FromPool(g)
  BY <1>1, <1>3, IdentityFrame
<1>5. DrainOK' /\ WorldOK'
  <2>1. sess'[h].obj = "live" /\ sess'[h].id = i
    BY <1>1, <1>2, <1>3 DEF Live
  <2> QED
    BY <1>1, <2>1 DEF DrainOK, WorldOK, Live
<1>6. NetOK' /\ KickedOK'
  BY <1>1, <1>3, <1>4 DEF IInv, NetOK, KickedOK
<1>7. RegistryExact'
  BY <1>1, <1>3, <1>4 DEF IInv, RegistryExact
<1> QED
  BY <1>4, <1>5, <1>6, <1>7 DEF IInv

(* A packet handler touches status, player, loading and leaving of the     *)
(* session in hand, and only a full join enters the world.                 *)
LEMMA HandlePacketPlayers ==
    ASSUME IInv, HandlePacket
    PROVE  PlayersInWorld'
<1> DEFINE w == world.sess
<1>1. /\ w \in Handles /\ sess[w] \in Session /\ Live(w)
      /\ sess \in [Handles -> Session] /\ inWorld \subseteq Handles
      /\ created' = created
  BY HandlePacketType DEF IInv, TypeOK, WorldOK
<1>2. Created' = Created /\ Created \subseteq Handles
  BY <1>1 DEF Created, Handles, IInv, TypeOK
<1>3. /\ \A h \in inWorld : h \in Handles /\ Live(h) /\ sess[h].player
      /\ \A h \in Created :
           Live(h) /\ sess[h].socket
             /\ (sess[h].loading \/ sess[h].status = "LOGGEDIN") => h \in inWorld
  BY <1>1 DEF IInv, PlayersInWorld
<1>4. SUFFICES /\ inWorld \subseteq inWorld'
               /\ inWorld' \subseteq inWorld \union {w}
               /\ \A h \in Handles : /\ sess'[h].obj = sess[h].obj
                                     /\ sess'[h].socket = sess[h].socket
                                     /\ sess[h].player => sess'[h].player
                                     /\ h # w => sess'[h] = sess[h]
               /\ w \in inWorld' => w \in inWorld \/ sess'[w].player
               /\ \/ w \in inWorld'
                  \/ /\ sess'[w].loading => sess[w].loading
                     /\ sess'[w].status = "LOGGEDIN" =>
                          sess[w].status = "LOGGEDIN"
  BY <1>1, <1>2, <1>3 DEF PlayersInWorld, Live
<1>5. CASE HandleJoinConfirmation
  BY <1>1, <1>5 DEF HandleJoinConfirmation, Session
<1>6. CASE HandlePlayerJoin
  BY <1>1, <1>6 DEF HandlePlayerJoin, Session
<1>7. CASE HandlePlayerJoinShort
  BY <1>1, <1>7 DEF HandlePlayerJoinShort, Session
<1>8. CASE HandleClientReady
  BY <1>1, <1>8 DEF HandleClientReady, Session
<1>9. CASE HandleOutgoingClient
  BY <1>1, <1>9 DEF HandleOutgoingClient, Session
<1>10. CASE HandleOther
  BY <1>1, <1>10 DEF HandleOther
<1> QED
  BY <1>5, <1>6, <1>7, <1>8, <1>9, <1>10 DEF HandlePacket

LEMMA TailIndex ==
    ASSUME NEW S, NEW q \in Seq(S), q # <<>>, NEW n \in 1..Len(Tail(q))
    PROVE  n + 1 \in 1..Len(q) /\ Tail(q)[n] = q[n + 1]
OBVIOUS

LEMMA HandlePacketInv ==
    ASSUME IInv, HandlePacket
    PROVE  IInv'
<1> DEFINE w == world.sess
<1>1. /\ TypeOK' /\ PlayersInWorld' /\ TypeOK
      /\ world.pc = "drain" /\ w \in Handles /\ recvQueue[w] # <<>>
      /\ recvQueue' = [recvQueue EXCEPT ![w] = Tail(recvQueue[w])]
      /\ UNCHANGED <<addrMap, freeIds, registry, kicked, created, net,
                     closing, world>>
  BY HandlePacketType, HandlePacketPlayers DEF IInv
<1>2. \A g \in Handles :
        /\ sess'[g].obj = sess[g].obj /\ sess'[g].id = sess[g].id
        /\ sess'[g].client = sess[g].client
        /\ sess'[g].socket = sess[g].socket
        /\ recvQueue'[g] = IF g = w THEN Tail(recvQueue[w]) ELSE recvQueue[g]
  <2>1. PICK st \in Statuses, pl \in BOOLEAN, ld \in BOOLEAN, lv \in BOOLEAN :
          sess' = [sess EXCEPT ![w] = [sess[w] EXCEPT !.status = st,
                     !.player = pl, !.loading = ld, !.leaving = lv]]
    BY HandlePacketType DEF IInv
  <2>2. sess[w] \in Session
    BY <1>1 DEF TypeOK
  <2>3. LET s == [sess[w] EXCEPT !.status = st, !.player = pl, !.loading = ld,
                                 !.leaving = lv]
        IN  /\ s.obj = sess[w].obj /\ s.id = sess[w].id
            /\ s.client = sess[w].client /\ s.socket = sess[w].socket
    BY <2>2 DEF Session
  <2> QED
    BY <1>1, <2>1, <2>3 DEF TypeOK
<1>3. /\ Created' = Created /\ Created \subseteq Handles
      /\ \A g \in Handles : Live(g)' = Live(g) /\ FromPool(g)' = FromPool(g)
  BY <1>1, <1>2 DEF Created, Handles, TypeOK, Live, FromPool
<1>4. w \in Created
  BY <1>1 DEF IInv, WorldOK, CreatedOK, Live
<1>5. DrainOK' /\ CreatedOK' /\ KeysTaken'
  BY <1>1, <1>2, <1>3, <1>4 DEF IInv, DrainOK, CreatedOK, KeysTaken
<1>6. NetOK' /\ KickedOK' /\ WorldOK'
  BY <1>1, <1>2, <1>3 DEF IInv, NetOK, KickedOK, WorldOK
<1>7. IdsExclusive' /\ RegistryExact'
  BY <1>1, <1>2, <1>3 DEF IInv, IdsExclusive, RegistryExact
<1>8. BindingUnique'
  BY <1>1, <1>2, <1>3 DEF IInv, BindingUnique
<1>9. UnboundSilent'
  BY <1>1, <1>2, <1>3 DEF IInv, UnboundSilent
<1>10. NoCrossDelivery'
  <2> SUFFICES ASSUME NEW h \in Created, FromPool(h)',
                      NEW n \in 1..Len(recvQueue'[h])
               PROVE  recvQueue'[h][n].from = sess'[h].client
    BY <1>3 DEF NoCrossDelivery
  <2>1. FromPool(h) /\ sess'[h].client = sess[h].client
    BY <1>2, <1>3
  <2>2. \A m \in 1..Len(recvQueue[h]) : recvQueue[h][m].from = sess[h].client
    BY <2>1 DEF IInv, NoCrossDelivery
  <2>3. CASE h = w
    <3>1. recvQueue[w] \in Seq(Packets) /\ n \in 1..Len(Tail(recvQueue[w]))
      BY <1>1, <1>2, <2>3 DEF TypeOK
    <3>2. n + 1 \in 1..Len(recvQueue[w])
          /\ Tail(recvQueue[w])[n] = recvQueue[w][n + 1]
      BY <1>1, <3>1, TailIndex
    <3> QED
      BY <1>1, <1>2, <2>1, <2>2, <2>3, <3>2
  <2>4. CASE h # w
    BY <1>2, <1>3, <2>1, <2>2, <2>4
  <2> QED
    BY <2>3, <2>4
<1> QED
  BY <1>1, <1>5, <1>6, <1>7, <1>8, <1>9, <1>10 DEF IInv

LEMMA WorldStepInv ==
    ASSUME IInv, WorldStep
    PROVE  IInv'
<1>1. TypeOK'
  BY WorldStepType DEF IInv
<1>2. ASSUME NEW i \in Ids, SkipKicked(i)
      PROVE  IInv'
  <2>1. NetOK' /\ KickedOK'
    BY <1>2 DEF SkipKicked, netVars, IInv, NetOK, KickedOK, Created, FromPool
  <2> QED
    BY <1>1, <1>2, <2>1, NetFrame DEF SkipKicked, netVars
<1>3. CASE FinishPass
  <2>1. /\ UNCHANGED <<addrMap, freeIds, registry, kicked, sess, recvQueue,
                       created, inWorld, net>>
        /\ world'.pc = "idle"
    BY <1>3 DEF FinishPass, netVars, IInv, TypeOK, World
  <2>2. /\ DrainOK' /\ WorldOK' /\ NetOK' /\ KickedOK' /\ CreatedOK'
        /\ KeysTaken' /\ UnboundSilent'
    BY <2>1
    DEF DrainOK, WorldOK, IInv, NetOK, KickedOK, CreatedOK, KeysTaken,
        UnboundSilent, Created, FromPool
  <2>3. /\ IdsExclusive' /\ RegistryExact' /\ BindingUnique'
        /\ NoCrossDelivery' /\ PlayersInWorld'
    BY <2>1
    DEF IInv, IdsExclusive, RegistryExact, BindingUnique, NoCrossDelivery,
        PlayersInWorld, Created, FromPool, Live
  <2> QED
    BY <1>1, <2>2, <2>3 DEF IInv
<1> QED
  BY <1>1, <1>2, <1>3, StartPassInv, BeginUpdateInv, HandlePacketInv,
     EndUpdateInv DEF WorldStep

LEMMA NextInv == IInv /\ [Next]_vars => IInv'
<1> SUFFICES ASSUME IInv, [Next]_vars PROVE IInv'
  OBVIOUS
<1>1. CASE UNCHANGED vars
  <2>1. TypeOK'
    BY <1>1 DEF vars, IInv, TypeOK
  <2>2. NetOK' /\ KickedOK'
    BY <1>1 DEF vars, IInv, NetOK, KickedOK, Created, FromPool
  <2> QED
    BY <1>1, <2>1, <2>2, NetFrame DEF vars
<1>2. CASE Next
  BY <1>2, ReceiveInv, DeliverInv, CloseInv, WorldStepInv DEF Next
<1> QED
  BY <1>1, <1>2

-----------------------------------------------------------------------------
(* The theorems.                                                           *)

(* Every state either thread can reach satisfies the inductive invariant.  *)
THEOREM Invariance == Spec => []IInv
BY InitInv, NextInv, PTL DEF Spec

(* The types the code's declarations give its data are kept (TypeOK).      *)
THEOREM TypeCorrect == Spec => []TypeOK
<1>1. IInv => TypeOK
  BY DEF IInv
<1> QED
  BY <1>1, Invariance, PTL

(* RequestFreeId never hands an account id of the pool to two sessions.    *)
THEOREM IdsExclusiveHolds == Spec => []IdsExclusive
<1>1. IInv => IdsExclusive
  BY DEF IInv
<1> QED
  BY <1>1, Invariance, PTL

(* m_sessions and m_kicked_sessions never hold a deleted session, and a    *)
(* living session with a pool id is in exactly one of them.                *)
THEOREM RegistryExactHolds == Spec => []RegistryExact
<1>1. IInv => RegistryExact
  BY DEF IInv
<1> QED
  BY <1>1, Invariance, PTL

(* World::Update never has the session it is inside deleted under it.      *)
THEOREM UpdatedSessionLiveHolds == Spec => []UpdatedSessionLive
<1>1. IInv => UpdatedSessionLive
  BY DEF IInv, WorldOK, UpdatedSessionLive
<1> QED
  BY <1>1, Invariance, PTL

(* One address answers to a pool id, and the session knows which.          *)
THEOREM BindingUniqueHolds == Spec => []BindingUnique
<1>1. IInv => BindingUnique
  BY DEF IInv
<1> QED
  BY <1>1, Invariance, PTL

(* OnRawData never queues one client's packet for another's session.       *)
THEOREM NoCrossDeliveryHolds == Spec => []NoCrossDelivery
<1>1. IInv => NoCrossDelivery
  BY DEF IInv
<1> QED
  BY <1>1, Invariance, PTL

(* ObjectAccessor's players are those of the sessions that are logged in.  *)
THEOREM PlayersInWorldHolds == Spec => []PlayersInWorld
<1>1. IInv => PlayersInWorld
  BY DEF IInv
<1> QED
  BY <1>1, Invariance, PTL

-----------------------------------------------------------------------------
(* The action properties.                                                  *)

(* What the network thread does leaves the timers and the ends of the      *)
(* sessions there are to the world thread.                                 *)
LEMMA NetKeepsSessions ==
    ASSUME IInv,
           \/ \E c \in Addrs, op \in SocketOps \union ClientOps : Receive(c, op)
           \/ Deliver
           \/ OnDelete
           \/ Close,
           NEW h \in Handles
    PROVE  /\ Live(h) => Live(h)'
           /\ sess'[h].leaving => sess[h].leaving
<1>1. sess[h] \in Session /\ sess \in [Handles -> Session]
  BY DEF IInv, TypeOK
<1>2. ASSUME NEW c \in Addrs, NEW op \in SocketOps \union ClientOps,
             Receive(c, op)
      PROVE  /\ Live(h) => Live(h)'
             /\ sess'[h].leaving => sess[h].leaving
  <2>1. CASE ReceiveKnown(c, op) \/ ReceiveStranger(c, op)
    BY <2>1 DEF ReceiveKnown, ReceiveStranger, Live
  <2>2. CASE ReceiveRebind(c, op)
    BY <1>1, <2>2 DEF ReceiveRebind, Live, Session
  <2> QED
    BY <1>2, <2>1, <2>2 DEF Receive
<1>3. CASE HandleJoin
  <2>1. h # created + 1 => sess'[h] = sess[h]
    BY <1>1, <1>3 DEF HandleJoin
  <2>2. h = created + 1 => ~Live(h) /\ ~sess'[h].leaving
    <3>1. created + 1 \notin Created
      BY DEF Created, IInv, TypeOK
    <3> QED
      BY <1>1, <1>3, <3>1
      DEF HandleJoin, NewSession, IInv, CreatedOK, Live
  <2> QED
    BY <2>1, <2>2 DEF Live
<1>4. CASE UseFreedSession \/ HandleLANPing \/ QueuePacket \/ DropPacket
  BY <1>4 DEF UseFreedSession, HandleLANPing, QueuePacket, DropPacket, Live
<1>5. CASE OnDelete \/ SocketGone
  BY <1>5 DEF OnDelete, SocketGone, Live
<1>6. ASSUME NEW k \in AddrKeys, DropSocket(k)
      PROVE  /\ Live(h) => Live(h)'
             /\ sess'[h].leaving => sess[h].leaving
  BY <1>1, <1>6 DEF DropSocket, Live, Session
<1>7. CASE RemoveSession
  BY <1>1, <1>7 DEF RemoveSession, Live, Session
<1> QED
  BY <1>2, <1>3, <1>4, <1>5, <1>6, <1>7 DEF Deliver, Close

LEMMA HandlePacketKeeps ==
    ASSUME IInv, HandlePacket, NEW h \in Handles
    PROVE  world.pc = "drain" /\ Live(h)' = Live(h)
<1>1. PICK st \in Statuses, pl \in BOOLEAN, ld \in BOOLEAN, lv \in BOOLEAN :
        sess' = [sess EXCEPT ![world.sess] =
                   [sess[world.sess] EXCEPT !.status = st, !.player = pl,
                      !.loading = ld, !.leaving = lv]]
  BY HandlePacketType DEF IInv
<1>2. world.pc = "drain" /\ world.sess \in Handles
      /\ sess[world.sess] \in Session /\ sess \in [Handles -> Session]
  BY HandlePacketType DEF IInv, TypeOK
<1>3. [sess[world.sess] EXCEPT !.status = st, !.player = pl, !.loading = ld,
                               !.leaving = lv].obj = sess[world.sess].obj
  BY <1>2 DEF Session
<1> QED
  BY <1>1, <1>2, <1>3 DEF Live

LEMMA BeginUpdateKeeps ==
    ASSUME IInv, NEW i \in Ids, NEW diff \in Diffs, BeginUpdate(i, diff),
           NEW h \in Handles
    PROVE  /\ Live(h)' = Live(h)
           /\ ~sess[h].leaving /\ sess'[h].leaving => recvQueue[h] = <<>>
<1> DEFINE r == registry[i]
<1>1. /\ r \in Handles /\ sess[r] \in Session /\ sess \in [Handles -> Session]
      /\ sess' = [sess EXCEPT ![r] = TimerRuns(r, diff)]
  BY DEF BeginUpdate, IInv, TypeOK
<1>2. TimerRuns(r, diff).obj = sess[r].obj
  BY <1>1 DEF TimerRuns, Session
<1>3. ~sess[r].leaving /\ TimerRuns(r, diff).leaving => recvQueue[r] = <<>>
  <2>1. diff \in 1..Timeout /\ sess[r].timer \in 0..Timeout
    BY <1>1 DEF Session
  <2>2. ~Heard(r) /\ sess[r].timer < diff => recvQueue[r] = <<>>
    BY <2>1 DEF Heard
  <2>3. /\ Heard(r) => TimerRuns(r, diff).leaving = sess[r].leaving
        /\ ~Heard(r) /\ ~(sess[r].timer < diff) =>
             TimerRuns(r, diff).leaving = sess[r].leaving
    BY <1>1 DEF TimerRuns, Session
  <2> QED
    BY <2>2, <2>3
<1> QED
  BY <1>1, <1>2, <1>3 DEF Live

LEMMA EndUpdateDeletes ==
    ASSUME IInv, EndUpdate, NEW h \in Handles,
           Live(h), ~Live(h)', sess[h].socket
    PROVE  (sess[h].leaving /\ ~sess[h].loading) \/ sess[h].id = OverflowId
<1> DEFINE w == world.sess
<1>1. /\ LogsOut(sess[w]) /\ registry[world.id] = h
      /\ world.pc = "drain"
  <2> DEFINE deleted == IF LogsOut(sess[w]) THEN {registry[world.id]} \ {Null}
                        ELSE {}
             left    == IF LogsOut(sess[w]) THEN {w} ELSE {}
  <2>1. /\ world.pc = "drain"
        /\ sess' = [g \in Handles |-> IF g \in deleted THEN Freed(sess[g])
                                      ELSE IF g \in left THEN LoggedOut(sess[g])
                                      ELSE sess[g]]
    BY DEF EndUpdate
  <2>2. sess[h] \in Session
    BY DEF IInv, TypeOK
  <2>3. LoggedOut(sess[h]).obj = sess[h].obj
    BY <2>2 DEF LoggedOut, Session
  <2>4. h \notin deleted => sess'[h].obj = sess[h].obj
    <3> HIDE DEF deleted, left
    <3> QED
      BY <2>1, <2>3
  <2>5. h \in deleted
    BY <2>4 DEF Live
  <2> QED
    BY <2>1, <2>5
<1>2. /\ w \in Created /\ h \in Created /\ world.id \in Ids
      /\ sess[w].id = world.id /\ sess[h].id = world.id
  BY <1>1 DEF IInv, DrainOK, WorldOK, CreatedOK, RegistryExact, Live
<1>3. sess[h].id = OverflowId \/ h = w
  BY <1>2 DEF IInv, IdsExclusive, FromPool, Ids
<1> QED
  BY <1>1, <1>3 DEF LogsOut

(* A connected client loses its session only by leaving, by falling silent *)
(* or to another holder of the overflow id (World::Update, RemoveSession). *)
THEOREM OnlyLeaversDeletedHolds == Spec => OnlyLeaversDeleted
<1>1. ASSUME IInv, [Next]_vars
      PROVE  [\A h \in Handles :
                Live(h) /\ Live(h)' = FALSE /\ sess[h].socket
                  => \/ sess[h].leaving /\ ~sess[h].loading
                     \/ sess[h].id = OverflowId]_vars
  <2> SUFFICES ASSUME NEW h \in Handles, Live(h), ~Live(h)', sess[h].socket
               PROVE  \/ sess[h].leaving /\ ~sess[h].loading
                      \/ sess[h].id = OverflowId
    BY DEF Live
  <2>1. CASE UNCHANGED vars
    BY <2>1 DEF vars, Live
  <2>2. CASE StartPass
    <3>1. h \notin kicked
      BY <1>1 DEF IInv, KickedOK
    <3> QED
      BY <2>2, <3>1 DEF StartPass, Live
  <2>3. ASSUME NEW i \in Ids, SkipKicked(i)
        PROVE  FALSE
    BY <2>3 DEF SkipKicked, Live
  <2>4. ASSUME NEW i \in Ids, NEW diff \in Diffs, BeginUpdate(i, diff)
        PROVE  FALSE
    BY <1>1, <2>4, BeginUpdateKeeps
  <2>5. CASE HandlePacket
    BY <1>1, <2>5, HandlePacketKeeps
  <2>6. CASE EndUpdate
    BY <1>1, <2>6, EndUpdateDeletes
  <2>7. CASE FinishPass
    BY <2>7 DEF FinishPass, Live
  <2>8. ~(\/ \E c \in Addrs, op \in SocketOps \union ClientOps : Receive(c, op)
          \/ Deliver \/ OnDelete \/ Close)
    BY <1>1, NetKeepsSessions
  <2> QED
    BY <1>1, <2>1, <2>2, <2>3, <2>4, <2>5, <2>6, <2>7, <2>8
    DEF Next, WorldStep
<1> QED
  BY <1>1, Invariance, PTL DEF Spec, OnlyLeaversDeleted

(* The connection timer never runs out on a client with a packet waiting   *)
(* (WorldSession::Update): m_connTimer is at most TIMEOUT_MS and, by       *)
(* DiffAssumption, so is every tick.                                       *)
THEOREM TimeoutOnlyWhenSilentHolds == Spec => TimeoutOnlyWhenSilent
<1>1. ASSUME IInv, [Next]_vars
      PROVE  [\A h \in Handles :
                world.pc = "scan" /\ ~sess[h].leaving /\ sess'[h].leaving
                  => recvQueue[h] = <<>>]_vars
  <2> SUFFICES ASSUME NEW h \in Handles, world.pc = "scan",
                      ~sess[h].leaving, sess'[h].leaving
               PROVE  recvQueue[h] = <<>>
    OBVIOUS
  <2>1. CASE UNCHANGED vars
    BY <2>1 DEF vars
  <2>2. ~StartPass /\ ~EndUpdate
    BY DEF StartPass, EndUpdate
  <2>3. ASSUME NEW i \in Ids, SkipKicked(i)
        PROVE  FALSE
    BY <2>3 DEF SkipKicked
  <2>4. ASSUME NEW i \in Ids, NEW diff \in Diffs, BeginUpdate(i, diff)
        PROVE  recvQueue[h] = <<>>
    BY <1>1, <2>4, BeginUpdateKeeps
  <2>5. ~HandlePacket
    BY <1>1, HandlePacketKeeps
  <2>6. ~FinishPass
    BY DEF FinishPass
  <2>7. ~(\/ \E c \in Addrs, op \in SocketOps \union ClientOps : Receive(c, op)
          \/ Deliver \/ OnDelete \/ Close)
    BY <1>1, NetKeepsSessions
  <2> QED
    BY <1>1, <2>1, <2>2, <2>3, <2>4, <2>5, <2>6, <2>7 DEF Next, WorldStep
<1> QED
  BY <1>1, Invariance, PTL DEF Spec, TimeoutOnlyWhenSilent
=============================================================================
