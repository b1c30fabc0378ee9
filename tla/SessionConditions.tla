------------------------- MODULE SessionConditions -------------------------
(***************************************************************************)
(* When the comments on the sessions are true.  WorldSessions has runs in  *)
(* which a packet of a joined client is dropped, and in which a NULL or a  *)
(* freed session brings the process down.  Here are conditions on single   *)
(* steps, a join or the end of a session, under which neither happens in   *)
(* any behaviour: they say exactly which interleavings the code is not     *)
(* made for.                                                               *)
(***************************************************************************)
EXTENDS WorldSessionsProofs

USE IdAssumption, AddrAssumption, BoundAssumption

-----------------------------------------------------------------------------
(* What most steps leave alone.                                            *)

(* The steps of the world thread.  A registry entry stays or is erased.    *)
LEMMA WorldKeepsClients ==
    ASSUME IInv, WorldStep
    PROVE  /\ UNCHANGED <<addrMap, net>>
           /\ \A h \in Handles : sess'[h].client = sess[h].client
           /\ \A i \in Ids : registry'[i] \in Handles => registry'[i] = registry[i]
<1>1. sess \in [Handles -> Session] /\ registry \in [Ids -> Handles \union {Null, Absent}]
  BY DEF IInv, TypeOK
<1>2. \A s \in Session : /\ LoggedOut(s).client = s.client
                         /\ Freed(s).client = s.client
  BY DEF LoggedOut, Freed, Session
<1>3. CASE StartPass
  BY <1>1, <1>2, <1>3 DEF StartPass, netVars
<1>4. CASE FinishPass \/ \E i \in Ids : SkipKicked(i)
  BY <1>4 DEF FinishPass, SkipKicked, netVars
<1>5. ASSUME NEW i \in Ids, NEW diff \in Diffs, BeginUpdate(i, diff)
      PROVE  /\ UNCHANGED <<addrMap, net, registry>>
             /\ \A h \in Handles : sess'[h].client = sess[h].client
  <2>1. registry[i] \in Handles
    BY <1>5 DEF BeginUpdate
  <2>2. TimerRuns(registry[i], diff).client = sess[registry[i]].client
    BY <1>1, <2>1 DEF TimerRuns, Session
  <2> QED
    BY <1>1, <1>5, <2>1, <2>2 DEF BeginUpdate, netVars
<1>6. CASE HandlePacket
  <2>1. PICK st \in Statuses, pl \in BOOLEAN, ld \in BOOLEAN, lv \in BOOLEAN :
          sess' = [sess EXCEPT ![world.sess] =
                     [sess[world.sess] EXCEPT !.status = st, !.player = pl,
                        !.loading = ld, !.leaving = lv]]
    BY <1>6, HandlePacketType DEF IInv
  <2>2. world.sess \in Handles /\ UNCHANGED <<addrMap, net, registry>>
    BY <1>6, HandlePacketType DEF IInv
  <2>3. [sess[world.sess] EXCEPT !.status = st, !.player = pl,
           !.loading = ld, !.leaving = lv].client = sess[world.sess].client
    BY <1>1, <2>2 DEF Session
  <2> QED
    BY <1>1, <2>1, <2>2, <2>3
<1>7. CASE EndUpdate
  <2>1. \A h \in Handles :
          sess'[h] \in {Freed(sess[h]), LoggedOut(sess[h]), sess[h]}
    BY <1>7 DEF EndUpdate
  <2>2. \A h \in Handles : sess'[h].client = sess[h].client
    BY <1>1, <1>2, <2>1
  <2>3. \A i \in Ids : registry'[i] = registry[i] \/ registry'[i] = Absent
    BY <1>1, <1>7 DEF EndUpdate
  <2> QED
    BY <1>7, <2>2, <2>3, Constants DEF EndUpdate, netVars
<1> QED
  BY <1>3, <1>4, <1>5, <1>6, <1>7 DEF WorldStep

(* The steps of the network thread but for the look-up and the join.       *)
LEMMA NetKeepsClients ==
    ASSUME IInv,
           \/ UseFreedSession \/ HandleLANPing \/ QueuePacket \/ DropPacket
           \/ OnDelete \/ Close
    PROVE  /\ UNCHANGED addrMap
           /\ \A h \in Handles : sess'[h].client = sess[h].client
           /\ \A i \in Ids : registry'[i] \in Handles => registry'[i] = registry[i]
           /\ net' = net \/ net'.pc # "deliver"
           /\ net'.pc \in {"idle", "deliver"} =>
                UNCHANGED registry /\ net.pc \in {"idle", "deliver"}
<1>1. sess \in [Handles -> Session] /\ registry \in [Ids -> Handles \union {Null, Absent}]
  BY DEF IInv, TypeOK
<1>2. CASE UseFreedSession \/ HandleLANPing \/ QueuePacket \/ DropPacket
  BY <1>2 DEF UseFreedSession, HandleLANPing, QueuePacket, DropPacket,
              Delivering, Delivered, IdleNet, netVars
<1>3. CASE OnDelete \/ SocketGone
  BY <1>3 DEF OnDelete, SocketGone, IInv, TypeOK, Net
<1>4. ASSUME NEW k \in AddrKeys, DropSocket(k)
      PROVE  /\ UNCHANGED <<addrMap, registry>>
             /\ \A h \in Handles : sess'[h].client = sess[h].client
             /\ net'.pc \notin {"idle", "deliver"}
  BY <1>1, <1>4 DEF DropSocket, IInv, TypeOK, Net, Session
<1>5. CASE RemoveSession
  <2>1. net'.pc \notin {"idle", "deliver"}
    BY <1>5 DEF RemoveSession, IInv, TypeOK, Net
  <2>2. \A h \in Handles : sess'[h].client = sess[h].client
    BY <1>1, <1>5 DEF RemoveSession, Session
  <2>3. \A i \in Ids : registry'[i] = registry[i] \/ registry'[i] = Null
    BY <1>1, <1>5 DEF RemoveSession
  <2> QED
    BY <1>5, <2>1, <2>2, <2>3, Constants DEF RemoveSession
<1> QED
  BY <1>2, <1>3, <1>4, <1>5 DEF Close

-----------------------------------------------------------------------------
(* A packet of a joined client is queued, where no join comes from an      *)
(* address that is bound already, by itself or by its ip: no client joins  *)
(* again, and no two behind one ip join before the first has sent a packet *)
(* more.                                                                   *)
JoinsFresh ==
    HandleJoin => addrMap[net.from] = NoId /\ addrMap[IpOf[net.from]] = NoId

(* The address map leads back from every registered session's client to    *)
(* that session, and a look-up that found nothing had nothing to find.     *)
ClientsFound ==
    /\ \A i \in Ids :
         registry[i] \in Handles => /\ sess[registry[i]].client \in Addrs
                                    /\ BoundTo(sess[registry[i]].client) = i
    /\ net.pc = "deliver" /\ ~HasSession =>
         \A i \in Ids :
           registry[i] \in Handles => sess[registry[i]].client # net.from

LEMMA ClientsFrame ==
    ASSUME IInv, ClientsFound, UNCHANGED addrMap,
           \A h \in Handles : sess'[h].client = sess[h].client,
           \A i \in Ids : registry'[i] \in Handles => registry'[i] = registry[i],
           net' = net \/ net'.pc # "deliver"
    PROVE  ClientsFound'
BY DEF ClientsFound, BoundTo, HasSession

LEMMA ReceiveFinds ==
    ASSUME IInv, ClientsFound,
           NEW c \in Addrs, NEW op \in SocketOps \union ClientOps, Receive(c, op)
    PROVE  ClientsFound'
<1> DEFINE h == FindSession(BoundTo(c))
<1>1. /\ c \in AddrKeys /\ IpOf[c] \in AddrKeys /\ IpOf[c] # c
      /\ addrMap \in [AddrKeys -> Ids \union {NoId}]
      /\ registry \in [Ids -> Handles \union {Null, Absent}]
      /\ sess \in [Handles -> Session]
  BY DEF IInv, TypeOK, AddrKeys
<1>1a. BoundTo(c) \in Ids \union {NoId}
  BY <1>1 DEF BoundTo
<1>2. /\ net'.pc = "deliver" /\ net'.sess = h /\ net'.from = c
      /\ UNCHANGED registry
  BY DEF Receive, ReceiveKnown, ReceiveRebind, ReceiveStranger, Holds, BoundTo,
         FindSession
<1>3. h # Null => h \in Handles /\ BoundTo(c) \in Ids /\ registry[BoundTo(c)] = h
  BY <1>1a, FindSessionLive
<1>4. h = Null => \A i \in Ids : registry[i] \in Handles =>
                                   sess[registry[i]].client # c
  BY Constants DEF ClientsFound, FindSession
<1>5. CASE ReceiveKnown(c, op) \/ ReceiveStranger(c, op)
  <2>1. UNCHANGED <<addrMap, sess>>
    BY <1>5 DEF ReceiveKnown, ReceiveStranger
  <2> QED
    BY <1>2, <1>4, <2>1 DEF ClientsFound, BoundTo, HasSession
<1>6. CASE ReceiveRebind(c, op)
  <2> DEFINE id == addrMap[IpOf[c]]
             B(d) == IF addrMap'[d] # NoId THEN addrMap'[d]
                     ELSE addrMap'[IpOf[d]]
  <2>1. /\ addrMap[c] = NoId /\ id # NoId /\ id \in Ids /\ BoundTo(c) = id
        /\ addrMap' = [addrMap EXCEPT ![c] = id, ![IpOf[c]] = NoId]
        /\ sess' = IF h = Null THEN sess ELSE [sess EXCEPT ![h].client = c]
    BY <1>1, <1>6 DEF ReceiveRebind, BoundTo
  <2>2. \A g \in Handles :
          sess'[g].client = IF g = h THEN c ELSE sess[g].client
    BY <1>1, <1>3, <2>1, Constants DEF Session
  <2>3. \A d \in Addrs :
          B(d) = IF d = c THEN id
                        ELSE IF addrMap[d] = NoId /\ IpOf[d] = IpOf[c] THEN NoId
                        ELSE BoundTo(d)
    <3> SUFFICES ASSUME NEW d \in Addrs
                 PROVE  B(d) = IF d = c THEN id
                          ELSE IF addrMap[d] = NoId /\ IpOf[d] = IpOf[c]
                          THEN NoId ELSE BoundTo(d)
      OBVIOUS
    <3>1. d \in AddrKeys /\ IpOf[d] \in AddrKeys /\ d # IpOf[c] /\ IpOf[d] # c
      BY DEF AddrKeys
    <3>2. /\ addrMap'[d] = IF d = c THEN id ELSE addrMap[d]
          /\ addrMap'[IpOf[d]] = IF IpOf[d] = IpOf[c] THEN NoId
                                 ELSE addrMap[IpOf[d]]
      BY <1>1, <2>1, <3>1
    <3> QED
      BY <2>1, <3>2 DEF BoundTo
  <2>4. ASSUME NEW i \in Ids, registry'[i] \in Handles
        PROVE  /\ sess'[registry'[i]].client \in Addrs
               /\ B(sess'[registry'[i]].client) = i
    <3>1. /\ registry'[i] = registry[i] /\ registry[i] \in Handles
          /\ sess[registry[i]].client \in Addrs
          /\ BoundTo(sess[registry[i]].client) = i
      BY <1>2, <2>4 DEF ClientsFound
    <3>2. CASE registry[i] = h
      <4>1. h # Null /\ i = id
        <5>1. h \in Handles /\ h # Null
          BY <3>1, <3>2, Constants
        <5>2. sess[h].id = i /\ sess[h].id = id
          BY <1>1, <2>1, <3>1, <3>2, <5>1, FindSessionLive
          DEF IInv, RegistryExact
        <5> QED
          BY <5>1, <5>2
      <4> HIDE DEF B
      <4> QED
        BY <2>2, <2>3, <3>1, <3>2, <4>1
    <3>3. CASE registry[i] # h
      <4> DEFINE d == sess[registry[i]].client
      <4>1. sess'[registry'[i]].client = d /\ d \in Addrs /\ BoundTo(d) = i
        BY <2>2, <3>1, <3>3
      <4>2. i # id
        <5>1. i = id => FindSession(i) = registry[i]
          BY <2>1, <3>1 DEF FindSession
        <5> QED
          BY <2>1, <3>3, <5>1
      <4>3. d # c /\ ~(addrMap[d] = NoId /\ IpOf[d] = IpOf[c])
        BY <2>1, <4>1, <4>2 DEF BoundTo
      <4> HIDE DEF B
      <4> QED
        BY <2>3, <4>1, <4>3
    <3> QED
      BY <3>2, <3>3
  <2>5. h = Null => \A i \in Ids : registry'[i] \in Handles =>
                                     sess'[registry'[i]].client # c
    BY <1>2, <1>4, <2>1
  <2>6. net'.pc = "deliver" /\ ~HasSession' => h = Null /\ net'.from = c
    BY <1>2 DEF HasSession
  <2> QED
    BY <2>4, <2>5, <2>6 DEF ClientsFound, BoundTo
<1> QED
  BY <1>5, <1>6 DEF Receive

LEMMA JoinFinds ==
    ASSUME IInv, ClientsFound, HandleJoin, JoinsFresh
    PROVE  ClientsFound'
<1> DEFINE h == created + 1
           c == net.from
           B(d) == IF addrMap'[d] # NoId THEN addrMap'[d]
                   ELSE addrMap'[IpOf[d]]
<1>1. PICK id \in Ids :
        /\ sess' = [sess EXCEPT ![h] = NewSession(id, c)]
        /\ registry' = [registry EXCEPT ![id] = h]
        /\ addrMap' = [addrMap EXCEPT ![IpOf[c]] = id]
  BY DEF HandleJoin, AddSession
<1>2. /\ c \in Addrs /\ IpOf[c] \in Ips /\ IpOf[c] \in AddrKeys
      /\ IpOf[c] \notin Addrs /\ Addrs \subseteq AddrKeys
      /\ h \in Handles /\ h \notin Created
      /\ net'.pc # "deliver"
  <2>1. c \in Addrs /\ created < MaxSessions /\ created \in 0..MaxSessions
    BY DEF IInv, NetOK, TypeOK, HandleJoin, Delivering
  <2> QED
    BY <2>1 DEF HandleJoin, Delivered, IdleNet, AddrKeys, Handles, Created
<1>3. /\ addrMap \in [AddrKeys -> Ids \union {NoId}]
      /\ registry \in [Ids -> Handles \union {Null, Absent}]
      /\ sess \in [Handles -> Session]
  BY DEF IInv, TypeOK
<1>4. addrMap[c] = NoId /\ addrMap[IpOf[c]] = NoId
  BY DEF JoinsFresh
<1>5. \A d \in Addrs : B(d) = IF addrMap[d] = NoId /\ IpOf[d] = IpOf[c] THEN id
                              ELSE BoundTo(d)
  <2> SUFFICES ASSUME NEW d \in Addrs
               PROVE  B(d) = IF addrMap[d] = NoId /\ IpOf[d] = IpOf[c] THEN id
                             ELSE BoundTo(d)
    OBVIOUS
  <2>1. d \in AddrKeys /\ IpOf[d] \in AddrKeys /\ d # IpOf[c]
    BY <1>2 DEF AddrKeys
  <2>2. /\ addrMap'[d] = addrMap[d]
        /\ addrMap'[IpOf[d]] = IF IpOf[d] = IpOf[c] THEN id
                               ELSE addrMap[IpOf[d]]
    BY <1>1, <1>2, <1>3, <2>1
  <2> QED
    BY <2>2 DEF BoundTo
<1>6. ASSUME NEW i \in Ids, registry'[i] \in Handles
      PROVE  /\ sess'[registry'[i]].client \in Addrs
             /\ B(sess'[registry'[i]].client) = i
  <2>1. CASE i = id
    <3>1. registry'[i] = h /\ sess'[h] = NewSession(id, c)
      BY <1>1, <1>2, <1>3, <2>1
    <3>2. sess'[registry'[i]].client = c
      BY <3>1 DEF NewSession
    <3> HIDE DEF B
    <3> QED
      BY <1>2, <1>4, <1>5, <2>1, <3>2
  <2>2. CASE i # id
    <3> DEFINE d == sess[registry[i]].client
    <3>1. registry'[i] = registry[i]
      BY <1>1, <1>3, <2>2
    <3>2. registry[i] \in Created
      BY <1>6, <3>1 DEF IInv, RegistryExact, CreatedOK, Live
    <3>3. sess'[registry'[i]].client = d
      BY <1>1, <1>2, <1>3, <1>6, <3>1, <3>2
    <3>4. d \in Addrs /\ BoundTo(d) = i
      BY <1>6, <3>1 DEF ClientsFound
    <3>5. ~(addrMap[d] = NoId /\ IpOf[d] = IpOf[c])
      BY <1>4, <3>4, Constants DEF BoundTo
    <3> HIDE DEF B, d
    <3> QED
      BY <1>5, <3>3, <3>4, <3>5
  <2> QED
    BY <2>1, <2>2
<1> QED
  BY <1>2, <1>6 DEF ClientsFound, BoundTo

LEMMA ClientsNext == IInv /\ ClientsFound /\ [Next]_vars /\ [JoinsFresh]_vars
                       => ClientsFound'
<1> SUFFICES ASSUME IInv, ClientsFound, [Next]_vars, [JoinsFresh]_vars
             PROVE  ClientsFound'
  OBVIOUS
<1>1. CASE UNCHANGED vars
  BY <1>1, ClientsFrame DEF vars
<1>2. CASE WorldStep
  BY <1>2, WorldKeepsClients, ClientsFrame
<1>3. CASE HandleJoin /\ ~UNCHANGED vars
  BY <1>3, JoinFinds
<1>4. CASE \/ UseFreedSession \/ HandleLANPing \/ QueuePacket \/ DropPacket
           \/ OnDelete \/ Close
  BY <1>4, NetKeepsClients, ClientsFrame
<1>5. CASE \E c \in Addrs, op \in SocketOps \union ClientOps : Receive(c, op)
  BY <1>5, ReceiveFinds
<1> QED
  BY <1>1, <1>2, <1>3, <1>4, <1>5 DEF Next, Deliver

(* "put it in the world session queue for this user" (WorldSocket.cpp:188) *)
(* is true where every join is fresh: no packet is dropped while a         *)
(* registered session has its sender for client.  Without the condition it *)
(* is not: run sessions_rejoin.                                            *)
THEOREM HeardWhenJoinsFresh == Spec /\ [][JoinsFresh]_vars => []JoinedClientHeard
<1>1. Init => ClientsFound
  BY Constants DEF Init, ClientsFound, IdleNet
<1>2. ClientsFound => JoinedClientHeard
  BY DEF ClientsFound, JoinedClientHeard
<1> QED
  BY <1>1, <1>2, ClientsNext, InitInv, NextInv, PTL DEF Spec

-----------------------------------------------------------------------------
(* The move of an ip-only entry finds a session, where no session ends     *)
(* while its client is known by its ip alone: none times out before its    *)
(* client's first packet.                                                  *)
EndsBound ==
    EndUpdate /\ LogsOut(sess[world.sess]) => \A k \in Ips : addrMap[k] # world.id

IpsFound ==
    net.pc \in {"idle", "deliver"} =>
      \A k \in Ips : addrMap[k] # NoId => registry[addrMap[k]] \in Handles

LEMMA IpsFrame ==
    ASSUME IpsFound, UNCHANGED addrMap,
           net'.pc \in {"idle", "deliver"} => net.pc \in {"idle", "deliver"},
           net'.pc \in {"idle", "deliver"} =>
             \A k \in Ips : addrMap[k] # NoId /\ registry[addrMap[k]] \in Handles
                              => registry'[addrMap[k]] \in Handles
    PROVE  IpsFound'
BY DEF IpsFound

(* World::Update erases an entry at the end of a session and at no other   *)
(* time.                                                                   *)
LEMMA ErasedAtEnd ==
    ASSUME IInv, WorldStep
    PROVE  \A i \in Ids : registry[i] \in Handles /\ registry'[i] \notin Handles
                            => /\ EndUpdate /\ LogsOut(sess[world.sess])
                               /\ i = world.id
<1>1. registry \in [Ids -> Handles \union {Null, Absent}]
  BY DEF IInv, TypeOK
<1>2. CASE EndUpdate
  BY <1>1, <1>2 DEF EndUpdate
<1>3. CASE ~EndUpdate
  <2>1. CASE HandlePacket
    BY <2>1, HandlePacketType DEF IInv
  <2>2. CASE \/ StartPass \/ FinishPass \/ \E i \in Ids : SkipKicked(i)
             \/ \E i \in Ids, diff \in Diffs : BeginUpdate(i, diff)
    BY <2>2 DEF StartPass, FinishPass, SkipKicked, BeginUpdate
  <2> QED
    BY <1>3, <2>1, <2>2 DEF WorldStep
<1> QED
  BY <1>2, <1>3

LEMMA IpsNext == IInv /\ IpsFound /\ [Next]_vars /\ [EndsBound]_vars => IpsFound'
<1> SUFFICES ASSUME IInv, IpsFound, [Next]_vars, [EndsBound]_vars
             PROVE  IpsFound'
  OBVIOUS
<1>1. /\ addrMap \in [AddrKeys -> Ids \union {NoId}] /\ Ips \subseteq AddrKeys
      /\ registry \in [Ids -> Handles \union {Null, Absent}]
      /\ \A c \in Addrs : c \in AddrKeys \ Ips /\ IpOf[c] \in Ips
  BY DEF IInv, TypeOK, AddrKeys
<1>2. CASE UNCHANGED vars
  BY <1>2 DEF vars, IpsFound
<1>3. CASE WorldStep /\ ~UNCHANGED vars
  <2>1. UNCHANGED <<addrMap, net>>
    BY <1>3, WorldKeepsClients
  <2>2. \A k \in Ips : addrMap[k] # NoId /\ registry[addrMap[k]] \in Handles
                         => registry'[addrMap[k]] \in Handles
    BY <1>1, <1>3, ErasedAtEnd DEF EndsBound
  <2> QED
    BY <2>1, <2>2, IpsFrame
<1>4. CASE HandleJoin
  <2>1. PICK id \in Ids :
          /\ registry' = [registry EXCEPT ![id] = created + 1]
          /\ addrMap' = [addrMap EXCEPT ![IpOf[net.from]] = id]
    BY <1>4 DEF HandleJoin, AddSession
  <2>2. created + 1 \in Handles /\ net.pc = "deliver" /\ IpOf[net.from] \in Ips
    BY <1>1, <1>4 DEF HandleJoin, Delivering, IInv, NetOK, TypeOK, Handles
  <2>3. ASSUME NEW k \in Ips, addrMap'[k] # NoId
        PROVE  registry'[addrMap'[k]] \in Handles
    <3>1. CASE addrMap'[k] = id
      BY <1>1, <2>1, <2>2, <3>1
    <3>2. CASE addrMap'[k] # id
      <4>1. k # IpOf[net.from]
        BY <1>1, <2>1, <2>2, <3>2
      <4>2. addrMap'[k] = addrMap[k] /\ addrMap[k] \in Ids
        BY <1>1, <2>1, <2>3, <4>1
      <4> QED
        BY <1>1, <2>1, <2>2, <2>3, <3>2, <4>2 DEF IpsFound
    <3> QED
      BY <3>1, <3>2
  <2> QED
    BY <2>3 DEF IpsFound
<1>5. CASE \/ UseFreedSession \/ HandleLANPing \/ QueuePacket \/ DropPacket
           \/ OnDelete \/ Close
  BY <1>5, NetKeepsClients, IpsFrame
<1>6. ASSUME NEW c \in Addrs, NEW op \in SocketOps \union ClientOps,
             Receive(c, op)
      PROVE  IpsFound'
  <2>1. net.pc = "idle" /\ UNCHANGED registry
    BY <1>6 DEF Receive, ReceiveKnown, ReceiveRebind, ReceiveStranger, Receives
  <2>2. \A k \in Ips : addrMap'[k] = addrMap[k] \/ addrMap'[k] = NoId
    <3>1. CASE ReceiveKnown(c, op) \/ ReceiveStranger(c, op)
      BY <3>1 DEF ReceiveKnown, ReceiveStranger
    <3>2. CASE ReceiveRebind(c, op)
      <4>1. addrMap' = [addrMap EXCEPT ![c] = addrMap[IpOf[c]],
                                       ![IpOf[c]] = NoId]
        BY <3>2 DEF ReceiveRebind
      <4> QED
        BY <1>1, <4>1
    <3> QED
      BY <1>6, <3>1, <3>2 DEF Receive
  <2> QED
    BY <2>1, <2>2 DEF IpsFound
<1> QED
  BY <1>2, <1>3, <1>4, <1>5, <1>6 DEF Next, Deliver

LEMMA IpsInit == Init => IpsFound
BY DEF Init, IpsFound, AddrKeys

(* OnRawData moves an ip-only entry to the full address, and tells the     *)
(* session its client without a test for NULL: it finds one wherever no    *)
(* session ends while its client is known by its ip alone.  Without the    *)
(* condition it may not: run sessions_rebind.                              *)
THEOREM RebindWhenEndsBound == Spec /\ [][EndsBound]_vars => RebindFindsSession
<1>1. ASSUME IInv, IpsFound
      PROVE  \A c \in Addrs, op \in SocketOps \union ClientOps :
               ReceiveRebind(c, op) => FindSession(addrMap[IpOf[c]]) # Null
  <2> SUFFICES ASSUME NEW c \in Addrs, NEW op \in SocketOps \union ClientOps,
                      ReceiveRebind(c, op)
               PROVE  FindSession(addrMap[IpOf[c]]) # Null
    OBVIOUS
  <2>1. net.pc = "idle" /\ addrMap[IpOf[c]] # NoId /\ IpOf[c] \in Ips
    BY DEF ReceiveRebind, Receives
  <2>2. registry[addrMap[IpOf[c]]] \in Handles
    BY <1>1, <2>1 DEF IpsFound
  <2>3. FindSession(addrMap[IpOf[c]]) \in Handles
    BY <2>1, <2>2 DEF FindSession
  <2> QED
    BY <2>3, Constants
<1>2. IInv /\ IpsFound
        => [\A c \in Addrs, op \in SocketOps \union ClientOps :
              ReceiveRebind(c, op) => FindSession(addrMap[IpOf[c]]) # Null]_vars
  BY <1>1
<1> QED
  BY <1>2, IpsInit, IpsNext, InitInv, NextInv, PTL DEF Spec, RebindFindsSession

-----------------------------------------------------------------------------
(* No session pointer brings the process down, where besides no session    *)
(* ends that OnRawData holds between its look-up and its use.  The kicked  *)
(* sessions that a pass deletes are no danger to it: by the time there are *)
(* any, the socket is closing.                                             *)
EndsUnheld ==
    EndUpdate /\ LogsOut(sess[world.sess]) =>
      ~(net.pc = "deliver" /\ HasSession /\ net.sess = registry[world.id])

HeldLives == net.pc = "deliver" /\ HasSession => Live(net.sess)

NoCrash == ~crashed

LEMMA HeldNext == IInv /\ HeldLives /\ [Next]_vars /\ [EndsUnheld]_vars => HeldLives'
<1> SUFFICES ASSUME IInv, HeldLives, [Next]_vars, [EndsUnheld]_vars,
                    (net.pc = "deliver" /\ HasSession)'
             PROVE  Live(net.sess)'
  BY DEF HeldLives
<1>1. net \in Net /\ sess \in [Handles -> Session] /\ world \in World
  BY DEF IInv, TypeOK
<1>2. CASE UNCHANGED vars
  BY <1>2 DEF vars, HeldLives, HasSession, Live
<1>3. CASE WorldStep /\ ~UNCHANGED vars
  <2>1. UNCHANGED net
    BY <1>3, WorldKeepsClients
  <2>2. net.pc = "deliver" /\ net.sess \in Handles /\ Live(net.sess)
    BY <1>1, <2>1 DEF HeldLives, HasSession, Net
  <2>3. CASE StartPass
    <3>1. kicked = {}
      BY <2>2 DEF IInv, KickedOK
    <3> QED
      BY <1>1, <2>1, <2>2, <2>3, <3>1 DEF StartPass, Live
  <2>4. CASE FinishPass \/ \E i \in Ids : SkipKicked(i)
    BY <2>1, <2>2, <2>4 DEF FinishPass, SkipKicked, Live
  <2>5. CASE HandlePacket
    BY <2>1, <2>2, <2>5, HandlePacketKeeps DEF Live
  <2>6. ASSUME NEW i \in Ids, NEW diff \in Diffs, BeginUpdate(i, diff)
        PROVE  Live(net.sess)'
    BY <2>1, <2>2, <2>6, BeginUpdateKeeps DEF Live
  <2>7. CASE EndUpdate
    <3>1. LogsOut(sess[world.sess]) => net.sess # registry[world.id]
      BY <1>3, <2>2, <2>7 DEF EndsUnheld, HeldLives, HasSession, Null, Handles
    <3>2. sess'[net.sess] \in {LoggedOut(sess[net.sess]), sess[net.sess]}
      BY <2>2, <2>7, <3>1 DEF EndUpdate
    <3>3. LoggedOut(sess[net.sess]).obj = sess[net.sess].obj
      BY <1>1, <2>2 DEF LoggedOut, Session
    <3> QED
      BY <2>1, <2>2, <3>2, <3>3 DEF Live
  <2> QED
    BY <1>3, <2>3, <2>4, <2>5, <2>6, <2>7 DEF WorldStep
<1>4. CASE HandleJoin
  BY <1>4 DEF HandleJoin, Delivered, IdleNet
<1>5. CASE HandleLANPing \/ QueuePacket \/ DropPacket \/ OnDelete \/ Close
  <2>1. CASE HandleLANPing \/ QueuePacket \/ DropPacket
    BY <2>1 DEF HandleLANPing, QueuePacket, DropPacket, Delivered, IdleNet
  <2>2. CASE OnDelete \/ Close
    BY <1>1, <2>2 DEF OnDelete, Close, DropSocket, RemoveSession, SocketGone,
                      Net
  <2> QED
    BY <1>5, <2>1, <2>2
<1>6. CASE UseFreedSession
  BY <1>6 DEF UseFreedSession, HoldsFreed, HasSession, HeldLives, Delivering,
              Live
<1>7. ASSUME NEW c \in Addrs, NEW op \in SocketOps \union ClientOps,
             Receive(c, op)
      PROVE  Live(net.sess)'
  <2> DEFINE h == FindSession(BoundTo(c))
  <2>1. net'.sess = h /\ h # Null
    BY <1>7 DEF Receive, ReceiveKnown, ReceiveRebind, ReceiveStranger, Holds,
                BoundTo, FindSession, HasSession
  <2>2. c \in AddrKeys /\ IpOf[c] \in AddrKeys
    BY AddrAssumption DEF AddrKeys
  <2>3. BoundTo(c) \in Ids \union {NoId}
    BY <2>2 DEF BoundTo, IInv, TypeOK
  <2>4. h \in Handles /\ Live(h)
    BY <2>1, <2>3, FindSessionLive
  <2>5. sess'[h].obj = sess[h].obj
    BY <1>1, <1>7, <2>4
    DEF Receive, ReceiveKnown, ReceiveRebind, ReceiveStranger, Session
  <2> QED
    BY <2>1, <2>4, <2>5 DEF Live
<1> QED
  BY <1>2, <1>3, <1>4, <1>5, <1>6, <1>7 DEF Next, Deliver

(* The two ways there are for a session pointer to bring the process down, *)
(* SetClient on the NULL that FindSession returned and QueuePacket on a    *)
(* session deleted since the look-up, are the only ones, and both need a   *)
(* session to end at the wrong moment (OnRawData, World::Update).          *)
THEOREM NoCrashWhenEndsApart ==
    Spec /\ [][EndsBound]_vars /\ [][EndsUnheld]_vars => []NoCrash
<1>1. Init => HeldLives /\ NoCrash
  BY DEF Init, HeldLives, NoCrash, IdleNet
<1>2. ASSUME IInv, IpsFound, HeldLives, NoCrash, [Next]_vars
      PROVE  NoCrash'
  <2>1. CASE UseFreedSession
    BY <1>2, <2>1 DEF UseFreedSession, HoldsFreed, HeldLives, Delivering, Live
  <2>2. ASSUME NEW c \in Addrs, NEW op \in SocketOps \union ClientOps,
               Receive(c, op)
        PROVE  NoCrash'
    <3>1. CASE ReceiveKnown(c, op) \/ ReceiveStranger(c, op)
      BY <1>2, <3>1 DEF ReceiveKnown, ReceiveStranger, NoCrash
    <3>2. CASE ReceiveRebind(c, op)
      <4>1. net.pc = "idle" /\ addrMap[IpOf[c]] # NoId /\ IpOf[c] \in Ips
        BY <3>2, AddrAssumption DEF ReceiveRebind, Receives
      <4>2. FindSession(addrMap[IpOf[c]]) \in Handles
        BY <1>2, <4>1 DEF IpsFound, FindSession
      <4> QED
        BY <1>2, <3>2, <4>2, Constants DEF ReceiveRebind, NoCrash
    <3> QED
      BY <2>2, <3>1, <3>2 DEF Receive
  <2>3. CASE \/ HandleLANPing \/ HandleJoin \/ QueuePacket \/ DropPacket
             \/ OnDelete \/ Close
    BY <1>2, <2>3
    DEF HandleLANPing, HandleJoin, QueuePacket, DropPacket, OnDelete, Close,
        DropSocket, RemoveSession, SocketGone, NoCrash
  <2>4. CASE WorldStep
    <3>1. CASE HandlePacket
      BY <1>2, <3>1, HandlePacketType DEF IInv, NoCrash
    <3>2. CASE ~HandlePacket
      BY <1>2, <2>4, <3>2 DEF WorldStep, StartPass, SkipKicked, BeginUpdate,
                              EndUpdate, FinishPass, NoCrash
    <3> QED
      BY <3>1, <3>2
  <2>5. CASE UNCHANGED vars
    BY <1>2, <2>5 DEF vars, NoCrash
  <2> QED
    BY <1>2, <2>1, <2>2, <2>3, <2>4, <2>5 DEF Next, Deliver
<1> QED
  BY <1>1, <1>2, IpsInit, IpsNext, HeldNext, InitInv, NextInv, PTL DEF Spec
=============================================================================
