-------------------------- MODULE SessionLifeProofs --------------------------
(***************************************************************************)
(* WorldSessions implements SessionLife, for any number of addresses, ids  *)
(* and sessions.  The invariant of WorldSessionsProofs is strengthened by  *)
(* what the iteration over the sessions relies on: an id that is handed    *)
(* out during a pass cannot be one that the pass has been to.              *)
(***************************************************************************)
EXTENDS WorldSessionsProofs

-----------------------------------------------------------------------------
(* The iteration.                                                          *)

PassInv ==
    /\ \A i \in freeIds : registry[i] = Absent /\ i \notin pending
    /\ world.pc = "idle" => pending = {}
    /\ world.pc = "drain" /\ world.id \in PoolIds => world.id \notin pending

(* No id has been given to a session that is not there yet.                *)
UnbornOK == \A h \in Handles : h \notin Created => sess[h].id = NoId

LInv == IInv /\ PassInv /\ UnbornOK

LEMMA PassInit == Init => PassInv
BY Constants DEF Init, PassInv, Ids

LEMMA PassNext ==
    ASSUME LInv, Next
    PROVE  PassInv'
<1> USE DEF LInv
<1>0. freeIds \subseteq Ids /\ freeIds \subseteq PoolIds /\ registry \in [Ids -> Handles \union {Null, Absent}]
  BY DEF IInv, TypeOK, Ids
<1>1. CASE HandleJoin
  <2>1. PICK id \in Ids :
          /\ RequestsFreeId(id)
          /\ AddSession(id, created + 1)
    BY <1>1 DEF HandleJoin
  <2>2. freeIds' = freeIds \ {id} /\ world' = world
    BY <1>1, <2>1 DEF RequestsFreeId, HandleJoin
  <2>3. /\ registry' = [registry EXCEPT ![id] = created + 1]
        /\ \/ pending' = pending
           \/ world.pc # "idle" /\ pending' = pending \union {id}
    BY <2>1 DEF AddSession
  <2>4. world.pc = "drain" /\ world.id \in PoolIds => world.id # id
    <3>1. world.pc = "drain" => world.sess \in Created /\ sess[world.sess].id = world.id
      BY DEF IInv, WorldOK, Live, DrainOK, CreatedOK
    <3>2. world.pc = "drain" => world.id \notin freeIds
      BY <3>1 DEF IInv, IdsExclusive
    <3>3. id \in PoolIds => id \in freeIds
      BY <2>1, Constants DEF RequestsFreeId
    <3> QED
      BY <3>2, <3>3
  <2> QED
    BY <1>0, <2>2, <2>3, <2>4 DEF PassInv
<1>2. CASE RemoveSession
  <2>1. /\ UNCHANGED <<freeIds, world, pending>>
        /\ \A i \in freeIds : registry'[i] = registry[i]
    <3>1. UNCHANGED <<freeIds, world, pending>>
      BY <1>2 DEF RemoveSession, worldVars
    <3>2. FindSession(net.id) # Null => registry[net.id] \in Handles
      BY DEF FindSession
    <3>3. \A i \in freeIds : FindSession(net.id) # Null => i # net.id
      BY <3>2, Constants DEF PassInv
    <3> QED
      BY <1>0, <1>2, <3>1, <3>3 DEF RemoveSession
  <2> QED
    BY <2>1 DEF PassInv
<1>3. CASE StartPass
  BY <1>0, <1>3 DEF StartPass, PassInv, IInv, TypeOK, World
<1>4. ASSUME NEW i \in Ids, SkipKicked(i)
      PROVE  PassInv'
  BY <1>4 DEF SkipKicked, PassInv
<1>5. ASSUME NEW i \in Ids, NEW diff \in Diffs, BeginUpdate(i, diff)
      PROVE  PassInv'
  BY <1>5 DEF BeginUpdate, PassInv
<1>6. CASE EndUpdate
  <2>1. /\ UNCHANGED <<freeIds, pending>> /\ world'.pc = "scan"
        /\ \A i \in freeIds : registry'[i] = registry[i]
    <3>1. UNCHANGED <<freeIds, pending>> /\ world'.pc = "scan"
      BY <1>6 DEF EndUpdate
    <3>2. world.id \notin freeIds
      <4>1. world.sess \in Created /\ sess[world.sess].id = world.id
        BY <1>6 DEF EndUpdate, IInv, WorldOK, Live, DrainOK, CreatedOK
      <4> QED
        BY <4>1 DEF IInv, IdsExclusive
    <3> QED
      BY <1>0, <1>6, <3>1, <3>2 DEF EndUpdate
  <2> QED
    BY <2>1 DEF PassInv
<1>7. CASE FinishPass
  BY <1>7 DEF FinishPass, PassInv, IInv, TypeOK, World
<1>8. CASE HandlePacket
  BY <1>8, HandlePacketType DEF PassInv, IInv
<1>9. ASSUME NEW c \in Addrs, NEW op \in SocketOps \union ClientOps,
             Receive(c, op)
      PROVE  PassInv'
  BY <1>9 DEF Receive, ReceiveKnown, ReceiveRebind, ReceiveStranger, worldVars, PassInv
<1>10. CASE \/ UseFreedSession \/ HandleLANPing \/ QueuePacket \/ DropPacket
            \/ OnDelete \/ SocketGone \/ \E k \in AddrKeys : DropSocket(k)
  BY <1>10 DEF UseFreedSession, HandleLANPing, QueuePacket, DropPacket,
     OnDelete, SocketGone, DropSocket, worldVars, PassInv
<1> QED
  BY <1>1, <1>2, <1>3, <1>4, <1>5, <1>6, <1>7, <1>8, <1>9, <1>10
  DEF Next, Deliver, Close, WorldStep

(* A session is given its id when it is made, and keeps it.                *)
LEMMA UnbornNext ==
    ASSUME LInv, Next
    PROVE  UnbornOK'
<1> USE DEF LInv
<1>0. /\ sess \in [Handles -> Session] /\ UnbornOK
      /\ registry \in [Ids -> Handles \union {Null, Absent}]
  BY DEF IInv, TypeOK
<1>1. SUFFICES /\ Created \subseteq Created'
               /\ \A h \in Handles : h \notin Created' =>
                                       sess'[h].id = sess[h].id
  BY <1>0 DEF UnbornOK
<1>2. CASE HandleJoin
  <2>1. Created' = Created \union {created + 1}
    BY <1>2 DEF HandleJoin, Created, IInv, TypeOK
  <2>2. \A h \in Handles : h # created + 1 => sess'[h] = sess[h]
    BY <1>0, <1>2 DEF HandleJoin
  <2> QED
    BY <2>1, <2>2
<1>3. ASSUME NEW c \in Addrs, NEW op \in SocketOps \union ClientOps,
             Receive(c, op)
      PROVE  /\ Created' = Created
             /\ \A h \in Handles : sess'[h].id = sess[h].id
  BY <1>0, <1>3 DEF Receive, ReceiveKnown, ReceiveRebind, ReceiveStranger,
     Created, Session
<1>4. CASE \/ UseFreedSession \/ HandleLANPing \/ QueuePacket \/ DropPacket
           \/ OnDelete \/ SocketGone \/ FinishPass
           \/ \E i \in Ids : SkipKicked(i)
  BY <1>4 DEF UseFreedSession, HandleLANPing, QueuePacket, DropPacket,
     OnDelete, SocketGone, FinishPass, SkipKicked, Created
<1>5. CASE RemoveSession \/ \E k \in AddrKeys : DropSocket(k)
  <2>1. /\ created' = created
        /\ sess' = sess \/ \E g : sess' = [sess EXCEPT ![g].socket = FALSE]
    BY <1>5 DEF DropSocket, RemoveSession
  <2>2. \A g \in Handles : [sess[g] EXCEPT !.socket = FALSE].id = sess[g].id
    BY <1>0 DEF Session
  <2> QED
    BY <1>0, <2>1, <2>2 DEF Created
<1>6. CASE HandlePacket
  <2>1. PICK st \in Statuses, pl \in BOOLEAN, ld \in BOOLEAN, lv \in BOOLEAN :
          sess' = [sess EXCEPT ![world.sess] =
                     [sess[world.sess] EXCEPT !.status = st, !.player = pl,
                        !.loading = ld, !.leaving = lv]]
    BY <1>6, HandlePacketType DEF IInv
  <2>2. created' = created /\ world.sess \in Handles
    BY <1>6, HandlePacketType DEF IInv
  <2>3. [sess[world.sess] EXCEPT !.status = st, !.player = pl, !.loading = ld,
                                 !.leaving = lv].id = sess[world.sess].id
    BY <1>0, <2>2 DEF Session
  <2> QED
    BY <1>0, <2>1, <2>2, <2>3 DEF Created
<1>7. ASSUME NEW i \in Ids, NEW diff \in Diffs, BeginUpdate(i, diff)
      PROVE  /\ Created' = Created
             /\ \A h \in Handles : sess'[h].id = sess[h].id
  <2>1. registry[i] \in Handles
    BY <1>7 DEF BeginUpdate
  <2>2. TimerRuns(registry[i], diff).id = sess[registry[i]].id
    BY <1>0, <2>1 DEF TimerRuns, Session
  <2> QED
    BY <1>0, <1>7, <2>2 DEF BeginUpdate, Created
<1>8. CASE StartPass \/ EndUpdate
  <2>1. \A s \in Session : LoggedOut(s).id = s.id /\ Freed(s).id = s.id
    BY DEF LoggedOut, Freed, Session
  <2> QED
    BY <1>0, <1>8, <2>1 DEF StartPass, EndUpdate, Created
<1> QED
  BY <1>2, <1>3, <1>4, <1>5, <1>6, <1>7, <1>8
  DEF Next, Deliver, Close, WorldStep

LEMMA InitUnborn == Init => UnbornOK
<1> DEFINE s == [NewSession(NoId, NoAddr) EXCEPT !.obj = "unborn",
                                                 !.socket = FALSE]
<1>1. s.id = NoId
  BY DEF NewSession
<1>2. Init => \A h \in Handles : sess[h] = s
  BY DEF Init
<1> QED
  BY <1>1, <1>2 DEF UnbornOK

LEMMA LInvariance == Spec => []LInv
<1>1. LInv /\ [Next]_vars => PassInv' /\ UnbornOK'
  <2>1. CASE UNCHANGED vars
    BY <2>1 DEF vars, worldVars, LInv, PassInv, UnbornOK, Created
  <2> QED
    BY <2>1, PassNext, UnbornNext
<1> QED
  BY <1>1, InitUnborn, PassInit, InitInv, NextInv, PTL DEF Spec, LInv

-----------------------------------------------------------------------------
(* The mapping.                                                            *)

(* A session's connection, read off the object and the kicked list.        *)
LEMMA ConnOpen ==
    ASSUME LInv, NEW h \in Handles
    PROVE  /\ ConnOf(h) = "unmade" <=> ~FromPool(h)
           /\ ConnOf(h) \in {"open", "cut"}
                <=> FromPool(h) /\ registry[sess[h].id] = h
           /\ ConnOf(h) = "kicked" <=> FromPool(h) /\ h \in kicked
           /\ ConnOf(h) = "open"
                <=> FromPool(h) /\ registry[sess[h].id] = h /\ sess[h].socket
           /\ FromPool(h) => h \in Created /\ sess[h].id \in Ids
<1>1. FromPool(h) => /\ h \in Created /\ sess[h].id \in Ids
                     /\ sess[h].obj # "unborn"
  BY Constants DEF LInv, UnbornOK, FromPool, IInv, CreatedOK, Ids
<1>2. FromPool(h) => /\ registry[sess[h].id] = h => Live(h) /\ h \notin kicked
                     /\ Live(h) => registry[sess[h].id] = h \/ h \in kicked
                     /\ h \in kicked => Live(h)
  BY <1>1 DEF LInv, IInv, RegistryExact
<1>3. sess[h].obj \in {"unborn", "live", "freed"}
  BY DEF LInv, IInv, TypeOK, Session
<1> QED
  BY <1>1, <1>2, <1>3 DEF ConnOf, Live

(* The steps after which a session is where it was.                        *)
LEMMA ConnSame ==
    ASSUME NEW h \in Handles,
           sess'[h].id = sess[h].id, sess'[h].obj = sess[h].obj,
           sess'[h].socket = sess[h].socket, h \in kicked' <=> h \in kicked
    PROVE  ConnOf(h)' = ConnOf(h) /\ FromPool(h)' = FromPool(h)
BY DEF ConnOf, FromPool

LEMMA LifeFrame ==
    ASSUME UNCHANGED <<registry, kicked, inWorld, world, pending>>,
           \A h \in Handles :
             /\ sess'[h].id = sess[h].id /\ sess'[h].obj = sess[h].obj
             /\ sess'[h].socket = sess[h].socket
             /\ sess'[h].loading = sess[h].loading
             /\ sess'[h].leaving = sess[h].leaving,
           LInv
    PROVE  UNCHANGED Life!vars
<1>1. \A h \in Handles : ConnOf(h)' = ConnOf(h) /\ FromPool(h)' = FromPool(h)
  BY ConnSame
<1>2. LifeConn' = LifeConn
  BY <1>1 DEF LifeConn
<1>3. OwnLoading' = OwnLoading /\ OwnLeaving' = OwnLeaving
  BY <1>1 DEF OwnLoading, OwnLeaving, Own
<1>4. OwnDue' = OwnDue /\ Own(inWorld)' = Own(inWorld)
  BY <1>1 DEF OwnDue, Own, LInv, IInv, TypeOK
<1>5. OwnTurn' = OwnTurn /\ InPass' = InPass
  BY <1>1 DEF OwnTurn, InPass, LInv, IInv, DrainOK
<1> QED
  BY <1>2, <1>3, <1>4, <1>5 DEF Life!vars

(* The network thread's steps that touch no session's life.                *)
LEMMA NetStutters ==
    ASSUME LInv,
           \/ \E c \in Addrs, op \in SocketOps \union ClientOps : Receive(c, op)
           \/ UseFreedSession \/ HandleLANPing \/ QueuePacket \/ DropPacket
           \/ OnDelete \/ SocketGone
    PROVE  UNCHANGED Life!vars
<1>1. UNCHANGED <<registry, kicked, inWorld, world, pending>>
  BY DEF Receive, ReceiveKnown, ReceiveRebind, ReceiveStranger,
     UseFreedSession, HandleLANPing, QueuePacket, DropPacket, OnDelete,
     SocketGone, worldVars
<1>2. sess' = sess \/ \E g, c : sess' = [sess EXCEPT ![g].client = c]
  BY DEF Receive, ReceiveKnown, ReceiveRebind, ReceiveStranger,
     UseFreedSession, HandleLANPing, QueuePacket, DropPacket, OnDelete,
     SocketGone
<1>3. \A h \in Handles :
        /\ sess'[h].id = sess[h].id /\ sess'[h].obj = sess[h].obj
        /\ sess'[h].socket = sess[h].socket
        /\ sess'[h].loading = sess[h].loading
        /\ sess'[h].leaving = sess[h].leaving
  <2>1. CASE sess' = sess
    BY <2>1
  <2>2. ASSUME NEW g, NEW c, sess' = [sess EXCEPT ![g].client = c],
               NEW h \in Handles
        PROVE  /\ sess'[h].id = sess[h].id /\ sess'[h].obj = sess[h].obj
               /\ sess'[h].socket = sess[h].socket
               /\ sess'[h].loading = sess[h].loading
               /\ sess'[h].leaving = sess[h].leaving
    <3>1. sess \in [Handles -> Session] /\ sess[h] \in Session
      BY DEF LInv, IInv, TypeOK
    <3> QED
      BY <2>2, <3>1 DEF Session
  <2> QED
    BY <1>2, <2>1, <2>2
<1> QED
  BY <1>1, <1>3, LifeFrame

(* A session that gets 0xFF for an id is not seen.                         *)
LEMMA HandleJoinOpens ==
    ASSUME LInv, HandleJoin
    PROVE  [Life!Next]_(Life!vars)
<1>0. PICK h \in Handles : h = created + 1 /\ h \notin Created
  <2>0. net.pc = "deliver" /\ net.op = "Join"
    BY DEF HandleJoin, Delivering
  <2>1. created < MaxSessions /\ created \in 0..MaxSessions
    BY <2>0 DEF LInv, IInv, NetOK, TypeOK
  <2>2. created + 1 \in Handles /\ created + 1 \notin Created
    BY <2>1, BoundAssumption DEF Handles, Created
  <2> QED
    BY <2>2
<1>1. PICK id \in Ids :
        /\ RequestsFreeId(id)
        /\ sess' = [sess EXCEPT ![h] = NewSession(id, net.from)]
        /\ AddSession(id, h)
  BY <1>0 DEF HandleJoin
<1>2. /\ UNCHANGED <<kicked, inWorld, world>>
      /\ net.pc = "deliver" /\ net.op = "Join"
  BY DEF HandleJoin, Delivering
<1>3. /\ kicked = {}
      /\ sess \in [Handles -> Session]
      /\ registry \in [Ids -> Handles \union {Null, Absent}]
  BY <1>2 DEF LInv, IInv, KickedOK, TypeOK
<1>4. /\ sess'[h] = NewSession(id, net.from)
      /\ \A g \in Handles : g # h => sess'[g] = sess[g]
      /\ \A i \in Ids : registry'[i] = IF i = id THEN h ELSE registry[i]
      /\ \/ pending' = pending
         \/ /\ world.pc # "idle" /\ registry[id] = Absent
            /\ pending' = pending \union {id}
  BY <1>1, <1>3 DEF AddSession
<1>5. /\ sess'[h].obj = "live" /\ sess'[h].id = id /\ sess'[h].socket
      /\ ~sess'[h].loading /\ ~sess'[h].leaving
  BY <1>4 DEF NewSession
<1>6. /\ ~FromPool(h) /\ h \notin inWorld
      /\ FromPool(h)' <=> id \in PoolIds
      /\ world.pc = "drain" => world.sess \in Handles /\ world.sess # h
  <2>1. sess[h].obj = "unborn" /\ ~FromPool(h)
    BY <1>0, ConnOpen DEF LInv, IInv, CreatedOK
  <2> QED
    BY <1>5, <2>1 DEF LInv, IInv, DrainOK, WorldOK, PlayersInWorld, Live,
       FromPool
<1>7. /\ id \in PoolIds => /\ id \in freeIds /\ registry[id] = Absent
                           /\ id \notin pending
      /\ \A g \in Handles : FromPool(g) /\ g # h => sess[g].id # id
  <2>1. id \in PoolIds => /\ id \in freeIds /\ registry[id] = Absent
                          /\ id \notin pending
    BY <1>1, Constants DEF RequestsFreeId, LInv, PassInv
  <2>2. ASSUME NEW g \in Handles, FromPool(g)
        PROVE  sess[g].id # id
    BY <2>1, <2>2, ConnOpen DEF LInv, IInv, IdsExclusive, FromPool
  <2> QED
    BY <2>1, <2>2
<1>8. \A g \in Handles : g # h => /\ ConnOf(g)' = ConnOf(g)
                                  /\ FromPool(g)' = FromPool(g)
  BY <1>2, <1>4 DEF ConnOf, FromPool
<1>9. OwnLoading' = OwnLoading /\ OwnLeaving' = OwnLeaving
  BY <1>4, <1>5, <1>6, <1>8 DEF OwnLoading, OwnLeaving, Own
<1>10. Own(inWorld)' = Own(inWorld)
  BY <1>2, <1>6, <1>8 DEF Own, LInv, IInv, TypeOK
<1>11. OwnTurn' = OwnTurn /\ InPass' = InPass
  BY <1>2, <1>6, <1>8 DEF OwnTurn, InPass
<1>12. ConnOf(h) = "unmade"
  BY <1>6, <1>3, ConnOpen
<1>13. ASSUME NEW g \in Handles, g # h
       PROVE  g \in OwnDue' <=> g \in OwnDue
  <2>1. FromPool(g) => sess[g].id \in Ids /\ sess[g].id # id
    BY <1>7, <1>13, ConnOpen
  <2> QED
    BY <1>4, <1>8, <1>13, <2>1 DEF OwnDue, Own
<1>14. OwnDue \subseteq Handles /\ OwnDue' \subseteq Handles /\ h \notin OwnDue
  BY <1>6 DEF OwnDue, Own
<1>15. CASE id \in PoolIds
  <2>1. ConnOf(h)' = "open"
    BY <1>2, <1>3, <1>5, <1>6, <1>15 DEF ConnOf
  <2>2. LifeConn' = [LifeConn EXCEPT ![h] = "open"]
    BY <1>3, <1>8, <2>1 DEF LifeConn
  <2>3. OwnDue' = OwnDue \/ (InPass /\ OwnDue' = OwnDue \union {h})
    <3>1. h \in OwnDue' => world.pc # "idle"
      BY <1>4, <1>5, <1>7, <1>15 DEF OwnDue
    <3> QED
      BY <1>3, <1>13, <1>14, <3>1 DEF InPass
  <2>4. Life!Open(h)
    BY <1>3, <1>9, <1>10, <1>11, <1>12, <2>2, <2>3
    DEF Life!Open, Life!Becomes, LifeConn
  <2> QED
    BY <1>3, <2>4 DEF Life!Next
<1>16. CASE id \notin PoolIds
  <2>1. ConnOf(h)' = "unmade"
    BY <1>6, <1>16 DEF ConnOf
  <2>2. LifeConn' = LifeConn
    BY <1>3, <1>8, <1>12, <2>1 DEF LifeConn
  <2>3. OwnDue' = OwnDue
    <3>1. h \notin OwnDue'
      BY <1>6, <1>16 DEF OwnDue, Own
    <3> QED
      BY <1>13, <1>14, <3>1
  <2> QED
    BY <1>9, <1>10, <1>11, <2>2, <2>3 DEF Life!vars
<1> QED
  BY <1>15, <1>16

(* One round of OnDelete's loop cuts the connection of a session that still *)
(* has it.                                                                 *)
LEMMA DropSocketCuts ==
    ASSUME LInv, NEW k \in AddrKeys, DropSocket(k)
    PROVE  [Life!Next]_(Life!vars)
<1>1. PICK h : h = FindSession(addrMap[k])
  OBVIOUS
<1>2. /\ UNCHANGED <<registry, kicked, inWorld, world, pending>>
      /\ sess' = IF h = Null THEN sess ELSE [sess EXCEPT ![h].socket = FALSE]
  BY <1>1 DEF DropSocket, worldVars
<1>3. sess \in [Handles -> Session]
  BY DEF LInv, IInv, TypeOK
<1>4. h # Null => /\ h \in Handles /\ sess[h].id = addrMap[k]
                  /\ registry[sess[h].id] = h
  BY <1>1, FindSessionLive DEF LInv, IInv, TypeOK
<1>5. \A g \in Handles :
        /\ sess'[g].id = sess[g].id /\ sess'[g].obj = sess[g].obj
        /\ sess'[g].loading = sess[g].loading
        /\ sess'[g].leaving = sess[g].leaving
        /\ g # h => sess'[g].socket = sess[g].socket
        /\ g = h /\ h # Null => ~sess'[g].socket
  BY <1>2, <1>3, <1>4 DEF Session
<1>6. CASE h # Null /\ FromPool(h) /\ sess[h].socket
  <2>1. \A g \in Handles : g # h => ConnOf(g)' = ConnOf(g)
    BY <1>2, <1>5, ConnSame
  <2>2. \A g \in Handles : FromPool(g)' = FromPool(g)
    BY <1>5 DEF FromPool
  <2>3. ConnOf(h) = "open" /\ ConnOf(h)' = "cut"
    <3>1. ConnOf(h) = "open"
      BY <1>4, <1>6, ConnOpen
    <3> QED
      BY <1>2, <1>4, <1>5, <1>6, <2>2, <3>1 DEF ConnOf
  <2>4. LifeConn' = [LifeConn EXCEPT ![h] = "cut"]
    BY <1>4, <1>6, <2>1, <2>3 DEF LifeConn
  <2>5. OwnLoading' = OwnLoading /\ OwnLeaving' = OwnLeaving
    BY <1>5, <2>2 DEF OwnLoading, OwnLeaving, Own
  <2>6. OwnDue' = OwnDue /\ Own(inWorld)' = Own(inWorld)
    BY <1>2, <1>5, <2>2 DEF OwnDue, Own, LInv, IInv, TypeOK
  <2>7. OwnTurn' = OwnTurn /\ InPass' = InPass
    BY <1>2, <2>2 DEF OwnTurn, InPass, LInv, IInv, DrainOK
  <2>8. Life!Cut(h)
    BY <1>4, <1>6, <2>3, <2>4, <2>5, <2>6, <2>7
    DEF Life!Cut, Life!Becomes, LifeConn
  <2> QED
    BY <1>4, <1>6, <2>8 DEF Life!Next
<1>7. CASE h = Null \/ ~sess[h].socket
  <2>1. \A g \in Handles : sess'[g].socket = sess[g].socket
    BY <1>2, <1>3, <1>4, <1>5, <1>7 DEF Session
  <2> QED
    BY <1>2, <1>5, <2>1, LifeFrame
<1>8. CASE h # Null /\ ~FromPool(h)
  <2>1. \A g \in Handles : FromPool(g)' = FromPool(g)
    BY <1>5 DEF FromPool
  <2>2. \A g \in Handles : ConnOf(g)' = ConnOf(g)
    BY <1>2, <1>5, <1>8, <2>1 DEF ConnOf
  <2>3. LifeConn' = LifeConn
    BY <2>2 DEF LifeConn
  <2>4. OwnLoading' = OwnLoading /\ OwnLeaving' = OwnLeaving
    BY <1>5, <2>1 DEF OwnLoading, OwnLeaving, Own
  <2>5. OwnDue' = OwnDue /\ Own(inWorld)' = Own(inWorld)
    BY <1>2, <1>5, <2>1 DEF OwnDue, Own, LInv, IInv, TypeOK
  <2>6. OwnTurn' = OwnTurn /\ InPass' = InPass
    BY <1>2, <2>1 DEF OwnTurn, InPass, LInv, IInv, DrainOK
  <2> QED
    BY <2>3, <2>4, <2>5, <2>6 DEF Life!vars
<1> QED
  BY <1>6, <1>7, <1>8

(* World::RemoveSession kicks a session that is not loading.               *)
LEMMA RemoveSessionKicks ==
    ASSUME LInv, RemoveSession
    PROVE  [Life!Next]_(Life!vars)
<1>1. PICK h : h = FindSession(net.id)
  OBVIOUS
<1>2. PICK removed \in BOOLEAN : removed <=> (h # Null /\ ~sess[h].loading)
  OBVIOUS
<1>3. /\ UNCHANGED <<inWorld, world, pending>>
      /\ kicked' = IF removed THEN kicked \union {h} ELSE kicked
      /\ sess' = IF removed THEN [sess EXCEPT ![h].socket = FALSE] ELSE sess
      /\ registry' = IF removed THEN [registry EXCEPT ![net.id] = Null]
                     ELSE registry
  BY <1>1, <1>2 DEF RemoveSession, worldVars
<1>4. /\ sess \in [Handles -> Session]
      /\ registry \in [Ids -> Handles \union {Null, Absent}]
  BY DEF LInv, IInv, TypeOK
<1>5. h # Null => /\ h \in Handles /\ sess[h].id = net.id
                  /\ registry[net.id] = h /\ net.id \in Ids
  BY <1>1, FindSessionLive DEF LInv, IInv, TypeOK, Net
<1>6. CASE ~removed
  BY <1>3, <1>6, LifeFrame
<1>7. CASE removed
  <2>1. \A g \in Handles :
          /\ sess'[g].id = sess[g].id /\ sess'[g].obj = sess[g].obj
          /\ sess'[g].loading = sess[g].loading
          /\ sess'[g].leaving = sess[g].leaving
          /\ g # h => sess'[g].socket = sess[g].socket
    BY <1>2, <1>3, <1>4, <1>5, <1>7 DEF Session
  <2>2. /\ \A g \in Handles : FromPool(g)' = FromPool(g)
        /\ \A g \in Handles : g # h => ConnOf(g)' = ConnOf(g)
    BY <1>3, <1>7, <2>1 DEF ConnOf, FromPool
  <2>3. OwnLoading' = OwnLoading /\ OwnLeaving' = OwnLeaving
    BY <2>1, <2>2 DEF OwnLoading, OwnLeaving, Own
  <2>4. Own(inWorld)' = Own(inWorld)
    BY <1>3, <2>2 DEF Own, LInv, IInv, TypeOK
  <2>5. OwnTurn' = OwnTurn /\ InPass' = InPass
    BY <1>3, <2>2 DEF OwnTurn, InPass, LInv, IInv, DrainOK
  <2>6. OwnDue' = OwnDue \ {h}
    <3>1. \A i \in Ids : registry'[i] = IF i = net.id THEN Null
                                        ELSE registry[i]
      BY <1>2, <1>3, <1>4, <1>5, <1>7
    <3>2. ASSUME NEW g \in Handles, FromPool(g)
          PROVE  g \in OwnDue' <=> g \in OwnDue /\ g # h
      <4>1. sess[g].id \in Ids /\ sess'[g].id = sess[g].id /\ g # Null
        BY <2>1, <3>2, ConnOpen, Constants
      <4>2. sess[g].id = net.id /\ registry[sess[g].id] = g => g = h
        BY <1>2, <1>5, <1>7
      <4>3. g = h => sess[g].id = net.id
        BY <1>2, <1>5, <1>7
      <4> QED
        BY <1>3, <2>2, <3>1, <3>2, <4>1, <4>2, <4>3 DEF OwnDue, Own
    <3>3. \A g \in OwnDue : g \in Handles /\ FromPool(g)
      BY DEF OwnDue, Own
    <3>4. \A g \in OwnDue' : g \in Handles /\ FromPool(g)
      BY <2>2 DEF OwnDue, Own
    <3> QED
      BY <3>2, <3>3, <3>4
  <2>7. CASE FromPool(h)
    <3>1. /\ ConnOf(h) \in {"open", "cut"} /\ h \notin OwnLoading
          /\ sess[h].obj = "live"
      BY <1>2, <1>5, <1>7, <2>7, ConnOpen, FindSessionLive, <1>1
      DEF OwnLoading, LInv, IInv, TypeOK, Net, Live
    <3>2. ConnOf(h)' = "kicked"
      BY <1>2, <1>3, <1>5, <1>7, <2>1, <2>2, <2>7, <3>1 DEF ConnOf
    <3>3. LifeConn' = [LifeConn EXCEPT ![h] = "kicked"]
      BY <1>2, <1>5, <1>7, <2>2, <3>2 DEF LifeConn
    <3>4. Life!Kick(h)
      BY <1>2, <1>5, <1>7, <2>3, <2>4, <2>5, <2>6, <3>1, <3>3
      DEF Life!Kick, Life!Becomes, LifeConn
    <3> QED
      BY <1>2, <1>5, <1>7, <3>4 DEF Life!Next
  <2>8. CASE ~FromPool(h)
    <3>1. OwnDue' = OwnDue
      BY <2>6, <2>8 DEF OwnDue, Own
    <3>2. LifeConn' = LifeConn
      BY <1>2, <1>5, <1>7, <2>2, <2>8 DEF LifeConn, ConnOf
    <3> QED
      BY <2>3, <2>4, <2>5, <3>1, <3>2 DEF Life!vars
  <2> QED
    BY <2>7, <2>8
<1> QED
  BY <1>6, <1>7

(* World::Update deletes the kicked sessions and starts over.              *)
LEMMA StartPassBegins ==
    ASSUME LInv, StartPass
    PROVE  Life!BeginPass
<1>1. /\ UNCHANGED registry
      /\ world.pc = "idle" /\ world'.pc = "scan"
      /\ \A h \in Handles : sess'[h] = IF h \in kicked THEN Freed(sess[h])
                                       ELSE sess[h]
      /\ inWorld' = inWorld \ kicked /\ kicked' = {}
      /\ pending' = {i \in Ids : registry[i] # Absent}
  BY DEF StartPass, LInv, IInv, TypeOK, World
<1>2. \A h \in Handles :
        /\ sess'[h].id = sess[h].id
        /\ sess'[h].loading = sess[h].loading
        /\ sess'[h].leaving = sess[h].leaving
        /\ sess'[h].obj = IF h \in kicked THEN "freed" ELSE sess[h].obj
        /\ h \notin kicked => sess'[h].socket = sess[h].socket
  <2>1. \A s \in Session : /\ Freed(s).id = s.id /\ Freed(s).obj = "freed"
                           /\ Freed(s).loading = s.loading
                           /\ Freed(s).leaving = s.leaving
    BY DEF LoggedOut, Freed, Session
  <2> QED
    BY <1>1, <2>1 DEF LInv, IInv, TypeOK
<1>3. \A h \in Handles : FromPool(h)' = FromPool(h)
  BY <1>2 DEF FromPool
<1>4. \A h \in Handles : ConnOf(h)' = IF ConnOf(h) = "kicked" THEN "gone"
                                      ELSE ConnOf(h)
  <2>1. ASSUME NEW h \in Handles, h \in kicked, FromPool(h)
        PROVE  ConnOf(h)' = "gone" /\ ConnOf(h) = "kicked"
    BY <1>2, <1>3, <2>1, ConnOpen DEF ConnOf
  <2>2. ASSUME NEW h \in Handles, h \notin kicked
        PROVE  ConnOf(h)' = ConnOf(h) /\ ConnOf(h) # "kicked"
    BY <1>1, <1>2, <1>3, <2>2 DEF ConnOf
  <2>3. ASSUME NEW h \in Handles, ~FromPool(h)
        PROVE  ConnOf(h)' = ConnOf(h) /\ ConnOf(h) # "kicked"
    BY <1>3, <2>3 DEF ConnOf
  <2> QED
    BY <2>1, <2>2, <2>3
<1>5. LifeConn' = [h \in Handles |-> IF LifeConn[h] = "kicked" THEN "gone"
                                     ELSE LifeConn[h]]
  BY <1>4 DEF LifeConn
<1>6. Own(inWorld)' = Own(inWorld) \ Life!In({"kicked"})
  <2>1. \A h \in Handles : h \in Life!In({"kicked"})
                             <=> FromPool(h) /\ h \in kicked
    BY ConnOpen DEF Life!In, LifeConn
  <2> QED
    BY <1>1, <1>3, <2>1 DEF Own, LInv, IInv, TypeOK
<1>7. OwnDue' = Life!In({"open", "cut"})
  <2>1. \A h \in Handles : h \in Life!In({"open", "cut"})
                             <=> FromPool(h) /\ registry[sess[h].id] = h
    BY ConnOpen DEF Life!In, LifeConn
  <2>2. \A h \in Handles : FromPool(h) => sess[h].id \in Ids /\ h # Absent
    BY ConnOpen, Constants
  <2> QED
    BY <1>1, <1>2, <1>3, <2>1, <2>2 DEF OwnDue, Own, Life!In
<1>8. OwnLoading' = OwnLoading /\ OwnLeaving' = OwnLeaving
  BY <1>2, <1>3 DEF OwnLoading, OwnLeaving, Own
<1>9. OwnTurn' = OwnTurn /\ ~InPass /\ InPass' = TRUE
  BY <1>1 DEF OwnTurn, InPass
<1> QED
  BY <1>5, <1>6, <1>7, <1>8, <1>9 DEF Life!BeginPass

(* An entry of a kicked session is passed over: nobody was due there.      *)
LEMMA SkipKickedStutters ==
    ASSUME LInv, NEW i \in Ids, SkipKicked(i)
    PROVE  UNCHANGED Life!vars
<1>1. /\ UNCHANGED <<registry, kicked, sess, inWorld, world>>
      /\ pending' = pending \ {i} /\ registry[i] = Null
  BY DEF SkipKicked
<1>2. \A h \in Handles : FromPool(h)' = FromPool(h) /\ ConnOf(h)' = ConnOf(h)
  BY <1>1 DEF FromPool, ConnOf
<1>3. OwnDue' = OwnDue
  <2>1. \A h \in Handles : registry[sess[h].id] = h => sess[h].id # i
    BY <1>1, Constants
  <2> QED
    BY <1>1, <1>2, <2>1 DEF OwnDue, Own
<1>4. LifeConn' = LifeConn
  BY <1>2 DEF LifeConn
<1>5. OwnLoading' = OwnLoading /\ OwnLeaving' = OwnLeaving
  BY <1>1, <1>2 DEF OwnLoading, OwnLeaving, Own
<1>6. Own(inWorld)' = Own(inWorld)
  BY <1>1, <1>2 DEF Own, LInv, IInv, TypeOK
<1>7. OwnTurn' = OwnTurn /\ InPass' = InPass
  BY <1>1, <1>2 DEF OwnTurn, InPass, LInv, IInv, DrainOK
<1> QED
  BY <1>3, <1>4, <1>5, <1>6, <1>7 DEF Life!vars

(* The session of the entry has its turn.                                  *)
LEMMA BeginUpdateTurns ==
    ASSUME LInv, NEW i \in Ids, NEW diff \in Diffs, BeginUpdate(i, diff)
    PROVE  [Life!Next]_(Life!vars)
<1>1. PICK h \in Handles : h = registry[i]
  BY DEF BeginUpdate
<1>2. /\ UNCHANGED <<registry, kicked, inWorld>>
      /\ world.pc = "scan"
      /\ i \in pending /\ pending' = pending \ {i}
      /\ world' = [pc |-> "drain", id |-> i, sess |-> h]
      /\ sess' = [sess EXCEPT ![h] = TimerRuns(h, diff)]
  BY <1>1 DEF BeginUpdate
<1>3. sess \in [Handles -> Session] /\ sess[h] \in Session
  BY DEF LInv, IInv, TypeOK
<1>4. sess[h].id = i
  BY <1>1 DEF LInv, IInv, RegistryExact
<1>5. /\ TimerRuns(h, diff).id = sess[h].id
      /\ TimerRuns(h, diff).obj = sess[h].obj
      /\ TimerRuns(h, diff).socket = sess[h].socket
      /\ TimerRuns(h, diff).loading = sess[h].loading
      /\ TimerRuns(h, diff).leaving \in {sess[h].leaving, TRUE}
  BY <1>3 DEF TimerRuns, Session
<1>6. /\ sess'[h] = TimerRuns(h, diff)
      /\ \A g \in Handles : g # h => sess'[g] = sess[g]
  BY <1>2, <1>3
<1>7. \A g \in Handles : FromPool(g)' = FromPool(g) /\ ConnOf(g)' = ConnOf(g)
  BY <1>2, <1>5, <1>6, ConnSame
<1>8. LifeConn' = LifeConn
  BY <1>7 DEF LifeConn
<1>9. OwnLoading' = OwnLoading /\ Own(inWorld)' = Own(inWorld)
  BY <1>2, <1>5, <1>6, <1>7 DEF OwnLoading, Own, LInv, IInv, TypeOK
<1>10. InPass' = InPass /\ OwnTurn = Null
  BY <1>2 DEF InPass, OwnTurn
<1>11. OwnDue' = OwnDue \ {h} /\ (FromPool(h) => h \in OwnDue)
  <2>1. \A g \in Handles : registry[sess[g].id] = g /\ sess[g].id = i => g = h
    BY <1>1
  <2>2. \A g \in Handles : sess'[g].id = sess[g].id
    BY <1>5, <1>6
  <2> QED
    BY <1>1, <1>2, <1>4, <1>7, <2>1, <2>2 DEF OwnDue, Own
<1>12. CASE FromPool(h)
  <2>1. OwnTurn' = h
    BY <1>2, <1>7, <1>12 DEF OwnTurn
  <2>2. OwnLeaving' = OwnLeaving \/ OwnLeaving' = OwnLeaving \union {h}
    BY <1>5, <1>6, <1>7, <1>12 DEF OwnLeaving, Own
  <2>3. Life!BeginTurn(h)
    BY <1>8, <1>9, <1>10, <1>11, <1>12, <2>1, <2>2 DEF Life!BeginTurn
  <2> QED
    BY <2>3 DEF Life!Next
<1>13. CASE ~FromPool(h)
  <2>1. OwnTurn' = Null
    BY <1>2, <1>7, <1>13 DEF OwnTurn
  <2>2. OwnLeaving' = OwnLeaving
    BY <1>6, <1>7, <1>13 DEF OwnLeaving, Own
  <2>3. OwnDue' = OwnDue
    BY <1>11, <1>13 DEF OwnDue, Own
  <2> QED
    BY <1>8, <1>9, <1>10, <2>1, <2>2, <2>3 DEF Life!vars
<1> QED
  BY <1>12, <1>13

(* A packet is handled in the turn of a session that has its socket.       *)
LEMMA HandlePacketLives ==
    ASSUME LInv, HandlePacket
    PROVE  [Life!Next]_(Life!vars)
<1>1. PICK w \in Handles : w = world.sess
  BY HandlePacketType DEF LInv, IInv
<1>2. /\ world.pc = "drain" /\ sess[w].socket
      /\ UNCHANGED <<registry, kicked, world, pending>>
      /\ sess \in [Handles -> Session] /\ sess[w] \in Session
      /\ inWorld \subseteq Handles
  BY <1>1, HandlePacketType DEF LInv, IInv, TypeOK
<1>3. SUFFICES ASSUME \A h \in Handles : h # w => sess'[h] = sess[h],
                      sess'[w].id = sess[w].id, sess'[w].obj = sess[w].obj,
                      sess'[w].socket = sess[w].socket
               PROVE  [Life!Next]_(Life!vars)
  <2>1. PICK st \in Statuses, pl \in BOOLEAN, ld \in BOOLEAN, lv \in BOOLEAN :
          sess' = [sess EXCEPT ![w] =
                     [sess[w] EXCEPT !.status = st, !.player = pl,
                        !.loading = ld, !.leaving = lv]]
    BY <1>1, HandlePacketType DEF LInv, IInv
  <2> QED
    BY <1>2, <2>1 DEF Session
<1>4. \A h \in Handles : FromPool(h)' = FromPool(h) /\ ConnOf(h)' = ConnOf(h)
  BY <1>2, <1>3, ConnSame
<1>5. /\ LifeConn' = LifeConn /\ OwnTurn' = OwnTurn /\ InPass' = InPass
      /\ OwnDue' = OwnDue
  <2>1. LifeConn' = LifeConn
    BY <1>4 DEF LifeConn
  <2>2. OwnTurn' = OwnTurn /\ InPass' = InPass
    BY <1>1, <1>2, <1>4 DEF OwnTurn, InPass
  <2>3. \A h \in Handles : sess'[h].id = sess[h].id
    BY <1>3
  <2>4. OwnDue' = OwnDue
    BY <1>2, <1>4, <2>3 DEF OwnDue, Own
  <2> QED
    BY <2>1, <2>2, <2>4
<1>6. FromPool(w) => Life!HasTurn(w)
  <2>1. ASSUME FromPool(w)
        PROVE  ConnOf(w) = "open"
    <3>1. w \notin kicked /\ w \in Created /\ Live(w)
      BY <1>1, <1>2, <2>1, ConnOpen DEF LInv, IInv, KickedOK, WorldOK
    <3> QED
      BY <1>2, <2>1, <3>1 DEF ConnOf, Live
  <2> QED
    BY <1>1, <1>2, <2>1 DEF Life!HasTurn, OwnTurn, LifeConn
(* What becomes of the sets that a handler changes.                        *)
<1>7. /\ OwnLoading' = IF ~FromPool(w) THEN OwnLoading
                       ELSE IF sess'[w].loading THEN OwnLoading \union {w}
                       ELSE OwnLoading \ {w}
      /\ OwnLeaving' = IF ~FromPool(w) THEN OwnLeaving
                       ELSE IF sess'[w].leaving THEN OwnLeaving \union {w}
                       ELSE OwnLeaving \ {w}
  BY <1>3, <1>4 DEF OwnLoading, OwnLeaving, Own
<1>8. /\ UNCHANGED inWorld => Own(inWorld)' = Own(inWorld)
      /\ inWorld' = inWorld \union {w} =>
           Own(inWorld)' = IF FromPool(w) THEN Own(inWorld) \union {w}
                           ELSE Own(inWorld)
  BY <1>2, <1>4 DEF Own
<1>9. /\ FromPool(w) => /\ w \in OwnLoading <=> sess[w].loading
                        /\ w \in OwnLeaving <=> sess[w].leaving
      /\ ~FromPool(w) => w \notin OwnLoading /\ w \notin OwnLeaving
  BY DEF OwnLoading, OwnLeaving, Own
<1>10. CASE \/ HandleJoinConfirmation \/ HandlePlayerJoinShort \/ HandleOther
  <2>1. /\ UNCHANGED inWorld
        /\ sess'[w].loading = sess[w].loading
        /\ sess'[w].leaving = sess[w].leaving
    BY <1>1, <1>2, <1>10
    DEF HandleJoinConfirmation, HandlePlayerJoinShort, HandleOther, Session
  <2> QED
    BY <1>5, <1>7, <1>8, <1>9, <2>1 DEF Life!vars
<1>11. CASE HandlePlayerJoin
  <2>1. /\ inWorld' = inWorld \union {w}
        /\ sess'[w].loading /\ sess'[w].leaving = sess[w].leaving
    BY <1>1, <1>2, <1>11 DEF HandlePlayerJoin, Session
  <2>2. CASE FromPool(w)
    <3>1. Life!Enter(w)
      BY <1>5, <1>6, <1>7, <1>8, <1>9, <2>1, <2>2 DEF Life!Enter
    <3> QED
      BY <3>1 DEF Life!Next
  <2>3. CASE ~FromPool(w)
    BY <1>5, <1>7, <1>8, <2>1, <2>3 DEF Life!vars
  <2> QED
    BY <2>2, <2>3
<1>12. CASE HandleClientReady
  <2>1. /\ UNCHANGED inWorld
        /\ sess'[w].loading = sess[w].loading \/ ~sess'[w].loading
        /\ sess'[w].leaving = sess[w].leaving
    BY <1>1, <1>2, <1>12 DEF HandleClientReady, Session
  <2>2. CASE FromPool(w) /\ ~sess'[w].loading
    <3>1. Life!Ready(w)
      BY <1>5, <1>6, <1>7, <1>8, <1>9, <2>1, <2>2 DEF Life!Ready
    <3> QED
      BY <3>1 DEF Life!Next
  <2>3. CASE ~FromPool(w) \/ sess'[w].loading = sess[w].loading
    BY <1>5, <1>7, <1>8, <1>9, <2>1, <2>3 DEF Life!vars
  <2> QED
    BY <2>1, <2>2, <2>3
<1>13. CASE HandleOutgoingClient
  <2>1. /\ UNCHANGED inWorld
        /\ sess'[w].loading = sess[w].loading
        /\ sess'[w].leaving = sess[w].leaving \/ sess'[w].leaving
    BY <1>1, <1>2, <1>13 DEF HandleOutgoingClient, Session
  <2>2. CASE FromPool(w) /\ sess'[w].leaving
    <3>0. OwnLeaving' = OwnLeaving \union {w} /\ OwnLoading' = OwnLoading
      BY <1>7, <1>9, <2>1, <2>2
    <3>1. Life!AskToLeave(w)
      BY <1>5, <1>6, <1>8, <2>1, <2>2, <3>0 DEF Life!AskToLeave
    <3> QED
      BY <3>1 DEF Life!Next
  <2>3. CASE ~FromPool(w) \/ sess'[w].leaving = sess[w].leaving
    BY <1>5, <1>7, <1>8, <1>9, <2>1, <2>3 DEF Life!vars
  <2> QED
    BY <2>1, <2>2, <2>3
<1> QED
  BY <1>10, <1>11, <1>12, <1>13 DEF HandlePacket

(* The turn ends, with the session or without.                             *)
LEMMA EndUpdateEnds ==
    ASSUME LInv, EndUpdate
    PROVE  [Life!Next]_(Life!vars)
<1>1. PICK w \in Handles : w = world.sess
  BY DEF EndUpdate, LInv, IInv, DrainOK
<1>2. PICK out \in BOOLEAN : out <=> LogsOut(sess[w])
  OBVIOUS
<1>3. PICK D : D = IF out THEN {registry[world.id]} \ {Null} ELSE {}
  OBVIOUS
<1>4. /\ UNCHANGED <<kicked, pending>>
      /\ world.pc = "drain" /\ world'.pc = "scan"
      /\ \A h \in Handles :
           sess'[h] = IF h \in D THEN Freed(sess[h])
                      ELSE IF out /\ h = w THEN LoggedOut(sess[h]) ELSE sess[h]
      /\ inWorld' = (inWorld \ (IF out THEN {w} ELSE {})) \ D
      /\ registry' = IF out THEN [registry EXCEPT ![world.id] = Absent]
                     ELSE registry
  <2> DEFINE deleted == IF LogsOut(sess[world.sess])
                        THEN {registry[world.id]} \ {Null} ELSE {}
             left    == IF LogsOut(sess[world.sess]) THEN {world.sess} ELSE {}
  <2>1. /\ UNCHANGED <<kicked, pending>>
        /\ world.pc = "drain" /\ world'.pc = "scan"
        /\ sess' = [h \in Handles |-> IF h \in deleted THEN Freed(sess[h])
                                      ELSE IF h \in left THEN LoggedOut(sess[h])
                                      ELSE sess[h]]
        /\ inWorld' = (inWorld \ left) \ deleted
        /\ registry' = IF LogsOut(sess[world.sess])
                       THEN [registry EXCEPT ![world.id] = Absent]
                       ELSE registry
    BY DEF EndUpdate
  <2>2. deleted = D /\ left = IF out THEN {w} ELSE {}
    BY <1>1, <1>2, <1>3
  <2> HIDE DEF deleted, left
  <2> QED
    BY <1>1, <1>2, <2>1, <2>2
<1>5. /\ world.id \in Ids /\ Live(w) /\ sess[w].id = world.id
      /\ registry \in [Ids -> Handles \union {Null, Absent}]
      /\ \A h \in Handles : sess[h] \in Session
  BY <1>1, <1>4 DEF LInv, IInv, DrainOK, WorldOK, TypeOK
<1>6. \A h \in Handles : h \in D <=> out /\ registry[world.id] = h
  BY <1>3, Constants
<1>7. \A h \in D \intersect Handles : sess[h].id = world.id
  BY <1>5, <1>6 DEF LInv, IInv, RegistryExact
<1>8. \A h \in Handles :
        /\ sess'[h].id = sess[h].id
        /\ sess'[h].loading = sess[h].loading
        /\ sess'[h].leaving = sess[h].leaving
        /\ sess'[h].obj = IF h \in D THEN "freed" ELSE sess[h].obj
        /\ h \notin D /\ ~(out /\ h = w) => sess'[h].socket = sess[h].socket
  <2>1. \A s \in Session :
          /\ Freed(s).id = s.id /\ Freed(s).obj = "freed"
          /\ Freed(s).loading = s.loading /\ Freed(s).leaving = s.leaving
          /\ LoggedOut(s).id = s.id /\ LoggedOut(s).obj = s.obj
          /\ LoggedOut(s).loading = s.loading
          /\ LoggedOut(s).leaving = s.leaving
    BY DEF LoggedOut, Freed, Session
  <2> QED
    BY <1>4, <1>5, <2>1
<1>9. \A h \in Handles : FromPool(h)' = FromPool(h)
  BY <1>8 DEF FromPool
<1>10. \A h \in Handles : FromPool(h) /\ sess[h].id = world.id => h = w
  <2>1. ASSUME NEW h \in Handles, FromPool(h), sess[h].id = world.id
        PROVE  h = w
    <3>1. h \in Created /\ w \in Created
      BY <1>5, <2>1, ConnOpen DEF FromPool
    <3> QED
      BY <1>5, <2>1, <3>1 DEF LInv, IInv, IdsExclusive
  <2> QED
    BY <2>1
<1>11. \A h \in Handles : FromPool(h) /\ h # w =>
         h \notin D /\ ConnOf(h)' = ConnOf(h)
  <2>1. \A h \in Handles : FromPool(h) /\ h # w => h \notin D
    BY <1>7, <1>10
  <2> QED
    BY <1>4, <1>8, <2>1, ConnSame
<1>12. \A h \in Handles : ~FromPool(h) => ConnOf(h)' = ConnOf(h)
  BY <1>9 DEF ConnOf
<1>13. OwnLoading' = OwnLoading /\ OwnLeaving' = OwnLeaving
  BY <1>8, <1>9 DEF OwnLoading, OwnLeaving, Own
<1>14. InPass' = InPass /\ OwnTurn' = Null
  BY <1>4 DEF InPass, OwnTurn
<1>15. OwnDue' = OwnDue
  <2>1. world.id \in PoolIds => world.id \notin pending
    BY <1>4 DEF LInv, PassInv
  <2>2. ASSUME NEW h \in Handles, FromPool(h), sess[h].id \in pending
        PROVE  registry'[sess[h].id] = registry[sess[h].id]
    <3>1. sess[h].id # world.id /\ sess[h].id \in Ids
      BY <2>1, <2>2, ConnOpen DEF FromPool
    <3> QED
      BY <1>4, <1>5, <3>1
  <2> QED
    BY <1>4, <1>8, <1>9, <2>2 DEF OwnDue, Own
<1>16. CASE ~FromPool(w)
  <2>1. LifeConn' = LifeConn
    BY <1>11, <1>12, <1>16 DEF LifeConn
  <2>2. Own(inWorld)' = Own(inWorld)
    BY <1>4, <1>9, <1>11, <1>16 DEF Own, LInv, IInv, TypeOK
  <2>3. OwnTurn = Null
    BY <1>1, <1>16 DEF OwnTurn
  <2> QED
    BY <1>13, <1>14, <1>15, <2>1, <2>2, <2>3 DEF Life!vars
<1>17. CASE FromPool(w)
  <2>1. OwnTurn = w /\ w # Null
    BY <1>1, <1>4, <1>17, Constants DEF OwnTurn
  <2>2. ConnOf(w) = IF w \in kicked THEN "kicked"
                    ELSE IF sess[w].socket THEN "open" ELSE "cut"
    BY <1>5, <1>17 DEF ConnOf, Live
  <2>3. w \in kicked => ~sess[w].socket
    BY DEF LInv, IInv, KickedOK
  <2>4. Life!Ends(w) <=> out
    BY <1>2, <1>17, <2>2, <2>3
    DEF Life!Ends, LogsOut, LifeConn, OwnLeaving, OwnLoading, Own
  <2>5. Own(inWorld)' = IF out THEN Own(inWorld) \ {w} ELSE Own(inWorld)
    BY <1>2, <1>4, <1>6, <1>9, <1>11 DEF Own, LInv, IInv, TypeOK
  <2>6. w \in D <=> out /\ w \notin kicked
    <3>1. registry[world.id] = w <=> w \notin kicked
      BY <1>5, <1>17, ConnOpen, <2>2
    <3> QED
      BY <1>6, <3>1
  <2>7. ConnOf(w)' = IF out /\ w \notin kicked THEN "gone" ELSE ConnOf(w)
    <3>1. CASE out /\ w \notin kicked
      BY <1>8, <1>9, <1>17, <2>6, <3>1 DEF ConnOf
    <3>2. CASE ~out
      BY <1>4, <1>8, <1>9, <2>6, <3>2, ConnSame
    <3>3. CASE out /\ w \in kicked
      BY <1>4, <1>5, <1>8, <1>9, <1>17, <2>2, <2>6, <3>3 DEF ConnOf, Live
    <3> QED
      BY <1>2, <3>1, <3>2, <3>3
  <2>8. LifeConn' = IF out /\ LifeConn[w] # "kicked"
                    THEN [LifeConn EXCEPT ![w] = "gone"] ELSE LifeConn
    <3>1. ConnOf(w) = "kicked" <=> w \in kicked
      BY <2>2
    <3>2. \A h \in Handles : h # w => ConnOf(h)' = ConnOf(h)
      BY <1>11, <1>12
    <3> QED
      BY <1>2, <2>7, <3>1, <3>2 DEF LifeConn
  <2>9. Life!EndTurn(w)
    BY <1>2, <1>13, <1>14, <1>15, <2>1, <2>4, <2>5, <2>8
    DEF Life!EndTurn, Life!Becomes
  <2> QED
    BY <2>9 DEF Life!Next
<1> QED
  BY <1>16, <1>17

LEMMA FinishPassEnds ==
    ASSUME LInv, FinishPass
    PROVE  Life!EndPass
<1>1. /\ UNCHANGED <<registry, kicked, sess, inWorld, pending>>
      /\ world.pc = "scan" /\ world'.pc = "idle" /\ pending = {}
  BY DEF FinishPass, LInv, IInv, TypeOK, World
<1>2. \A h \in Handles : FromPool(h)' = FromPool(h) /\ ConnOf(h)' = ConnOf(h)
  BY <1>1 DEF FromPool, ConnOf
<1>3. /\ LifeConn' = LifeConn /\ OwnLoading' = OwnLoading
      /\ OwnLeaving' = OwnLeaving
  BY <1>1, <1>2 DEF LifeConn, OwnLoading, OwnLeaving, Own
<1>4. Own(inWorld)' = Own(inWorld)
  BY <1>1, <1>2 DEF Own, LInv, IInv, TypeOK
<1>5. OwnDue = {} /\ OwnDue' = {}
  BY <1>1 DEF OwnDue
<1>6. OwnTurn = Null /\ OwnTurn' = Null /\ InPass /\ InPass' = FALSE
  BY <1>1 DEF OwnTurn, InPass
<1> QED
  BY <1>3, <1>4, <1>5, <1>6 DEF Life!EndPass

LEMMA InitLife == Init => Life!Init
<1> SUFFICES ASSUME Init PROVE Life!Init
  OBVIOUS
<1>1. \A h \in Handles : ~FromPool(h) /\ ConnOf(h) = "unmade"
  <2>1. Created = {}
    BY DEF Init, Created
  <2>2. LInv
    BY InitInv, PassInit, InitUnborn DEF LInv
  <2> QED
    BY <2>1, <2>2, ConnOpen
<1>2. /\ LifeConn = [h \in Handles |-> "unmade"] /\ OwnLoading = {}
      /\ OwnLeaving = {} /\ OwnDue = {} /\ Own(inWorld) = {}
  BY <1>1 DEF LifeConn, OwnLoading, OwnLeaving, OwnDue, Own, Init
<1>3. OwnTurn = Null /\ InPass = FALSE
  BY DEF Init, OwnTurn, InPass
<1> QED
  BY <1>2, <1>3 DEF Life!Init

(* Every step of the two threads is a step in the life of one session, or  *)
(* of all of them when a pass begins, or no step at all (OnRawData,        *)
(* OnDelete, RemoveSession, World::Update, WorldSession::Update).          *)
THEOREM LifeKeptHolds == Spec => LifeKept
<1>1. LInv /\ [Next]_vars => [Life!Next]_(Life!vars)
  <2> SUFFICES ASSUME LInv, [Next]_vars PROVE [Life!Next]_(Life!vars)
    OBVIOUS
  <2>1. CASE UNCHANGED vars
    BY <2>1, LifeFrame DEF vars, worldVars
  <2>2. CASE HandleJoin
    BY <2>2, HandleJoinOpens
  <2>3. CASE \E k \in AddrKeys : DropSocket(k)
    BY <2>3, DropSocketCuts
  <2>4. CASE RemoveSession
    BY <2>4, RemoveSessionKicks
  <2>5. CASE StartPass
    BY <2>5, StartPassBegins DEF Life!Next
  <2>6. CASE \E i \in Ids : SkipKicked(i)
    BY <2>6, SkipKickedStutters
  <2>7. CASE \E i \in Ids, diff \in Diffs : BeginUpdate(i, diff)
    BY <2>7, BeginUpdateTurns
  <2>8. CASE HandlePacket
    BY <2>8, HandlePacketLives
  <2>9. CASE EndUpdate
    BY <2>9, EndUpdateEnds
  <2>10. CASE FinishPass
    BY <2>10, FinishPassEnds DEF Life!Next
  <2>11. CASE \/ \E c \in Addrs, op \in SocketOps \union ClientOps :
                   Receive(c, op)
              \/ UseFreedSession \/ HandleLANPing \/ QueuePacket
              \/ DropPacket \/ OnDelete \/ SocketGone
    BY <2>11, NetStutters
  <2> QED
    BY <2>1, <2>2, <2>3, <2>4, <2>5, <2>6, <2>7, <2>8, <2>9, <2>10, <2>11
    DEF Next, Deliver, Close, WorldStep
<1> QED
  BY <1>1, InitLife, LInvariance, PTL DEF Spec, LifeKept, Life!Spec
=============================================================================
