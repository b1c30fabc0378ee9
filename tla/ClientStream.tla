---------------------------- MODULE ClientStream ----------------------------
(***************************************************************************)
(* The outgoing side of one session: WorldSession::SendPacket gathers the  *)
(* messages of one tick that share a header into one pending packet        *)
(* (sendPacket), _SendPacket hands the packet to WorldSocket's send queue, *)
(* and WorldSocket::Update, on the network thread, puts it on the wire.    *)
(* The map download shares the stream.                                     *)
(*                                                                         *)
(* The handlers run on the world thread as a list of calls, one step each, *)
(* so that the network thread may take the socket away between any two.    *)
(* A message is its header and, for a piece of the map, the piece's        *)
(* number; a datagram lists the messages it carries by their position in   *)
(* the stream of accepted messages.                                        *)
(***************************************************************************)
EXTENDS Integers, Sequences

CONSTANTS
    UnkMod,       \* m_unk and m_unk2 are uint8: 256
    ClientUnks,   \* the unk bytes the client's packets carry
    MapSize,      \* NoxMap::nxzSize, in bytes
    PieceSize,    \* PACKET_SIZE, 0x200
    MaxStream     \* bound on the messages a behaviour accepts

Unks     == 0..(UnkMod - 1)
Accounts == {0, 128}
Headers  == [account : Accounts, unk : Unks]
Messages == [hdr : Headers, piece : Nat]
(* unk -1 stands for changeUnk: the session's m_unk of the moment.         *)
Calls    == [op : {"send", "bump", "load", "flush"}, ifReady : BOOLEAN,
             account : Accounts, unk : Unks \union {-1}, piece : Nat]

ASSUME UnkAssumption == UnkMod \in Nat \ {0} /\ ClientUnks \subseteq Unks
ASSUME SizeAssumption == /\ MapSize \in Nat
                         /\ PieceSize \in Nat \ {0}
                         /\ MaxStream \in Nat

VARIABLES
    pc,           \* "out" of, or where in, WorldSession::Update; "gone"
    calls,        \* what the handler in progress has still to do
    confirmed,    \* m_status is past STATUS_AUTHED
    loggedIn,     \* m_status is STATUS_LOGGEDIN
    loading,      \* m_playerLoading
    leaving,      \* _logoutTime is set, and due
    socket,       \* _socket is not NULL
    open,         \* the UDP socket itself
    unk, unk2,    \* m_unk, m_unk2
    downloading,  \* m_playerDownloading
    buf,          \* sendPacket; opcode 0 is an empty list of messages
    sendQueue,    \* WorldSocket::_sendQueue, this session's packets
    stream,       \* history: the messages SendPacket accepted
    sent,         \* history: the last of them put on the wire
    wire          \* history: the last datagram put on the wire

handlerVars == <<confirmed, loggedIn, loading, leaving, unk2, downloading>>
sendVars == <<buf, sendQueue, stream>>
wireVars == <<sent, wire>>
vars == <<pc, calls, handlerVars, socket, open, unk, sendVars, wireVars>>

NoHeader == [account |-> 0, unk |-> 0]
Abstract == INSTANCE FramedStream WITH up <- socket

EmptyBuf  == [hdr |-> NoHeader, msgs |-> <<>>]
Datagrams == [hdr : Headers, msgs : Seq(Nat)]

TypeOK ==
    /\ pc \in {"out", "drain", "map", "end", "gone"}
    /\ calls \in Seq(Calls)
    /\ confirmed \in BOOLEAN /\ loggedIn \in BOOLEAN /\ loading \in BOOLEAN
    /\ leaving \in BOOLEAN /\ socket \in BOOLEAN /\ open \in BOOLEAN
    /\ unk \in Unks /\ unk2 \in Unks
    /\ downloading \in Nat
    /\ buf \in Datagrams
    /\ sendQueue \in Seq(Datagrams)
    /\ stream \in Seq(Messages)
    /\ sent \in Nat
    /\ wire \in Datagrams

Init ==
    /\ pc = "out"
    /\ calls = <<>>
    /\ confirmed = FALSE /\ loggedIn = FALSE
    /\ loading = FALSE /\ leaving = FALSE
    /\ socket = TRUE /\ open = TRUE
    /\ unk = 0 /\ unk2 = 0
    /\ downloading = 0
    /\ buf = EmptyBuf
    /\ sendQueue = <<>>
    /\ stream = <<>>
    /\ sent = 0
    /\ wire = Abstract!NoDatagram

-----------------------------------------------------------------------------
(* SendPacket and _SendPacket.                                             *)

Send(account) ==
    [op |-> "send", ifReady |-> FALSE, account |-> account, unk |-> -1,
     piece |-> 0]
SendIfReady(account) == [Send(account) EXCEPT !.ifReady = TRUE]
SendUnder(account, u) == [Send(account) EXCEPT !.unk = u]
SendPiece(u, k) == [SendUnder(128, u) EXCEPT !.piece = k]
Other(op) == [Send(0) EXCEPT !.op = op]

(* Mutant: the byte does not wrap.                                         *)
Next1Wide(u) == u + 1
Next1(u) == (u + 1) % UnkMod
Position == Len(stream) + 1

(* Mutant: packets are gathered by account only.                           *)
SameAccount(h) == buf.hdr.account = h.account
SameHeader(h) == buf.hdr = h

SendPacket(c) ==
    LET h == [account |-> c.account, unk |-> IF c.unk = -1 THEN unk ELSE c.unk]
    IN  IF ~socket \/ (c.ifReady /\ loading)
        THEN UNCHANGED sendVars
        ELSE /\ stream' = Append(stream, [hdr |-> h, piece |-> c.piece])
             /\ IF buf.msgs = <<>> \/ SameHeader(h)
                THEN /\ buf' = [hdr  |-> IF buf.msgs = <<>> THEN h ELSE buf.hdr,
                                msgs |-> Append(buf.msgs, Position)]
                     /\ UNCHANGED sendQueue
                ELSE /\ sendQueue' = Append(sendQueue, buf)
                     /\ buf' = [hdr |-> h, msgs |-> <<Position>>]

(* Without a socket the pending packet is dropped.                         *)
Flush ==
    /\ sendQueue' = IF socket THEN Append(sendQueue, buf) ELSE sendQueue
    /\ buf' = EmptyBuf
    /\ UNCHANGED stream

Room(n) == Len(stream) + n <= MaxStream

-----------------------------------------------------------------------------
(* The world thread outside this session's Update: what other sessions say *)
(* to every player in the world (SendPacketToAll), and Player::Update.     *)

Broadcast(account) ==
    /\ pc = "out"
    /\ loggedIn
    /\ Room(1)
    /\ SendPacket(SendIfReady(account))
    /\ UNCHANGED <<pc, calls, handlerVars, socket, open, unk, wireVars>>

(* The world thread in WorldSession::Update: first the time stamp.  (At    *)
(* the bound there is none, and the thread goes on.)                       *)
BeginUpdate ==
    /\ pc = "out"
    /\ pc' = "drain"
    /\ calls' = IF loggedIn /\ Room(1) THEN <<Send(0)>> ELSE <<>>
    /\ UNCHANGED <<handlerVars, socket, open, unk, sendVars, wireVars>>

DoCall ==
    /\ calls # <<>>
    /\ calls' = Tail(calls)
    /\ LET c == Head(calls)
       IN  /\ CASE c.op = "send"  -> SendPacket(c)
                [] c.op = "flush" -> Flush
                [] OTHER          -> UNCHANGED sendVars
           /\ unk' = IF c.op = "bump" THEN Next1(unk) ELSE unk
           /\ loading' = (loading \/ c.op = "load")
    /\ UNCHANGED <<pc, confirmed, loggedIn, leaving, unk2, downloading, socket,
                   open, wireVars>>

(* The packet loop takes the next packet while the socket is there.        *)
Handling(sends) ==
    /\ pc = "drain"
    /\ calls = <<>>
    /\ socket
    /\ Room(sends)

(* HandleJoinConfirmation answers on the socket itself, past sendPacket.   *)
HandleJoinConfirmation ==
    /\ Handling(1)
    /\ ~confirmed
    /\ confirmed' = TRUE
    /\ stream' = Append(stream, [hdr |-> [account |-> 128, unk |-> 0],
                                 piece |-> 0])
    /\ sendQueue' = Append(sendQueue, [hdr  |-> [account |-> 128, unk |-> 0],
                                       msgs |-> <<Position>>])
    /\ UNCHANGED <<pc, calls, loggedIn, loading, leaving, unk2, downloading,
                   socket, open, unk, buf, wireVars>>

(* HandlePlayerJoinOpcode; the run of packets from 0xA9 to the second game *)
(* settings is one.  STATUS_LOGGEDIN is past STATUS_AUTHED.                *)
HandlePlayerJoin ==
    /\ Handling(5)
    /\ confirmed' = TRUE
    /\ loggedIn' = TRUE
    /\ unk' = Next1(unk)
    /\ calls' = <<Send(128), SendIfReady(128), Other("bump"), Other("load"),
                  Send(128), SendUnder(0, 0), Other("flush"), Send(0)>>
    /\ UNCHANGED <<pc, loading, leaving, unk2, downloading, socket, open,
                   sendVars, wireVars>>

(* The time stamp and the update, then what SendPlayerInfo tells.          *)
HandleClientReady(u) ==
    /\ Handling(2)
    /\ loggedIn
    /\ unk' = Next1(u)
    /\ loading' = FALSE
    /\ calls' = IF loading THEN <<Send(0), Send(128)>> ELSE <<>>
    /\ UNCHANGED <<pc, confirmed, loggedIn, leaving, unk2, downloading, socket,
                   open, sendVars, wireVars>>

(* A request during a download is only heard for its unk.                  *)
HandleRequestMap(u) ==
    /\ Handling(1)
    /\ loggedIn
    /\ unk' = u
    /\ IF downloading = 0
       THEN downloading' = 1 /\ unk2' = u /\ calls' = <<Send(128)>>
       ELSE UNCHANGED <<downloading, unk2, calls>>
    /\ UNCHANGED <<pc, confirmed, loggedIn, loading, leaving, socket, open,
                   sendVars, wireVars>>

HandleReceivedMap ==
    /\ Handling(0)
    /\ loggedIn
    /\ downloading' = 0
    /\ UNCHANGED <<pc, calls, confirmed, loggedIn, loading, leaving, unk2,
                   socket, open, unk, sendVars, wireVars>>

HandleOutgoingClient ==
    /\ Handling(0)
    /\ loggedIn
    /\ leaving' = TRUE
    /\ UNCHANGED <<pc, calls, confirmed, loggedIn, loading, unk2, downloading,
                   socket, open, unk, sendVars, wireVars>>

(* Any other opcode that is answered.                                      *)
HandleOther(account) ==
    /\ Handling(1)
    /\ loggedIn
    /\ calls' = <<SendIfReady(account)>>
    /\ UNCHANGED <<pc, handlerVars, socket, open, unk, sendVars, wireVars>>

(* Mutant: what is pending stays pending.                                  *)
FlushPendingLater ==
    /\ pc = "drain"
    /\ calls = <<>>
    /\ pc' = "map"
    /\ UNCHANGED <<calls, handlerVars, socket, open, unk, sendVars, wireVars>>

(* The queue is empty, or the socket gone.                                 *)
FlushPending ==
    /\ pc = "drain"
    /\ calls = <<>>
    /\ pc' = "map"
    /\ IF buf.msgs # <<>> THEN Flush ELSE UNCHANGED sendVars
    /\ UNCHANGED <<calls, handlerVars, socket, open, unk, wireVars>>

(* Mutant: what was asked for, not what was read.                          *)
BytesAsked(k) == IF k > 0 THEN PieceSize ELSE 0
(* NoxMap::ReadNxzBytes: fread stops at the end of the file.               *)
BytesRead(k) ==
    LET offset == (k - 1) * PieceSize
    IN  IF MapSize = 0 \/ offset >= MapSize THEN 0
        ELSE IF offset + PieceSize > MapSize THEN MapSize - offset
        ELSE PieceSize

(* _SendMapSendPacket: after the read, PACKET_SIZE is what was read, and   *)
(* so it is in the test for the end.                                       *)
SendMapSendPacket ==
    /\ pc = "map"
    /\ downloading > 0
    /\ Room(1)
    /\ pc' = "end"
    /\ unk2' = Next1(unk2)
    /\ calls' = <<SendPiece(Next1(unk2), downloading)>>
    /\ downloading' = IF downloading * BytesRead(downloading) > MapSize THEN 0
                      ELSE downloading + 1
    /\ UNCHANGED <<confirmed, loggedIn, loading, leaving, socket, open, unk,
                   sendVars, wireVars>>

NoMapToSend ==
    /\ pc = "map"
    /\ downloading = 0 \/ ~Room(1)
    /\ pc' = "end"
    /\ UNCHANGED <<calls, handlerVars, socket, open, unk, sendVars, wireVars>>

(* LogoutPlayer, and World::Update deletes the session.                    *)
EndUpdate ==
    /\ pc = "end"
    /\ calls = <<>>
    /\ LET out == ~socket \/ (leaving /\ ~loading)
       IN  /\ pc' = IF out THEN "gone" ELSE "out"
           /\ socket' = (socket /\ ~out)
    /\ UNCHANGED <<calls, handlerVars, open, unk, sendVars, wireVars>>

-----------------------------------------------------------------------------
(* The network thread.                                                     *)

(* WorldSocket::Update.                                                    *)
Transmit ==
    /\ open
    /\ sendQueue # <<>>
    /\ wire' = Head(sendQueue)
    /\ sent' = wire'.msgs[Len(wire'.msgs)]
    /\ sendQueue' = Tail(sendQueue)
    /\ UNCHANGED <<pc, calls, handlerVars, socket, open, unk, buf, stream>>

(* WorldSocket::OnDelete.                                                  *)
OnDelete ==
    /\ open
    /\ open' = FALSE
    /\ socket' = FALSE
    /\ UNCHANGED <<pc, calls, handlerVars, unk, sendVars, wireVars>>

-----------------------------------------------------------------------------
HandlePacket ==
    \/ HandleJoinConfirmation
    \/ HandlePlayerJoin
    \/ \E u \in ClientUnks : HandleClientReady(u) \/ HandleRequestMap(u)
    \/ HandleReceivedMap
    \/ HandleOutgoingClient
    \/ \E account \in Accounts : HandleOther(account)

UpdateStep ==
    \/ BeginUpdate \/ DoCall \/ FlushPending
    \/ SendMapSendPacket \/ NoMapToSend \/ EndUpdate

Next ==
    \/ \E account \in Accounts : Broadcast(account)
    \/ UpdateStep
    \/ HandlePacket
    \/ Transmit
    \/ OnDelete

Spec == Init /\ [][Next]_vars

(* Both threads loop; strong fairness of FlushPending: a client does not   *)
(* send faster than one Update handles.                                    *)
FairSpec ==
    /\ Spec
    /\ WF_vars(UpdateStep)
    /\ SF_vars(FlushPending)
    /\ WF_vars(Transmit)

-----------------------------------------------------------------------------
(* Properties.                                                             *)

(* The pending packet, the send queue and the direct answer to the join    *)
(* confirmation together are one framed stream: SendPacket flushes before  *)
(* the header changes, nothing overtakes the pending packet, and a socket  *)
(* lost between any two calls of a handler only cuts the end off           *)
(* (WorldSession::SendPacket, _SendPacket, WorldSocket::Update).           *)
InOrderAndFramed == Abstract!Spec

(* What SendPacket accepted leaves while the UDP socket is open; a session *)
(* that logs out loses nothing but a piece of the map, which is gathered   *)
(* after the flush (WorldSession::Update's last steps).                    *)
AcceptedSent ==
    \A p \in 1..MaxStream :
      Len(stream) >= p
        ~> \/ sent >= p
           \/ ~open
           \/ pc = "gone" /\ p = Len(stream) /\ stream[p].piece > 0

(* Only HandleReceivedMapOpcode ends a download: the test for the end in   *)
(* _SendMapSendPacket multiplies by the bytes read, and never holds.       *)
OnlyClientEndsDownload ==
    [][downloading > 0 /\ downloading' = 0 => pc = "drain"]_vars
=============================================================================
