------------------------- MODULE ClientStreamProofs -------------------------
(***************************************************************************)
(* ClientStream implements FramedStream, for every number of messages, map *)
(* size and byte width.                                                    *)
(*                                                                         *)
(* The invariant describes the messages on their way as a chain: what is   *)
(* on the wire, the packets of the send queue, and the pending packet      *)
(* follow one another in the stream without a gap, and while the session   *)
(* has its socket the chain reaches the stream's end.  The chain is        *)
(* written as an operator of its four parts, so that each way the code     *)
(* changes it is a lemma without primes.                                   *)
(***************************************************************************)
EXTENDS ClientStream, TLAPS

First(d) == d.msgs[1]
Last(d)  == d.msgs[Len(d.msgs)]

(* A datagram carries consecutive messages of s, each under its header.    *)
Framed(d, s) ==
    /\ d.msgs # <<>>
    /\ \A i \in 1..Len(d.msgs) :
         /\ d.msgs[i] = d.msgs[1] + i - 1
         /\ d.msgs[i] \in 1..Len(s)
         /\ s[d.msgs[i]].hdr = d.hdr

QueueEnd(q, n) == IF q = <<>> THEN n ELSE Last(q[Len(q)])
ChainEnd(q, b, n) == IF b.msgs = <<>> THEN QueueEnd(q, n) ELSE Last(b)

(* Send queue q and pending packet b follow message n of s.                *)
Chain(q, b, s, n) ==
    /\ \A k \in 1..Len(q) : Framed(q[k], s)
    /\ \A k \in 1..(Len(q) - 1) : First(q[k + 1]) = Last(q[k]) + 1
    /\ q # <<>> => First(q[1]) = n + 1
    /\ b.msgs # <<>> => Framed(b, s) /\ First(b) = QueueEnd(q, n) + 1

(* Nothing is gathered before the join confirmation is answered, which     *)
(* goes past the pending packet.                                           *)
NothingBeforeConfirmed ==
    ~confirmed => /\ buf.msgs = <<>>
                  /\ calls = <<>>
                  /\ ~loggedIn
                  /\ downloading = 0

(* HandlePlayerJoinOpcode's own flush finds something to send.             *)
FlushAfterSend ==
    \A i \in 1..Len(calls) : calls[i].op = "flush" =>
      IF i = 1 THEN socket => buf.msgs # <<>>
      ELSE calls[i - 1].op = "send" /\ ~calls[i - 1].ifReady

IInv ==
    /\ TypeOK
    /\ Chain(sendQueue, buf, stream, sent)
    /\ socket => ChainEnd(sendQueue, buf, sent) = Len(stream)
    /\ NothingBeforeConfirmed
    /\ FlushAfterSend

-----------------------------------------------------------------------------
(* Sequences.                                                              *)

(* What Append does.                                                       *)
LEMMA AppendFacts ==
    ASSUME NEW S, NEW s \in Seq(S), NEW e \in S
    PROVE  /\ Append(s, e) \in Seq(S)
           /\ Append(s, e) # <<>>
           /\ Len(Append(s, e)) = Len(s) + 1
           /\ \A i \in 1..Len(s) : Append(s, e)[i] = s[i]
           /\ Append(s, e)[Len(s) + 1] = e
  OBVIOUS

(* What Head and Tail do.                                                  *)
LEMMA TailFacts ==
    ASSUME NEW S, NEW s \in Seq(S), s # <<>>
    PROVE  /\ Tail(s) \in Seq(S)
           /\ Len(s) \in Nat \ {0}
           /\ Len(Tail(s)) = Len(s) - 1
           /\ \A i \in 1..(Len(s) - 1) : Tail(s)[i] = s[i + 1]
           /\ Head(s) = s[1]
           /\ Head(s) \in S
  OBVIOUS

(* The calls of a handler are a list.                                      *)
LEMMA ShortLists ==
    ASSUME NEW S, NEW a \in S, NEW b \in S
    PROVE  <<>> \in Seq(S) /\ <<a>> \in Seq(S) /\ <<a, b>> \in Seq(S)
  OBVIOUS

(* A sequence that is not empty has a first and a last element.            *)
LEMMA NonEmpty ==
    ASSUME NEW S, NEW s \in Seq(S), s # <<>>
    PROVE  Len(s) \in Nat \ {0} /\ 1 \in 1..Len(s) /\ Len(s) \in 1..Len(s)
  OBVIOUS

-----------------------------------------------------------------------------
(* The chain.                                                              *)

(* A datagram stays framed when the stream grows.                          *)
LEMMA FramedGrows ==
    ASSUME NEW d \in Datagrams, NEW s \in Seq(Messages), NEW m \in Messages,
           Framed(d, s)
    PROVE  Framed(d, Append(s, m))
  BY AppendFacts DEF Framed

(* The whole chain does.                                                   *)
LEMMA ChainGrows ==
    ASSUME NEW q \in Seq(Datagrams), NEW b \in Datagrams,
           NEW s \in Seq(Messages), NEW m \in Messages, NEW n \in Nat,
           Chain(q, b, s, n)
    PROVE  Chain(q, b, Append(s, m), n)
<1>1. \A k \in 1..Len(q) : Framed(q[k], Append(s, m))
  BY FramedGrows DEF Chain
<1>2. b.msgs # <<>> => Framed(b, Append(s, m))
  BY FramedGrows DEF Chain
<1> QED
  BY <1>1, <1>2 DEF Chain

(* _SendPacket: the pending packet joins the send queue.                   *)
LEMMA ChainPush ==
    ASSUME NEW q \in Seq(Datagrams), NEW b \in Datagrams,
           NEW s \in Seq(Messages), NEW n \in Nat,
           Chain(q, b, s, n), b.msgs # <<>>
    PROVE  /\ Chain(Append(q, b), EmptyBuf, s, n)
           /\ ChainEnd(Append(q, b), EmptyBuf, n) = ChainEnd(q, b, n)
           /\ QueueEnd(Append(q, b), n) = ChainEnd(q, b, n)
<1> DEFINE p == Append(q, b)
<1>1. /\ p \in Seq(Datagrams) /\ p # <<>> /\ Len(p) = Len(q) + 1
      /\ \A i \in 1..Len(q) : p[i] = q[i]
      /\ p[Len(q) + 1] = b
  BY AppendFacts
<1>2. Len(q) \in Nat
  OBVIOUS
<1> HIDE DEF p
<1>3. \A k \in 1..Len(p) : Framed(p[k], s)
  BY <1>1, <1>2 DEF Chain
<1>4. ASSUME NEW k \in 1..(Len(p) - 1)
      PROVE  First(p[k + 1]) = Last(p[k]) + 1
  <2>1. CASE k = Len(q)
    <3>1. q # <<>>
      BY <2>1, <1>1
    <3>2. First(b) = Last(q[Len(q)]) + 1
      BY <3>1 DEF Chain, QueueEnd
    <3> QED
      BY <3>2, <2>1, <1>1
  <2>2. CASE k # Len(q)
    <3>1. k \in 1..(Len(q) - 1) /\ k + 1 \in 1..Len(q) /\ k \in 1..Len(q)
      BY <2>2, <1>1, <1>2
    <3> QED
      BY <3>1, <1>1 DEF Chain
  <2> QED
    BY <2>1, <2>2
<1>5. First(p[1]) = n + 1
  <2>1. CASE q = <<>>
    BY <2>1, <1>1 DEF Chain, QueueEnd
  <2>2. CASE q # <<>>
    <3>1. 1 \in 1..Len(q)
      BY <2>2, NonEmpty
    <3> QED
      BY <2>2, <3>1, <1>1 DEF Chain
  <2> QED
    BY <2>1, <2>2
<1>6. EmptyBuf.msgs = <<>>
  BY DEF EmptyBuf
<1>7. QueueEnd(p, n) = Last(b)
  BY <1>1 DEF QueueEnd
<1> QED
  BY <1>3, <1>4, <1>5, <1>6, <1>7 DEF Chain, ChainEnd, p

(* SendPacket: a message joins the pending packet.                         *)
LEMMA ChainGather ==
    ASSUME NEW q \in Seq(Datagrams), NEW b \in Datagrams,
           NEW s \in Seq(Messages), NEW m \in Messages, NEW n \in Nat,
           Chain(q, b, s, n), ChainEnd(q, b, n) = Len(s),
           b.msgs # <<>>, b.hdr = m.hdr
    PROVE  LET c == [hdr |-> b.hdr, msgs |-> Append(b.msgs, Len(s) + 1)]
           IN  /\ c \in Datagrams
               /\ c.msgs # <<>>
               /\ Chain(q, c, Append(s, m), n)
               /\ ChainEnd(q, c, n) = Len(s) + 1
<1> DEFINE t == Append(b.msgs, Len(s) + 1)
           c == [hdr |-> b.hdr, msgs |-> t]
           u == Append(s, m)
<1>1. b.msgs \in Seq(Nat) /\ Len(s) + 1 \in Nat /\ b.hdr \in Headers
  BY DEF Datagrams
<1>2. /\ t \in Seq(Nat) /\ t # <<>> /\ Len(t) = Len(b.msgs) + 1
      /\ \A i \in 1..Len(b.msgs) : t[i] = b.msgs[i]
      /\ t[Len(b.msgs) + 1] = Len(s) + 1
  BY <1>1, AppendFacts
<1>3. /\ u \in Seq(Messages) /\ Len(u) = Len(s) + 1
      /\ \A i \in 1..Len(s) : u[i] = s[i]
      /\ u[Len(s) + 1] = m
  BY AppendFacts
<1>4. c.msgs = t /\ c.hdr = b.hdr /\ c \in Datagrams
  BY <1>1, <1>2 DEF Datagrams
<1>5. /\ Len(b.msgs) \in Nat \ {0} /\ 1 \in 1..Len(b.msgs)
      /\ Len(b.msgs) \in 1..Len(b.msgs) /\ b.msgs[1] \in Nat
  BY <1>1, NonEmpty
<1>6. b.msgs[Len(b.msgs)] = Len(s)
  BY DEF ChainEnd, Last
<1>7. Framed(b, s)
  BY DEF Chain
<1> HIDE DEF t, c, u
<1>8. Framed(c, u)
  <2>1. ASSUME NEW i \in 1..Len(t)
        PROVE  /\ t[i] = t[1] + i - 1
               /\ t[i] \in 1..Len(u)
               /\ u[t[i]].hdr = c.hdr
    <3>1. CASE i = Len(b.msgs) + 1
      <4>1. b.msgs[1] + Len(b.msgs) - 1 = Len(s)
        BY <1>5, <1>6, <1>7 DEF Framed
      <4>2. t[i] = Len(s) + 1 /\ t[1] = b.msgs[1]
        BY <3>1, <1>2, <1>5
      <4>3. t[i] = t[1] + i - 1
        BY <4>1, <4>2, <3>1, <1>5
      <4>4. t[i] \in 1..Len(u)
        BY <4>2, <1>3, <1>1
      <4> QED
        BY <4>2, <4>3, <4>4, <1>3, <1>4
    <3>2. CASE i # Len(b.msgs) + 1
      <4>1. i \in 1..Len(b.msgs)
        BY <3>2, <1>2, <1>5
      <4>2. /\ b.msgs[i] = b.msgs[1] + i - 1 /\ b.msgs[i] \in 1..Len(s)
            /\ s[b.msgs[i]].hdr = b.hdr
        BY <4>1, <1>7 DEF Framed
      <4>3. t[i] = b.msgs[i] /\ t[1] = b.msgs[1]
        BY <4>1, <1>2, <1>5
      <4>4. t[i] \in 1..Len(s) /\ s[t[i]].hdr = b.hdr
        BY <4>2, <4>3
      <4>5. u[t[i]] = s[t[i]] /\ t[i] \in 1..Len(u)
        BY <4>4, <1>3
      <4> QED
        BY <4>2, <4>3, <4>4, <4>5, <1>4
    <3> QED
      BY <3>1, <3>2
  <2> QED
    BY <2>1, <1>2, <1>4 DEF Framed
<1>9. Chain(q, b, u, n)
  BY ChainGrows DEF u
<1>10. First(c) = First(b)
  BY <1>2, <1>4, <1>5 DEF First
<1>11. Chain(q, c, u, n)
  BY <1>8, <1>9, <1>10 DEF Chain
<1>12. ChainEnd(q, c, n) = Len(s) + 1
  BY <1>2, <1>4 DEF ChainEnd, Last
<1> QED
  BY <1>2, <1>4, <1>11, <1>12 DEF c, t, u

(* SendPacket: a message starts the next pending packet.                   *)
LEMMA ChainStart ==
    ASSUME NEW q \in Seq(Datagrams), NEW b \in Datagrams,
           NEW s \in Seq(Messages), NEW m \in Messages, NEW n \in Nat,
           Chain(q, b, s, n), QueueEnd(q, n) = Len(s)
    PROVE  LET c == [hdr |-> m.hdr, msgs |-> <<Len(s) + 1>>]
           IN  /\ c \in Datagrams
               /\ c.msgs # <<>>
               /\ Chain(q, c, Append(s, m), n)
               /\ ChainEnd(q, c, n) = Len(s) + 1
               /\ Last(c) = Len(s) + 1
<1> DEFINE c == [hdr |-> m.hdr, msgs |-> <<Len(s) + 1>>]
           u == Append(s, m)
<1>1. /\ u \in Seq(Messages) /\ Len(u) = Len(s) + 1
      /\ u[Len(s) + 1] = m /\ Len(s) \in Nat
  BY AppendFacts
<1>2. /\ c.hdr = m.hdr /\ c.msgs = <<Len(s) + 1>> /\ Len(c.msgs) = 1
      /\ c.msgs[1] = Len(s) + 1 /\ c.msgs # <<>>
  OBVIOUS
<1>3. c \in Datagrams
  BY <1>1 DEF Datagrams, Messages
<1> HIDE DEF c, u
<1>4. Framed(c, u)
  BY <1>1, <1>2 DEF Framed
<1>5. Chain(q, b, u, n)
  BY ChainGrows DEF u
<1>6. Chain(q, c, u, n)
  BY <1>2, <1>4, <1>5 DEF Chain, First
<1> QED
  BY <1>2, <1>3, <1>6 DEF ChainEnd, Last, c, u

(* _SendPacket without a socket: the pending packet is dropped.            *)
LEMMA ChainDrop ==
    ASSUME NEW q, NEW b, NEW s, NEW n, Chain(q, b, s, n)
    PROVE  Chain(q, EmptyBuf, s, n)
  BY DEF Chain, EmptyBuf

(* WorldSocket::Update: the first packet of the send queue leaves.         *)
LEMMA ChainPop ==
    ASSUME NEW q \in Seq(Datagrams), NEW b \in Datagrams,
           NEW s \in Seq(Messages), NEW n \in Nat,
           Chain(q, b, s, n), q # <<>>
    PROVE  /\ Chain(Tail(q), b, s, Last(q[1]))
           /\ ChainEnd(Tail(q), b, Last(q[1])) = ChainEnd(q, b, n)
<1> DEFINE p == Tail(q)
<1>1. /\ p \in Seq(Datagrams) /\ Len(q) \in Nat \ {0}
      /\ Len(p) = Len(q) - 1
      /\ \A i \in 1..(Len(q) - 1) : p[i] = q[i + 1]
  BY TailFacts
<1> HIDE DEF p
<1>2. p # <<>> => Len(p) \in Nat \ {0} /\ Len(q) - 1 \in 1..(Len(q) - 1)
  BY <1>1, NonEmpty
<1>3. p = <<>> => Len(q) = 1
  BY <1>1
<1>4. QueueEnd(p, Last(q[1])) = QueueEnd(q, n)
  <2>1. CASE p = <<>>
    BY <2>1, <1>3 DEF QueueEnd
  <2>2. CASE p # <<>>
    <3>1. p[Len(p)] = q[Len(q)]
      BY <2>2, <1>1, <1>2
    <3> QED
      BY <2>2, <3>1 DEF QueueEnd
  <2> QED
    BY <2>1, <2>2
<1>5. ASSUME NEW k \in 1..Len(p)
      PROVE  Framed(p[k], s)
  <2>1. k \in 1..(Len(q) - 1) /\ p[k] = q[k + 1] /\ k + 1 \in 1..Len(q)
    BY <1>1
  <2> QED
    BY <2>1 DEF Chain
<1>6. ASSUME NEW k \in 1..(Len(p) - 1)
      PROVE  First(p[k + 1]) = Last(p[k]) + 1
  <2>1. /\ k \in 1..(Len(q) - 1) /\ k + 1 \in 1..(Len(q) - 1)
        /\ p[k] = q[k + 1] /\ p[k + 1] = q[(k + 1) + 1]
    BY <1>1
  <2> QED
    BY <2>1 DEF Chain
<1>7. p # <<>> => First(p[1]) = Last(q[1]) + 1
  <2>1. SUFFICES ASSUME p # <<>> PROVE First(p[1]) = Last(q[1]) + 1
    OBVIOUS
  <2>2. 1 \in 1..(Len(q) - 1) /\ p[1] = q[1 + 1]
    BY <2>1, <1>1, <1>2
  <2> QED
    BY <2>2 DEF Chain
<1> QED
  BY <1>4, <1>5, <1>6, <1>7 DEF Chain, ChainEnd, p

-----------------------------------------------------------------------------
(* Type correctness of the parts a step changes.                           *)

(* The empty pending packet is a datagram.                                 *)
LEMMA EmptyBufType == EmptyBuf \in Datagrams
<1>1. NoHeader \in Headers
  BY UnkAssumption DEF NoHeader, Headers, Accounts, Unks
<1> QED
  BY <1>1 DEF EmptyBuf, Datagrams

(* The calls a handler is made of are calls.                               *)
LEMMA CallType ==
    ASSUME NEW account \in Accounts, NEW u \in Unks, NEW k \in Nat
    PROVE  /\ Send(account) \in Calls /\ SendIfReady(account) \in Calls
           /\ SendUnder(account, u) \in Calls /\ SendPiece(u, k) \in Calls
           /\ Other("bump") \in Calls /\ Other("load") \in Calls
           /\ Other("flush") \in Calls
  BY DEF Calls, Send, SendIfReady, SendUnder, SendPiece, Other, Accounts

(* A byte stays a byte.                                                    *)
LEMMA NextUnk ==
    ASSUME NEW u \in Unks
    PROVE  Next1(u) \in Unks
  BY UnkAssumption DEF Unks, Next1

(* NoxMap::ReadNxzBytes returns a size, and the read that a piece starts   *)
(* with never passes the test for the end of the map.                      *)
LEMMA PieceNeverLast ==
    ASSUME NEW k \in Nat \ {0}
    PROVE  BytesRead(k) \in Nat /\ ~(k * BytesRead(k) > MapSize)
<1> DEFINE offset == (k - 1) * PieceSize
<1>1. /\ PieceSize \in Nat \ {0} /\ MapSize \in Nat /\ k - 1 \in Nat
  BY SizeAssumption
<1>2. offset \in Nat
  BY <1>1
<1>3. k * PieceSize = offset + PieceSize
  BY <1>1
<1> HIDE DEF offset
<1>4. CASE MapSize = 0 \/ offset >= MapSize
  <2>1. BytesRead(k) = 0
    BY <1>4 DEF BytesRead, offset
  <2> QED
    BY <2>1, <1>1
<1>5. CASE ~(MapSize = 0 \/ offset >= MapSize) /\ offset + PieceSize > MapSize
  <2> DEFINE rest == MapSize - offset
             over == PieceSize - rest
  <2>1. BytesRead(k) = rest
    BY <1>5 DEF BytesRead, offset
  <2>2. rest \in Nat /\ over \in Nat /\ PieceSize = rest + over
    BY <1>1, <1>2, <1>5
  <2> HIDE DEF rest, over
  <2>3. (k - 1) * PieceSize = (k - 1) * rest + (k - 1) * over
    BY <1>1, <2>2
  <2>4. (k - 1) * over \in Nat /\ (k - 1) * rest \in Nat
    BY <1>1, <2>2
  <2>5. k * rest = (k - 1) * rest + rest
    BY <1>1, <2>2
  <2>6. (k - 1) * rest <= offset
    BY <2>3, <2>4 DEF offset
  <2>7. offset + rest = MapSize
    BY <1>1, <1>2 DEF rest
  <2> QED
    BY <1>1, <1>2, <2>1, <2>2, <2>4, <2>5, <2>6, <2>7
<1>6. CASE ~(MapSize = 0 \/ offset >= MapSize) /\ ~(offset + PieceSize > MapSize)
  <2>1. BytesRead(k) = PieceSize
    BY <1>6 DEF BytesRead, offset
  <2> QED
    BY <2>1, <1>1, <1>2, <1>3, <1>6
<1> QED
  BY <1>4, <1>5, <1>6

-----------------------------------------------------------------------------
(* SendPacket.                                                             *)

(* What one call of SendPacket leaves behind: the chain, unbroken, and     *)
(* either nothing accepted or one message more.                            *)
LEMMA SendPacketKeeps ==
    ASSUME IInv, NEW c \in Calls, SendPacket(c), UNCHANGED <<sent, socket>>
    PROVE  /\ sendQueue' \in Seq(Datagrams) /\ buf' \in Datagrams
           /\ stream' \in Seq(Messages)
           /\ Chain(sendQueue', buf', stream', sent')
           /\ socket => ChainEnd(sendQueue', buf', sent') = Len(stream')
           /\ buf.msgs # <<>> => buf'.msgs # <<>>
           /\ socket /\ ~c.ifReady => buf'.msgs # <<>>
           /\ \/ UNCHANGED stream
              \/ /\ socket
                 /\ stream' # <<>>
                 /\ stream'[Len(stream')] \in Messages
                 /\ stream' = Append(stream, stream'[Len(stream')])
<1> DEFINE h == [account |-> c.account,
                 unk |-> IF c.unk = -1 THEN unk ELSE c.unk]
           m == [hdr |-> h, piece |-> c.piece]
<1>1. /\ sendQueue \in Seq(Datagrams) /\ buf \in Datagrams
      /\ stream \in Seq(Messages) /\ sent \in Nat /\ unk \in Unks
      /\ Chain(sendQueue, buf, stream, sent)
      /\ socket => ChainEnd(sendQueue, buf, sent) = Len(stream)
      /\ sent' = sent
  BY DEF IInv, TypeOK
<1>2. m \in Messages /\ m.hdr = h
  BY <1>1 DEF Calls, Messages, Headers
<1>3. CASE ~socket \/ (c.ifReady /\ loading)
  <2>1. UNCHANGED <<buf, sendQueue, stream>>
    BY <1>3 DEF SendPacket, sendVars
  <2> QED
    BY <1>1, <1>3, <2>1
<1>4. CASE ~(~socket \/ (c.ifReady /\ loading))
  <2>1. socket /\ stream' = Append(stream, m)
    BY <1>4 DEF SendPacket
  <2>2. /\ stream' \in Seq(Messages) /\ stream' # <<>>
        /\ stream'[Len(stream')] = m
    BY <1>1, <1>2, <2>1, AppendFacts
  <2>3. buf.msgs # <<>> /\ ~SameHeader(h) =>
          /\ sendQueue' = Append(sendQueue, buf)
          /\ buf' = [hdr |-> h, msgs |-> <<Len(stream) + 1>>]
    BY <1>4 DEF SendPacket, Position
  <2>4. buf.msgs # <<>> /\ SameHeader(h) =>
          /\ sendQueue' = sendQueue
          /\ buf' = [hdr |-> buf.hdr, msgs |-> Append(buf.msgs, Len(stream) + 1)]
    BY <1>4 DEF SendPacket, Position
  <2>5. buf.msgs = <<>> =>
          /\ sendQueue' = sendQueue
          /\ buf' = [hdr |-> h, msgs |-> <<Len(stream) + 1>>]
    BY <1>4 DEF SendPacket, Position
  <2> DEFINE Kept == /\ sendQueue' \in Seq(Datagrams)
                     /\ buf' \in Datagrams
                     /\ buf'.msgs # <<>>
                     /\ Chain(sendQueue', buf', stream', sent)
                     /\ ChainEnd(sendQueue', buf', sent) = Len(stream) + 1
  <2> HIDE DEF m, h
  <2>6. ASSUME buf.msgs # <<>> /\ ~SameHeader(h) PROVE Kept
    <3> DEFINE p == Append(sendQueue, buf)
    <3>1. /\ p \in Seq(Datagrams) /\ Chain(p, EmptyBuf, stream, sent)
          /\ QueueEnd(p, sent) = Len(stream)
      BY <1>1, <2>1, <2>6, AppendFacts, ChainPush
    <3>2. EmptyBuf \in Datagrams
      BY EmptyBufType
    <3> HIDE DEF p
    <3> DEFINE d == [hdr |-> m.hdr, msgs |-> <<Len(stream) + 1>>]
    <3>3. /\ d \in Datagrams /\ d.msgs # <<>>
          /\ Chain(p, d, Append(stream, m), sent)
          /\ ChainEnd(p, d, sent) = Len(stream) + 1
      BY <1>1, <1>2, <3>1, <3>2, ChainStart
    <3>4. sendQueue' = p /\ buf' = d
      BY <1>2, <2>3, <2>6 DEF p
    <3> QED
      BY <2>1, <3>1, <3>3, <3>4
  <2>7. ASSUME buf.msgs # <<>> /\ SameHeader(h) PROVE Kept
    <3>1. buf.hdr = m.hdr
      BY <1>2, <2>7 DEF SameHeader
    <3> DEFINE d == [hdr |-> buf.hdr, msgs |-> Append(buf.msgs, Len(stream) + 1)]
    <3>2. /\ d \in Datagrams /\ d.msgs # <<>>
          /\ Chain(sendQueue, d, Append(stream, m), sent)
          /\ ChainEnd(sendQueue, d, sent) = Len(stream) + 1
      BY <1>1, <1>2, <2>1, <2>7, <3>1, ChainGather
    <3>3. sendQueue' = sendQueue /\ buf' = d
      BY <2>4, <2>7
    <3> QED
      BY <1>1, <2>1, <3>2, <3>3
  <2>8. ASSUME buf.msgs = <<>> PROVE Kept
    <3>1. QueueEnd(sendQueue, sent) = Len(stream)
      BY <1>1, <2>1, <2>8 DEF ChainEnd
    <3> DEFINE d == [hdr |-> m.hdr, msgs |-> <<Len(stream) + 1>>]
    <3>2. /\ d \in Datagrams /\ d.msgs # <<>>
          /\ Chain(sendQueue, d, Append(stream, m), sent)
          /\ ChainEnd(sendQueue, d, sent) = Len(stream) + 1
      BY <1>1, <1>2, <3>1, ChainStart
    <3>3. sendQueue' = sendQueue /\ buf' = d
      BY <1>2, <2>5, <2>8
    <3> QED
      BY <1>1, <2>1, <3>2, <3>3
  <2>9. Kept
    BY <2>6, <2>7, <2>8
  <2>10. Len(stream') = Len(stream) + 1
    BY <1>1, <1>2, <2>1, AppendFacts
  <2> QED
    BY <1>1, <1>2, <2>1, <2>2, <2>9, <2>10
<1> QED
  BY <1>3, <1>4

(* What _SendPacket leaves behind, of a pending packet that is not empty   *)
(* or that has no socket to go to.                                         *)
LEMMA FlushKeeps ==
    ASSUME IInv, Flush, UNCHANGED <<sent, socket>>,
           socket => buf.msgs # <<>>
    PROVE  /\ sendQueue' \in Seq(Datagrams) /\ buf' \in Datagrams
           /\ stream' \in Seq(Messages)
           /\ Chain(sendQueue', buf', stream', sent')
           /\ socket => ChainEnd(sendQueue', buf', sent') = Len(stream')
           /\ UNCHANGED stream
<1>1. /\ sendQueue \in Seq(Datagrams) /\ buf \in Datagrams
      /\ stream \in Seq(Messages) /\ sent \in Nat
      /\ Chain(sendQueue, buf, stream, sent)
      /\ socket => ChainEnd(sendQueue, buf, sent) = Len(stream)
  BY DEF IInv, TypeOK
<1>2. buf' = EmptyBuf /\ stream' = stream /\ sent' = sent
  BY DEF Flush
<1>3. EmptyBuf \in Datagrams
  BY EmptyBufType
<1>4. CASE socket
  <2>1. sendQueue' = Append(sendQueue, buf) /\ buf.msgs # <<>>
    BY <1>4 DEF Flush
  <2>2. /\ Chain(Append(sendQueue, buf), EmptyBuf, stream, sent)
        /\ ChainEnd(Append(sendQueue, buf), EmptyBuf, sent) = Len(stream)
    BY <1>1, <1>4, <2>1, ChainPush
  <2>3. Append(sendQueue, buf) \in Seq(Datagrams)
    BY <1>1, AppendFacts
  <2> QED
    BY <1>1, <1>2, <1>3, <2>1, <2>2, <2>3
<1>5. CASE ~socket
  <2>1. sendQueue' = sendQueue
    BY <1>5 DEF Flush
  <2> QED
    BY <1>1, <1>2, <1>3, <1>5, <2>1, ChainDrop
<1> QED
  BY <1>4, <1>5

-----------------------------------------------------------------------------
(* The steps keep the invariant.                                           *)

(* A new session has accepted nothing.                                     *)
LEMMA InitInv == Init => IInv
<1> SUFFICES ASSUME Init PROVE IInv
  OBVIOUS
<1>1. TypeOK
  <2>1. EmptyBuf \in Datagrams /\ 0 \in Unks
    BY EmptyBufType, UnkAssumption DEF Unks
  <2>2. buf \in Datagrams /\ wire \in Datagrams
    BY <2>1 DEF Init, EmptyBuf, Abstract!NoDatagram
  <2>3. pc \in {"out"} /\ calls = <<>> /\ sendQueue = <<>> /\ stream = <<>>
    BY DEF Init
  <2>4. \A S : <<>> \in Seq(S)
    OBVIOUS
  <2>5. /\ confirmed = FALSE /\ loggedIn = FALSE /\ loading = FALSE
        /\ leaving = FALSE /\ socket = TRUE /\ open = TRUE
        /\ unk = 0 /\ unk2 = 0 /\ downloading = 0 /\ sent = 0
    BY DEF Init
  <2> QED
    BY <2>1, <2>2, <2>3, <2>4, <2>5 DEF TypeOK
<1>2. Chain(sendQueue, buf, stream, sent)
  BY DEF Init, EmptyBuf, Chain
<1>3. ChainEnd(sendQueue, buf, sent) = Len(stream)
  BY DEF Init, EmptyBuf, ChainEnd, QueueEnd
<1>4. NothingBeforeConfirmed /\ FlushAfterSend
  BY DEF Init, EmptyBuf, NothingBeforeConfirmed, FlushAfterSend
<1> QED
  BY <1>1, <1>2, <1>3, <1>4 DEF IInv

(* A packet sent to every player, or from Player::Update.                  *)
LEMMA BroadcastInv ==
    ASSUME IInv, NEW account \in Accounts, Broadcast(account)
    PROVE  IInv'
<1> DEFINE c == SendIfReady(account)
<1>1. c \in Calls
  BY UnkAssumption, CallType DEF Unks
<1> HIDE DEF c
<1>2. /\ SendPacket(c) /\ loggedIn
      /\ UNCHANGED <<pc, calls, confirmed, loggedIn, loading, leaving, unk2,
                     downloading, socket, open, unk, sent, wire>>
  BY DEF Broadcast, handlerVars, wireVars, c
<1>3. /\ sendQueue' \in Seq(Datagrams) /\ buf' \in Datagrams
      /\ stream' \in Seq(Messages)
      /\ Chain(sendQueue', buf', stream', sent')
      /\ socket => ChainEnd(sendQueue', buf', sent') = Len(stream')
      /\ buf.msgs # <<>> => buf'.msgs # <<>>
  BY <1>1, <1>2, SendPacketKeeps
<1>4. TypeOK'
  BY <1>2, <1>3 DEF IInv, TypeOK
<1>5. NothingBeforeConfirmed'
  BY <1>2 DEF IInv, NothingBeforeConfirmed
<1>6. FlushAfterSend'
  BY <1>2, <1>3 DEF IInv, FlushAfterSend
<1> QED
  BY <1>2, <1>3, <1>4, <1>5, <1>6 DEF IInv

(* One call of a handler.                                                  *)
LEMMA DoCallInv == ASSUME IInv, DoCall PROVE IInv'
<1> DEFINE c == Head(calls)
<1>1. /\ calls \in Seq(Calls) /\ calls # <<>> /\ calls' = Tail(calls)
      /\ UNCHANGED <<pc, confirmed, loggedIn, leaving, unk2, downloading,
                     socket, open, sent, wire>>
  BY DEF DoCall, IInv, TypeOK, wireVars
<1>2. /\ Tail(calls) \in Seq(Calls) /\ Len(calls) \in Nat \ {0}
      /\ Len(Tail(calls)) = Len(calls) - 1
      /\ \A i \in 1..(Len(calls) - 1) : Tail(calls)[i] = calls[i + 1]
      /\ c = calls[1] /\ c \in Calls
  BY <1>1, TailFacts
<1>3. /\ c.op = "send" => SendPacket(c)
      /\ c.op = "flush" => Flush
      /\ c.op \notin {"send", "flush"} => UNCHANGED <<buf, sendQueue, stream>>
      /\ unk' = IF c.op = "bump" THEN Next1(unk) ELSE unk
      /\ loading' = (loading \/ c.op = "load")
  BY DEF DoCall, sendVars
<1>4. c.op = "flush" => (socket => buf.msgs # <<>>)
  BY <1>2 DEF IInv, FlushAfterSend
<1> HIDE DEF c
<1> DEFINE Sent == /\ sendQueue' \in Seq(Datagrams) /\ buf' \in Datagrams
                   /\ stream' \in Seq(Messages)
                   /\ Chain(sendQueue', buf', stream', sent')
                   /\ socket => ChainEnd(sendQueue', buf', sent') = Len(stream')
<1>5. Sent
  <2>1. CASE c.op = "send"
    BY <1>1, <1>2, <1>3, <2>1, SendPacketKeeps
  <2>2. CASE c.op = "flush"
    BY <1>1, <1>3, <1>4, <2>2, FlushKeeps
  <2>3. CASE c.op \notin {"send", "flush"}
    BY <1>1, <1>3, <2>3 DEF IInv, TypeOK
  <2> QED
    BY <2>1, <2>2, <2>3
<1>6. c.op = "send" /\ ~c.ifReady => (socket => buf'.msgs # <<>>)
  BY <1>1, <1>2, <1>3, SendPacketKeeps
<1> HIDE DEF Sent
<1>7. unk' \in Unks /\ loading' \in BOOLEAN
  BY <1>3, NextUnk DEF IInv, TypeOK
<1>8. TypeOK'
  BY <1>1, <1>2, <1>5, <1>7 DEF IInv, TypeOK, Sent
<1>9. NothingBeforeConfirmed'
  BY <1>1 DEF IInv, NothingBeforeConfirmed
<1>10. FlushAfterSend'
  <2>1. SUFFICES ASSUME NEW i \in 1..Len(calls'), calls'[i].op = "flush"
                 PROVE  IF i = 1 THEN socket' => buf'.msgs # <<>>
                        ELSE calls'[i - 1].op = "send" /\ ~calls'[i - 1].ifReady
    BY DEF FlushAfterSend
  <2>2. /\ i \in 1..(Len(calls) - 1) /\ i + 1 \in 1..Len(calls)
        /\ calls'[i] = calls[i + 1]
    BY <1>1, <1>2
  <2>3. calls[i].op = "send" /\ ~calls[i].ifReady
    <3>1. calls[i + 1].op = "flush" /\ i + 1 # 1 /\ (i + 1) - 1 = i
      BY <2>1, <2>2
    <3> QED
      BY <2>2, <3>1 DEF IInv, FlushAfterSend
  <2>4. CASE i = 1
    BY <1>1, <1>2, <1>6, <2>3, <2>4
  <2>5. CASE i # 1
    <3>1. i - 1 \in 1..(Len(calls) - 1) /\ (i - 1) + 1 = i
      BY <2>2, <2>5
    <3>2. calls'[i - 1] = calls[i]
      BY <1>1, <1>2, <3>1
    <3> QED
      BY <2>3, <2>5, <3>2
  <2> QED
    BY <2>4, <2>5
<1> QED
  BY <1>1, <1>5, <1>8, <1>9, <1>10 DEF IInv, Sent

(* A handler that has only set the session's fields, and its calls.        *)
LEMMA HandlerKeeps ==
    ASSUME IInv, TypeOK', FlushAfterSend',
           UNCHANGED <<socket, sent, buf, sendQueue, stream>>,
           confirmed'
    PROVE  IInv'
  BY DEF IInv, NothingBeforeConfirmed

(* The packet handlers, but for the join confirmation's.                   *)
LEMMA HandlerInv ==
    ASSUME IInv,
           \/ HandlePlayerJoin
           \/ \E u \in ClientUnks : HandleClientReady(u) \/ HandleRequestMap(u)
           \/ HandleReceivedMap
           \/ HandleOutgoingClient
           \/ \E account \in Accounts : HandleOther(account)
    PROVE  IInv'
<1> USE DEF handlerVars, sendVars, wireVars
<1>1. /\ TypeOK
      /\ loggedIn => confirmed
      /\ 0 \in Unks /\ 0 \in Accounts /\ 128 \in Accounts /\ 0 \in Nat
      /\ \A u \in ClientUnks : u \in Unks
  BY UnkAssumption DEF IInv, NothingBeforeConfirmed, Unks, Accounts
<1>2. ASSUME HandlePlayerJoin PROVE IInv'
  <2>1. /\ Send(128) \in Calls /\ SendIfReady(128) \in Calls
        /\ Other("bump") \in Calls /\ Other("load") \in Calls
        /\ SendUnder(0, 0) \in Calls /\ Other("flush") \in Calls
        /\ Send(0) \in Calls
    BY <1>1, CallType
  <2>2. /\ calls' = <<Send(128), SendIfReady(128), Other("bump"),
                      Other("load"), Send(128), SendUnder(0, 0),
                      Other("flush"), Send(0)>>
        /\ unk' = Next1(unk) /\ confirmed' /\ loggedIn'
        /\ confirmed' \in BOOLEAN /\ loggedIn' \in BOOLEAN
        /\ UNCHANGED <<pc, loading, leaving, unk2, downloading, socket, open,
                       buf, sendQueue, stream, sent, wire>>
    BY <1>2 DEF HandlePlayerJoin
  <2>3. TypeOK'
    BY <1>1, <2>1, <2>2, NextUnk DEF TypeOK
  <2>4. FlushAfterSend'
    BY <2>2 DEF FlushAfterSend, Send, SendIfReady, SendUnder, Other
  <2> QED
    BY <2>2, <2>3, <2>4, HandlerKeeps
<1>3. ASSUME NEW u \in ClientUnks, HandleClientReady(u) PROVE IInv'
  <2>1. /\ Send(0) \in Calls /\ Send(128) \in Calls /\ Next1(u) \in Unks
    BY <1>1, CallType, NextUnk
  <2>2. /\ calls' = <<Send(0), Send(128)>> \/ calls' = <<>>
        /\ unk' = Next1(u) /\ loading' = FALSE /\ loggedIn
        /\ UNCHANGED <<pc, confirmed, loggedIn, leaving, unk2, downloading,
                       socket, open, buf, sendQueue, stream, sent, wire>>
    BY <1>3 DEF HandleClientReady
  <2>3. TypeOK'
    <3>1. calls' \in Seq(Calls)
      BY <2>1, <2>2, ShortLists
    <3>2. unk' \in Unks /\ loading' \in BOOLEAN
      BY <2>1, <2>2
    <3> QED
      BY <1>1, <2>2, <3>1, <3>2 DEF TypeOK
  <2>4. FlushAfterSend'
    BY <2>2 DEF FlushAfterSend, Send
  <2> QED
    BY <1>1, <2>2, <2>3, <2>4, HandlerKeeps
<1>4. ASSUME NEW u \in ClientUnks, HandleRequestMap(u) PROVE IInv'
  <2>1. /\ \/ calls' = <<Send(128)>> /\ downloading' = 1 /\ unk2' = u
           \/ UNCHANGED <<calls, downloading, unk2>> /\ calls = <<>>
        /\ unk' = u /\ loggedIn
        /\ UNCHANGED <<pc, confirmed, loggedIn, loading, leaving, socket,
                       open, buf, sendQueue, stream, sent, wire>>
    BY <1>4 DEF HandleRequestMap, Handling
  <2>2. TypeOK'
    <3>1. Send(128) \in Calls /\ u \in Unks
      BY <1>1, CallType
    <3> DEFINE a == Send(128)
    <3> HIDE DEF a
    <3>2. calls' \in Seq(Calls)
      <4>1. calls' = <<a>> \/ calls' = calls
        BY <2>1 DEF a
      <4>2. <<a>> \in Seq(Calls)
        BY <3>1, ShortLists DEF a
      <4> QED
        BY <1>1, <4>1, <4>2 DEF TypeOK
    <3>3. unk' \in Unks /\ unk2' \in Unks /\ downloading' \in Nat
      BY <1>1, <2>1, <3>1 DEF TypeOK
    <3> QED
      BY <1>1, <2>1, <3>2, <3>3 DEF TypeOK
  <2>3. FlushAfterSend'
    BY <2>1 DEF FlushAfterSend, Send
  <2> QED
    BY <1>1, <2>1, <2>2, <2>3, HandlerKeeps
<1>5. ASSUME HandleReceivedMap \/ HandleOutgoingClient PROVE IInv'
  <2>1. /\ calls = <<>> /\ loggedIn
        /\ downloading' \in {downloading, 0} /\ leaving' \in {leaving, TRUE}
        /\ UNCHANGED <<pc, calls, confirmed, loggedIn, loading, unk2, socket,
                       open, unk, buf, sendQueue, stream, sent, wire>>
    BY <1>5 DEF HandleReceivedMap, HandleOutgoingClient, Handling
  <2>2. TypeOK'
    BY <1>1, <2>1 DEF TypeOK
  <2>3. FlushAfterSend'
    BY <2>1 DEF FlushAfterSend
  <2> QED
    BY <1>1, <2>1, <2>2, <2>3, HandlerKeeps
<1>6. ASSUME NEW account \in Accounts, HandleOther(account) PROVE IInv'
  <2>1. /\ calls' = <<SendIfReady(account)>> /\ loggedIn
        /\ UNCHANGED <<pc, confirmed, loggedIn, loading, leaving, unk2,
                       downloading, socket, open, unk, buf, sendQueue, stream,
                       sent, wire>>
    BY <1>6 DEF HandleOther
  <2>2. TypeOK'
    BY <1>1, <2>1, CallType DEF TypeOK
  <2>3. FlushAfterSend'
    BY <2>1 DEF FlushAfterSend, SendIfReady, Send
  <2> QED
    BY <1>1, <2>1, <2>2, <2>3, HandlerKeeps
<1> QED
  BY <1>2, <1>3, <1>4, <1>5, <1>6

(* HandleJoinConfirmation goes past the pending packet, which is empty.    *)
LEMMA HandleJoinConfirmationInv ==
    ASSUME IInv, HandleJoinConfirmation PROVE IInv'
<1> DEFINE m == [hdr |-> [account |-> 128, unk |-> 0], piece |-> 0]
           d == [hdr |-> m.hdr, msgs |-> <<Len(stream) + 1>>]
           u == Append(stream, m)
<1>1. /\ TypeOK /\ Chain(sendQueue, buf, stream, sent) /\ socket
      /\ ChainEnd(sendQueue, buf, sent) = Len(stream)
      /\ buf.msgs = <<>> /\ calls = <<>>
  BY DEF IInv, HandleJoinConfirmation, Handling, NothingBeforeConfirmed
<1>2. /\ stream' = u /\ sendQueue' = Append(sendQueue, d)
      /\ confirmed' = TRUE
      /\ UNCHANGED <<pc, calls, loggedIn, loading, leaving, unk2, downloading,
                     socket, open, unk, buf, sent, wire>>
  BY DEF HandleJoinConfirmation, wireVars, Position
<1>3. m \in Messages
  BY UnkAssumption DEF Messages, Headers, Accounts, Unks
<1>4. /\ sendQueue \in Seq(Datagrams) /\ buf \in Datagrams
      /\ stream \in Seq(Messages) /\ sent \in Nat
  BY <1>1 DEF TypeOK
<1>5. QueueEnd(sendQueue, sent) = Len(stream)
  BY <1>1 DEF ChainEnd
<1> HIDE DEF m
<1>6. /\ d \in Datagrams /\ d.msgs # <<>>
      /\ Chain(sendQueue, d, u, sent)
      /\ ChainEnd(sendQueue, d, sent) = Len(stream) + 1
  BY <1>1, <1>3, <1>4, <1>5, ChainStart
<1>7. u \in Seq(Messages) /\ Len(u) = Len(stream) + 1
  BY <1>3, <1>4, AppendFacts
<1>8. Append(sendQueue, d) \in Seq(Datagrams)
  BY <1>4, <1>6, AppendFacts
<1> HIDE DEF d, u
<1>9. /\ Chain(Append(sendQueue, d), EmptyBuf, u, sent)
      /\ QueueEnd(Append(sendQueue, d), sent) = Len(stream) + 1
  BY <1>4, <1>6, <1>7, ChainPush
<1>10. Chain(sendQueue', buf', stream', sent')
  BY <1>1, <1>2, <1>9 DEF Chain, EmptyBuf
<1>11. ChainEnd(sendQueue', buf', sent') = Len(stream')
  BY <1>1, <1>2, <1>7, <1>9 DEF ChainEnd
<1>12. TypeOK'
  BY <1>1, <1>2, <1>7, <1>8 DEF TypeOK
<1>13. FlushAfterSend' /\ NothingBeforeConfirmed'
  BY <1>1, <1>2 DEF FlushAfterSend, NothingBeforeConfirmed
<1> QED
  BY <1>10, <1>11, <1>12, <1>13 DEF IInv

(* WorldSession::Update around the packet loop.                            *)
LEMMA UpdateStepInv ==
    ASSUME IInv, BeginUpdate \/ FlushPending \/ NoMapToSend \/ EndUpdate
    PROVE  IInv'
<1> USE DEF handlerVars, sendVars, wireVars
<1>1. /\ TypeOK /\ Chain(sendQueue, buf, stream, sent)
      /\ socket => ChainEnd(sendQueue, buf, sent) = Len(stream)
      /\ NothingBeforeConfirmed /\ FlushAfterSend
  BY DEF IInv
<1>2. ASSUME BeginUpdate PROVE IInv'
  <2>1. /\ pc' = "drain"
        /\ (calls' = <<Send(0)>> /\ loggedIn) \/ calls' = <<>>
        /\ UNCHANGED <<confirmed, loggedIn, loading, leaving, unk2,
                       downloading, socket, open, unk, buf, sendQueue, stream,
                       sent, wire>>
    BY <1>2 DEF BeginUpdate
  <2>2. Send(0) \in Calls
    BY UnkAssumption, CallType DEF Unks, Accounts
  <2>3. calls' \in Seq(Calls)
    BY <2>1, <2>2, ShortLists
  <2>4. TypeOK'
    BY <1>1, <2>1, <2>3 DEF TypeOK
  <2>5. FlushAfterSend'
    BY <2>1 DEF FlushAfterSend, Send
  <2>6. NothingBeforeConfirmed'
    BY <1>1, <2>1 DEF NothingBeforeConfirmed
  <2> QED
    BY <1>1, <2>1, <2>4, <2>5, <2>6 DEF IInv
<1>3. ASSUME FlushPending PROVE IInv'
  <2>1. /\ pc' = "map" /\ calls = <<>>
        /\ IF buf.msgs # <<>> THEN Flush
           ELSE UNCHANGED <<buf, sendQueue, stream>>
        /\ UNCHANGED <<calls, confirmed, loggedIn, loading, leaving, unk2,
                       downloading, socket, open, unk, sent, wire>>
    BY <1>3 DEF FlushPending
  <2> DEFINE Sent == /\ sendQueue' \in Seq(Datagrams) /\ buf' \in Datagrams
                     /\ stream' \in Seq(Messages)
                     /\ Chain(sendQueue', buf', stream', sent')
                     /\ socket =>
                          ChainEnd(sendQueue', buf', sent') = Len(stream')
  <2>2. Sent
    <3>1. CASE buf.msgs # <<>>
      BY <2>1, <3>1, FlushKeeps
    <3>2. CASE buf.msgs = <<>>
      BY <1>1, <2>1, <3>2 DEF TypeOK
    <3> QED
      BY <3>1, <3>2
  <2>3. buf.msgs = <<>> => buf'.msgs = <<>>
    BY <2>1
  <2> HIDE DEF Sent
  <2>4. TypeOK'
    BY <1>1, <2>1, <2>2 DEF TypeOK, Sent
  <2>5. NothingBeforeConfirmed' /\ FlushAfterSend'
    BY <1>1, <2>1, <2>3 DEF NothingBeforeConfirmed, FlushAfterSend
  <2> QED
    BY <2>1, <2>2, <2>4, <2>5 DEF IInv, Sent
<1>4. ASSUME NoMapToSend \/ EndUpdate PROVE IInv'
  <2>1. /\ pc' \in {"end", "out", "gone"} /\ socket' \in BOOLEAN
        /\ socket' => socket
        /\ UNCHANGED <<calls, confirmed, loggedIn, loading, leaving, unk2,
                       downloading, open, unk, buf, sendQueue, stream, sent,
                       wire>>
    BY <1>1, <1>4 DEF NoMapToSend, EndUpdate, TypeOK
  <2>2. TypeOK'
    BY <1>1, <2>1 DEF TypeOK
  <2>3. NothingBeforeConfirmed' /\ FlushAfterSend'
    BY <1>1, <2>1 DEF NothingBeforeConfirmed, FlushAfterSend
  <2> QED
    BY <1>1, <2>1, <2>2, <2>3 DEF IInv
<1> QED
  BY <1>2, <1>3, <1>4

(* One piece of the map.                                                   *)
LEMMA SendMapSendPacketInv ==
    ASSUME IInv, SendMapSendPacket PROVE IInv' /\ downloading' > 0
<1>1. /\ TypeOK /\ downloading \in Nat \ {0} /\ downloading > 0 /\ confirmed
  BY DEF IInv, TypeOK, SendMapSendPacket, NothingBeforeConfirmed
<1>2. /\ pc' = "end" /\ unk2' = Next1(unk2)
      /\ calls' = <<SendPiece(Next1(unk2), downloading)>>
      /\ downloading' = IF downloading * BytesRead(downloading) > MapSize
                        THEN 0 ELSE downloading + 1
      /\ UNCHANGED <<confirmed, loggedIn, loading, leaving, socket, open, unk,
                     buf, sendQueue, stream, sent, wire>>
  BY DEF SendMapSendPacket, sendVars, wireVars
<1>3. downloading' = downloading + 1
  BY <1>1, <1>2, PieceNeverLast
<1>4. unk2' \in Unks /\ SendPiece(Next1(unk2), downloading) \in Calls
  BY <1>1, <1>2, NextUnk, CallType DEF TypeOK, Accounts
<1>5. calls' \in Seq(Calls)
  BY <1>2, <1>4
<1>6. TypeOK'
  BY <1>1, <1>2, <1>3, <1>4, <1>5 DEF TypeOK
<1>7. SendPiece(Next1(unk2), downloading).op = "send"
  BY DEF SendPiece, SendUnder, Send
<1>8. FlushAfterSend'
  BY <1>2, <1>7 DEF FlushAfterSend
<1> QED
  BY <1>1, <1>2, <1>3, <1>6, <1>8, HandlerKeeps

(* The first packet of the send queue leaves.                              *)
LEMMA TransmitInv == ASSUME IInv, Transmit PROVE IInv'
<1>1. /\ TypeOK /\ Chain(sendQueue, buf, stream, sent)
      /\ socket => ChainEnd(sendQueue, buf, sent) = Len(stream)
      /\ NothingBeforeConfirmed /\ FlushAfterSend
  BY DEF IInv
<1>2. /\ sendQueue # <<>> /\ wire' = Head(sendQueue)
      /\ sent' = Last(wire') /\ sendQueue' = Tail(sendQueue)
      /\ UNCHANGED <<pc, calls, confirmed, loggedIn, loading, leaving, unk2,
                     downloading, socket, open, unk, buf, stream>>
  BY DEF Transmit, handlerVars, Last
<1>3. /\ Head(sendQueue) = sendQueue[1] /\ sendQueue[1] \in Datagrams
      /\ Tail(sendQueue) \in Seq(Datagrams) /\ 1 \in 1..Len(sendQueue)
  BY <1>1, <1>2, TailFacts, NonEmpty DEF TypeOK
<1>4. Last(sendQueue[1]) \in Nat
  <2>1. /\ sendQueue[1].msgs \in Seq(Nat) /\ sendQueue[1].msgs # <<>>
    BY <1>1, <1>3 DEF Datagrams, Chain, Framed
  <2> QED
    BY <2>1, NonEmpty DEF Last
<1>5. /\ Chain(sendQueue', buf', stream', sent')
      /\ ChainEnd(sendQueue', buf', sent') = ChainEnd(sendQueue, buf, sent)
  BY <1>1, <1>2, <1>3, ChainPop DEF TypeOK
<1>6. TypeOK'
  BY <1>1, <1>2, <1>3, <1>4 DEF TypeOK
<1>7. NothingBeforeConfirmed' /\ FlushAfterSend'
  BY <1>1, <1>2 DEF NothingBeforeConfirmed, FlushAfterSend
<1> QED
  BY <1>1, <1>2, <1>5, <1>6, <1>7 DEF IInv

(* The UDP socket fails.                                                   *)
LEMMA OnDeleteInv == ASSUME IInv, OnDelete PROVE IInv'
<1>1. /\ socket' = FALSE /\ open' = FALSE
      /\ UNCHANGED <<pc, calls, confirmed, loggedIn, loading, leaving, unk2,
                     downloading, unk, buf, sendQueue, stream, sent, wire>>
  BY DEF OnDelete, handlerVars, sendVars, wireVars
<1>2. TypeOK' /\ NothingBeforeConfirmed' /\ FlushAfterSend'
  BY <1>1 DEF IInv, TypeOK, NothingBeforeConfirmed, FlushAfterSend
<1> QED
  BY <1>1, <1>2 DEF IInv

(* Every step keeps the invariant.                                         *)
LEMMA NextInv == IInv /\ [Next]_vars => IInv'
<1> SUFFICES ASSUME IInv, [Next]_vars PROVE IInv'
  OBVIOUS
<1>1. CASE \E account \in Accounts : Broadcast(account)
  BY <1>1, BroadcastInv
<1>2. CASE UpdateStep
  BY <1>2, DoCallInv, UpdateStepInv, SendMapSendPacketInv DEF UpdateStep
<1>3. CASE HandlePacket
  BY <1>3, HandleJoinConfirmationInv, HandlerInv DEF HandlePacket
<1>4. CASE Transmit
  BY <1>4, TransmitInv
<1>5. CASE OnDelete
  BY <1>5, OnDeleteInv
<1>6. CASE UNCHANGED vars
  BY <1>6 DEF vars, handlerVars, sendVars, wireVars, IInv, TypeOK,
              NothingBeforeConfirmed, FlushAfterSend
<1> QED
  BY <1>1, <1>2, <1>3, <1>4, <1>5, <1>6 DEF Next

(* The chain invariant holds throughout.                                   *)
THEOREM Invariance == Spec => []IInv
  BY InitInv, NextInv, PTL DEF Spec

(* The fields of the session keep their types: the bytes wrap, the pieces  *)
(* are numbered from one (TypeOK).                                         *)
THEOREM TypeCorrect == Spec => []TypeOK
<1>1. IInv => TypeOK
  BY DEF IInv
<1> QED
  BY <1>1, Invariance, PTL

-----------------------------------------------------------------------------
(* The download.                                                           *)

(* _SendMapSendPacket's test for the end never holds: only the client's    *)
(* MSG_RECEIVED_MAP ends a download, whatever the size of the map.         *)
THEOREM OnlyClientEndsDownloadHolds == Spec => OnlyClientEndsDownload
<1> DEFINE Kept == downloading > 0 /\ downloading' = 0 => pc = "drain"
<1>1. ASSUME IInv, [Next]_vars PROVE [Kept]_vars
  <2>1. CASE SendMapSendPacket
    BY <1>1, <2>1, SendMapSendPacketInv
  <2>2. CASE HandleReceivedMap
    BY <2>2 DEF HandleReceivedMap, Handling
  <2>3. CASE \E u \in ClientUnks : HandleRequestMap(u)
    BY <2>3 DEF HandleRequestMap, Handling
  <2>4. CASE \/ \E account \in Accounts : Broadcast(account)
             \/ BeginUpdate \/ DoCall \/ FlushPending \/ NoMapToSend
             \/ EndUpdate \/ HandleJoinConfirmation \/ HandlePlayerJoin
             \/ \E u \in ClientUnks : HandleClientReady(u)
             \/ HandleOutgoingClient
             \/ \E account \in Accounts : HandleOther(account)
             \/ Transmit \/ OnDelete
    <3>1. UNCHANGED downloading
      BY <2>4
         DEF Broadcast, BeginUpdate, DoCall, FlushPending, NoMapToSend,
             EndUpdate, HandleJoinConfirmation, HandlePlayerJoin,
             HandleClientReady, HandleOutgoingClient, HandleOther, Transmit,
             OnDelete, handlerVars
    <3> QED
      BY <3>1
  <2>5. CASE UNCHANGED vars
    BY <2>5
  <2> QED
    BY <1>1, <2>1, <2>2, <2>3, <2>4, <2>5 DEF Next, UpdateStep, HandlePacket
<1>2. IInv /\ [Next]_vars => [Kept]_vars
  BY <1>1
<1> QED
  BY <1>2, Invariance, PTL DEF Spec, OnlyClientEndsDownload

-----------------------------------------------------------------------------
(* The refinement.                                                         *)

(* A step that may have accepted a message, and did no more, is a step of  *)
(* FramedStream.                                                           *)
LEMMA AcceptMaps ==
    ASSUME UNCHANGED <<sent, wire, socket>>,
           \/ UNCHANGED stream
           \/ /\ socket
              /\ stream' # <<>>
              /\ stream'[Len(stream')] \in Messages
              /\ stream' = Append(stream, stream'[Len(stream')])
    PROVE  [Abstract!Next]_(Abstract!vars)
<1>1. CASE UNCHANGED stream
  BY <1>1 DEF Abstract!vars
<1>2. CASE ~UNCHANGED stream
  BY <1>2 DEF Abstract!Next, Abstract!Accept
<1> QED
  BY <1>1, <1>2

(* A datagram of the send queue is the next run of the stream.             *)
LEMMA TransmitMaps ==
    ASSUME IInv, Transmit PROVE Abstract!Next
<1> DEFINE d == sendQueue[1]
           n == Len(d.msgs)
<1>1. /\ TypeOK /\ Chain(sendQueue, buf, stream, sent)
  BY DEF IInv
<1>2. /\ sendQueue # <<>> /\ wire' = Head(sendQueue)
      /\ sent' = wire'.msgs[Len(wire'.msgs)]
      /\ UNCHANGED <<stream, socket>>
  BY DEF Transmit
<1>3. Head(sendQueue) = d /\ d \in Datagrams /\ 1 \in 1..Len(sendQueue)
  BY <1>1, <1>2, TailFacts, NonEmpty DEF TypeOK
<1>4. /\ Framed(d, stream) /\ d.msgs[1] = sent + 1
      /\ sent \in Nat /\ stream \in Seq(Messages)
  BY <1>1, <1>2, <1>3 DEF Chain, First, TypeOK
<1>5. d.msgs \in Seq(Nat) /\ d = [hdr |-> d.hdr, msgs |-> d.msgs]
  BY <1>3 DEF Datagrams
<1>6. wire' = d /\ sent' = d.msgs[Len(d.msgs)]
  BY <1>2, <1>3
<1> HIDE DEF d
<1>7. n \in Nat \ {0} /\ d.msgs # <<>> /\ 1 \in 1..n /\ n \in 1..n
  BY <1>4, <1>5, NonEmpty DEF Framed
<1>8. \A i \in 1..n : /\ d.msgs[i] = sent + i
                       /\ sent + i \in 1..Len(stream)
                       /\ stream[sent + i].hdr = d.hdr
  BY <1>4, <1>7 DEF Framed
<1>9. d.msgs = [i \in 1..n |-> sent + i]
  <2>1. d.msgs = [i \in 1..n |-> d.msgs[i]]
    BY <1>5
  <2> QED
    BY <2>1, <1>8
<1>10. sent' = sent + n
  BY <1>6, <1>7, <1>8
<1>11. n \in 1..(Len(stream) - sent)
  BY <1>4, <1>7, <1>8
<1>12. wire' = [hdr |-> stream[sent + 1].hdr, msgs |-> [i \in 1..n |-> sent + i]]
  BY <1>5, <1>6, <1>7, <1>8, <1>9
<1>13. \A i \in 1..n : stream[sent + i].hdr = stream[sent + 1].hdr
  BY <1>7, <1>8
<1> HIDE DEF n
<1>14. Abstract!Transmit(n)
  BY <1>2, <1>10, <1>12, <1>13 DEF Abstract!Transmit
<1> QED
  BY <1>11, <1>14 DEF Abstract!Next

(* Every step of the session is a step of FramedStream, or none.           *)
LEMMA NextMaps == IInv /\ [Next]_vars => [Abstract!Next]_(Abstract!vars)
<1> SUFFICES ASSUME IInv, [Next]_vars PROVE [Abstract!Next]_(Abstract!vars)
  OBVIOUS
<1> USE DEF handlerVars, sendVars, wireVars
<1>1. ASSUME NEW account \in Accounts, Broadcast(account)
      PROVE  [Abstract!Next]_(Abstract!vars)
  <2>1. SendIfReady(account) \in Calls
    BY UnkAssumption, CallType DEF Unks
  <2>2. SendPacket(SendIfReady(account)) /\ UNCHANGED <<sent, wire, socket>>
    BY <1>1 DEF Broadcast
  <2> QED
    BY <2>1, <2>2, SendPacketKeeps, AcceptMaps
<1>2. ASSUME DoCall PROVE [Abstract!Next]_(Abstract!vars)
  <2> DEFINE c == Head(calls)
  <2>1. /\ c.op = "send" => SendPacket(c)
        /\ c.op # "send" => UNCHANGED stream
        /\ UNCHANGED <<sent, wire, socket>>
    BY <1>2 DEF DoCall, Flush
  <2>2. c \in Calls
    BY <1>2, TailFacts DEF DoCall, IInv, TypeOK
  <2> HIDE DEF c
  <2> QED
    BY <2>1, <2>2, SendPacketKeeps, AcceptMaps
<1>3. ASSUME HandleJoinConfirmation PROVE [Abstract!Next]_(Abstract!vars)
  <2> DEFINE m == [hdr |-> [account |-> 128, unk |-> 0], piece |-> 0]
  <2>1. /\ socket /\ stream' = Append(stream, m)
        /\ UNCHANGED <<sent, wire, socket>>
    BY <1>3 DEF HandleJoinConfirmation, Handling
  <2>2. m \in Messages /\ stream \in Seq(Messages)
    BY UnkAssumption DEF Messages, Headers, Accounts, Unks, IInv, TypeOK
  <2> HIDE DEF m
  <2>3. stream' # <<>> /\ stream'[Len(stream')] = m
    BY <2>1, <2>2, AppendFacts
  <2> QED
    BY <2>1, <2>2, <2>3, AcceptMaps
<1>4. ASSUME EndUpdate \/ OnDelete PROVE [Abstract!Next]_(Abstract!vars)
  <2>1. /\ socket' \in BOOLEAN /\ socket \in BOOLEAN /\ (socket' => socket)
        /\ UNCHANGED <<stream, sent, wire>>
    BY <1>4 DEF EndUpdate, OnDelete, IInv, TypeOK
  <2> QED
    BY <2>1 DEF Abstract!Next, Abstract!Cut, Abstract!vars
<1>5. ASSUME \/ BeginUpdate \/ FlushPending \/ SendMapSendPacket
             \/ NoMapToSend \/ HandlePlayerJoin
             \/ \E u \in ClientUnks : HandleClientReady(u) \/ HandleRequestMap(u)
             \/ HandleReceivedMap \/ HandleOutgoingClient
             \/ \E account \in Accounts : HandleOther(account)
             \/ UNCHANGED vars
      PROVE  [Abstract!Next]_(Abstract!vars)
  <2>1. UNCHANGED <<stream, sent, wire, socket>>
    BY <1>5
       DEF BeginUpdate, FlushPending, Flush, SendMapSendPacket, NoMapToSend,
           HandlePlayerJoin, HandleClientReady, HandleRequestMap,
           HandleReceivedMap, HandleOutgoingClient, HandleOther, vars
  <2> QED
    BY <2>1 DEF Abstract!vars
<1>6. ASSUME Transmit PROVE [Abstract!Next]_(Abstract!vars)
  BY <1>6, TransmitMaps
<1> QED
  BY <1>1, <1>2, <1>3, <1>4, <1>5, <1>6 DEF Next, UpdateStep, HandlePacket

(* The messages leave in the order they were accepted, each once, each     *)
(* under its own header, until the connection is cut: the pending packet,  *)
(* the send queue and the map download implement the abstract stream.      *)
THEOREM InOrderAndFramedHolds == Spec => InOrderAndFramed
<1>1. Init => Abstract!Init
  BY DEF Init, Abstract!Init
<1> QED
  BY <1>1, NextMaps, Invariance, PTL DEF Spec, InOrderAndFramed, Abstract!Spec
=============================================================================
