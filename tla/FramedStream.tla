---------------------------- MODULE FramedStream ----------------------------
(***************************************************************************)
(* What a client may rely on in the traffic of its session: the messages   *)
(* the session accepted for it leave in the order they were accepted, each *)
(* of them once, and each in a datagram that carries its own header, until *)
(* the connection is cut; from then on some may be missing at the end.     *)
(***************************************************************************)
EXTENDS Integers, Sequences

CONSTANTS Messages,     \* a header (account id and unk) and a payload each
          NoHeader      \* the header of no datagram

VARIABLES stream,       \* the messages accepted, in order
          sent,         \* how many of them have left
          wire,         \* the last datagram that left
          up            \* the session still has its socket

vars == <<stream, sent, wire, up>>

NoDatagram == [hdr |-> NoHeader, msgs |-> <<>>]

Init == stream = <<>> /\ sent = 0 /\ wire = NoDatagram /\ up = TRUE

(* Stated of stream' itself: there may be any number of messages.          *)
Accept ==
    /\ up
    /\ stream' # <<>>
    /\ stream'[Len(stream')] \in Messages
    /\ stream' = Append(stream, stream'[Len(stream')])
    /\ UNCHANGED <<sent, wire, up>>

(* The next n messages leave in one datagram, under the header of all.     *)
Transmit(n) ==
    /\ \A i \in 1..n : stream[sent + i].hdr = stream[sent + 1].hdr
    /\ wire' = [hdr  |-> stream[sent + 1].hdr,
                msgs |-> [i \in 1..n |-> sent + i]]
    /\ sent' = sent + n
    /\ UNCHANGED <<stream, up>>

Cut == up /\ up' = FALSE /\ UNCHANGED <<stream, sent, wire>>

Next ==
    \/ Accept
    \/ \E n \in 1..(Len(stream) - sent) : Transmit(n)
    \/ Cut

Spec == Init /\ [][Next]_vars
=============================================================================
