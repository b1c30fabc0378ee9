-------------------------- MODULE MCWorldSessions --------------------------
(* Small instances of WorldSessions for TLC: two addresses behind one ip,  *)
(* and one alone behind another.                                           *)
EXTENDS WorldSessions, TLC

CONSTANTS a1, a2, b1, ipA, ipB

MCIpOf == [c \in Addrs |-> IF c = b1 THEN ipB ELSE ipA]
(* The two clients behind one ip may be exchanged.                         *)
MCSymmetry == Permutations({a1, a2})
=============================================================================
