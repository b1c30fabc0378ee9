---------------------------- MODULE ItemOwnership ----------------------------
(***************************************************************************)
(* What a player may rely on about items: each has one place at a time.    *)
(* It goes from hand to hand only over the ground, what is used up is      *)
(* never seen again, and what a player took along when he left stays lost. *)
(* All this is promised of an item until somebody uses it who does not     *)
(* carry it; of such a "spoiled" item nothing is.                          *)
(***************************************************************************)
CONSTANTS Players, Items

Places == Players \union
            {"unmade", "ground", "going", "gone", "lost", "spoiled"}

VARIABLE place      \* of each item: who carries it, or one of the others

Init == place \in [Items -> {"unmade", "ground"}]

Of(p) == {x \in Items : place[x] = p}

MoveTo(X, to) == place' = [x \in Items |-> IF x \in X THEN to ELSE place[x]]

(* A player who comes back to life is handed some new items.               *)
HandOut(p, X) == X \subseteq Of("unmade") /\ MoveTo(X, p)

Take(p, x) == x \in Of("ground") /\ MoveTo({x}, p)

Drop(p, x) == x \in Of(p) /\ MoveTo({x}, "ground")

(* What is used is carried, or was eaten from the ground.                  *)
Use(p, x) == x \in Of(p) \union Of("ground") /\ MoveTo({x}, "going")

(* Used by someone who has it not: it may have an owner, be free, or lost. *)
Spoil(x) ==
    /\ x \in Of("ground") \union Of("lost")
               \union UNION {Of(p) : p \in Players}
    /\ MoveTo({x}, "spoiled")

Leave(p) == MoveTo(Of(p), "lost")

(* All that was used up goes, and then those in D drop what they have.     *)
EndRound(D) ==
    place' = [x \in Items |-> IF place[x] = "going" THEN "gone"
                              ELSE IF place[x] \in D THEN "ground"
                              ELSE place[x]]

Next ==
    \/ \E p \in Players, x \in Items : Take(p, x) \/ Drop(p, x) \/ Use(p, x)
    \/ \E x \in Items : Spoil(x)
    \/ \E p \in Players, X \in SUBSET Items : HandOut(p, X)
    \/ \E p \in Players : Leave(p)
    \/ \E D \in SUBSET Players : EndRound(D)

Spec == Init /\ [][Next]_place
==============================================================================
