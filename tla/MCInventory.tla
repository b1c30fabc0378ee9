---------------------------- MODULE MCInventory ----------------------------
(* Two players; a sword on the map and one in the kit, and food that can   *)
(* be worn (an item that names no subclass has that of a helmet, 0).       *)
EXTENDS Inventory, TLC

CONSTANTS p1, p2, sword, kitSword, apple

MCSlotOf == sword :> 1 @@ kitSword :> 1 @@ apple :> 0

MCSymmetry == Permutations(Players)
=============================================================================
