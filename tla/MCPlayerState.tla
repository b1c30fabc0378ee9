---------------------------- MODULE MCPlayerState ----------------------------
(* A warrior, a class with mana and a byte that is no class.  Times are    *)
(* scaled down; a charge still ends before its delay does.                 *)
EXTENDS PlayerState, TLC

MCHealthOf     == ("warrior" :> 5) @@ ("wizard" :> 2)
MCManaOf       == ("warrior" :> 0) @@ ("wizard" :> 2)
MCTableFrames  == [a \in Auras |-> 1]
MCSpellFrames  == [a \in Auras |-> 1]
MCAbilityDelay == [a \in Abilities |-> IF a = "CHARGE" THEN 4 ELSE 1]
MCDuration     == [a \in Actions |-> IF a = "CHARGE" THEN 2
                                     ELSE IF a = "SHIELD" THEN 0 ELSE 1]
=============================================================================
