-------------------------- MODULE MCObjectRegistry --------------------------
(* Two players, an item that is on the map or comes with a respawn, a      *)
(* projectile, and a fixture: five objects for two extents.                *)
EXTENDS ObjectRegistry, TLC

CONSTANTS p1, p2, item, bolt, stone, here, there

MCPlayers    == {p1, p2}
MCItems      == {item}
MCMissiles   == {bolt}
MCFixtures   == {stone}
MCMapFile    == <<[obj |-> stone, extent |-> 1, at |-> here],
                  [obj |-> item, extent |-> 1, at |-> here]>>
MCPlaces     == {here, there}
MCNear       == {<<here, here>>, <<there, there>>}
MCSymmetry   == Permutations(MCPlayers)
=============================================================================
