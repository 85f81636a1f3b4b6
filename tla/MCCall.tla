------------------------------- MODULE MCCall -------------------------------
(* Two users who may call the third, and do not differ otherwise.          *)
EXTENDS Call, TLC

CONSTANTS alice, bob, carol

MCToBob == {<<alice, bob>>, <<carol, bob>>}

MCCallers == Permutations({alice, carol})
=============================================================================
