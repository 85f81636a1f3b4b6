----------------------------- MODULE MCFirstRun -----------------------------
(* Two machines, a stick for each and first runs enough for both to repeat  *)
(* theirs.                                                                  *)
EXTENDS FirstRun, TLC

Alike == Permutations(Node) \cup Permutations(Stick)
=============================================================================
