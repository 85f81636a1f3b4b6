------------------------------ MODULE MCVault ------------------------------
(* A node with two request goroutines, two commits at a time, at most *)
(* one injected failure and two boots.                                     *)
EXTENDS Vault

CONSTANTS w1, w2

MCWriters == {w1, w2}
=============================================================================
