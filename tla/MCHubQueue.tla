----------------------------- MODULE MCHubQueue -----------------------------
(* Two sockets with a channel of one frame each, and one REST request that *)
(* may broadcast twice.                                                    *)
EXTENDS HubQueue

CONSTANTS c1, c2, rest
=============================================================================
