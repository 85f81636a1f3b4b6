----------------------------- MODULE DurableLog -----------------------------
(***************************************************************************)
(* What the node's encrypted store promises, with no mention of snapshots, *)
(* flags, locks or processes: a log of committed writes of which a prefix  *)
(* is on stable storage.  A save moves the stable prefix forward, never    *)
(* back and never past the log; a stop or a crash drops exactly the part   *)
(* that was not saved.                                                     *)
(***************************************************************************)
EXTENDS Naturals

VARIABLES
  log,    \* number of writes the running node has committed
  saved   \* length of the prefix that survives a crash

dvars == <<log, saved>>

Init == log = 0 /\ saved = 0

Append == log' = log + 1 /\ saved' = saved

Save == /\ log' = log
        /\ saved' \in Nat
        /\ saved <= saved' /\ saved' <= log

Lose == log' = saved /\ saved' = saved

Next == Append \/ Save \/ Lose

Spec == Init /\ [][Next]_dvars
=============================================================================
