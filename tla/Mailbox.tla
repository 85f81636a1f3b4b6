------------------------------ MODULE Mailbox ------------------------------
(***************************************************************************)
(* What store-and-forward promises, without rows, sockets or frames: a     *)
(* packet that was posted is seen only by those who may read it, may be    *)
(* seen any number of times, and is confirmed by a reader only after that  *)
(* reader saw it.  Nothing is ever taken out of the mailbox.               *)
(***************************************************************************)
CONSTANTS
  Packet,     \* what can be posted
  Reader,     \* who reads
  Readable    \* the pairs <<packet, reader>> that addressing allows

VARIABLES
  posted,     \* packets in the mailbox
  seen,       \* pairs <<packet, reader>> the reader has processed
  confirmed   \* pairs the mailbox will not offer again

mvars == <<posted, seen, confirmed>>

Init == posted = {} /\ seen = {} /\ confirmed = {}

Post(p) == /\ posted' = posted \cup {p}
           /\ UNCHANGED <<seen, confirmed>>

See(u, ps) == /\ ps \subseteq posted
              /\ ps \X {u} \subseteq Readable
              /\ seen' = seen \cup (ps \X {u})
              /\ UNCHANGED <<posted, confirmed>>

Confirm(u, ps) == /\ ps \X {u} \subseteq seen
                  /\ confirmed' = confirmed \cup (ps \X {u})
                  /\ UNCHANGED <<posted, seen>>

Next == \/ \E p \in Packet : Post(p)
        \/ \E u \in Reader, ps \in SUBSET Packet : See(u, ps) \/ Confirm(u, ps)

Spec == Init /\ [][Next]_mvars
=============================================================================
