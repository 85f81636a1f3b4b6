-------------------------------- MODULE Feed --------------------------------
(***************************************************************************)
(* What the hub promises its pages, with no mention of channels, pumps,    *)
(* locks or goroutines: what is published is numbered, and every page is   *)
(* shown what was published for it in that order and with no gap, until it *)
(* leaves.  A page that reads too slowly is shut: it is still shown what   *)
(* was due to it and is owed nothing from then on.  The one weakness: once *)
(* a page is shut, others may miss a publication.                          *)
(***************************************************************************)
EXTENDS Integers

CONSTANT Pages

VARIABLES
  count,   \* publications so far; each bears its number
  due,     \* what each page has still to be shown
  last,    \* the last publication each page was shown
  shut,    \* pages that read too slowly
  gone     \* pages that have left

fvars == <<count, due, last, shut, gone>>

Init == /\ count = 0
        /\ due = [c \in Pages |-> {}]
        /\ last = [c \in Pages |-> 0]
        /\ shut = {} /\ gone = {}

Publish(to) ==
  /\ count' = count + 1
  /\ due' = [c \in Pages |-> IF c \in to \ (shut \cup gone)
                             THEN due[c] \cup {count + 1} ELSE due[c]]
  /\ UNCHANGED <<last, shut, gone>>

(* The oldest of what is due: no later one overtakes it.                   *)
Show(c) ==
  \E n \in due[c] :
    /\ \A m \in due[c] : n <= m
    /\ last' = [last EXCEPT ![c] = n]
    /\ due' = [due EXCEPT ![c] = @ \ {n}]
    /\ UNCHANGED <<count, shut, gone>>

(* The page may still have been owed the newest.                           *)
Shut(c) ==
  /\ c \notin shut
  /\ shut' = shut \cup {c}
  /\ \/ due' = due
     \/ due' = [due EXCEPT ![c] = @ \ {count}]
  /\ UNCHANGED <<count, last, gone>>

Miss(cs) ==
  /\ shut # {}
  /\ due' = [c \in Pages |-> IF c \in cs THEN due[c] \ {count} ELSE due[c]]
  /\ UNCHANGED <<count, last, shut, gone>>

Leave(c) ==
  /\ gone' = gone \cup {c}
  /\ due' = [due EXCEPT ![c] = {}]
  /\ UNCHANGED <<count, last, shut>>

Next == \/ \E to \in SUBSET Pages : Publish(to) \/ Miss(to)
        \/ \E c \in Pages : Show(c) \/ Shut(c) \/ Leave(c)

Spec == Init /\ [][Next]_fvars
=============================================================================
