------------------------------- MODULE MCSync -------------------------------
(* A node with people, alice and an admin, and one that only imports.  TLC  *)
(* chooses which packets are posted.                                        *)
EXTENDS Sync, TLC

CONSTANTS
  alice, root,
  group,  \* a chat the admin makes, with alice
  talk,   \* a message of hers to it
  close,  \* the end of the chat
  ban,    \* a revocation of alice
  mutiny, \* her revocation of the admin, which is refused
  base, field, one, two

MCKind ==
  group :> "chat_create" @@ talk :> "message" @@ close :> "chat_delete"
  @@ ban :> "revoke_subscriber" @@ mutiny :> "revoke_subscriber"

MCSender ==
  group :> root @@ talk :> alice @@ close :> root @@ ban :> root @@ mutiny :> alice
MCTarget ==
  group :> NoTarget @@ talk :> group @@ close :> group @@ ban :> NoTarget @@ mutiny :> NoTarget
MCUsers == group :> {alice} @@ talk :> {} @@ close :> {} @@ ban :> {alice} @@ mutiny :> {root}
MCHome == [p \in Packet |-> base]
MCRegistered == base :> {alice, root} @@ field :> {alice, root}

(* Timestamps are the authors', in no order.                               *)
MCTs == [p \in Packet |-> IF p = ban THEN 1 ELSE 2]

Nothing == [journal |-> <<>>, table |-> EmptyTable]

(* One node at most crashes, so what others sealed is never read, ...        *)
OneSeals ==
  \E n \in Node : \A m \in Node \ {n} : vault[m] = Nothing

(* ... and after the last fault nobody reads a vault.                       *)
Seen == <<db, IF faults < MaxFaults THEN vault ELSE {}, post, imp, bags, skipped, faults>>

(* Where the chat is ended nothing fails, and so nothing is sealed.         *)
Quiet ==
  close \in Posted => faults = 0 /\ \A n \in Node : vault[n] = Nothing

Alike == Permutations(Task)
=============================================================================
