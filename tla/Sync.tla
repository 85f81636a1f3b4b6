-------------------------------- MODULE Sync --------------------------------
(***************************************************************************)
(* The hash-chained journal and its transport between nodes that share no  *)
(* network: a bag of journal rows is exported, carried by hand and         *)
(* replayed (server/internal/ws/import.go, the journal part of             *)
(* server/internal/db/store.go, the handlers of api/handlers.go and the    *)
(* subcommands of cmd/server/main.go).                                     *)
(*                                                                         *)
(* Handlers of posts and imports run concurrently; each of their SQL       *)
(* statements is a step (the pool has one connection).  A node may crash,  *)
(* which brings back what was sealed last.  The hash of a row is           *)
(* injective: its chain value is modelled by the packets up to that row.   *)
(***************************************************************************)
EXTENDS Tables, Integers, Sequences

CONSTANTS
  Node,
  Writer,      \* nodes that people are connected to; the others only import
  Home,        \* the node a packet is posted at
  Ts,          \* its author's timestamp
  Registered,  \* the callsigns provisioned at each node
  Task,        \* imports; each runs once
  NoNode,
  Damaged,     \* a packet changed on the way: its signature fails
  MaxBags,     \* bound: exports
  MaxPosts,    \* bound: packets posted
  MaxFaults    \* bound: crashes, failed statements, cancels, spoilt bags

ASSUME SyncAssumption ==
  /\ Writer \subseteq Node /\ NoNode \notin Node
  /\ Home \in [Packet -> Writer]
  /\ Ts \in [Packet -> Nat]
  /\ Registered \in [Node -> SUBSET User]
  /\ Damaged \notin Packet
  /\ MaxBags \in Nat /\ MaxPosts \in Nat /\ MaxFaults \in Nat

VARIABLES
  db,        \* per node: the journal and the tables
  vault,     \* per node: what the last seal saved of them
  post,      \* per packet: where its handler stands
  imp,       \* per import: where it stands, its node, bag and row
  bags,      \* the bags on the sticks
  skipped,   \* history: packets an import at the node left out of the journal
  faults

vars == <<db, vault, post, imp, bags, skipped, faults>>

-----------------------------------------------------------------------------
(* The journal.                                                            *)
Row == [p : Packet, prev : Seq(Packet)]

ChainHash(r) == Append(r.prev, r.p)

ChainHead(j) == IF j = <<>> THEN <<>> ELSE ChainHash(j[Len(j)])

PacketExists(j, p) == \E i \in DOMAIN j : j[i].p = p

(* The id is UNIQUE and journal() swallows ErrDuplicate.                    *)
AddPacketTwice(j, p) == Append(j, [p |-> p, prev |-> ChainHead(j)])
AddPacket(j, p) ==
  IF PacketExists(j, p) THEN j
  ELSE Append(j, [p |-> p, prev |-> ChainHead(j)])

(* WHERE ts >= after ORDER BY rowid: the rows in question, enumerated.      *)
Selected(j, after) == {k \in DOMAIN j : Ts[j[k].p] >= after}
Enumerations(K) ==
  {e \in [1..Cardinality(K) -> K] : \A k, m \in DOMAIN e : k < m => e[k] < e[m]}
ListJournal(j, after) ==
  {[k \in DOMAIN e |-> j[e[k]]] : e \in Enumerations(Selected(j, after))}

AnyChain(b) == TRUE
VerifyBag(b) == \A i \in 2..Len(b) : b[i].prev = ChainHash(b[i - 1])

(* What VerifyJournal reports as -1.                                        *)
VerifyJournal(j) ==
  \A i \in DOMAIN j :
    j[i].prev = (IF i = 1 THEN <<>> ELSE ChainHash(j[i - 1]))

(* VerifyStored looks up the sender, revoked or not, and checks the         *)
(* signature.                                                               *)
VerifyStored(n, b) ==
  \A i \in DOMAIN b : b[i].p # Damaged /\ Sender[b[i].p] \in Registered[n]

NoBag == <<>>
Over(how) == [at |-> how, node |-> NoNode, bag |-> NoBag, k |-> 0]
Idle == Over("idle")

Fault == faults < MaxFaults /\ faults' = faults + 1

Init ==
  /\ db = [n \in Node |-> [journal |-> <<>>, table |-> EmptyTable]]
  /\ vault = db
  /\ post = [p \in Packet |-> "new"]
  /\ imp = [i \in Task |-> Idle]
  /\ bags = {}
  /\ skipped = [n \in Node |-> {}]
  /\ faults = 0

-----------------------------------------------------------------------------
(* A packet posted by a connected page: the handler looks up, writes the    *)
(* row, journals.                                                           *)
Posted == {p \in Packet : post[p] # "new"}

Submit(p) ==
  LET t == db[Home[p]].table IN
  /\ post[p] = "new" /\ Cardinality(Posted) < MaxPosts
  /\ Sender[p] \in Registered[Home[p]] \ t.revoked
  /\ post' = [post EXCEPT ![p] =
       IF Refused(t, p) \/ Missing(t, p, Registered[Home[p]]) \/ Repeated(t, p)
       THEN "done" ELSE "found"]
  /\ UNCHANGED <<db, vault, imp, bags, skipped, faults>>

WriteRow(p) ==
  LET n == Home[p] IN
  /\ post[p] = "found"
  /\ IF Kind[p] \notin Blind /\ Missing(db[n].table, p, Registered[n])
     THEN /\ post' = [post EXCEPT ![p] = "done"]
          /\ UNCHANGED db
     ELSE /\ post' = [post EXCEPT ![p] = "written"]
          /\ db' = [db EXCEPT ![n].table = Written(db[n].table, p)]
  /\ UNCHANGED <<vault, imp, bags, skipped, faults>>

Journal(p) ==
  /\ post[p] = "written"
  /\ post' = [post EXCEPT ![p] = "done"]
  /\ db' = [db EXCEPT ![Home[p]].journal = AddPacket(db[Home[p]].journal, p)]
  /\ UNCHANGED <<vault, imp, bags, skipped, faults>>

(* The chat that CreateChat or UpdateChat reads again before it journals    *)
(* was archived meanwhile (a replay journals all the same).                 *)
Edited(p) == IF Kind[p] = "chat_create" THEN p ELSE Target[p]

RereadFails(p) ==
  /\ post[p] = "written" /\ Kind[p] \in {"chat_create", "chat_update"}
  /\ Edited(p) \notin Chats(db[Home[p]].table)
  /\ post' = [post EXCEPT ![p] = "done"]
  /\ UNCHANGED <<db, vault, imp, bags, skipped, faults>>

(* The error of the journal's INSERT is only logged.                        *)
JournalFails(p) ==
  /\ post[p] = "written" /\ Fault
  /\ post' = [post EXCEPT ![p] = "done"]
  /\ UNCHANGED <<db, vault, imp, bags, skipped>>

-----------------------------------------------------------------------------
(* Seals are those of module Vault; a clean stop is a seal and a crash.  A   *)
(* seal that no crash can follow is left out: nothing reads it.             *)
SealedJournal(n) == [vault[n] EXCEPT !.journal = db[n].journal]
Sealed(n) == db[n]

Seal(n) ==
  /\ faults < MaxFaults
  /\ vault' = [vault EXCEPT ![n] = Sealed(n)]
  /\ UNCHANGED <<db, post, imp, bags, skipped, faults>>

Crash(n) ==
  /\ Fault
  /\ db' = [db EXCEPT ![n] = vault[n]]
  /\ post' = [p \in Packet |->
       IF Home[p] = n /\ post[p] \in {"found", "written"} THEN "done" ELSE post[p]]
  /\ imp' = [i \in Task |->
       IF imp[i].node = n THEN Over("failed") ELSE imp[i]]
  /\ UNCHANGED <<vault, bags, skipped>>

(* GET /journal?after= and journal-export: the head in the bag is not read. *)
Export(n, after) ==
  /\ Cardinality(bags) < MaxBags
  /\ \E bag \in ListJournal(db[n].journal, after) :
       bag # NoBag /\ bag \notin bags /\ bags' = bags \cup {bag}
  /\ UNCHANGED <<db, vault, post, imp, skipped, faults>>

-----------------------------------------------------------------------------
(* ImportBag.                                                              *)

Read(i, n, b) ==
  /\ imp[i] = Idle /\ b # NoBag
  /\ imp' = [imp EXCEPT ![i] = [at |-> "strip", node |-> n, bag |-> b, k |-> 0]]
  /\ UNCHANGED <<db, vault, post, bags, skipped>>

Begin(i, n, b) == Read(i, n, b) /\ UNCHANGED faults

(* The bag arrives short of a row or with a row changed.                    *)
Without(b, k) == [m \in 1..Len(b) - 1 |-> IF m < k THEN b[m] ELSE b[m + 1]]
Spoilt(b) ==
  {Without(b, k) : k \in DOMAIN b} \cup {[b EXCEPT ![k].p = Damaged] : k \in DOMAIN b}
BeginSpoilt(i, n, b) == (\E c \in Spoilt(b) : Read(i, n, c)) /\ Fault

(* The known prefix: the journal only grows, so the loop of PacketExists    *)
(* ends with what its last statement sees.                                  *)
AllOrNothing(j, b, k) == k = IF PacketExists(j, b[1].p) THEN Len(b) ELSE 0
Known(j, b, k) ==
  /\ \A m \in 1..k : PacketExists(j, b[m].p)
  /\ k < Len(b) => ~PacketExists(j, b[k + 1].p)

Strip(i) ==
  LET b == imp[i].bag IN
  /\ imp[i].at = "strip"
  /\ \E k \in 0..Len(b) :
       /\ Known(db[imp[i].node].journal, b, k)
       /\ imp' = [imp EXCEPT ![i].k = k + 1,
                             ![i].at = IF k = Len(b) THEN "done" ELSE "check"]
  /\ UNCHANGED <<db, vault, post, bags, skipped, faults>>

Rest(i) == SubSeq(imp[i].bag, imp[i].k, Len(imp[i].bag))

AnyHead(j, b) == TRUE
Continues(j, b) == ChainHead(j) = b[1].prev

(* One statement, JournalHead; the rest is computation and the registry.    *)
Check(i) ==
  LET n == imp[i].node IN
  /\ imp[i].at = "check"
  /\ imp' =
       IF /\ Continues(db[n].journal, Rest(i))
          /\ VerifyBag(Rest(i)) /\ VerifyStored(n, Rest(i))
       THEN [imp EXCEPT ![i].at = "row"]
       ELSE [imp EXCEPT ![i] = Over("failed")]
  /\ UNCHANGED <<db, vault, post, bags, skipped, faults>>

The(i) == imp[i].bag[imp[i].k].p

(* On to the next row.                                                      *)
OnwardPast(i) == imp' = [imp EXCEPT ![i].k = @ + 1, ![i].at = "row"]
Onward(i) ==
  imp' = [imp EXCEPT ![i].k = @ + 1,
                     ![i].at = IF imp[i].k = Len(imp[i].bag) THEN "done" ELSE "row"]

LeftOut(i) == skipped' = [skipped EXCEPT ![imp[i].node] = @ \cup {The(i)}]

(* PacketExists: a known row past the prefix is a hole and is skipped.      *)
Look(i) ==
  /\ imp[i].at = "row"
  /\ IF PacketExists(db[imp[i].node].journal, The(i)) THEN Onward(i)
     ELSE imp' = [imp EXCEPT ![i].at = "find"]
  /\ UNCHANGED <<db, vault, post, bags, skipped, faults>>

(* The handler's lookup.  A missing target is journalled all the same; any  *)
(* other error is logged, and so is, in effect, a chat that exists.         *)
(* The default of replayImport is for kinds that no handler journals.       *)
Find(i) ==
  LET n == imp[i].node
      t == db[n].table IN
  /\ imp[i].at = "find"
  /\ IF Refused(t, The(i)) \/ Repeated(t, The(i))
     THEN Onward(i) /\ LeftOut(i)
     ELSE /\ imp' = [imp EXCEPT ![i].at =
                      IF Missing(t, The(i), Registered[n]) THEN "journal" ELSE "write"]
          /\ UNCHANGED skipped
  /\ UNCHANGED <<db, vault, post, bags, faults>>

Write(i) ==
  LET n == imp[i].node
      t == db[n].table IN
  /\ imp[i].at = "write"
  /\ imp' = [imp EXCEPT ![i].at = "journal"]
  /\ db' = IF Kind[The(i)] \notin Blind /\ Missing(t, The(i), Registered[n])
           THEN db ELSE [db EXCEPT ![n].table = Written(t, The(i))]
  /\ UNCHANGED <<vault, post, bags, skipped, faults>>

(* The row is chained to the local head, whatever the bag's row names.      *)
JournalRow(i) ==
  LET n == imp[i].node IN
  /\ imp[i].at = "journal"
  /\ db' = [db EXCEPT ![n].journal = AddPacket(db[n].journal, The(i))]
  /\ Onward(i)
  /\ UNCHANGED <<vault, post, bags, skipped, faults>>

(* A statement of the row fails: logged, and the import goes on.            *)
RowFails(i) ==
  /\ imp[i].at \in {"find", "write", "journal"} /\ Fault
  /\ Onward(i) /\ LeftOut(i)
  /\ UNCHANGED <<db, vault, post, bags>>

(* The admin's request is cancelled: every later statement fails, the next  *)
(* PacketExists ends the import.                                            *)
Cancel(i) ==
  /\ imp[i].at \in {"strip", "check", "row", "find", "write", "journal"}
  /\ Fault
  /\ imp' = [imp EXCEPT ![i] = Over("failed")]
  /\ UNCHANGED <<db, vault, post, bags, skipped>>

ImportStep(i) ==
  \/ Strip(i) \/ Check(i) \/ Look(i) \/ Find(i) \/ Write(i) \/ JournalRow(i)
  \/ RowFails(i) \/ Cancel(i)

(* The dates of an export that tell rows apart.                            *)
Times == {Ts[p] : p \in Packet}

Next ==
  \/ \E p \in Packet : Submit(p) \/ WriteRow(p) \/ Journal(p)
                      \/ RereadFails(p) \/ JournalFails(p)
  \/ \E n \in Node : Seal(n) \/ Crash(n)
  \/ \E n \in Node, after \in Times : Export(n, after)
  \/ \E i \in Task, n \in Node : \E b \in bags : Begin(i, n, b) \/ BeginSpoilt(i, n, b)
  \/ \E i \in Task : ImportStep(i)

Spec == Init /\ [][Next]_vars

-----------------------------------------------------------------------------
Stages == {"new", "found", "written", "done"}
Replaying == {"row", "find", "write", "journal"}
ImportStages == {"idle", "strip", "check", "done", "failed"} \cup Replaying
AnyRow == [p : Packet \cup {Damaged}, prev : Seq(Packet)]
Data == [journal : Seq(Row), table : Table]
Import == [at : ImportStages, node : Node \cup {NoNode}, bag : Seq(AnyRow), k : Nat]

(* Type invariant.  The row of an import that is replaying is in its bag,   *)
(* its node is known, and the rows of an exported bag are journal rows.     *)
TypeOK ==
  /\ db \in [Node -> Data] /\ vault \in [Node -> Data]
  /\ post \in [Packet -> Stages]
  /\ imp \in [Task -> Import]
  /\ \A i \in Task :
       /\ imp[i].at \notin {"idle", "failed"} => imp[i].node \in Node
       /\ imp[i].at \in {"check"} \cup Replaying =>
            imp[i].k \in DOMAIN imp[i].bag
  /\ \A b \in bags : b \in Seq(Row)
  /\ skipped \in [Node -> SUBSET Packet]
  /\ faults \in 0..MaxFaults

(* Whatever posts, imports and crashes do to it, VerifyJournal never        *)
(* reports a node's own journal as tampered with, and no packet is in it    *)
(* twice (AddPacket).                                                       *)
JournalsVerify ==
  \A n \in Node :
    LET j == db[n].journal IN
    /\ VerifyJournal(j)
    /\ \A k, m \in DOMAIN j : j[k].p = j[m].p => k = m

(* No node lost journal rows that it had exported and wrote others in       *)
(* their place: two exported rows never follow the same row.                *)
Carried == UNION {{b[k] : k \in DOMAIN b} : b \in bags}
Unforked == \A r, s \in Carried : r.prev = s.prev => r = s

(* A node that only imports keeps the history of the nodes it imports from: *)
(* each of its rows, with all that is chained before it, is a row that was  *)
(* exported.  Overlapping, partial and damaged bags, exports by date,       *)
(* concurrent imports, cancelled and interrupted ones do not change that;   *)
(* a row an import left out of the journal may (ImportBag).                 *)
Follows ==
  \A n \in Node \ Writer :
    Unforked /\ skipped[n] = {} =>
      \A k \in DOMAIN db[n].journal : db[n].journal[k] \in Carried

(* So nodes that only import do not part: whatever bags each was brought,   *)
(* and in whatever pieces, their journals are the same as far as they go    *)
(* (import.go: "the audit trail converges completely").                     *)
OneHistory ==
  \A n, m \in Node \ Writer :
    Unforked /\ skipped[n] = {} /\ skipped[m] = {} =>
      \A k \in DOMAIN db[n].journal \cap DOMAIN db[m].journal :
        db[n].journal[k] = db[m].journal[k]

(* An import that ran to its end has the whole bag in the journal, unless   *)
(* rows were left out (ImportReport).                                       *)
ReportIsTrue ==
  \A i \in Task :
    imp[i].at = "done" /\ skipped[imp[i].node] = {} =>
      \A k \in DOMAIN imp[i].bag :
        PacketExists(db[imp[i].node].journal, imp[i].bag[k].p)

(* A journalled packet had its effect on the same node: the row it made is  *)
(* there or was taken away again, the chat was made, and the callsign it    *)
(* revokes is revoked, if nobody ever lifted it (replayImport, the ingest   *)
(* handlers).                                                               *)
Lifted(u) ==
  \E q \in Packet : Kind[q] = "unrevoke_subscriber" /\ u \in Users[q] /\ post[q] # "new"

Effective(t, n, p) ==
  /\ Kind[p] \in Creations /\ Target[p] = NoTarget => p \in t.live \cup t.gone
  /\ Kind[p] = "chat_create" => t.members[p] # {}
  /\ Kind[p] = "revoke_subscriber" /\ Users[p] \subseteq Registered[n] =>
       \A u \in Users[p] : u \in t.revoked \/ Lifted(u)

EffectFirst ==
  \A n \in Node : \A k \in DOMAIN db[n].journal :
    Effective(db[n].table, n, db[n].journal[k].p)

(* Nobody's packet does on any node what its author may not do, although a  *)
(* handler looks up in one statement and writes in a later one, and a bag   *)
(* is replayed on tables its author never saw (the ingest handlers,         *)
(* replayImport): every row was made, every row lost, every member put into *)
(* a chat and every callsign revoked by an entitled packet.                 *)
Authorised == \A n \in Node : Warranted(db[n].table, Posted)
=============================================================================
