---------------------------- MODULE StoreForward ----------------------------
(***************************************************************************)
(* Store-and-forward of messages, from a REST submission to the lists on   *)
(* the readers' screens: the handlers of server/internal/ws (ingest.go,    *)
(* hub.go, relay.go) over the tables of db/store.go on one side, the page  *)
(* of frontend/src/hooks/useMesh.ts behind one WebSocket on the other.     *)
(*                                                                         *)
(* A body is the number of the edit that wrote it.  The journal is a set:  *)
(* its order is the concern of the hash chain, and the one place where a   *)
(* reader depends on it (two edits in a batch) is ordered by the author's  *)
(* timestamps, that is by edit number.                                     *)
(***************************************************************************)
EXTENDS Integers, Sequences

CONSTANTS
  Users,        \* callsigns
  Devices,      \* browser pages
  Owner,        \* the callsign a device signed in with
  Messages,
  Author,       \* of a message
  Audience,     \* recipients of a message; {} is a broadcast
  NoDevice,     \* nobody waits for the answer of a request
  MaxEdits,     \* bound: edits of one message
  MaxFaults,    \* bound: failed journal writes and restarts
  MaxSessions,  \* bound: connections each device opens
  Overlap       \* may an author start an operation on a message while an
                \* earlier one on it is still being served?

ASSUME StoreForwardAssumption ==
  /\ Owner \in [Devices -> Users]
  /\ Author \in [Messages -> Users]
  /\ Audience \in [Messages -> SUBSET Users]
  /\ NoDevice \notin Devices
  /\ MaxEdits \in Nat /\ MaxFaults \in Nat
  /\ MaxSessions \in [Devices -> Nat]
  /\ Overlap \in BOOLEAN

Absent == -1
Bodies == 0..MaxEdits
Rows   == [Messages -> Bodies \cup {Absent}]

Packets == [kind : {"message", "message_delete"}, msg : Messages, body : {0}]
             \cup [kind : {"message_update"}, msg : Messages, body : 1..MaxEdits]

(* A page keys its copies by sender and n.  Rows of the messages table and *)
(* live frames carry the n of the payload; a copy built from a journalled  *)
(* packet carries the nonce of its envelope, an independent random value.  *)
Keys   == {"payload", "envelope"}
Copies == Messages \X Keys

Frames == [t : {"snapshot"}, rows : Rows]
            \cup [t : {"packets"}, ps : SUBSET Packets]
            \cup [t : {"message", "message_updated", "message_deleted"},
                  msg : Messages, body : Bodies]

(* A socket is down; open, registered but anonymous; named by its hello;   *)
(* or between the four steps of pushBacklog; ready once they are done.     *)
Phases == {"down", "open", "named", "rowsRead", "snapshotSent", "packetsRead", "ready"}

Stages == {"new", "received", "found", "stored", "journaled", "delivered", "done", "failed"}

VARIABLES
  table,      \* the messages table: the body of each row
  journal,    \* the packets table
  acks,       \* the packet_acks table: pairs <<packet, callsign>>
  stage,      \* how far the handler of each packet's request has come
  from,       \* the device that waits for the answer
  phase,      \* of each device's socket
  rows,       \* pushBacklog's result of ListMessagesPaged
  batch,      \* pushBacklog's result of UndeliveredPacketsFor
  inbox,      \* frames on their way to each device, in order
  view,       \* the message list of each page
  acking,     \* id lists of acks signed or sent, not yet processed
  applied,    \* history: pairs <<packet, callsign>> processed from a batch
  faults,     \* failed journal writes and restarts so far
  sessions    \* connections opened so far

store  == <<table, journal, acks>>
jobs   == <<stage, from>>
socket == <<phase, rows, batch>>
counts == <<faults, sessions>>
page   == <<view, acking, applied>>
vars == <<table, journal, acks, stage, from, phase, rows, batch, inbox, view,
          acking, applied, faults, sessions>>

NoRows == [m \in Messages |-> Absent]
Blank  == [c \in Copies |-> Absent]

Init ==
  /\ table = NoRows /\ journal = {} /\ acks = {}
  /\ stage = [p \in Packets |-> "new"]
  /\ from = [p \in Packets |-> NoDevice]
  /\ phase = [d \in Devices |-> "down"]
  /\ rows = [d \in Devices |-> NoRows]
  /\ batch = [d \in Devices |-> {}]
  /\ inbox = [d \in Devices |-> << >>]
  /\ view = [d \in Devices |-> Blank]
  /\ acking = [d \in Devices |-> {}]
  /\ applied = {}
  /\ faults = 0
  /\ sessions = [d \in Devices |-> 0]

-----------------------------------------------------------------------------
(* Queries and routing.                                                    *)

VisibleTo(u, m) == Author[m] = u \/ Audience[m] = {} \/ u \in Audience[m]

RowsFor(u) == [m \in Messages |-> IF VisibleTo(u, m) THEN table[m] ELSE Absent]

(* defect: the query forgets recipient = ''                                *)
UndeliveredAddressed(u) ==
  {p \in journal : Audience[p.msg] # {} /\ VisibleTo(u, p.msg) /\ <<p, u>> \notin acks}

UndeliveredFor(u) ==
  {p \in journal : VisibleTo(u, p.msg) /\ <<p, u>> \notin acks}

Connected(d) == phase[d] # "down"
Named(d)     == phase[d] \notin {"down", "open"}

(* defect: an edit is routed by its own, empty, recipient                  *)
RoutedByPacket(m) == {d \in Devices : Connected(d)}

(* deliver: a broadcast reaches every socket, anonymous ones included; an  *)
(* addressed frame the named sockets of the author and the recipients.     *)
Routed(m) ==
  {d \in Devices : Connected(d)
                     /\ (Audience[m] = {} \/ (Named(d) /\ VisibleTo(Owner[d], m)))}

Send(ds, f) ==
  inbox' = [d \in Devices |-> IF d \in ds THEN Append(inbox[d], f) ELSE inbox[d]]

-----------------------------------------------------------------------------
(* The handlers of a REST submission: each runs in a goroutine of its own, *)
(* and only the single statements of the database are atomic.              *)

Busy(m) == \E p \in Packets :
  p.msg = m /\ stage[p] \in {"received", "found", "stored", "journaled", "delivered"}

(* Only the author finds the message by (sender, n), and only through a    *)
(* copy keyed by the payload's n: any other target is answered "not found" *)
(* with no effect.                                                         *)
Submit(d, p) ==
  /\ stage[p] = "new"
  /\ Owner[d] = Author[p.msg]
  /\ p.kind # "message" => view[d][<<p.msg, "payload">>] # Absent
  /\ p.body > 1 => stage[[p EXCEPT !.body = p.body - 1]] # "new"
  /\ Overlap \/ ~Busy(p.msg)
  /\ stage' = [stage EXCEPT ![p] = "received"]
  /\ from' = [from EXCEPT ![p] = d]
  /\ UNCHANGED <<store, socket, inbox, page, counts>>

(* MessageByNonce, for an edit or a delete.                                *)
Lookup(p) ==
  /\ stage[p] = "received" /\ p.kind # "message"
  /\ stage' = [stage EXCEPT ![p] = IF table[p.msg] # Absent THEN "found" ELSE "failed"]
  /\ UNCHANGED <<store, from, socket, inbox, page, counts>>

(* AddMessage, UpdateMessageBody (no error when the row is gone) or        *)
(* DeleteMessage.                                                          *)
Written(p) ==
  CASE p.kind = "message"        -> 0
    [] p.kind = "message_update" -> IF table[p.msg] # Absent THEN p.body ELSE Absent
    [] p.kind = "message_delete" -> Absent

Store(p) ==
  /\ stage[p] = IF p.kind = "message" THEN "received" ELSE "found"
  /\ table' = [table EXCEPT ![p.msg] = Written(p)]
  /\ stage' = [stage EXCEPT ![p] = "stored"]
  /\ UNCHANGED <<journal, acks, from, socket, inbox, page, counts>>

(* A failed AddPacket, of a cancelled request for instance, is only logged *)
(* and the handler goes on.                                                *)
Journal(p) ==
  /\ stage[p] = "stored"
  /\ \/ journal' = journal \cup {p} /\ UNCHANGED faults
     \/ faults < MaxFaults /\ faults' = faults + 1 /\ UNCHANGED journal
  /\ stage' = [stage EXCEPT ![p] = "journaled"]
  /\ UNCHANGED <<table, acks, from, socket, inbox, page, sessions>>

(* deliver and broadcastJSON enqueue under Hub.mu.  A delete names only    *)
(* sender and n, and goes to every socket.                                 *)
Deliver(p) ==
  /\ stage[p] = "journaled"
  /\ CASE p.kind = "message" ->
            Send(Routed(p.msg), [t |-> "message", msg |-> p.msg, body |-> 0])
       [] p.kind = "message_update" ->
            Send(Routed(p.msg), [t |-> "message_updated", msg |-> p.msg, body |-> p.body])
       [] p.kind = "message_delete" ->
            Send({d \in Devices : Connected(d)},
                 [t |-> "message_deleted", msg |-> p.msg, body |-> 0])
  /\ stage' = [stage EXCEPT ![p] = "delivered"]
  /\ UNCHANGED <<store, from, socket, page, counts>>

-----------------------------------------------------------------------------
(* The message list of a page.                                             *)

WithRow(v, m, b) == [v EXCEPT ![<<m, "payload">>] = b]

(* upsertMessage keeps the copy it finds.                                  *)
Upsert(v, m, b) == IF v[<<m, "payload">>] # Absent THEN v ELSE WithRow(v, m, b)

Edits(m, ps) == {p \in ps : p.kind = "message_update" /\ p.msg = m}

LatestBody(ps) == (CHOOSE p \in ps : \A q \in ps : q.body <= p.body).body

(* The packets branch: edits and deletes change the copies already listed, *)
(* matching on the payload's n; the new messages of the batch are appended *)
(* at the end, matched on the nonce of their envelope.                     *)
AfterPackets(v, ps) ==
  [c \in Copies |->
     IF c[2] = "payload"
     THEN IF \E p \in ps : p.kind = "message_delete" /\ p.msg = c[1] THEN Absent
          ELSE IF v[c] = Absent \/ Edits(c[1], ps) = {} THEN v[c]
          ELSE LatestBody(Edits(c[1], ps))
     ELSE IF v[c] = Absent /\ \E p \in ps : p.kind = "message" /\ p.msg = c[1] THEN 0
          ELSE v[c]]

After(v, f) ==
  CASE f.t = "snapshot" ->
         [c \in Copies |-> IF c[2] = "payload" THEN f.rows[c[1]] ELSE Absent]
    [] f.t = "packets"         -> AfterPackets(v, f.ps)
    [] f.t = "message"         -> Upsert(v, f.msg, f.body)
    [] f.t = "message_updated" -> WithRow(v, f.msg, f.body)
    [] f.t = "message_deleted" -> WithRow(v, f.msg, Absent)

(* handleMsg; a batch is acknowledged as a whole once it has been applied. *)
Handle(d) ==
  /\ inbox[d] # << >>
  /\ LET f == Head(inbox[d]) IN
       /\ view' = [view EXCEPT ![d] = After(@, f)]
       /\ IF f.t = "packets"
          THEN /\ acking' = [acking EXCEPT ![d] = @ \cup {f.ps}]
               /\ applied' = applied \cup (f.ps \X {Owner[d]})
          ELSE UNCHANGED <<acking, applied>>
  /\ inbox' = [inbox EXCEPT ![d] = Tail(@)]
  /\ UNCHANGED <<store, jobs, socket, counts>>

(* The answer of the request: sendMessage upserts the record, an edit      *)
(* replaces a copy that is still listed, a delete removes it.              *)
Answered(v, p) ==
  CASE p.kind = "message"        -> Upsert(v, p.msg, 0)
    [] p.kind = "message_update" -> IF v[<<p.msg, "payload">>] = Absent THEN v
                                    ELSE WithRow(v, p.msg, p.body)
    [] p.kind = "message_delete" -> WithRow(v, p.msg, Absent)

Answer(p) ==
  /\ stage[p] = "delivered"
  /\ \/ /\ from[p] # NoDevice
        /\ view' = [view EXCEPT ![from[p]] = Answered(@, p)]
     \/ UNCHANGED view      \* the answer is lost
  /\ stage' = [stage EXCEPT ![p] = "done"]
  /\ from' = [from EXCEPT ![p] = NoDevice]
  /\ UNCHANGED <<store, socket, inbox, acking, applied, counts>>

-----------------------------------------------------------------------------
(* The socket: Hub.Handle registers it, hello names it, pushBacklog reads  *)
(* and enqueues with no lock held in between.                              *)

Connect(d) ==
  /\ phase[d] = "down" /\ sessions[d] < MaxSessions[d]
  /\ phase' = [phase EXCEPT ![d] = "open"]
  /\ sessions' = [sessions EXCEPT ![d] = @ + 1]
  /\ UNCHANGED <<store, jobs, rows, batch, inbox, page, faults>>

Hello(d) ==
  /\ phase[d] = "open"
  /\ phase' = [phase EXCEPT ![d] = "named"]
  /\ UNCHANGED <<store, jobs, rows, batch, inbox, page, counts>>

ReadRows(d) ==
  /\ phase[d] = "named"
  /\ rows' = [rows EXCEPT ![d] = RowsFor(Owner[d])]
  /\ phase' = [phase EXCEPT ![d] = "rowsRead"]
  /\ UNCHANGED <<store, jobs, batch, inbox, page, counts>>

SendSnapshot(d) ==
  /\ phase[d] = "rowsRead"
  /\ Send({d}, [t |-> "snapshot", rows |-> rows[d]])
  /\ rows' = [rows EXCEPT ![d] = NoRows]
  /\ phase' = [phase EXCEPT ![d] = "snapshotSent"]
  /\ UNCHANGED <<store, jobs, batch, page, counts>>

(* defect: an empty snapshot is taken for an empty backlog                 *)
ReadPacketsIfRows(d) ==
  /\ phase[d] = "snapshotSent"
  /\ IF RowsFor(Owner[d]) = NoRows
     THEN /\ phase' = [phase EXCEPT ![d] = "ready"]
          /\ UNCHANGED batch
     ELSE /\ phase' = [phase EXCEPT ![d] = "packetsRead"]
          /\ batch' = [batch EXCEPT ![d] = UndeliveredFor(Owner[d])]
  /\ UNCHANGED <<store, jobs, rows, inbox, page, counts>>

ReadPackets(d) ==
  /\ phase[d] = "snapshotSent"
  /\ batch' = [batch EXCEPT ![d] = UndeliveredFor(Owner[d])]
  /\ phase' = [phase EXCEPT ![d] = "packetsRead"]
  /\ UNCHANGED <<store, jobs, rows, inbox, page, counts>>

SendPackets(d) ==
  /\ phase[d] = "packetsRead"
  /\ Send({d}, [t |-> "packets", ps |-> batch[d]])
  /\ batch' = [batch EXCEPT ![d] = {}]
  /\ phase' = [phase EXCEPT ![d] = "ready"]
  /\ UNCHANGED <<store, jobs, rows, page, counts>>

(* defect: acks are recorded for the connection                            *)
SignerIsSocket(d) == d

(* The sender of a page's frames.                                          *)
Signer(d) == Owner[d]

(* defect: the legacy flag, one ack consumes the packets for everyone      *)
DeliveredToAll(u, ps) == acks \cup (ps \X Users)

(* defect: an ack confirms all that was sent before it                     *)
DeliveredUpToHere(u, ps) ==
  acks \cup ({p \in journal : VisibleTo(u, p.msg)} \X {u})

(* handleAck and MarkDelivered: the ids are recorded for the callsign that *)
(* signed the ack.                                                         *)
Delivered(u, ps) == acks \cup (ps \X {u})

Ack(d, ps) ==
  /\ ps \in acking[d]
  /\ acking' = [acking EXCEPT ![d] = @ \ {ps}]
  /\ \/ Connected(d) /\ acks' = Delivered(Signer(d), ps)
     \/ UNCHANGED acks      \* dropped: no open socket, or lost with it
  /\ UNCHANGED <<table, journal, jobs, socket, inbox, view, applied, counts>>

(* The connection ends: what was queued or in flight on it is lost.        *)
Hangup(d) ==
  /\ phase' = [phase EXCEPT ![d] = "down"]
  /\ rows' = [rows EXCEPT ![d] = NoRows]
  /\ batch' = [batch EXCEPT ![d] = {}]
  /\ inbox' = [inbox EXCEPT ![d] = << >>]

Disconnect(d) ==
  /\ Connected(d)
  /\ Hangup(d)
  /\ UNCHANGED <<store, jobs, page, counts>>

(* The page is reloaded: its list, its unsent acks and the answers it was  *)
(* waiting for are gone with it.                                           *)
Reload(d) ==
  /\ Hangup(d)
  /\ view' = [view EXCEPT ![d] = Blank]
  /\ acking' = [acking EXCEPT ![d] = {}]
  /\ from' = [p \in Packets |-> IF from[p] = d THEN NoDevice ELSE from[p]]
  /\ UNCHANGED <<store, stage, applied, counts>>

(* The node is stopped, its store sealed, and started again: requests in   *)
(* progress die where they stand.                                          *)
Restart ==
  /\ faults < MaxFaults /\ faults' = faults + 1
  /\ stage' = [p \in Packets |->
                 CASE stage[p] \in {"received", "found", "stored", "journaled"} -> "failed"
                   [] stage[p] = "delivered" -> "done"
                   [] OTHER -> stage[p]]
  /\ from' = [p \in Packets |-> NoDevice]
  /\ phase' = [d \in Devices |-> "down"]
  /\ rows' = [d \in Devices |-> NoRows]
  /\ batch' = [d \in Devices |-> {}]
  /\ inbox' = [d \in Devices |-> << >>]
  /\ UNCHANGED <<store, page, sessions>>

Serve(p) == Lookup(p) \/ Store(p) \/ Journal(p) \/ Deliver(p) \/ Answer(p)

PushBacklog(d) ==
  Hello(d) \/ ReadRows(d) \/ SendSnapshot(d) \/ ReadPackets(d) \/ SendPackets(d)

Next ==
  \/ \E d \in Devices, p \in Packets : Submit(d, p)
  \/ \E p \in Packets : Serve(p)
  \/ \E d \in Devices :
       \/ Connect(d) \/ PushBacklog(d) \/ Handle(d) \/ Disconnect(d) \/ Reload(d)
       \/ \E ps \in acking[d] : Ack(d, ps)
  \/ Restart

Spec == Init /\ [][Next]_vars

(* A goroutine goes on with its handler, a page with its event loop and    *)
(* its reconnects.  Nothing forces a user to write, an ack to arrive, or a *)
(* connection, a page or the node to stay up.                              *)
Fairness ==
  /\ \A p \in Packets : WF_vars(Serve(p))
  /\ \A d \in Devices : WF_vars(Connect(d)) /\ WF_vars(PushBacklog(d)) /\ WF_vars(Handle(d))

FairSpec == Spec /\ Fairness

-----------------------------------------------------------------------------
TypeOK ==
  /\ table \in Rows /\ journal \subseteq Packets /\ acks \subseteq Packets \X Users
  /\ stage \in [Packets -> Stages]
  /\ from \in [Packets -> Devices \cup {NoDevice}]
  /\ phase \in [Devices -> Phases]
  /\ rows \in [Devices -> Rows]
  /\ batch \in [Devices -> SUBSET Packets]
  /\ inbox \in [Devices -> Seq(Frames)]
  /\ view \in [Devices -> [Copies -> Bodies \cup {Absent}]]
  /\ acking \in [Devices -> SUBSET (SUBSET Packets)]
  /\ applied \subseteq Packets \X Users
  /\ faults \in 0..MaxFaults
  /\ sessions \in [Devices -> Nat]

(* No page ever lists a message that is not addressed to its callsign,     *)
(* whichever of the four ways it came: live frame, snapshot, backlog or    *)
(* the answer of a request.  An edit names no recipient: it is routed and  *)
(* journalled by the stored row's.                                         *)
OnlyAddressed ==
  \A d \in Devices, m \in Messages, k \in Keys :
    view[d][<<m, k>>] # Absent => VisibleTo(Owner[d], m)

(* "One client's ack never wipes the backlog of the others" (store.go): a  *)
(* journalled packet leaves a reader's backlog only after a page of that   *)
(* reader has applied it, however sockets, pages, acks and node come and   *)
(* go.                                                                     *)
BacklogKept ==
  \A u \in Users, p \in journal :
    VisibleTo(u, p.msg) => p \in UndeliveredFor(u) \/ <<p, u>> \in applied

Shown(d, m) == \E k \in Keys : view[d][<<m, k>>] # Absent

(* The page has handled all its socket brought and no request is open.     *)
Quiet(d) == /\ phase[d] = "ready" /\ inbox[d] = << >>
            /\ \A p \in Packets : stage[p] \in {"new", "done", "failed"}

MessagePacket(m) == [kind |-> "message", msg |-> m, body |-> 0]

OnlyPage(d) == \A e \in Devices : Owner[e] = Owner[d] => e = d

(* Once things are quiet, a connected page lists every stored message it   *)
(* may see.  The four steps of pushBacklog overlap live deliveries, and a  *)
(* snapshot read early may overwrite a list that a live frame had already  *)
(* completed; the batch read after it makes good what it lost, unless the  *)
(* journal write failed, or another page of the same callsign acknowledged *)
(* the packet between the two reads.                                       *)
NothingMissing ==
  \A d \in Devices, m \in Messages :
    (Quiet(d) /\ OnlyPage(d) /\ VisibleTo(Owner[d], m) /\ table[m] # Absent
       /\ MessagePacket(m) \in journal) => Shown(d, m)

(* The protocol says of a repeated delivery that it "does not duplicate    *)
(* state" (docs/03-protocol.md): a page never lists a message twice.       *)
ShownOnce ==
  \A d \in Devices, m \in Messages :
    ~ \A k \in Keys : view[d][<<m, k>>] # Absent

(* A packet in a reader's backlog when its socket opens is applied by that *)
(* reader, unless the connection ends first.                               *)
BacklogArrives ==
  \A d \in Devices, p \in Packets :
    (phase[d] = "open" /\ p \in UndeliveredFor(Owner[d]))
      ~> (<<p, Owner[d]>> \in applied \/ phase[d] = "down")

(* A stored message reaches the list of every connected page that may see  *)
(* it and is its callsign's only one, unless the author deletes it or the  *)
(* connection ends first.                                                  *)
MessageArrives ==
  \A d \in {e \in Devices : OnlyPage(e)}, m \in Messages :
    (Connected(d) /\ VisibleTo(Owner[d], m) /\ table[m] # Absent)
      ~> (Shown(d, m) \/ table[m] = Absent \/ phase[d] = "down")

(* Journal, batches and acks implement a mailbox.                          *)
Readable == {pu \in Packets \X Users : VisibleTo(pu[2], pu[1].msg)}

Mail == INSTANCE Mailbox
          WITH Packet <- Packets, Reader <- Users, Readable <- Readable,
               posted <- journal, seen <- applied, confirmed <- acks

MailboxSpec == Mail!Spec

-----------------------------------------------------------------------------
(* The inductive invariant behind the safety properties.                   *)

(* What is on its way to a device is journalled, if it is a batch, and     *)
(* addressed to the device's callsign.                                     *)
Addressed(d, f) ==
  /\ f.t = "snapshot" => \A m \in Messages : f.rows[m] # Absent => VisibleTo(Owner[d], m)
  /\ f.t = "packets" => \A p \in f.ps : p \in journal /\ VisibleTo(Owner[d], p.msg)
  /\ f.t \in {"message", "message_updated"} => VisibleTo(Owner[d], f.msg)

InFlight == \A d \in Devices :
  /\ \A i \in 1..Len(inbox[d]) : Addressed(d, inbox[d][i])
  /\ \A m \in Messages : rows[d][m] # Absent => VisibleTo(Owner[d], m)
  /\ \A p \in batch[d] : p \in journal /\ VisibleTo(Owner[d], p.msg)

(* An ack, recorded or pending, is for packets its signer has applied.     *)
AcksSeen ==
  /\ acks \subseteq applied
  /\ \A d \in Devices : \A ps \in acking[d] : \A p \in ps : <<p, Owner[d]>> \in applied

(* Only the author's page waits for the answer to an operation.            *)
AuthorWaits ==
  \A p \in Packets : from[p] # NoDevice => Owner[from[p]] = Author[p.msg]

IInv == TypeOK /\ OnlyAddressed /\ InFlight /\ AcksSeen /\ AuthorWaits
=============================================================================
