--------------------------- MODULE ArrivalProofs ---------------------------
(***************************************************************************)
(* That no stored message is missing from a page once things are quiet     *)
(* (NothingMissing), for every set of users, devices and messages: the     *)
(* invariant of StoreForwardProofs strengthened by where a message stands  *)
(* on its way to a page in each phase of pushBacklog.                      *)
(***************************************************************************)
EXTENDS StoreForwardProofs

-----------------------------------------------------------------------------
(* The life of a message: its row is written once, by its own request, and *)
(* is not written again after the delete.                                  *)
DeletePacket(m) == [kind |-> "message_delete", msg |-> m, body |-> 0]

Early   == {"new", "received"}
Settled == {"stored", "journaled", "delivered", "done"}

DeleteFrame(f, m) == f.t = "message_deleted" /\ f.msg = m

Deleted(m) ==
  \/ stage[DeletePacket(m)] \in Settled
  \/ DeletePacket(m) \in journal
  \/ \E d \in Devices : \E i \in 1..Len(inbox[d]) : DeleteFrame(inbox[d][i], m)

Life(m) ==
  /\ table[m] # Absent => stage[MessagePacket(m)] \notin Early
  /\ stage[DeletePacket(m)] = "found" => stage[MessagePacket(m)] \notin Early
  /\ MessagePacket(m) \in journal => stage[MessagePacket(m)] \notin Early \cup {"stored"}
  /\ Deleted(m) => table[m] = Absent /\ stage[MessagePacket(m)] \notin Early

LifeInv == \A m \in Messages : Life(m)

(* A batch comes last, and what a page applied is journalled.              *)
BatchInv ==
  /\ \A d \in Devices : phase[d] # "ready" =>
       \A i \in 1..Len(inbox[d]) : inbox[d][i].t # "packets"
  /\ \A pu \in applied : pu[1] \in journal

-----------------------------------------------------------------------------
(* What a frame does to one message of the list.                           *)
Brings(f, m) ==
  \/ f.t = "snapshot" /\ f.rows[m] # Absent
  \/ f.t = "packets" /\ MessagePacket(m) \in f.ps
  \/ f.t = "message" /\ f.msg = m

Hides(f, m) == f.t = "snapshot" /\ f.rows[m] = Absent

Listed(v, m) == \E k \in Keys : v[<<m, k>>] # Absent

(* The list v has the message, or a frame of the queue q will bring it, and *)
(* no later frame hides it again.                                          *)
Comes(v, q, m) ==
  \/ /\ Listed(v, m)
     /\ \A i \in 1..Len(q) : ~Hides(q[i], m)
  \/ \E i \in 1..Len(q) :
       /\ Brings(q[i], m)
       /\ \A j \in 1..Len(q) : j > i => ~Hides(q[j], m)

Coming(d, m) == Comes(view[d], inbox[d], m)

Applied(d, m) == <<MessagePacket(m), Owner[d]>> \in applied

(* A message that the snapshot lacks is not yet applied, so that the batch *)
(* will have it; one journalled after the batch was read is delivered live.*)
OnItsWay(d, m) ==
  /\ phase[d] = "rowsRead" => rows[d][m] # Absent \/ ~Applied(d, m)
  /\ phase[d] = "snapshotSent" => Coming(d, m) \/ ~Applied(d, m)
  /\ phase[d] \in {"packetsRead", "ready"} /\ MessagePacket(m) \in journal =>
       \/ Coming(d, m)
       \/ stage[MessagePacket(m)] = "journaled"
       \/ phase[d] = "packetsRead" /\ MessagePacket(m) \in batch[d]

Expected(d, m) == OnlyPage(d) /\ VisibleTo(Owner[d], m) /\ table[m] # Absent

ArrivalInv == \A d \in Devices, m \in Messages : Expected(d, m) => OnItsWay(d, m)
-----------------------------------------------------------------------------
(* Packets by their kinds.                                                 *)

LEMMA Kinds ==
  ASSUME NEW m \in Messages
  PROVE  /\ MessagePacket(m) \in Packets /\ MessagePacket(m).kind = "message"
         /\ DeletePacket(m) \in Packets /\ DeletePacket(m).kind = "message_delete"
         /\ MessagePacket(m).msg = m /\ DeletePacket(m).msg = m
         /\ \A p \in Packets : p.msg = m /\ p.kind = "message" => p = MessagePacket(m)
         /\ \A p \in Packets : p.msg = m /\ p.kind = "message_delete" => p = DeletePacket(m)
BY DEF MessagePacket, DeletePacket, Packets

-----------------------------------------------------------------------------
(* What becomes of a queue and the message on it.                          *)

(* A frame behind the others.                                              *)
LEMMA ComesBehind ==
  ASSUME NEW q \in Seq(Frames), NEW f \in Frames, NEW v, NEW m,
         Comes(v, q, m), ~Hides(f, m)
  PROVE  Comes(v, Append(q, f), m)
<1> DEFINE r == Append(q, f)
<1>1. /\ Len(q) \in Nat /\ Len(r) = Len(q) + 1
      /\ \A i \in 1..Len(q) : r[i] = q[i]
      /\ r[Len(q) + 1] = f
      OBVIOUS
<1>2. \A i \in 1..Len(r) : i \in 1..Len(q) \/ i = Len(q) + 1
      BY <1>1
<1> HIDE DEF r
<1>3. CASE Listed(v, m) /\ \A i \in 1..Len(q) : ~Hides(q[i], m)
      BY <1>1, <1>2, <1>3 DEF Comes
<1>4. ASSUME NEW i \in 1..Len(q), Brings(q[i], m),
             \A j \in 1..Len(q) : j > i => ~Hides(q[j], m)
      PROVE  Comes(v, r, m)
  <2>1. i \in 1..Len(r) /\ Brings(r[i], m)
        BY <1>1, <1>4
  <2>2. \A j \in 1..Len(r) : j > i => ~Hides(r[j], m)
        BY <1>1, <1>2, <1>4
  <2> QED BY <2>1, <2>2 DEF Comes
<1> QED BY <1>3, <1>4 DEF Comes, r

(* A frame that brings the message itself.                                 *)
LEMMA ComesLast ==
  ASSUME NEW q \in Seq(Frames), NEW f \in Frames, NEW v, NEW m, Brings(f, m)
  PROVE  Comes(v, Append(q, f), m)
<1> DEFINE r == Append(q, f)
<1>1. /\ Len(q) \in Nat /\ Len(r) = Len(q) + 1
      /\ r[Len(q) + 1] = f
      OBVIOUS
<1> HIDE DEF r
<1>2. Len(r) \in 1..Len(r) /\ Brings(r[Len(r)], m)
      BY <1>1
<1>3. \A j \in 1..Len(r) : ~(j > Len(r))
      BY <1>1
<1> QED BY <1>2, <1>3 DEF Comes, r

(* A frame handled.                                                        *)
LEMMA AfterListed ==
  ASSUME NEW v \in Lists, NEW f \in Frames, NEW m \in Messages,
         ~DeleteFrame(f, m), f.t = "packets" => DeletePacket(m) \notin f.ps,
         Brings(f, m) \/ (Listed(v, m) /\ ~Hides(f, m))
  PROVE  Listed(After(v, f), m)
<1>0. \A k \in Keys : <<m, k>> \in Copies
      BY DEF Copies
<1>1. CASE f.t = "snapshot"
  <2>1. f.rows[m] # Absent
        BY <1>1 DEF Brings, Hides
  <2>2. After(v, f)[<<m, "payload">>] = f.rows[m]
        BY <1>0, <1>1 DEF After, Keys
  <2> QED BY <2>1, <2>2 DEF Listed, Keys
<1>2. CASE f.t = "packets"
  <2>1. f.ps \in SUBSET Packets /\ After(v, f) = AfterPackets(v, f.ps)
        BY <1>2, FrameFields DEF After
  <2>2. ~ \E p \in f.ps : p.kind = "message_delete" /\ p.msg = m
        BY <1>2, <2>1, Kinds
  <2>3. CASE Listed(v, m)
    <3>1. PICK k \in Keys : v[<<m, k>>] # Absent
          BY <2>3 DEF Listed
    <3>2. CASE k = "payload"
      <4>1. Edits(m, f.ps) # {} => LatestBody(Edits(m, f.ps)) \in Bodies
        <5>1. /\ Edits(m, f.ps) \in SUBSET Packets
              /\ \A p \in Edits(m, f.ps) : p.kind = "message_update"
              BY <2>1 DEF Edits
        <5> QED BY <5>1, LatestBodyIsBody
      <4>2. AfterPackets(v, f.ps)[<<m, "payload">>] # Absent
            BY <1>0, <2>2, <3>1, <3>2, <4>1, BodyFacts DEF AfterPackets, Keys
      <4> QED BY <2>1, <4>2 DEF Listed, Keys
    <3>3. CASE k = "envelope"
      <4>1. AfterPackets(v, f.ps)[<<m, "envelope">>] # Absent
            BY <1>0, <3>1, <3>3 DEF AfterPackets, Keys
      <4> QED BY <2>1, <4>1 DEF Listed, Keys
    <3> QED BY <3>2, <3>3 DEF Keys
  <2>4. CASE MessagePacket(m) \in f.ps
    <3>1. \E p \in f.ps : p.kind = "message" /\ p.msg = m
          BY <2>4, Kinds
    <3>2. AfterPackets(v, f.ps)[<<m, "envelope">>] # Absent
          BY <1>0, <3>1, BodyFacts DEF AfterPackets, Keys
    <3> QED BY <2>1, <3>2 DEF Listed, Keys
  <2> QED BY <1>2, <2>3, <2>4 DEF Brings
<1>3. CASE f.t = "message"
  <2>1. f.msg \in Messages /\ f.body \in Bodies /\ After(v, f) = Upsert(v, f.msg, f.body)
        BY <1>3, FrameFields DEF After
  <2>2. CASE f.msg = m
    <3>1. Upsert(v, m, f.body)[<<m, "payload">>] # Absent
          BY <1>0, <2>1, BodyFacts DEF Upsert, WithRow, Lists, Keys
    <3> QED BY <2>1, <2>2, <3>1 DEF Listed, Keys
  <2>3. CASE f.msg # m
    <3>1. PICK k \in Keys : v[<<m, k>>] # Absent
          BY <1>3, <2>3 DEF Brings, Listed
    <3>2. Upsert(v, f.msg, f.body)[<<m, k>>] = v[<<m, k>>]
          BY <1>0, <2>3 DEF Upsert, WithRow, Lists
    <3> QED BY <2>1, <3>1, <3>2 DEF Listed
  <2> QED BY <2>2, <2>3
<1>4. CASE f.t = "message_updated"
  <2>1. f.msg \in Messages /\ f.body \in Bodies /\ After(v, f) = WithRow(v, f.msg, f.body)
        BY <1>4, FrameFields DEF After
  <2>2. PICK k \in Keys : v[<<m, k>>] # Absent
        BY <1>4 DEF Brings, Listed
  <2>3. WithRow(v, f.msg, f.body)[<<m, k>>] # Absent
        BY <1>0, <2>1, <2>2, BodyFacts DEF WithRow, Lists
  <2> QED BY <2>1, <2>3 DEF Listed
<1>5. CASE f.t = "message_deleted"
  <2>1. f.msg \in Messages /\ f.msg # m /\ After(v, f) = WithRow(v, f.msg, Absent)
        BY <1>5, FrameFields DEF After, DeleteFrame
  <2>2. PICK k \in Keys : v[<<m, k>>] # Absent
        BY <1>5 DEF Brings, Listed
  <2>3. WithRow(v, f.msg, Absent)[<<m, k>>] = v[<<m, k>>]
        BY <1>0, <2>1, <2>2 DEF WithRow, Lists
  <2> QED BY <2>1, <2>2, <2>3 DEF Listed
<1> QED BY <1>1, <1>2, <1>3, <1>4, <1>5, FrameFields

(* The first frame handled: the rest of the queue still brings the message. *)
LEMMA ComesOn ==
  ASSUME NEW q \in Seq(Frames), q # << >>, NEW v \in Lists, NEW m \in Messages,
         ~DeleteFrame(Head(q), m),
         Head(q).t = "packets" => DeletePacket(m) \notin Head(q).ps,
         Comes(v, q, m)
  PROVE  Comes(After(v, Head(q)), Tail(q), m)
<1> DEFINE r == Tail(q)
           w == After(v, Head(q))
<1>1. /\ Len(q) \in Nat /\ Len(r) = Len(q) - 1 /\ Len(q) > 0
      /\ \A i \in 1..Len(r) : i + 1 \in 1..Len(q) /\ r[i] = q[i + 1]
      /\ Head(q) = q[1] /\ 1 \in 1..Len(q) /\ Head(q) \in Frames
      OBVIOUS
<1>2. Brings(Head(q), m) \/ (Listed(v, m) /\ ~Hides(Head(q), m)) => Listed(w, m)
      BY <1>1, AfterListed
<1> HIDE DEF r, w
<1>3. CASE Listed(v, m) /\ \A i \in 1..Len(q) : ~Hides(q[i], m)
  <2>1. ~Hides(Head(q), m) /\ \A i \in 1..Len(r) : ~Hides(r[i], m)
        BY <1>1, <1>3
  <2> QED BY <1>2, <1>3, <2>1 DEF Comes, r, w
<1>4. ASSUME NEW i \in 1..Len(q), Brings(q[i], m),
             \A j \in 1..Len(q) : j > i => ~Hides(q[j], m)
      PROVE  Comes(w, r, m)
  <2>1. CASE i = 1
    <3>1. \A j \in 1..Len(r) : ~Hides(r[j], m)
      <4> SUFFICES ASSUME NEW j \in 1..Len(r) PROVE ~Hides(r[j], m)
          OBVIOUS
      <4>1. j + 1 > i /\ j + 1 \in 1..Len(q) /\ r[j] = q[j + 1]
            BY <1>1, <2>1
      <4> QED BY <1>4, <4>1
    <3> QED BY <1>1, <1>2, <1>4, <2>1, <3>1 DEF Comes
  <2>2. CASE i # 1
    <3>1. i - 1 \in 1..Len(r) /\ r[i - 1] = q[i]
          BY <1>1, <2>2
    <3>2. \A j \in 1..Len(r) : j > i - 1 => ~Hides(r[j], m)
      <4> SUFFICES ASSUME NEW j \in 1..Len(r), j > i - 1 PROVE ~Hides(r[j], m)
          OBVIOUS
      <4>1. j + 1 > i /\ j + 1 \in 1..Len(q) /\ r[j] = q[j + 1]
            BY <1>1
      <4> QED BY <1>4, <4>1
    <3> QED BY <1>4, <3>1, <3>2 DEF Comes
  <2> QED BY <2>1, <2>2
<1> QED BY <1>3, <1>4 DEF Comes, r, w
-----------------------------------------------------------------------------
(* What a step does to a queue.                                            *)

(* The frames a step may add.                                              *)
Emitted(d, f) ==
  \/ SendSnapshot(d) /\ f = [t |-> "snapshot", rows |-> rows[d]]
  \/ SendPackets(d) /\ f = [t |-> "packets", ps |-> batch[d]]
  \/ \E p \in Packets :
       /\ Deliver(p) /\ Connected(d)
       /\ f.t \in {"message", "message_updated", "message_deleted"}
       /\ f.t = "message_deleted" => p.kind = "message_delete"
       /\ f.msg = p.msg

LEMMA QueueMoves ==
  ASSUME TypeOK, [Next]_vars, NEW d \in Devices
  PROVE  \/ inbox'[d] = inbox[d]
         \/ inbox'[d] = << >> /\ phase'[d] = "down"
         \/ Handle(d)
         \/ \E f \in Frames : inbox'[d] = Append(inbox[d], f) /\ Emitted(d, f)
<1> DEFINE Goal == \/ inbox'[d] = inbox[d]
                   \/ inbox'[d] = << >> /\ phase'[d] = "down"
                   \/ Handle(d)
                   \/ \E f \in Frames : inbox'[d] = Append(inbox[d], f) /\ Emitted(d, f)
<1>1. ASSUME NEW p \in Packets, Deliver(p) PROVE Goal
  <2> DEFINE f(t, b) == [t |-> t, msg |-> p.msg, body |-> b]
  <2>1. p.msg \in Messages /\ p.body \in Bodies /\ 0 \in Bodies
        BY PacketFields, BodyFacts
  <2>2. \A t \in {"message", "message_updated", "message_deleted"} : \A b \in Bodies :
          f(t, b) \in Frames /\ f(t, b).t = t /\ f(t, b).msg = p.msg
        BY <2>1 DEF Frames
  <2>3. \A e \in Devices : e \in Routed(p.msg) => Connected(e)
        BY DEF Routed
  <2>4. \E t \in {"message", "message_updated", "message_deleted"} :
          \E b \in Bodies : \E ds \in SUBSET {e \in Devices : Connected(e)} :
            /\ Send(ds, f(t, b))
            /\ t = "message_deleted" => p.kind = "message_delete"
    <3>1. CASE p.kind = "message"
      <4>1. Send(Routed(p.msg), f("message", 0))
            BY <1>1, <3>1 DEF Deliver
      <4> QED BY <2>1, <2>3, <4>1 DEF Routed
    <3>2. CASE p.kind = "message_update"
      <4>1. Send(Routed(p.msg), f("message_updated", p.body))
            BY <1>1, <3>2 DEF Deliver
      <4> QED BY <2>1, <2>3, <4>1 DEF Routed
    <3>3. CASE p.kind = "message_delete"
      <4>1. Send({e \in Devices : Connected(e)}, f("message_deleted", 0))
            BY <1>1, <3>3 DEF Deliver
      <4> QED BY <2>1, <3>3, <4>1
    <3> QED BY <3>1, <3>2, <3>3, PacketFields
  <2> HIDE DEF f
  <2>5. PICK t \in {"message", "message_updated", "message_deleted"}, b \in Bodies,
             ds \in SUBSET {e \in Devices : Connected(e)} :
          /\ Send(ds, f(t, b))
          /\ t = "message_deleted" => p.kind = "message_delete"
        BY <2>4
  <2>6. CASE d \notin ds
        BY <2>5, <2>6 DEF Send
  <2>7. CASE d \in ds
    <3>1. inbox'[d] = Append(inbox[d], f(t, b)) /\ f(t, b) \in Frames
          BY <2>2, <2>5, <2>7 DEF Send
    <3>2. Emitted(d, f(t, b))
          BY <1>1, <2>2, <2>5, <2>7 DEF Emitted
    <3> QED BY <3>1, <3>2
  <2> QED BY <2>6, <2>7
<1>2. ASSUME NEW e \in Devices, SendSnapshot(e) PROVE Goal
  <2> DEFINE f == [t |-> "snapshot", rows |-> rows[e]]
  <2>1. f \in Frames /\ Send({e}, f)
        BY <1>2 DEF Frames, TypeOK, SendSnapshot
  <2> QED BY <1>2, <2>1 DEF Send, Emitted
<1>3. ASSUME NEW e \in Devices, SendPackets(e) PROVE Goal
  <2> DEFINE f == [t |-> "packets", ps |-> batch[e]]
  <2>1. f \in Frames /\ Send({e}, f)
        BY <1>3 DEF Frames, TypeOK, SendPackets
  <2> QED BY <1>3, <2>1 DEF Send, Emitted
<1>4. ASSUME NEW e \in Devices, Handle(e) PROVE Goal
      BY <1>4 DEF Handle, TypeOK
<1>5. ASSUME NEW e \in Devices, Hangup(e) PROVE Goal
      BY <1>5 DEF Hangup, TypeOK
<1>6. CASE Restart BY <1>6 DEF Restart
<1>7. CASE UNCHANGED inbox BY <1>7
<1>8. \/ \E p \in Packets : Deliver(p)
      \/ \E e \in Devices : SendSnapshot(e) \/ SendPackets(e) \/ Handle(e) \/ Hangup(e)
      \/ Restart \/ UNCHANGED inbox
      BY DEF Next, Submit, Serve, Lookup, Store, Journal, Answer, Connect, PushBacklog,
         Hello, ReadRows, ReadPackets, Ack, Disconnect, Reload, vars
<1> QED BY <1>1, <1>2, <1>3, <1>4, <1>5, <1>6, <1>7, <1>8

-----------------------------------------------------------------------------
(* Batches.                                                                *)
LEMMA InitBatch == Init => BatchInv
BY DEF Init, BatchInv

LEMMA BatchStep == IInv /\ BatchInv /\ [Next]_vars => BatchInv'
<1> SUFFICES ASSUME IInv, BatchInv, [Next]_vars PROVE BatchInv'
    OBVIOUS
<1>0. TypeOK /\ InFlight
      BY DEF IInv
<1>1. ASSUME NEW d \in Devices, phase'[d] # "ready", NEW i \in 1..Len(inbox'[d])
      PROVE  inbox'[d][i].t # "packets"
  <2>1. inbox[d] \in Seq(Frames)
        BY <1>0 DEF TypeOK
  <2>2. SendPackets(d) => phase'[d] = "ready"
        BY <1>0 DEF SendPackets, TypeOK
  <2>3. phase[d] # "ready"
    <3>1. CASE \E e \in Devices : Hangup(e)
      <4>1. inbox'[d] = << >> \/ phase'[d] = phase[d]
            BY <1>0, <3>1 DEF Hangup, TypeOK
      <4> QED BY <1>1, <4>1
    <3>2. CASE Restart BY <1>1, <3>2 DEF Restart
    <3>3. CASE ~Restart /\ ~ \E e \in Devices : Hangup(e)
      <4>1. phase'[d] = phase[d] \/ phase[d] # "ready"
            BY <1>0, <3>3 DEF Next, Submit, Serve, Lookup, Store, Journal, Deliver, Answer,
               Connect, PushBacklog, Hello, ReadRows, SendSnapshot, ReadPackets, SendPackets,
               Handle, Ack, Disconnect, Reload, socket, vars, TypeOK
      <4> QED BY <1>1, <4>1
    <3> QED BY <3>1, <3>2, <3>3
  <2>4. \A j \in 1..Len(inbox[d]) : inbox[d][j].t # "packets"
        BY <2>3 DEF BatchInv
  <2>5. CASE inbox'[d] = inbox[d] BY <2>4, <2>5, <1>1
  <2>6. CASE inbox'[d] = << >> BY <2>6, <1>1
  <2>7. CASE Handle(d)
    <3>1. inbox'[d] = Tail(inbox[d]) /\ inbox[d] # << >>
          BY <1>0, <2>7 DEF Handle, TypeOK
    <3>2. i + 1 \in 1..Len(inbox[d]) /\ inbox'[d][i] = inbox[d][i + 1]
          BY <2>1, <3>1
    <3> QED BY <2>4, <3>2
  <2>8. ASSUME NEW f \in Frames, inbox'[d] = Append(inbox[d], f), Emitted(d, f)
        PROVE  inbox'[d][i].t # "packets"
    <3>1. f.t # "packets"
          BY <2>2, <2>8, <1>1 DEF Emitted
    <3>2. inbox'[d][i] = f \/ (i \in 1..Len(inbox[d]) /\ inbox'[d][i] = inbox[d][i])
          BY <2>1, <2>8
    <3> QED BY <2>4, <3>1, <3>2
  <2> QED BY <1>0, <2>5, <2>6, <2>7, <2>8, QueueMoves
<1>2. ASSUME NEW pu \in applied' PROVE pu[1] \in journal'
  <2>1. journal \subseteq journal'
        BY DEF Next, Submit, Serve, Lookup, Store, Journal, Deliver, Answer, Connect,
           PushBacklog, Hello, ReadRows, SendSnapshot, ReadPackets, SendPackets, Handle, Ack,
           Disconnect, Reload, Restart, store, vars
  <2>2. CASE \E d \in Devices : Handle(d)
    <3>1. PICK d \in Devices : Handle(d)
          BY <2>2
    <3>2. inbox[d][1] = Head(inbox[d]) /\ 1 \in 1..Len(inbox[d])
          BY <1>0, <3>1 DEF Handle, TypeOK
    <3>3. \/ pu \in applied
          \/ Head(inbox[d]).t = "packets" /\ pu[1] \in Head(inbox[d]).ps
          BY <3>1 DEF Handle
    <3>4. Head(inbox[d]).t = "packets" => \A p \in Head(inbox[d]).ps : p \in journal
          BY <1>0, <3>2 DEF InFlight, Addressed
    <3> QED BY <2>1, <3>3, <3>4 DEF BatchInv
  <2>3. CASE UNCHANGED applied BY <2>1, <2>3 DEF BatchInv
  <2>4. (\E d \in Devices : Handle(d)) \/ UNCHANGED applied
        BY DEF Next, Submit, Serve, Lookup, Store, Journal, Deliver, Answer, Connect,
           PushBacklog, Hello, ReadRows, SendSnapshot, ReadPackets, SendPackets, Ack,
           Disconnect, Reload, Restart, page, vars
  <2> QED BY <2>2, <2>3, <2>4
<1> QED BY <1>1, <1>2 DEF BatchInv
-----------------------------------------------------------------------------
(* The life of a message.                                                  *)
LEMMA InitLife == Init => LifeInv
<1> SUFFICES ASSUME Init, NEW m \in Messages PROVE Life(m)
    BY DEF LifeInv
<1> QED BY Kinds DEF Init, Life, Deleted, NoRows, Early, Settled

(* The stages of a request.                                                *)
LEMMA StageMoves ==
  ASSUME TypeOK, [Next]_vars, NEW p \in Packets
  PROVE  \/ stage'[p] = stage[p]
         \/ stage[p] = "new" /\ stage'[p] = "received"
         \/ /\ stage[p] = "received" /\ stage'[p] = "found"
            /\ table[p.msg] # Absent /\ p.kind # "message"
         \/ stage[p] = "received" /\ stage'[p] = "failed"
         \/ Restart /\ stage[p] # "new" /\ stage'[p] = "failed"
         \/ Store(p) /\ stage'[p] = "stored"
         \/ stage[p] = "stored" /\ stage'[p] = "journaled"
         \/ Deliver(p) /\ stage[p] = "journaled" /\ stage'[p] = "delivered"
         \/ stage[p] = "delivered" /\ stage'[p] = "done"
<1>1. ASSUME NEW q \in Packets, q # p,
             Serve(q) \/ \E d \in Devices : Submit(d, q)
      PROVE  stage'[p] = stage[p]
      BY <1>1 DEF Serve, Submit, Lookup, Store, Journal, Deliver, Answer, TypeOK
<1>2. ASSUME NEW d \in Devices, Submit(d, p)
      PROVE  stage[p] = "new" /\ stage'[p] = "received"
      BY <1>2 DEF Submit, TypeOK
<1>3. CASE Serve(p)
  <2>1. CASE Lookup(p) BY <2>1 DEF Lookup, TypeOK
  <2>2. CASE Store(p) BY <2>2 DEF Store, TypeOK
  <2>3. CASE Journal(p) BY <2>3 DEF Journal, TypeOK
  <2>4. CASE Deliver(p) BY <2>4 DEF Deliver, TypeOK
  <2>5. CASE Answer(p) BY <2>5 DEF Answer, TypeOK
  <2> QED BY <1>3, <2>1, <2>2, <2>3, <2>4, <2>5 DEF Serve
<1>4. CASE Restart BY <1>4 DEF Restart, TypeOK
<1>5. CASE UNCHANGED stage BY <1>5
<1>6. \/ \E q \in Packets : Serve(q) \/ \E d \in Devices : Submit(d, q)
      \/ Restart
      \/ UNCHANGED stage
      BY DEF Next, Connect, PushBacklog, Hello, ReadRows, SendSnapshot, ReadPackets,
         SendPackets, Handle, Ack, Disconnect, Reload, jobs, vars
<1> QED BY <1>1, <1>2, <1>3, <1>4, <1>5, <1>6

(* A packet enters the journal from its request.                           *)
LEMMA JournalMoves ==
  ASSUME TypeOK, [Next]_vars, NEW p \in journal'
  PROVE  p \in journal \/ (stage[p] = "stored" /\ stage'[p] = "journaled")
<1>1. ASSUME NEW q \in Packets, Journal(q)
      PROVE  p \in journal \/ (stage[p] = "stored" /\ stage'[p] = "journaled")
      BY <1>1 DEF Journal, TypeOK
<1>2. (\E q \in Packets : Journal(q)) \/ UNCHANGED journal
      BY DEF Next, Submit, Serve, Lookup, Store, Deliver, Answer, Connect, PushBacklog,
         Hello, ReadRows, SendSnapshot, ReadPackets, SendPackets, Handle, Ack, Disconnect,
         Reload, Restart, store, vars
<1> QED BY <1>1, <1>2

(* A request leaves its first stages for good.                             *)
LEMMA StagesAdvance ==
  ASSUME TypeOK, [Next]_vars, NEW p \in Packets, stage[p] \notin Early
  PROVE  stage'[p] \notin Early
BY StageMoves DEF Early

(* A row appears only when its own request stores it, and goes only when   *)
(* its delete does.                                                        *)
LEMMA RowMoves ==
  ASSUME TypeOK, [Next]_vars, NEW m \in Messages
  PROVE  /\ table[m] = Absent /\ table'[m] # Absent =>
              stage[MessagePacket(m)] = "received" /\ stage'[MessagePacket(m)] = "stored"
              /\ UNCHANGED <<journal, applied>>
         /\ Store(DeletePacket(m)) => table'[m] = Absent
<1>1. ASSUME NEW p \in Packets, Store(p), table'[m] # table[m]
      PROVE  /\ p.msg = m
             /\ p.kind = "message_update" => table[m] # Absent /\ table'[m] # Absent
             /\ p.kind = "message_delete" => table'[m] = Absent
             /\ UNCHANGED <<journal, applied>>
             /\ p.kind = "message" => stage[p] = "received" /\ stage'[p] = "stored"
  <2>1. p.msg \in Messages /\ (p.kind = "message_update" => p.body \in Bodies)
        BY PacketFields
  <2>2. table' = [table EXCEPT ![p.msg] = Written(p)] /\ p.msg = m
        BY <1>1, <2>1 DEF Store, TypeOK, Rows
  <2>3. table'[m] = Written(p)
        BY <2>2 DEF TypeOK, Rows
  <2> QED BY <1>1, <2>1, <2>2, <2>3, BodyFacts DEF Store, Written, page, TypeOK
<1>2. (\E p \in Packets : Store(p)) \/ UNCHANGED table
      BY DEF Next, Submit, Serve, Lookup, Journal, Deliver, Answer, Connect, PushBacklog,
         Hello, ReadRows, SendSnapshot, ReadPackets, SendPackets, Handle, Ack, Disconnect,
         Reload, Restart, store, vars
<1>3. table[m] = Absent /\ table'[m] # Absent =>
        stage[MessagePacket(m)] = "received" /\ stage'[MessagePacket(m)] = "stored"
        /\ UNCHANGED <<journal, applied>>
      BY <1>1, <1>2, Kinds, PacketFields
<1>4. Store(DeletePacket(m)) => table'[m] = Absent
      BY Kinds DEF Store, Written, TypeOK, Rows
<1> QED BY <1>3, <1>4

(* What makes a delete noticed: its row is gone by then.                   *)
LEMMA DeleteMoves ==
  ASSUME TypeOK, LifeInv, [Next]_vars, NEW m \in Messages, Deleted(m)'
  PROVE  Deleted(m) \/ Store(DeletePacket(m))
<1> DEFINE D == DeletePacket(m)
<1>0. D \in Packets /\ D.kind = "message_delete" /\ D.msg = m
      BY Kinds
<1>1. CASE stage'[D] \in Settled
  <2>1. stage[D] \in Settled \/ Store(D)
        BY <1>0, <1>1, StageMoves DEF Settled
  <2> QED BY <2>1 DEF Deleted
<1>2. CASE D \in journal'
  <2>1. D \in journal \/ stage[D] = "stored"
        BY <1>2, JournalMoves
  <2> QED BY <2>1 DEF Deleted, Settled
<1>3. ASSUME NEW d \in Devices, NEW i \in 1..Len(inbox'[d]), DeleteFrame(inbox'[d][i], m)
      PROVE  Deleted(m)
  <2>1. inbox[d] \in Seq(Frames)
        BY DEF TypeOK
  <2>2. ASSUME NEW j \in 1..Len(inbox[d]), inbox[d][j] = inbox'[d][i] PROVE Deleted(m)
        BY <1>3, <2>2 DEF Deleted
  <2>3. CASE inbox'[d] = inbox[d] BY <2>2, <2>3
  <2>4. CASE inbox'[d] = << >> BY <2>4
  <2>5. CASE Handle(d)
    <3>1. inbox'[d] = Tail(inbox[d]) /\ inbox[d] # << >>
          BY <2>5 DEF Handle, TypeOK
    <3>2. i + 1 \in 1..Len(inbox[d]) /\ inbox'[d][i] = inbox[d][i + 1]
          BY <2>1, <3>1
    <3> QED BY <2>2, <3>2
  <2>6. ASSUME NEW f \in Frames, inbox'[d] = Append(inbox[d], f), Emitted(d, f)
        PROVE  Deleted(m)
    <3>1. inbox'[d][i] = f \/ (i \in 1..Len(inbox[d]) /\ inbox'[d][i] = inbox[d][i])
          BY <2>1, <2>6
    <3>2. CASE inbox'[d][i] = f
      <4>1. f.t = "message_deleted" /\ f.msg = m
            BY <1>3, <3>2 DEF DeleteFrame
      <4>2. PICK p \in Packets : Deliver(p) /\ p.kind = "message_delete" /\ p.msg = m
            BY <2>6, <4>1 DEF Emitted
      <4>3. p = D
            BY <4>2, Kinds
      <4> QED BY <4>2, <4>3 DEF Deliver, Deleted, Settled
    <3> QED BY <2>2, <3>1, <3>2
  <2> QED BY <2>3, <2>4, <2>5, <2>6, QueueMoves
<1> QED BY <1>1, <1>2, <1>3 DEF Deleted

LEMMA LifeStep == TypeOK /\ LifeInv /\ [Next]_vars => LifeInv'
<1> SUFFICES ASSUME TypeOK, LifeInv, [Next]_vars, NEW m \in Messages PROVE Life(m)'
    BY DEF LifeInv
<1> DEFINE M == MessagePacket(m)
           D == DeletePacket(m)
<1>0. Life(m) /\ M \in Packets /\ D \in Packets /\ D.msg = m /\ D.kind = "message_delete"
      BY Kinds DEF LifeInv
<1>1. stage[M] \notin Early => stage'[M] \notin Early
      BY <1>0, StagesAdvance
<1>2. table'[m] # Absent => stage'[M] \notin Early
  <2>1. CASE table[m] # Absent BY <1>0, <1>1, <2>1 DEF Life
  <2>2. CASE table[m] = Absent BY <2>2, RowMoves DEF Early
  <2> QED BY <2>1, <2>2
<1>3. stage'[D] = "found" => stage'[M] \notin Early
  <2>1. stage'[D] = "found" => stage[D] = "found" \/ table[m] # Absent
        BY <1>0, StageMoves
  <2> QED BY <1>0, <1>1, <2>1 DEF Life
<1>4. M \in journal' => stage'[M] \notin Early \cup {"stored"}
  <2>1. stage[M] \notin Early \cup {"stored"} => stage'[M] # "stored"
        BY <1>0, Kinds, StageMoves DEF Store, Early
  <2>2. M \in journal' => M \in journal \/ stage'[M] = "journaled"
        BY JournalMoves
  <2> QED BY <1>0, <1>1, <2>1, <2>2 DEF Life, Early
<1>5. Deleted(m)' => table'[m] = Absent /\ stage'[M] \notin Early
  <2> SUFFICES ASSUME Deleted(m)' PROVE table'[m] = Absent /\ stage'[M] \notin Early
      OBVIOUS
  <2>1. CASE Deleted(m)
    <3>1. table[m] = Absent /\ stage[M] \notin Early
          BY <1>0, <2>1 DEF Life
    <3>2. table'[m] = Absent
          BY <3>1, RowMoves DEF Early
    <3> QED BY <1>1, <3>1, <3>2
  <2>2. CASE Store(D)
    <3>1. stage[D] = "found"
          BY <1>0, <2>2 DEF Store
    <3> QED BY <1>0, <1>1, <2>2, <3>1, RowMoves DEF Life
  <2> QED BY <2>1, <2>2, DeleteMoves
<1> QED BY <1>2, <1>3, <1>4, <1>5 DEF Life
-----------------------------------------------------------------------------
(* Arrival.                                                                *)

(* What a step does to a socket.                                           *)
LEMMA SocketMoves ==
  ASSUME TypeOK, [Next]_vars, NEW d \in Devices
  PROVE  \/ phase'[d] = "down"
         \/ phase'[d] = phase[d] /\ rows'[d] = rows[d] /\ batch'[d] = batch[d]
         \/ phase'[d] \in {"open", "named"}
         \/ ReadRows(d) \/ SendSnapshot(d) \/ ReadPackets(d) \/ SendPackets(d)
<1>1. ASSUME NEW e \in Devices, PushBacklog(e) \/ Connect(e) \/ Hangup(e), e # d
      PROVE  phase'[d] = phase[d] /\ rows'[d] = rows[d] /\ batch'[d] = batch[d]
      BY <1>1 DEF PushBacklog, Connect, Hello, ReadRows, SendSnapshot, ReadPackets,
         SendPackets, Hangup, TypeOK
<1>2. CASE Hangup(d) BY <1>2 DEF Hangup, TypeOK
<1>3. CASE Connect(d) BY <1>3 DEF Connect, TypeOK
<1>4. CASE PushBacklog(d) BY <1>4 DEF PushBacklog, Hello, TypeOK
<1>5. CASE Restart BY <1>5 DEF Restart
<1>6. CASE UNCHANGED socket BY <1>6 DEF socket
<1>7. \/ \E e \in Devices : PushBacklog(e) \/ Connect(e) \/ Hangup(e)
      \/ Restart \/ UNCHANGED socket
      BY DEF Next, Submit, Serve, Lookup, Store, Journal, Deliver, Answer, Handle, Ack,
         Disconnect, Reload, socket, vars
<1> QED BY <1>1, <1>2, <1>3, <1>4, <1>5, <1>6, <1>7

(* What a step does to a list.                                             *)
LEMMA ViewMoves ==
  ASSUME TypeOK, [Next]_vars, NEW d \in Devices
  PROVE  \/ view'[d] = view[d]
         \/ Handle(d)
         \/ \E p \in Packets : Answer(p) /\ view'[d] = Answered(view[d], p)
         \/ phase'[d] = "down"
<1>1. ASSUME NEW e \in Devices, Handle(e) PROVE Handle(d) \/ view'[d] = view[d]
      BY <1>1 DEF Handle, TypeOK
<1>2. ASSUME NEW p \in Packets, Answer(p)
      PROVE  \/ view'[d] = view[d]
             \/ \E q \in Packets : Answer(q) /\ view'[d] = Answered(view[d], q)
      BY <1>2 DEF Answer, TypeOK
<1>3. ASSUME NEW e \in Devices, Reload(e) PROVE view'[d] = view[d] \/ phase'[d] = "down"
      BY <1>3 DEF Reload, Hangup, TypeOK
<1>4. CASE UNCHANGED view BY <1>4
<1>5. \/ \E e \in Devices : Handle(e) \/ Reload(e)
      \/ \E p \in Packets : Answer(p)
      \/ UNCHANGED view
      BY DEF Next, Submit, Serve, Lookup, Store, Journal, Deliver, Connect, PushBacklog,
         Hello, ReadRows, SendSnapshot, ReadPackets, SendPackets, Ack, Disconnect, Restart,
         page, vars
<1> QED BY <1>1, <1>2, <1>3, <1>4, <1>5

(* Only an open page that is ready applies a batch.                        *)
LEMMA AppliedMoves ==
  ASSUME TypeOK, BatchInv, [Next]_vars, NEW d \in Devices, NEW m,
         OnlyPage(d), phase[d] # "ready", ~Applied(d, m)
  PROVE  ~Applied(d, m)'
<1>1. ASSUME NEW e \in Devices, Handle(e), Applied(d, m)' PROVE FALSE
  <2>1. /\ Head(inbox[e]).t = "packets"
        /\ applied' = applied \cup (Head(inbox[e]).ps \X {Owner[e]})
        BY <1>1 DEF Handle, Applied
  <2>2. Owner[e] = Owner[d]
        BY <1>1, <2>1 DEF Applied
  <2>3. e = d
        BY <2>2 DEF OnlyPage
  <2>4. Head(inbox[d]) = inbox[d][1] /\ 1 \in 1..Len(inbox[d])
        BY <1>1, <2>3 DEF Handle, TypeOK
  <2> QED BY <2>1, <2>3, <2>4 DEF BatchInv
<1>2. (\E e \in Devices : Handle(e)) \/ UNCHANGED applied
      BY DEF Next, Submit, Serve, Lookup, Store, Journal, Deliver, Answer, Connect,
         PushBacklog, Hello, ReadRows, SendSnapshot, ReadPackets, SendPackets, Ack,
         Disconnect, Reload, Restart, page, vars
<1> QED BY <1>1, <1>2 DEF Applied

(* An answer does not hide a message that is not deleted.                  *)
LEMMA AnsweredListed ==
  ASSUME NEW v \in Lists, NEW p \in Packets, NEW m \in Messages,
         p # DeletePacket(m), Listed(v, m)
  PROVE  Listed(Answered(v, p), m)
<1>1. PICK k \in Keys : v[<<m, k>>] # Absent
      BY DEF Listed
<1>2. <<m, k>> \in Copies
      BY DEF Copies
<1>3. p.msg = m => p.kind # "message_delete"
      BY Kinds
<1>4. Answered(v, p)[<<m, k>>] # Absent
      BY <1>1, <1>2, <1>3, PacketFields, BodyFacts DEF Answered, Upsert, WithRow, Lists
<1> QED BY <1>4 DEF Listed

(* What is coming keeps coming, unless the page's own snapshot is sent.    *)
LEMMA ComingKept ==
  ASSUME IInv, LifeInv, [Next]_vars, NEW d \in Devices, NEW m \in Messages,
         Coming(d, m), ~Deleted(m), phase'[d] # "down", ~SendSnapshot(d)
  PROVE  Coming(d, m)'
<1>0. /\ TypeOK /\ InFlight /\ inbox[d] \in Seq(Frames) /\ view[d] \in Lists
      BY DEF IInv, TypeOK, Lists
<1>1. CASE Handle(d)
  <2>1. /\ inbox[d] # << >> /\ inbox'[d] = Tail(inbox[d])
        /\ view'[d] = After(view[d], Head(inbox[d]))
        BY <1>0, <1>1 DEF Handle, TypeOK
  <2>2. Head(inbox[d]) = inbox[d][1] /\ 1 \in 1..Len(inbox[d])
        BY <1>0, <2>1
  <2>3. ~DeleteFrame(Head(inbox[d]), m)
        BY <2>2 DEF Deleted
  <2>4. Head(inbox[d]).t = "packets" => DeletePacket(m) \notin Head(inbox[d]).ps
        BY <1>0, <2>2 DEF Deleted, InFlight, Addressed
  <2> QED BY <1>0, <2>1, <2>3, <2>4, ComesOn DEF Coming
<1>2. ASSUME NEW p \in Packets, Answer(p), view'[d] = Answered(view[d], p)
      PROVE  Coming(d, m)'
  <2>1. p # DeletePacket(m) /\ inbox' = inbox
        BY <1>2 DEF Answer, Deleted, Settled
  <2>2. Listed(view[d], m) => Listed(view'[d], m)
        BY <1>0, <1>2, <2>1, AnsweredListed
  <2> QED BY <2>1, <2>2 DEF Coming, Comes
<1>3. CASE view'[d] = view[d] /\ ~Handle(d)
  <2>1. CASE inbox'[d] = inbox[d] BY <1>3, <2>1 DEF Coming
  <2>2. ASSUME NEW f \in Frames, inbox'[d] = Append(inbox[d], f), Emitted(d, f)
        PROVE  Coming(d, m)'
    <3>1. ~Hides(f, m)
          BY <2>2 DEF Emitted, Hides
    <3> QED BY <1>0, <1>3, <2>2, <3>1, ComesBehind DEF Coming
  <2> QED BY <1>0, <1>3, <2>1, <2>2, QueueMoves
<1> QED BY <1>0, <1>1, <1>2, <1>3, ViewMoves

(* A message delivered live comes to every named page it is for.           *)
LEMMA DeliveredComes ==
  ASSUME TypeOK, NEW d \in Devices, NEW m \in Messages, VisibleTo(Owner[d], m),
         phase[d] \in {"packetsRead", "ready"}, Deliver(MessagePacket(m))
  PROVE  Coming(d, m)'
<1> DEFINE f == [t |-> "message", msg |-> m, body |-> 0]
<1>1. f \in Frames /\ Brings(f, m)
      BY BodyFacts DEF Frames, Brings
<1>2. d \in Routed(m)
      BY DEF Routed, Connected, Named
<1>3. Send(Routed(m), f)
      BY Kinds DEF Deliver
<1>4. inbox'[d] = Append(inbox[d], f) /\ inbox[d] \in Seq(Frames)
      BY <1>2, <1>3 DEF Send, TypeOK
<1> HIDE DEF f
<1> QED BY <1>1, <1>4, ComesLast DEF Coming

LEMMA InitArrival == Init => ArrivalInv
BY DEF Init, ArrivalInv, Expected, NoRows

LEMMA ArrivalStep ==
  IInv /\ LifeInv /\ BatchInv /\ ArrivalInv /\ [Next]_vars => ArrivalInv'
<1> SUFFICES ASSUME IInv, LifeInv, BatchInv, ArrivalInv, [Next]_vars,
                    NEW d \in Devices, NEW m \in Messages, Expected(d, m)'
             PROVE  OnItsWay(d, m)'
    BY DEF ArrivalInv
<1> DEFINE M == MessagePacket(m)
<1>0. /\ TypeOK /\ AcksSeen /\ M \in Packets
      /\ OnlyPage(d) /\ VisibleTo(Owner[d], m) /\ table'[m] # Absent
      BY Kinds DEF IInv, Expected, OnlyPage, VisibleTo
<1>1. CASE table[m] = Absent
  <2>1. stage[M] = "received" /\ journal' = journal /\ applied' = applied
        BY <1>0, <1>1, RowMoves
  <2>2. M \notin journal
        BY <2>1 DEF LifeInv, Life, Early
  <2>3. ~Applied(d, m)'
        BY <2>1, <2>2 DEF Applied, BatchInv
  <2> QED BY <2>1, <2>2, <2>3 DEF OnItsWay
<1>2. CASE table[m] # Absent
  <2>0. OnItsWay(d, m) /\ ~Deleted(m)
        BY <1>0, <1>2 DEF ArrivalInv, Expected, LifeInv, Life
  <2>1. CASE phase'[d] \in {"down", "open", "named"}
        BY <2>1 DEF OnItsWay
  <2>2. CASE /\ phase'[d] = phase[d] /\ rows'[d] = rows[d] /\ batch'[d] = batch[d]
             /\ phase'[d] \notin {"down", "open", "named"} /\ ~SendSnapshot(d)
    <3>1. Coming(d, m) => Coming(d, m)'
          BY <2>0, <2>2, ComingKept
    <3>2. phase[d] # "ready" /\ ~Applied(d, m) => ~Applied(d, m)'
          BY <1>0, AppliedMoves
    <3>3. stage[M] = "journaled" /\ phase[d] \in {"packetsRead", "ready"} =>
            stage'[M] = "journaled" \/ Coming(d, m)'
      <4> SUFFICES ASSUME stage[M] = "journaled", phase[d] \in {"packetsRead", "ready"}
                   PROVE  stage'[M] = "journaled" \/ Coming(d, m)'
          OBVIOUS
      <4>1. ~Restart
            BY <2>2 DEF Restart
      <4>2. ~Store(M)
            BY Kinds DEF Store
      <4>3. stage'[M] = "journaled" \/ Deliver(M)
            BY <1>0, <4>1, <4>2, StageMoves
      <4> QED BY <1>0, <4>3, DeliveredComes
    <3>4. M \in journal' => M \in journal \/ stage'[M] = "journaled"
          BY <1>0, JournalMoves
    <3> QED BY <2>0, <2>2, <3>1, <3>2, <3>3, <3>4 DEF OnItsWay
  <2>3. CASE ReadRows(d)
    <3>1. phase'[d] = "rowsRead" /\ rows'[d][m] = table[m]
          BY <1>0, <2>3 DEF ReadRows, RowsFor, TypeOK
    <3> QED BY <1>2, <3>1 DEF OnItsWay
  <2>4. CASE SendSnapshot(d)
    <3> DEFINE f == [t |-> "snapshot", rows |-> rows[d]]
    <3>1. /\ phase[d] = "rowsRead" /\ phase'[d] = "snapshotSent" /\ applied' = applied
          /\ inbox'[d] = Append(inbox[d], f) /\ inbox[d] \in Seq(Frames) /\ f \in Frames
          BY <1>0, <2>4 DEF SendSnapshot, TypeOK, Send, page, Frames
    <3>2. rows[d][m] # Absent => Brings(f, m)
          BY DEF Brings
    <3> HIDE DEF f
    <3>3. rows[d][m] # Absent => Coming(d, m)'
          BY <3>1, <3>2, ComesLast DEF Coming
    <3> QED BY <2>0, <3>1, <3>3 DEF OnItsWay, Applied
  <2>5. CASE ReadPackets(d)
    <3>1. /\ phase[d] = "snapshotSent" /\ phase'[d] = "packetsRead" /\ journal' = journal
          /\ batch'[d] = UndeliveredFor(Owner[d]) /\ inbox' = inbox /\ view' = view
          BY <1>0, <2>5 DEF ReadPackets, TypeOK, page, store
    <3>2. M \in journal /\ ~Applied(d, m) => M \in batch'[d]
          BY <1>0, <3>1, Kinds DEF UndeliveredFor, AcksSeen, Applied
    <3> QED BY <2>0, <3>1, <3>2 DEF OnItsWay, Coming
  <2>6. CASE SendPackets(d)
    <3> DEFINE f == [t |-> "packets", ps |-> batch[d]]
    <3>1. /\ phase[d] = "packetsRead" /\ phase'[d] = "ready"
          /\ journal' = journal /\ stage' = stage
          /\ inbox'[d] = Append(inbox[d], f) /\ inbox[d] \in Seq(Frames) /\ f \in Frames
          BY <1>0, <2>6 DEF SendPackets, TypeOK, Send, store, jobs, Frames
    <3>2. M \in batch[d] => Brings(f, m)
          BY DEF Brings
    <3> HIDE DEF f
    <3>3. M \in batch[d] => Coming(d, m)'
          BY <3>1, <3>2, ComesLast DEF Coming
    <3>4. Coming(d, m) => Coming(d, m)'
          BY <2>0, <3>1, ComingKept DEF SendSnapshot
    <3> QED BY <2>0, <3>1, <3>3, <3>4 DEF OnItsWay
  <2> QED BY <1>0, <2>1, <2>2, <2>3, <2>4, <2>5, <2>6, SocketMoves
<1> QED BY <1>1, <1>2

-----------------------------------------------------------------------------
(* Nothing is missing from a page that is its callsign's only one, once    *)
(* its socket and the requests have come to rest.                          *)
THEOREM NothingIsMissing == Spec => []NothingMissing
<1> DEFINE Inv == LifeInv /\ BatchInv /\ ArrivalInv
<1>1. Init => Inv
      BY InitLife, InitBatch, InitArrival
<1>2. IInv /\ Inv /\ [Next]_vars => Inv'
  <2>1. IInv => TypeOK BY DEF IInv
  <2> QED BY <2>1, LifeStep, BatchStep, ArrivalStep
<1>3. Inv => NothingMissing
  <2> SUFFICES ASSUME ArrivalInv, NEW d \in Devices, NEW m \in Messages, Quiet(d),
                      OnlyPage(d), VisibleTo(Owner[d], m), table[m] # Absent,
                      MessagePacket(m) \in journal
               PROVE  Shown(d, m)
      BY DEF NothingMissing
  <2>1. OnItsWay(d, m) /\ phase[d] = "ready" /\ inbox[d] = << >>
        BY DEF ArrivalInv, Expected, Quiet
  <2>2. stage[MessagePacket(m)] # "journaled"
        BY Kinds DEF Quiet
  <2>3. Coming(d, m)
        BY <2>1, <2>2 DEF OnItsWay
  <2>4. Listed(view[d], m)
        BY <2>1, <2>3 DEF Coming, Comes
  <2> QED BY <2>4 DEF Listed, Shown
<1> HIDE DEF Inv
<1> QED BY Invariance, <1>1, <1>2, <1>3, PTL DEF Spec
=============================================================================
