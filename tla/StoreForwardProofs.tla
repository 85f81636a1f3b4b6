------------------------- MODULE StoreForwardProofs -------------------------
(***************************************************************************)
(* What holds of store-and-forward for every set of users, devices and     *)
(* messages, every audience and any number of edits, sessions and faults:  *)
(* the inductive invariant IInv, and from it that pages list only what is  *)
(* addressed to them, that no unread packet leaves a backlog, and that the *)
(* journal, the batches and the acks implement Mailbox.                    *)
(***************************************************************************)
EXTENDS StoreForward, TLAPS, WellFoundedInduction

-----------------------------------------------------------------------------
(* Packets and frames are records with the fields their kinds announce.    *)

(* Every packet names a message and carries a body.                        *)
LEMMA PacketFields ==
  ASSUME NEW p \in Packets
  PROVE  /\ p.kind \in {"message", "message_update", "message_delete"}
         /\ p.msg \in Messages /\ p.body \in Bodies
         /\ p.kind = "message_update" => p.body \in 1..MaxEdits
BY StoreForwardAssumption DEF Packets, Bodies

(* The fields of a frame by its type.                                      *)
LEMMA FrameFields ==
  ASSUME NEW f \in Frames
  PROVE  /\ f.t \in {"snapshot", "packets", "message", "message_updated", "message_deleted"}
         /\ f.t = "snapshot" => f.rows \in Rows
         /\ f.t = "packets" => f.ps \in SUBSET Packets
         /\ f.t \in {"message", "message_updated", "message_deleted"}
              => f.msg \in Messages /\ f.body \in Bodies
BY DEF Frames

(* Absent is no body.                                                      *)
LEMMA BodyFacts == 0 \in Bodies /\ Absent \notin Bodies
BY StoreForwardAssumption DEF Bodies, Absent

(* A set of edits has a latest one, whose body is a body.                  *)
LEMMA LatestBodyIsBody ==
  ASSUME NEW ps \in SUBSET Packets, ps # {},
         \A p \in ps : p.kind = "message_update"
  PROVE  LatestBody(ps) \in Bodies
<1> DEFINE T == {MaxEdits - p.body : p \in ps}
<1>1. \A p \in ps : p.body \in 1..MaxEdits
      BY PacketFields
<1>2. T \in SUBSET Nat /\ T # {}
      BY <1>1, StoreForwardAssumption
<1> DEFINE Less == {ss \in Nat \X Nat : ss[1] < ss[2]}
<1>0. IsWellFoundedOn(Less, Nat)
      BY NatLessThanWellFounded DEF OpToRel
<1> HIDE DEF Less
<1>3. PICK x \in T : \A y \in T : ~(<<y, x>> \in Less)
      BY <1>2, <1>0, WFMin
<1>4. \A y \in T : x <= y
  <2>1. x \in Nat BY <1>2, <1>3
  <2> SUFFICES ASSUME NEW y \in T PROVE x <= y
      OBVIOUS
  <2>2. y \in Nat BY <1>2
  <2>3. ~(y < x)
    <3>1. <<y, x>> \notin Less BY <1>3
    <3> QED BY <3>1, <2>1, <2>2 DEF Less
  <2> QED BY <2>1, <2>2, <2>3
<1>5. PICK p \in ps : x = MaxEdits - p.body
      BY <1>3
<1>6. \A q \in ps : q.body <= p.body
  <2> SUFFICES ASSUME NEW q \in ps PROVE q.body <= p.body
      OBVIOUS
  <2>1. x <= MaxEdits - q.body
        BY <1>4
  <2>2. q.body \in Nat /\ p.body \in Nat /\ MaxEdits \in Nat
        BY <1>1, StoreForwardAssumption
  <2> QED BY <2>1, <2>2, <1>5
<1> DEFINE c == CHOOSE r \in ps : \A q \in ps : q.body <= r.body
<1>7. c \in ps
      BY <1>6
<1>8. c.body \in Bodies
      BY <1>7, PacketFields
<1> QED BY <1>8 DEF LatestBody

-----------------------------------------------------------------------------
(* The list of a page, after a frame or an answer, is again a list.        *)

Lists == [Copies -> Bodies \cup {Absent}]

(* One copy replaced.                                                      *)
LEMMA WithRowType ==
  ASSUME NEW v \in Lists, NEW m \in Messages, NEW b \in Bodies \cup {Absent}
  PROVE  WithRow(v, m, b) \in Lists
BY DEF WithRow, Lists, Copies, Keys

(* One copy added unless it is there.                                      *)
LEMMA UpsertType ==
  ASSUME NEW v \in Lists, NEW m \in Messages, NEW b \in Bodies
  PROVE  Upsert(v, m, b) \in Lists
BY WithRowType DEF Upsert

(* A batch applied.                                                        *)
LEMMA AfterPacketsType ==
  ASSUME NEW v \in Lists, NEW ps \in SUBSET Packets
  PROVE  AfterPackets(v, ps) \in Lists
<1> SUFFICES ASSUME NEW c \in Copies PROVE AfterPackets(v, ps)[c] \in Bodies \cup {Absent}
    BY DEF AfterPackets, Lists
<1>1. v[c] \in Bodies \cup {Absent}
      BY DEF Lists
<1>2. Edits(c[1], ps) # {} => LatestBody(Edits(c[1], ps)) \in Bodies
  <2>1. /\ Edits(c[1], ps) \in SUBSET Packets
        /\ \A p \in Edits(c[1], ps) : p.kind = "message_update"
        BY DEF Edits
  <2> QED BY <2>1, LatestBodyIsBody
<1> QED BY <1>1, <1>2, BodyFacts DEF AfterPackets

(* Any frame handled.                                                      *)
LEMMA AfterType ==
  ASSUME NEW v \in Lists, NEW f \in Frames
  PROVE  After(v, f) \in Lists
<1>1. CASE f.t = "snapshot"
  <2>1. f.rows \in Rows
        BY <1>1, FrameFields
  <2>2. \A c \in Copies : c[1] \in Messages
        BY DEF Copies
  <2> QED BY <1>1, <2>1, <2>2 DEF After, Lists, Rows
<1>2. CASE f.t = "packets" BY <1>2, FrameFields, AfterPacketsType DEF After
<1>3. CASE f.t = "message" BY <1>3, FrameFields, UpsertType DEF After
<1>4. CASE f.t = "message_updated" BY <1>4, FrameFields, WithRowType DEF After
<1>5. CASE f.t = "message_deleted" BY <1>5, FrameFields, WithRowType DEF After
<1> QED BY <1>1, <1>2, <1>3, <1>4, <1>5, FrameFields

(* An answer handled.                                                      *)
LEMMA AnsweredType ==
  ASSUME NEW v \in Lists, NEW p \in Packets
  PROVE  Answered(v, p) \in Lists
BY PacketFields, BodyFacts, UpsertType, WithRowType DEF Answered

(* Frames put on the inboxes keep them sequences of frames.                *)
LEMMA SendType ==
  ASSUME inbox \in [Devices -> Seq(Frames)], NEW ds, NEW f \in Frames, Send(ds, f)
  PROVE  inbox' \in [Devices -> Seq(Frames)]
BY DEF Send

-----------------------------------------------------------------------------
(* Type correctness.                                                       *)

(* The initial state satisfies the invariant.                              *)
LEMMA InitIInv == Init => IInv
<1> SUFFICES ASSUME Init PROVE IInv
    OBVIOUS
<1>1. TypeOK
      BY StoreForwardAssumption
      DEF Init, TypeOK, NoRows, Blank, Rows, Stages, Phases
<1>2. OnlyAddressed
      BY DEF Init, OnlyAddressed, Blank, Copies
<1>3. InFlight
      BY DEF Init, InFlight, NoRows
<1>4. AcksSeen /\ AuthorWaits
      BY DEF Init, AcksSeen, AuthorWaits
<1> QED BY <1>1, <1>2, <1>3, <1>4 DEF IInv

(* The steps of a request keep the types.                                  *)
LEMMA ServeType ==
  ASSUME IInv, NEW p \in Packets, Serve(p)
  PROVE  TypeOK'
<1> USE DEF TypeOK, store, jobs, socket, page, counts, Stages
<1>0. TypeOK /\ p.msg \in Messages
      BY PacketFields DEF IInv
<1>1. CASE Lookup(p) BY <1>0, <1>1 DEF Lookup
<1>2. CASE Store(p)
  <2>1. Written(p) \in Bodies \cup {Absent}
        BY PacketFields, BodyFacts DEF Written
  <2>2. table' \in Rows
        BY <1>0, <1>2, <2>1 DEF Store, Rows
  <2> QED BY <1>0, <1>2, <2>2 DEF Store
<1>3. CASE Journal(p) BY <1>0, <1>3, StoreForwardAssumption DEF Journal
<1>4. CASE Deliver(p)
  <2>1. \A t \in {"message", "message_updated", "message_deleted"} : \A b \in Bodies :
          [t |-> t, msg |-> p.msg, body |-> b] \in Frames
        BY <1>0 DEF Frames
  <2>2. inbox' \in [Devices -> Seq(Frames)]
        BY <1>0, <1>4, <2>1, PacketFields, BodyFacts, SendType DEF Deliver
  <2> QED BY <1>0, <1>4, <2>2 DEF Deliver
<1>5. CASE Answer(p)
  <2>1. view' \in [Devices -> Lists]
    <3>1. CASE UNCHANGED view BY <1>0, <3>1 DEF Lists
    <3>2. CASE view' # view
      <4>1. from[p] \in Devices /\ view' = [view EXCEPT ![from[p]] = Answered(@, p)]
            BY <1>0, <1>5, <3>2 DEF Answer
      <4>2. Answered(view[from[p]], p) \in Lists
            BY <1>0, <4>1, AnsweredType DEF Lists
      <4> QED BY <1>0, <4>1, <4>2 DEF Lists
    <3> QED BY <3>1, <3>2
  <2> QED BY <1>0, <1>5, <2>1 DEF Answer, Lists
<1> QED BY <1>1, <1>2, <1>3, <1>4, <1>5 DEF Serve

(* The steps of a device and its socket keep the types.                    *)
LEMMA DeviceType ==
  ASSUME IInv, NEW d \in Devices,
         \/ Connect(d) \/ PushBacklog(d) \/ Handle(d) \/ Disconnect(d) \/ Reload(d)
         \/ \E ps \in acking[d] : Ack(d, ps)
  PROVE  TypeOK'
<1> USE DEF TypeOK, store, jobs, page, counts, Phases
<1>0. TypeOK
      BY DEF IInv
<1>1. CASE Connect(d) BY <1>0, <1>1 DEF Connect
<1>2. CASE Hello(d) BY <1>0, <1>2 DEF Hello
<1>3. CASE ReadRows(d)
  <2>1. RowsFor(Owner[d]) \in Rows
        BY <1>0 DEF RowsFor, Rows
  <2> QED BY <1>0, <1>3, <2>1 DEF ReadRows
<1>4. CASE SendSnapshot(d)
  <2>1. [t |-> "snapshot", rows |-> rows[d]] \in Frames
        BY <1>0 DEF Frames
  <2>2. inbox' \in [Devices -> Seq(Frames)]
        BY <1>0, <1>4, <2>1, SendType DEF SendSnapshot
  <2>3. NoRows \in Rows
        BY DEF NoRows, Rows
  <2> QED BY <1>0, <1>4, <2>2, <2>3 DEF SendSnapshot
<1>5. CASE ReadPackets(d)
  <2>1. UndeliveredFor(Owner[d]) \in SUBSET Packets
        BY <1>0 DEF UndeliveredFor
  <2> QED BY <1>0, <1>5, <2>1 DEF ReadPackets
<1>6. CASE SendPackets(d)
  <2>1. [t |-> "packets", ps |-> batch[d]] \in Frames
        BY <1>0 DEF Frames
  <2>2. inbox' \in [Devices -> Seq(Frames)]
        BY <1>0, <1>6, <2>1, SendType DEF SendPackets
  <2> QED BY <1>0, <1>6, <2>2 DEF SendPackets
<1>7. CASE Handle(d)
  <2> DEFINE f == Head(inbox[d])
  <2>1. f \in Frames /\ Tail(inbox[d]) \in Seq(Frames)
        BY <1>0, <1>7 DEF Handle
  <2>2. After(view[d], f) \in Lists
        BY <1>0, <2>1, AfterType DEF Lists
  <2>3. view' \in [Devices -> Lists]
        BY <1>0, <1>7, <2>2 DEF Handle, Lists
  <2>4. /\ acking' \in [Devices -> SUBSET (SUBSET Packets)]
        /\ applied' \subseteq Packets \X Users
    <3>1. CASE f.t = "packets"
      <4>1. f.ps \in SUBSET Packets /\ Owner[d] \in Users
            BY <2>1, <3>1, FrameFields, StoreForwardAssumption
      <4>2. /\ acking' = [acking EXCEPT ![d] = @ \cup {f.ps}]
            /\ applied' = applied \cup (f.ps \X {Owner[d]})
            BY <1>7, <3>1 DEF Handle
      <4> HIDE DEF f
      <4>3. acking[d] \cup {f.ps} \in SUBSET (SUBSET Packets)
            BY <1>0, <4>1
      <4>4. acking' \in [Devices -> SUBSET (SUBSET Packets)]
            BY <1>0, <4>2, <4>3
      <4>5. applied' \subseteq Packets \X Users
            BY <1>0, <4>1, <4>2
      <4> QED BY <4>4, <4>5
    <3>2. CASE f.t # "packets" BY <1>0, <1>7, <3>2 DEF Handle
    <3> QED BY <3>1, <3>2
  <2>5. inbox' \in [Devices -> Seq(Frames)]
        BY <1>0, <1>7, <2>1 DEF Handle
  <2>6. UNCHANGED <<table, journal, acks, stage, from, phase, rows, batch, faults, sessions>>
        BY <1>7 DEF Handle, socket
  <2> QED BY <1>0, <2>3, <2>4, <2>5, <2>6 DEF Lists
<1>8. CASE Disconnect(d)
  <2>1. NoRows \in Rows
        BY DEF NoRows, Rows
  <2> QED BY <1>0, <1>8, <2>1 DEF Disconnect, Hangup
<1>9. CASE Reload(d)
  <2>1. NoRows \in Rows /\ Blank \in [Copies -> Bodies \cup {Absent}]
        BY DEF NoRows, Rows, Blank
  <2> QED BY <1>0, <1>9, <2>1 DEF Reload, Hangup
<1>10. ASSUME NEW ps \in acking[d], Ack(d, ps) PROVE TypeOK'
  <2>1. ps \in SUBSET Packets /\ Owner[d] \in Users
        BY <1>0, StoreForwardAssumption
  <2>2. acks' \subseteq Packets \X Users
        BY <1>0, <1>10, <2>1 DEF Ack, Delivered, Signer
  <2> QED BY <1>0, <1>10, <2>2 DEF Ack, socket
<1> QED BY <1>1, <1>2, <1>3, <1>4, <1>5, <1>6, <1>7, <1>8, <1>9, <1>10 DEF PushBacklog

(* Every step keeps the types.                                             *)
LEMMA NextTypeOK == IInv /\ [Next]_vars => TypeOK'
<1> SUFFICES ASSUME IInv, [Next]_vars PROVE TypeOK'
    OBVIOUS
<1>0. TypeOK
      BY DEF IInv
<1>1. ASSUME NEW d \in Devices, NEW p \in Packets, Submit(d, p) PROVE TypeOK'
      BY <1>0, <1>1 DEF Submit, TypeOK, store, socket, page, counts, Stages
<1>2. ASSUME NEW p \in Packets, Serve(p) PROVE TypeOK'
      BY <1>2, ServeType
<1>3. ASSUME NEW d \in Devices,
             \/ Connect(d) \/ PushBacklog(d) \/ Handle(d) \/ Disconnect(d) \/ Reload(d)
             \/ \E ps \in acking[d] : Ack(d, ps)
      PROVE  TypeOK'
      BY <1>3, DeviceType
<1>4. CASE Restart
  <2>1. stage' \in [Packets -> Stages]
        BY <1>0, <1>4 DEF Restart, TypeOK, Stages
  <2>2. NoRows \in Rows
        BY DEF NoRows, Rows
  <2>3. /\ from' \in [Packets -> Devices \cup {NoDevice}]
        /\ phase' \in [Devices -> Phases]
        /\ inbox' \in [Devices -> Seq(Frames)]
        BY <1>4 DEF Restart, Phases
  <2>4. faults' \in 0..MaxFaults
        BY <1>0, <1>4, StoreForwardAssumption DEF Restart, TypeOK
  <2> QED BY <1>0, <1>4, <2>1, <2>2, <2>3, <2>4 DEF Restart, TypeOK, store, page
<1>5. CASE UNCHANGED vars BY <1>0, <1>5 DEF TypeOK, vars
<1> QED BY <1>1, <1>2, <1>3, <1>4, <1>5 DEF Next

-----------------------------------------------------------------------------
(* What is in flight stays journalled and addressed.                       *)

(* A growing journal keeps a frame addressed.                              *)
LEMMA AddressedGrows ==
  ASSUME journal \subseteq journal', NEW d \in Devices, NEW f, Addressed(d, f)
  PROVE  Addressed(d, f)'
BY DEF Addressed, VisibleTo

(* Sending an addressed frame keeps every inbox addressed.                 *)
LEMMA SendAddressed ==
  ASSUME TypeOK, InFlight, UNCHANGED journal, NEW ds, NEW f \in Frames, Send(ds, f),
         \A d \in Devices : d \in ds => Addressed(d, f)
  PROVE  \A d \in Devices : \A i \in 1..Len(inbox'[d]) : Addressed(d, inbox'[d][i])
<1> SUFFICES ASSUME NEW d \in Devices, NEW i \in 1..Len(inbox'[d])
             PROVE  Addressed(d, inbox'[d][i])
    OBVIOUS
<1>1. inbox[d] \in Seq(Frames)
      BY DEF TypeOK
<1>2. CASE d \in ds
  <2>1. inbox'[d] = Append(inbox[d], f)
        BY <1>2 DEF Send
  <2>2. CASE i = Len(inbox[d]) + 1 BY <1>1, <1>2, <2>1, <2>2
  <2>3. CASE i \in 1..Len(inbox[d]) BY <1>1, <2>1, <2>3 DEF InFlight
  <2> QED BY <1>1, <2>1, <2>2, <2>3
<1>3. CASE d \notin ds
  <2>1. inbox'[d] = inbox[d]
        BY <1>3 DEF Send
  <2> QED BY <2>1 DEF InFlight
<1> QED BY <1>2, <1>3

(* What a request's steps put in flight is addressed.                      *)
LEMMA ServeInFlight ==
  ASSUME IInv, NEW p \in Packets, Serve(p)
  PROVE  InFlight'
<1>0. TypeOK /\ InFlight /\ p.msg \in Messages
      BY PacketFields DEF IInv
<1>1. CASE Lookup(p) \/ Store(p) \/ Journal(p) \/ Answer(p)
  <2>1. journal \subseteq journal' /\ UNCHANGED <<inbox, rows, batch>>
        BY <1>1 DEF Lookup, Store, Journal, Answer, store, socket
  <2>2. \A d \in Devices : \A i \in 1..Len(inbox[d]) : Addressed(d, inbox[d][i])'
        BY <1>0, <2>1, AddressedGrows DEF InFlight
  <2> QED BY <1>0, <2>1, <2>2 DEF InFlight, VisibleTo
<1>2. CASE Deliver(p)
  <2> DEFINE f(t, b) == [t |-> t, msg |-> p.msg, body |-> b]
  <2>1. \A t \in {"message", "message_updated", "message_deleted"} : \A b \in Bodies :
          f(t, b) \in Frames
        BY <1>0 DEF Frames
  <2>2. \A d \in Routed(p.msg) : VisibleTo(Owner[d], p.msg)
        BY DEF Routed, VisibleTo
  <2>3. \A t \in {"message", "message_updated"}, b \in Bodies, d \in Devices :
          d \in Routed(p.msg) => Addressed(d, f(t, b))
        BY <2>2 DEF Addressed
  <2>4. \A b \in Bodies, d \in Devices : Addressed(d, f("message_deleted", b))
        BY DEF Addressed
  <2>5. UNCHANGED <<journal, rows, batch>>
        BY <1>2 DEF Deliver, store, socket
  <2>6. \A d \in Devices : \A i \in 1..Len(inbox'[d]) : Addressed(d, inbox'[d][i])
    <3>1. CASE p.kind = "message"
      <4>1. Send(Routed(p.msg), f("message", 0))
            BY <1>2, <3>1 DEF Deliver
      <4> QED BY <1>0, <2>1, <2>3, <2>5, <4>1, BodyFacts, SendAddressed
    <3>2. CASE p.kind = "message_update"
      <4>1. Send(Routed(p.msg), f("message_updated", p.body))
            BY <1>2, <3>2 DEF Deliver
      <4> QED BY <1>0, <2>1, <2>3, <2>5, <4>1, PacketFields, SendAddressed
    <3>3. CASE p.kind = "message_delete"
      <4>1. Send({d \in Devices : Connected(d)}, f("message_deleted", 0))
            BY <1>2, <3>3 DEF Deliver
      <4> QED BY <1>0, <2>1, <2>4, <2>5, <4>1, BodyFacts, SendAddressed
    <3> QED BY <3>1, <3>2, <3>3, PacketFields
  <2> QED BY <1>0, <2>5, <2>6 DEF InFlight, Addressed, VisibleTo
<1> QED BY <1>1, <1>2 DEF Serve

(* What a device's steps leave or put in flight is addressed.              *)
LEMMA DeviceInFlight ==
  ASSUME IInv, NEW d \in Devices,
         \/ Connect(d) \/ PushBacklog(d) \/ Handle(d) \/ Disconnect(d) \/ Reload(d)
         \/ \E ps \in acking[d] : Ack(d, ps)
  PROVE  InFlight'
<1>0. TypeOK /\ InFlight
      BY DEF IInv
<1>1. UNCHANGED journal
      BY DEF Connect, PushBacklog, Handle, Disconnect, Reload, Ack, Hello, ReadRows,
         SendSnapshot, ReadPackets, SendPackets, store
<1>2. CASE Connect(d) \/ Hello(d) \/ \E ps \in acking[d] : Ack(d, ps)
  <2>1. UNCHANGED <<inbox, rows, batch>>
        BY <1>2 DEF Connect, Hello, Ack, socket
  <2> QED BY <1>0, <1>1, <2>1 DEF InFlight, Addressed, VisibleTo
<1>3. CASE ReadRows(d)
  <2>1. UNCHANGED <<inbox, batch>>
        BY <1>3 DEF ReadRows
  <2>2. \A g \in Devices : \A m \in Messages :
          rows'[g][m] # Absent => VisibleTo(Owner[g], m)
        BY <1>0, <1>3 DEF ReadRows, RowsFor, InFlight, TypeOK
  <2> QED BY <1>0, <1>1, <2>1, <2>2 DEF InFlight, Addressed, VisibleTo
<1>4. CASE SendSnapshot(d)
  <2> DEFINE f == [t |-> "snapshot", rows |-> rows[d]]
  <2>1. f \in Frames
        BY <1>0 DEF Frames, TypeOK
  <2>2. Addressed(d, f)
        BY <1>0 DEF Addressed, InFlight
  <2>3. \A g \in Devices : \A i \in 1..Len(inbox'[g]) : Addressed(g, inbox'[g][i])
    <3>1. Send({d}, f) BY <1>4 DEF SendSnapshot
    <3> QED BY <1>0, <1>1, <2>1, <2>2, <3>1, SendAddressed
  <2>4. \A g \in Devices : \A m \in Messages :
          rows'[g][m] # Absent => VisibleTo(Owner[g], m)
        BY <1>0, <1>4 DEF SendSnapshot, NoRows, InFlight, TypeOK
  <2>5. UNCHANGED batch BY <1>4 DEF SendSnapshot
  <2> QED BY <1>0, <1>1, <2>3, <2>4, <2>5 DEF InFlight, Addressed, VisibleTo
<1>5. CASE ReadPackets(d)
  <2>1. UNCHANGED <<inbox, rows>>
        BY <1>5 DEF ReadPackets
  <2>2. \A g \in Devices : \A p \in batch'[g] : p \in journal /\ VisibleTo(Owner[g], p.msg)
        BY <1>0, <1>5 DEF ReadPackets, UndeliveredFor, InFlight, TypeOK
  <2> QED BY <1>0, <1>1, <2>1, <2>2 DEF InFlight, Addressed, VisibleTo
<1>6. CASE SendPackets(d)
  <2> DEFINE f == [t |-> "packets", ps |-> batch[d]]
  <2>1. f \in Frames
        BY <1>0 DEF Frames, TypeOK
  <2>2. Addressed(d, f)
        BY <1>0 DEF Addressed, InFlight
  <2>3. \A g \in Devices : \A i \in 1..Len(inbox'[g]) : Addressed(g, inbox'[g][i])
    <3>1. Send({d}, f) BY <1>6 DEF SendPackets
    <3> QED BY <1>0, <1>1, <2>1, <2>2, <3>1, SendAddressed
  <2>4. \A g \in Devices : \A p \in batch'[g] : p \in journal /\ VisibleTo(Owner[g], p.msg)
        BY <1>0, <1>6 DEF SendPackets, InFlight, TypeOK
  <2>5. UNCHANGED rows BY <1>6 DEF SendPackets
  <2> QED BY <1>0, <1>1, <2>3, <2>4, <2>5 DEF InFlight, Addressed, VisibleTo
<1>7. CASE Handle(d)
  <2>1. UNCHANGED <<rows, batch>>
        BY <1>7 DEF Handle, socket
  <2>2. \A g \in Devices : \A i \in 1..Len(inbox'[g]) : Addressed(g, inbox'[g][i])
    <3> SUFFICES ASSUME NEW g \in Devices, NEW i \in 1..Len(inbox'[g])
                 PROVE  Addressed(g, inbox'[g][i])
        OBVIOUS
    <3>1. inbox[g] \in Seq(Frames)
          BY <1>0 DEF TypeOK
    <3>2. CASE g = d
      <4>1. inbox'[g] = Tail(inbox[g]) /\ inbox[g] # << >>
            BY <1>0, <1>7, <3>2 DEF Handle, TypeOK
      <4>2. i + 1 \in 1..Len(inbox[g]) /\ inbox'[g][i] = inbox[g][i + 1]
            BY <3>1, <4>1
      <4> QED BY <1>0, <4>2 DEF InFlight
    <3>3. CASE g # d
      <4>1. inbox'[g] = inbox[g]
            BY <1>0, <1>7, <3>3 DEF Handle, TypeOK
      <4> QED BY <1>0, <4>1 DEF InFlight
    <3> QED BY <3>2, <3>3
  <2> QED BY <1>0, <1>1, <2>1, <2>2 DEF InFlight, Addressed, VisibleTo
<1>8. CASE Hangup(d)
  <2>1. inbox'[d] = << >> /\ rows'[d] = NoRows /\ batch'[d] = {}
        BY <1>0, <1>8 DEF Hangup, TypeOK
  <2>2. \A g \in Devices \ {d} :
          inbox'[g] = inbox[g] /\ rows'[g] = rows[g] /\ batch'[g] = batch[g]
        BY <1>0, <1>8 DEF Hangup, TypeOK
  <2>3. \A g \in Devices : \A i \in 1..Len(inbox'[g]) : Addressed(g, inbox'[g][i])
        BY <1>0, <2>1, <2>2 DEF InFlight
  <2>4. \A g \in Devices : \A m \in Messages :
          rows'[g][m] # Absent => VisibleTo(Owner[g], m)
        BY <1>0, <2>1, <2>2 DEF InFlight, NoRows
  <2>5. \A g \in Devices : \A p \in batch'[g] : p \in journal /\ VisibleTo(Owner[g], p.msg)
        BY <1>0, <2>1, <2>2 DEF InFlight
  <2> QED BY <1>1, <2>3, <2>4, <2>5 DEF InFlight, Addressed, VisibleTo
<1> QED BY <1>2, <1>3, <1>4, <1>5, <1>6, <1>7, <1>8 DEF PushBacklog, Disconnect, Reload

(* Every step keeps what is in flight addressed.                           *)
LEMMA NextInFlight == IInv /\ [Next]_vars => InFlight'
<1> SUFFICES ASSUME IInv, [Next]_vars PROVE InFlight'
    OBVIOUS
<1>0. InFlight
      BY DEF IInv
<1>1. ASSUME NEW d \in Devices, NEW p \in Packets, Submit(d, p) PROVE InFlight'
      BY <1>0, <1>1 DEF Submit, InFlight, Addressed, VisibleTo, store, socket
<1>2. ASSUME NEW p \in Packets, Serve(p) PROVE InFlight'
      BY <1>2, ServeInFlight
<1>3. ASSUME NEW d \in Devices,
             \/ Connect(d) \/ PushBacklog(d) \/ Handle(d) \/ Disconnect(d) \/ Reload(d)
             \/ \E ps \in acking[d] : Ack(d, ps)
      PROVE  InFlight'
      BY <1>3, DeviceInFlight
<1>4. CASE Restart
  <2>1. \A d \in Devices : inbox'[d] = << >> /\ rows'[d] = NoRows /\ batch'[d] = {}
        BY <1>4 DEF Restart
  <2> QED BY <2>1 DEF InFlight, NoRows
<1>5. CASE UNCHANGED vars BY <1>0, <1>5 DEF InFlight, Addressed, VisibleTo, vars
<1> QED BY <1>1, <1>2, <1>3, <1>4, <1>5 DEF Next

-----------------------------------------------------------------------------
(* Pages, acks and answers.                                                *)

(* Handling an addressed frame lists nothing that is not addressed.        *)
LEMMA AfterAddressed ==
  ASSUME NEW d \in Devices, NEW v \in Lists, NEW f \in Frames, Addressed(d, f),
         \A m \in Messages, k \in Keys : v[<<m, k>>] # Absent => VisibleTo(Owner[d], m)
  PROVE  \A m \in Messages, k \in Keys :
           After(v, f)[<<m, k>>] # Absent => VisibleTo(Owner[d], m)
<1> SUFFICES ASSUME NEW m \in Messages, NEW k \in Keys, After(v, f)[<<m, k>>] # Absent
             PROVE  VisibleTo(Owner[d], m)
    OBVIOUS
<1>0. <<m, k>> \in Copies
      BY DEF Copies
<1>1. CASE f.t = "snapshot" BY <1>0, <1>1 DEF After, Addressed
<1>2. CASE f.t = "packets"
  <2>1. After(v, f)[<<m, k>>] = AfterPackets(v, f.ps)[<<m, k>>]
        BY <1>2 DEF After
  <2>2. v[<<m, k>>] # Absent \/ \E p \in f.ps : p.msg = m
        BY <1>0, <2>1 DEF AfterPackets
  <2> QED BY <1>2, <2>2 DEF Addressed
<1>3. CASE f.t \in {"message", "message_updated", "message_deleted"}
  <2>1. f.msg \in Messages
        BY <1>3, FrameFields
  <2>2. \/ v[<<m, k>>] # Absent
        \/ m = f.msg /\ f.t # "message_deleted"
        BY <1>0, <1>3, <2>1 DEF After, Upsert, WithRow, Lists, Copies, Keys
  <2> QED BY <1>3, <2>2 DEF Addressed
<1> QED BY <1>1, <1>2, <1>3, FrameFields

(* Every step keeps the pages' lists addressed.                            *)
LEMMA NextOnlyAddressed == IInv /\ [Next]_vars => OnlyAddressed'
<1> SUFFICES ASSUME IInv, [Next]_vars PROVE OnlyAddressed'
    OBVIOUS
<1>0. TypeOK /\ OnlyAddressed /\ InFlight /\ AuthorWaits
      BY DEF IInv
<1>1. ASSUME NEW d \in Devices, Handle(d) PROVE OnlyAddressed'
  <2> DEFINE f == Head(inbox[d])
  <2>1. f = inbox[d][1] /\ 1 \in 1..Len(inbox[d]) /\ f \in Frames
        BY <1>0, <1>1 DEF Handle, TypeOK
  <2>2. Addressed(d, f)
        BY <1>0, <2>1 DEF InFlight
  <2>3. view[d] \in Lists
        BY <1>0 DEF TypeOK, Lists
  <2>4. \A m \in Messages, k \in Keys :
          After(view[d], f)[<<m, k>>] # Absent => VisibleTo(Owner[d], m)
        BY <1>0, <2>1, <2>2, <2>3, AfterAddressed DEF OnlyAddressed
  <2>5. view' = [view EXCEPT ![d] = After(view[d], f)]
        BY <1>0, <1>1 DEF Handle, TypeOK
  <2> HIDE DEF f
  <2> QED BY <1>0, <2>4, <2>5 DEF OnlyAddressed, VisibleTo, TypeOK
<1>2. ASSUME NEW p \in Packets, Answer(p) PROVE OnlyAddressed'
  <2>1. CASE UNCHANGED view BY <1>0, <2>1 DEF OnlyAddressed, VisibleTo
  <2>2. CASE view' # view
    <3>1. from[p] \in Devices /\ view' = [view EXCEPT ![from[p]] = Answered(view[from[p]], p)]
          BY <1>0, <1>2, <2>2 DEF Answer, TypeOK
    <3>2. p.msg \in Messages /\ VisibleTo(Owner[from[p]], p.msg)
          BY <1>0, <3>1, StoreForwardAssumption, PacketFields DEF AuthorWaits, VisibleTo
    <3>3. view[from[p]] \in Lists
          BY <1>0, <3>1 DEF TypeOK, Lists
    <3>4. \A m \in Messages, k \in Keys :
            Answered(view[from[p]], p)[<<m, k>>] # Absent
              => view[from[p]][<<m, k>>] # Absent \/ m = p.msg
          BY <3>2, <3>3, PacketFields
          DEF Answered, Upsert, WithRow, Lists, Copies, Keys
    <3>5. \A d \in Devices \ {from[p]} : view'[d] = view[d]
          BY <1>0, <3>1 DEF TypeOK
    <3>6. view'[from[p]] = Answered(view[from[p]], p)
          BY <1>0, <3>1 DEF TypeOK
    <3> QED BY <1>0, <3>1, <3>2, <3>4, <3>5, <3>6 DEF OnlyAddressed, VisibleTo
  <2> QED BY <2>1, <2>2
<1>3. ASSUME NEW d \in Devices, Reload(d) PROVE OnlyAddressed'
  <2>1. \A g \in Devices : view'[g] = IF g = d THEN Blank ELSE view[g]
        BY <1>0, <1>3 DEF Reload, TypeOK
  <2> QED BY <1>0, <2>1 DEF OnlyAddressed, VisibleTo, Blank, Copies
<1>4. CASE UNCHANGED view BY <1>0, <1>4 DEF OnlyAddressed, VisibleTo
<1>5. \/ \E d \in Devices : Handle(d) \/ Reload(d)
      \/ \E p \in Packets : Answer(p)
      \/ UNCHANGED view
      BY DEF Next, Submit, Serve, Lookup, Store, Journal, Deliver, Connect, PushBacklog,
         Hello, ReadRows, SendSnapshot, ReadPackets, SendPackets, Ack, Disconnect, Restart,
         page, vars
<1> QED BY <1>1, <1>2, <1>3, <1>4, <1>5

(* Every step keeps acks behind what their signers have applied.           *)
LEMMA NextAcksSeen == IInv /\ [Next]_vars => AcksSeen'
<1> SUFFICES ASSUME IInv, [Next]_vars PROVE AcksSeen'
    OBVIOUS
<1>0. TypeOK /\ AcksSeen
      BY DEF IInv
<1>1. ASSUME NEW d \in Devices, Handle(d) PROVE AcksSeen'
  <2> DEFINE f == Head(inbox[d])
  <2>1. CASE f.t = "packets"
    <3>1. /\ acking' = [acking EXCEPT ![d] = acking[d] \cup {f.ps}]
          /\ applied' = applied \cup (f.ps \X {Owner[d]})
          /\ acks' = acks
          BY <1>0, <1>1, <2>1 DEF Handle, TypeOK, store
    <3> HIDE DEF f
    <3> QED BY <1>0, <3>1 DEF AcksSeen, TypeOK
  <2>2. CASE f.t # "packets"
        BY <1>0, <1>1, <2>2 DEF Handle, AcksSeen, store
  <2> QED BY <2>1, <2>2
<1>2. ASSUME NEW d \in Devices, NEW ps \in acking[d], Ack(d, ps) PROVE AcksSeen'
  <2>1. acks' \subseteq acks \cup (ps \X {Owner[d]})
        BY <1>2 DEF Ack, Delivered, Signer
  <2>2. \A g \in Devices : acking'[g] \subseteq acking[g]
        BY <1>0, <1>2 DEF Ack, TypeOK
  <2>3. UNCHANGED applied
        BY <1>2 DEF Ack
  <2> QED BY <1>0, <2>1, <2>2, <2>3 DEF AcksSeen
<1>3. ASSUME NEW d \in Devices, Reload(d) PROVE AcksSeen'
  <2>1. \A g \in Devices : acking'[g] \subseteq acking[g]
        BY <1>0, <1>3 DEF Reload, TypeOK
  <2> QED BY <1>0, <1>3, <2>1 DEF Reload, AcksSeen, store
<1>4. CASE UNCHANGED <<acks, acking, applied>> BY <1>0, <1>4 DEF AcksSeen
<1>5. \/ \E d \in Devices : Handle(d) \/ Reload(d) \/ \E ps \in acking[d] : Ack(d, ps)
      \/ UNCHANGED <<acks, acking, applied>>
      BY DEF Next, Submit, Serve, Lookup, Store, Journal, Deliver, Answer, Connect,
         PushBacklog, Hello, ReadRows, SendSnapshot, ReadPackets, SendPackets, Disconnect,
         Restart, page, store, vars
<1> QED BY <1>1, <1>2, <1>3, <1>4, <1>5

(* Every step keeps answers waited for by their authors only.              *)
LEMMA NextAuthorWaits == IInv /\ [Next]_vars => AuthorWaits'
<1> SUFFICES ASSUME IInv, [Next]_vars PROVE AuthorWaits'
    OBVIOUS
<1>0. TypeOK /\ AuthorWaits
      BY DEF IInv
<1>1. ASSUME NEW d \in Devices, NEW p \in Packets, Submit(d, p) PROVE AuthorWaits'
      BY <1>0, <1>1 DEF Submit, AuthorWaits, TypeOK
<1>2. ASSUME NEW p \in Packets, Answer(p) PROVE AuthorWaits'
      BY <1>0, <1>2 DEF Answer, AuthorWaits, TypeOK
<1>3. ASSUME NEW d \in Devices, Reload(d) PROVE AuthorWaits'
      BY <1>0, <1>3 DEF Reload, AuthorWaits
<1>4. CASE Restart BY <1>0, <1>4 DEF Restart, AuthorWaits
<1>5. CASE UNCHANGED from BY <1>0, <1>5 DEF AuthorWaits
<1>6. \/ \E d \in Devices : Reload(d) \/ \E p \in Packets : Submit(d, p)
      \/ \E p \in Packets : Answer(p)
      \/ Restart
      \/ UNCHANGED from
      BY DEF Next, Serve, Lookup, Store, Journal, Deliver, Connect, PushBacklog, Hello,
         ReadRows, SendSnapshot, ReadPackets, SendPackets, Handle, Ack, Disconnect, jobs, vars
<1> QED BY <1>1, <1>2, <1>3, <1>4, <1>5, <1>6

-----------------------------------------------------------------------------
(* The inductive invariant holds in every reachable state.                 *)
THEOREM Invariance == Spec => []IInv
<1>1. IInv /\ [Next]_vars => IInv'
      BY NextTypeOK, NextOnlyAddressed, NextInFlight, NextAcksSeen, NextAuthorWaits DEF IInv
<1> QED BY InitIInv, <1>1, PTL DEF Spec

(* Type correctness of node, sockets and pages.                            *)
THEOREM TypeCorrectness == Spec => []TypeOK
<1>1. IInv => TypeOK BY DEF IInv
<1> QED BY Invariance, <1>1, PTL

(* No page ever lists a message that is not addressed to its callsign.     *)
THEOREM Confidential == Spec => []OnlyAddressed
<1>1. IInv => OnlyAddressed BY DEF IInv
<1> QED BY Invariance, <1>1, PTL

(* No packet leaves a reader's backlog before the reader has applied it.   *)
THEOREM NothingUnreadDropped == Spec => []BacklogKept
<1>1. IInv => BacklogKept
      BY DEF IInv, AcksSeen, BacklogKept, UndeliveredFor
<1> QED BY Invariance, <1>1, PTL

(* Every step posts a packet, shows packets that were posted to someone    *)
(* they are addressed to, confirms packets that were seen, or none of it.  *)
LEMMA StepImplements == IInv /\ [Next]_vars => [Mail!Next]_(Mail!mvars)
<1> USE DEF Mail!mvars
<1> SUFFICES ASSUME IInv, [Next]_vars
             PROVE  Mail!Next \/ UNCHANGED <<journal, applied, acks>>
    OBVIOUS
<1>0. TypeOK /\ InFlight /\ AcksSeen
      BY DEF IInv
<1>1. ASSUME NEW p \in Packets, Journal(p)
      PROVE  Mail!Next \/ UNCHANGED <<journal, applied, acks>>
      BY <1>1 DEF Journal, Mail!Next, Mail!Post, page
<1>2. ASSUME NEW d \in Devices, Handle(d)
      PROVE  Mail!Next \/ UNCHANGED <<journal, applied, acks>>
  <2> DEFINE f == Head(inbox[d])
  <2>1. f = inbox[d][1] /\ 1 \in 1..Len(inbox[d]) /\ f \in Frames
        BY <1>0, <1>2 DEF Handle, TypeOK
  <2>2. CASE f.t = "packets"
    <3>1. Addressed(d, f) /\ f.ps \in SUBSET Packets
          BY <1>0, <2>1, <2>2, FrameFields DEF InFlight
    <3>2. applied' = applied \cup (f.ps \X {Owner[d]}) /\ UNCHANGED <<journal, acks>>
          BY <1>2, <2>2 DEF Handle, store
    <3>3. f.ps \subseteq journal /\ Owner[d] \in Users
          BY <2>2, <3>1, StoreForwardAssumption DEF Addressed
    <3>4. f.ps \X {Owner[d]} \subseteq Readable
          BY <2>2, <3>1, <3>3 DEF Addressed, Readable
    <3>5. Mail!See(Owner[d], f.ps)
          BY <3>2, <3>3, <3>4 DEF Mail!See
    <3> QED BY <3>1, <3>3, <3>5 DEF Mail!Next
  <2>3. CASE f.t # "packets" BY <1>2, <2>3 DEF Handle, store
  <2> QED BY <2>2, <2>3
<1>3. ASSUME NEW d \in Devices, NEW ps \in acking[d], Ack(d, ps)
      PROVE  Mail!Next \/ UNCHANGED <<journal, applied, acks>>
  <2>1. ps \in SUBSET Packets /\ Owner[d] \in Users /\ ps \X {Owner[d]} \subseteq applied
        BY <1>0, StoreForwardAssumption DEF TypeOK, AcksSeen
  <2>2. CASE UNCHANGED acks BY <1>3, <2>2 DEF Ack
  <2>3. CASE acks' # acks
    <3>1. Mail!Confirm(Owner[d], ps)
          BY <1>3, <2>1, <2>3 DEF Ack, Delivered, Signer, Mail!Confirm
    <3> QED BY <2>1, <3>1 DEF Mail!Next
  <2> QED BY <2>2, <2>3
<1>4. \/ \E p \in Packets : Journal(p)
      \/ \E d \in Devices : Handle(d) \/ \E ps \in acking[d] : Ack(d, ps)
      \/ UNCHANGED <<journal, applied, acks>>
      BY DEF Next, Submit, Serve, Lookup, Store, Deliver, Answer, Connect, PushBacklog,
         Hello, ReadRows, SendSnapshot, ReadPackets, SendPackets, Disconnect, Reload,
         Restart, store, page, vars
<1> QED BY <1>1, <1>2, <1>3, <1>4

(* Store-and-forward implements the mailbox.                               *)
THEOREM ImplementsMailbox == Spec => MailboxSpec
<1>1. Init => Mail!Init BY DEF Init, Mail!Init
<1> QED BY Invariance, StepImplements, <1>1, PTL DEF Spec, MailboxSpec, Mail!Spec
=============================================================================
