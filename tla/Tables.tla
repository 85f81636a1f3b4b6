------------------------------- MODULE Tables -------------------------------
(***************************************************************************)
(* What one signed packet does to the tables of a node: the ingest         *)
(* handlers for markers, zones, alerts, messages, files, named chats and   *)
(* revocations (server/internal/ws/ingest.go, chats.go, import.go) over    *)
(* the statements of server/internal/db/store.go.                          *)
(*                                                                         *)
(* A row is named by the packet that created it: the code finds rows by    *)
(* author and nonce.  Texts and positions are left out: no handler         *)
(* decides by them.                                                        *)
(***************************************************************************)
EXTENDS FiniteSets

CONSTANTS
  User,
  Admin,       \* callsigns with the role admin
  Packet,
  NoTarget,
  Kind,        \* of each packet, as in Frame.Kind
  Sender,      \* of each packet
  Target,      \* the row a change names; the chat a message or file goes to
  Users        \* the members a chat packet names, the callsign of a revocation

Creations   == {"marker", "zone", "alert", "message", "file"}
Posts       == {"message", "file"}
Updates     == {"marker_update", "zone_update", "message_update"}
Deletions   == {"marker_delete", "zone_delete", "message_delete"}
AlertWork   == {"alert_ack", "alert_clear"}
ChatWork    == {"chat_update", "chat_delete"}
Revocations == {"revoke_subscriber", "unrevoke_subscriber"}
AdminOnly   == {"chat_create"} \cup ChatWork \cup Revocations
Kinds == Creations \cup Updates \cup Deletions \cup AlertWork \cup AdminOnly

(* Statements that do not look again at what the handler looked up.        *)
Blind == {"message", "file", "message_update", "message_delete", "alert_ack"}

ASSUME TablesAssumption ==
  /\ Admin \subseteq User
  /\ NoTarget \notin Packet
  /\ Kind \in [Packet -> Kinds]
  /\ Sender \in [Packet -> User]
  /\ Target \in [Packet -> Packet \cup {NoTarget}]
  /\ Users \in [Packet -> SUBSET User]
  /\ \A p \in Packet : Kind[p] = "chat_update" => Users[p] # {}

-----------------------------------------------------------------------------
(* live holds the rows a reader sees; gone those cleared, deactivated,      *)
(* deleted or archived; members is empty for a chat that was never made.    *)
Table == [live    : SUBSET Packet,
          gone    : SUBSET Packet,
          members : [Packet -> SUBSET User],
          revoked : SUBSET User]

EmptyTable == [live    |-> {}, gone |-> {},
               members |-> [c \in Packet |-> {}],
               revoked |-> {}]

Chats(t) == {c \in Packet \ t.gone : t.members[c] # {}}

(* Everything but an alert is looked up under the sender's own callsign.    *)
Own(p) == Target[p] \in Packet /\ Sender[Target[p]] = Sender[p]

(* defect: the sender's role is not asked for                               *)
AnyRole(p) == FALSE

(* An error that is not ErrNotFound.                                        *)
NotAnAdmin(p) == Kind[p] \in AdminOnly /\ Sender[p] \notin Admin

NotAMember(t, p) ==
  /\ Kind[p] \in Posts
  /\ Target[p] \in Chats(t)
  /\ Sender[p] \notin t.members[Target[p]]

NotTheAuthor(t, p) ==
  /\ Kind[p] = "alert_clear"
  /\ Target[p] \in t.live
  /\ ~Own(p) /\ Sender[p] \notin Admin

Archived(t, p) == Kind[p] = "chat_create" /\ p \in t.gone

Refused(t, p) ==
  NotAnAdmin(p) \/ NotAMember(t, p) \/ NotTheAuthor(t, p) \/ Archived(t, p)

(* ErrNotFound.  known holds the callsigns registered at this node.         *)
NoOwnRow(t, p) == Kind[p] \in Updates \cup Deletions /\ ~(Own(p) /\ Target[p] \in t.live)

NoAlert(t, p) == Kind[p] \in AlertWork /\ Target[p] \notin t.live

NoChat(t, p) ==
  \/ Kind[p] \in Posts /\ Target[p] # NoTarget /\ Target[p] \notin Chats(t)
  \/ Kind[p] \in ChatWork /\ Target[p] \notin Chats(t)

NoCallsign(p, known) == Kind[p] \in Revocations /\ ~(Users[p] \subseteq known)

Missing(t, p, known) ==
  NoOwnRow(t, p) \/ NoAlert(t, p) \/ NoChat(t, p) \/ NoCallsign(p, known)

(* CreateChat meets its own chat: success, but the handler returns at once. *)
Repeated(t, p) == Kind[p] = "chat_create" /\ p \in Chats(t)

(* The rows a packet takes away, and the row it inserts.                    *)
Dropped(p) ==
  IF Kind[p] \in Deletions \cup {"alert_clear", "chat_delete"}
  THEN {Target[p]} \cap Packet ELSE {}
Inserted(p) == IF Kind[p] \in Creations THEN {p} ELSE {}

(* The creator becomes a member; an update replaces the list.               *)
MembersAfter(t, p) ==
  IF Kind[p] = "chat_create" THEN [t.members EXCEPT ![p] = Users[p] \cup {Sender[p]}]
  ELSE IF Kind[p] = "chat_update" THEN [t.members EXCEPT ![Target[p]] = Users[p]]
  ELSE t.members

RevokedAfter(t, p) ==
  IF Kind[p] = "revoke_subscriber" THEN t.revoked \cup Users[p]
  ELSE IF Kind[p] = "unrevoke_subscriber" THEN t.revoked \ Users[p]
  ELSE t.revoked

Written(t, p) ==
  [live    |-> (t.live \cup Inserted(p)) \ Dropped(p),
   gone    |-> t.gone \cup Dropped(p),
   members |-> MembersAfter(t, p),
   revoked |-> RevokedAfter(t, p)]

-----------------------------------------------------------------------------
(* What a packet must be to change a table, on whatever node and by         *)
(* whatever way it gets there: one of those posted; an admin's, where only  *)
(* admins may; the row's author's (or, for an alert, an admin's), where it  *)
(* takes a row away or edits it; and, in a chat, of somebody an admin put   *)
(* there.                                                                   *)
Puts(q, u, c) ==
  \/ Kind[q] = "chat_create" /\ q = c /\ u \in Users[q] \cup {Sender[q]}
  \/ Kind[q] = "chat_update" /\ Target[q] = c /\ u \in Users[q]

Entitled(p, posted) ==
  /\ p \in posted
  /\ Kind[p] \in AdminOnly => Sender[p] \in Admin
  /\ Kind[p] \in Updates \cup Deletions => Own(p)
  /\ Kind[p] = "alert_clear" => Own(p) \/ Sender[p] \in Admin
  /\ Kind[p] \in Posts /\ Target[p] # NoTarget =>
       \E q \in posted : Sender[q] \in Admin /\ Puts(q, Sender[p], Target[p])

(* Whatever is in a table, an entitled packet put it there.                 *)
Warranted(t, posted) ==
  /\ \A p \in t.live \cup t.gone : Entitled(p, posted)
  /\ \A p \in t.gone : \E q \in posted : Entitled(q, posted) /\ p \in Dropped(q)
  /\ \A c \in Packet : \A u \in t.members[c] :
       Entitled(c, posted) /\ \E q \in posted : Entitled(q, posted) /\ Puts(q, u, c)
  /\ \A u \in t.revoked : \E q \in posted :
       Entitled(q, posted) /\ Kind[q] = "revoke_subscriber" /\ u \in Users[q]
=============================================================================
