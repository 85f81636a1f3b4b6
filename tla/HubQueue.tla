------------------------------ MODULE HubQueue ------------------------------
(***************************************************************************)
(* The send queues of the hub (server/internal/ws/client.go and hub.go):   *)
(* one bounded channel per socket, filled by whoever has a frame for it    *)
(* and drained by the socket's writePump.                                  *)
(*                                                                         *)
(* Hub.mu is held for the whole of a broadcast, whose sends never block;   *)
(* the sends of a backlog push and of a relayed call block, outside the    *)
(* lock, until there is room or a timeout closes the channel.  In Go a     *)
(* send on a closed channel panics, in a select too; net/http recovers the *)
(* panic of a handler, so it ends that request or that socket only.        *)
(***************************************************************************)
EXTENDS Integers, Sequences

CONSTANTS
  Clients,    \* sockets; each is accepted once
  Posters,    \* REST requests, each of which broadcasts
  Talkers,    \* bound: sockets whose reader is sent frames
  NoOne,      \* nobody
  Capacity,   \* of a send channel
  MaxPosts,   \* bound: broadcasts of messages, markers, alerts, ...
  MaxRelays   \* bound: frames relayed to one callee (or call_error replies)

ASSUME HubQueueAssumption ==
  /\ Capacity \in Nat \ {0}
  /\ MaxPosts \in Nat /\ MaxRelays \in Nat
  /\ Clients \cap Posters = {} /\ Talkers \subseteq Clients
  /\ NoOne \notin Clients \cup Posters

Actors == Clients \cup Posters

(* Broadcasts are numbered from 1; a frame for one socket is a Direct one. *)
Direct == 0

VARIABLES
  clients,   \* Hub.clients
  named,     \* sockets whose id is set
  closed,    \* sockets whose send channel is closed (client.dead)
  queue,     \* contents of each send channel
  hand,      \* the frame writePump has taken out and is writing, or -1
  conn,      \* sockets whose connection is up
  pump,      \* "off", "running" or "done"
  mu,        \* holder of Hub.mu, or NoOne
  pc,        \* where each reader (Hub.Handle) and each REST request stands
  todo,      \* sockets its broadcast has still to offer the frame to
  frame,     \* the number of its broadcast
  target,    \* the socket it relays to
  told,      \* the online list it is about to send
  frames,    \* broadcasts so far
  posts,     \* those that carry content
  relays,    \* relayed frames so far
  shown,     \* the last online list put into each channel
  last       \* history: the last broadcast written to each socket

shared == <<clients, named, conn, pump>>
chan   == <<closed, queue>>
task   == <<todo, frame, target, told>>
tally  == <<frames, posts, relays>>
seen   == <<shown, last>>
vars == <<clients, named, closed, queue, hand, conn, pump, mu, pc, todo, frame,
          target, told, frames, posts, relays, shown, last>>

(* A reader waits for a frame; pushes the two frames of a backlog to its   *)
(* own socket; reads who is online (hello), waits to broadcast that list   *)
(* (greet) and does; relays; or runs the deferred calls of Handle.  It and *)
(* a request wait to broadcast content (post), and do.                     *)
Places == {"off", "reading", "snapshot", "packets", "hello", "greet", "greeting",
           "relay", "leave", "left", "part", "parting", "hangup", "gone", "post",
           "posting"}

Rest(a) == IF a \in Posters THEN "off" ELSE "reading"

Casting(a) == pc[a] \in {"greeting", "parting", "posting"}

Init ==
  /\ clients = {} /\ named = {} /\ closed = {}
  /\ queue = [c \in Clients |-> << >>]
  /\ hand = [c \in Clients |-> -1]
  /\ conn = {}
  /\ pump = [c \in Clients |-> "off"]
  /\ mu = NoOne
  /\ pc = [a \in Actors |-> "off"]
  /\ todo = [a \in Actors |-> {}]
  /\ frame = [a \in Actors |-> Direct]
  /\ target = [a \in Actors |-> NoOne]
  /\ told = [a \in Actors |-> {}]
  /\ frames = 0 /\ posts = 0 /\ relays = 0
  /\ shown = [c \in Clients |-> {}]
  /\ last = [c \in Clients |-> 0]

Goto(a, where) == pc' = [pc EXCEPT ![a] = where]

Online == clients \cap named

-----------------------------------------------------------------------------
(* The channel.                                                            *)

(* defect: the lock is taken for each socket of a broadcast                *)
LockPerClient(a) == TRUE

MuFree(a) == mu = NoOne

(* defect: Handle leaves without taking the socket out of the map          *)
StaysListed(c) == clients

Unlisted(c) == clients \ {c}

(* defect: the channel takes one frame more than its buffer holds          *)
RoomForOneMore(c) == c \notin closed /\ Len(queue[c]) <= Capacity

Room(c) == c \notin closed /\ Len(queue[c]) < Capacity

Full(c) == c \notin closed /\ Len(queue[c]) >= Capacity

Put(c, f) == queue' = [queue EXCEPT ![c] = Append(@, f)] /\ UNCHANGED closed

(* client.close: what the channel holds is still written.                  *)
Shut(c) == closed' = closed \cup {c} /\ UNCHANGED queue

(* Where the panic of a send takes its goroutine: Handle to its deferred   *)
(* calls, from those straight to conn.Close, a request to its end.         *)
Unwound(a) == IF a \in Posters THEN "off"
              ELSE IF pc[a] = "parting" THEN "hangup" ELSE "leave"

-----------------------------------------------------------------------------
(* Sockets.                                                                *)

Accept(c) ==
  /\ pc[c] = "off" /\ pump[c] = "off" /\ MuFree(c)
  /\ clients' = clients \cup {c} /\ conn' = conn \cup {c}
  /\ pump' = [pump EXCEPT ![c] = "running"]
  /\ Goto(c, "reading")
  /\ UNCHANGED <<named, chan, hand, mu, task, tally, seen>>

(* A hello sets the id and reads who is online for the snapshot; a page    *)
(* sends one per socket.                                                   *)
Hello(c) ==
  /\ pc[c] = "reading" /\ c \in conn \cap Talkers /\ c \notin named /\ MuFree(c)
  /\ named' = named \cup {c}
  /\ told' = [told EXCEPT ![c] = Online \cup {c}]
  /\ Goto(c, "snapshot")
  /\ UNCHANGED <<clients, chan, hand, conn, pump, mu, todo, frame, target, tally, seen>>

(* A call frame: findClient under the lock, the send after it; call_error  *)
(* goes to the caller's own socket.                                        *)
Relay(c, t) ==
  /\ pc[c] = "reading" /\ c \in conn \cap Talkers /\ MuFree(c)
  /\ t \in Online \cup {c} /\ relays < MaxRelays
  /\ relays' = relays + 1
  /\ target' = [target EXCEPT ![c] = t]
  /\ Goto(c, "relay")
  /\ UNCHANGED <<shared, chan, hand, mu, todo, frame, told, frames, posts, seen>>

(* The peer or the network goes away, a ping or a read times out.          *)
Lose(c) ==
  /\ c \in conn
  /\ conn' = conn \ {c}
  /\ UNCHANGED <<clients, named, chan, hand, pump, mu, pc, task, tally, seen>>

ReadFails(c) ==
  /\ pc[c] = "reading" /\ c \notin conn
  /\ Goto(c, "leave")
  /\ UNCHANGED <<shared, chan, hand, mu, task, tally, seen>>

Leave(c) ==
  /\ pc[c] = "leave" /\ MuFree(c)
  /\ clients' = Unlisted(c)
  /\ Goto(c, "left")
  /\ UNCHANGED <<named, chan, hand, conn, pump, mu, task, tally, seen>>

(* The last deferred call: conn.Close.  Nobody closes the channel.         *)
Hangup(c) ==
  /\ pc[c] = "hangup"
  /\ conn' = conn \ {c}
  /\ Goto(c, "gone")
  /\ UNCHANGED <<clients, named, chan, hand, pump, mu, task, tally, seen>>

-----------------------------------------------------------------------------
(* enqueue: the blocking send of a backlog push or of a relayed call.      *)

Dest(a) == IF pc[a] = "relay" THEN target[a] ELSE a

AfterSend(a) == CASE pc[a] = "snapshot" -> "packets"
                  [] pc[a] = "packets"  -> "hello"
                  [] pc[a] = "relay"    -> "reading"

Sending(a) == pc[a] \in {"snapshot", "packets", "relay"}

Enqueue(a) ==
  /\ Sending(a)
  /\ \/ Room(Dest(a)) /\ Put(Dest(a), Direct)
     \/ Full(Dest(a)) /\ Shut(Dest(a))      \* the write timeout expired
  /\ shown' = IF pc[a] = "snapshot" /\ Room(a)
              THEN [shown EXCEPT ![a] = told[a]] ELSE shown
  /\ target' = [target EXCEPT ![a] = NoOne]
  /\ told' = [told EXCEPT ![a] = {}]
  /\ Goto(a, AfterSend(a))
  /\ UNCHANGED <<shared, hand, mu, todo, frame, tally, last>>

EnqueuePanics(a) ==
  /\ Sending(a) /\ Dest(a) \in closed
  /\ target' = [target EXCEPT ![a] = NoOne]
  /\ told' = [told EXCEPT ![a] = {}]
  /\ Goto(a, Unwound(a))
  /\ UNCHANGED <<shared, chan, hand, mu, todo, frame, tally, seen>>

-----------------------------------------------------------------------------
(* broadcast and deliver: tryEnqueue to each socket under Hub.mu, in the   *)
(* random order of a Go map.                                               *)

(* A REST request or a frame read from a socket changes the content.       *)
Post(a) ==
  /\ pc[a] = Rest(a) /\ a \in Posters \cup (conn \cap Talkers)
  /\ posts < MaxPosts
  /\ posts' = posts + 1
  /\ Goto(a, "post")
  /\ UNCHANGED <<shared, chan, hand, mu, task, frames, relays, seen>>

(* broadcastPresence reads who is online and only then asks for the lock   *)
(* again.                                                                  *)
ReadOnline(a) ==
  /\ pc[a] \in {"hello", "left"} /\ MuFree(a)
  /\ told' = [told EXCEPT ![a] = Online]
  /\ Goto(a, IF pc[a] = "hello" THEN "greet" ELSE "part")
  /\ UNCHANGED <<shared, chan, hand, mu, todo, frame, target, tally, seen>>

(* Presence goes to every socket, content to all or to its recipients.     *)
BeginCast(a) ==
  /\ pc[a] \in {"greet", "part", "post"} /\ MuFree(a)
  /\ mu' = a
  /\ frames' = frames + 1
  /\ frame' = [frame EXCEPT ![a] = frames + 1]
  /\ \E to \in IF pc[a] = "post" THEN {clients} \cup SUBSET Online ELSE {clients} :
       todo' = [todo EXCEPT ![a] = to]
  /\ Goto(a, CASE pc[a] = "greet" -> "greeting"
               [] pc[a] = "part"  -> "parting"
               [] pc[a] = "post"  -> "posting")
  /\ UNCHANGED <<shared, chan, hand, target, told, posts, relays, seen>>

(* defect: a broadcast waits for room as enqueue does                      *)
WaitForRoom(c, f) == Room(c) /\ Put(c, f)

(* defect: a frame there is no room for is dropped, the socket is not      *)
DropFrame(c, f) == IF Room(c) THEN Put(c, f) ELSE UNCHANGED chan

(* The select of tryEnqueue.                                               *)
TryEnqueue(c, f) == IF Room(c) THEN Put(c, f) ELSE Shut(c)

Offer(a, c) ==
  /\ Casting(a) /\ c \in todo[a] /\ c \notin closed
  /\ TryEnqueue(c, frame[a])
  /\ todo' = [todo EXCEPT ![a] = @ \ {c}]
  /\ shown' = IF pc[a] # "posting" /\ Room(c)
              THEN [shown EXCEPT ![c] = told[a]] ELSE shown
  /\ UNCHANGED <<shared, hand, mu, pc, frame, target, told, tally, last>>

EndTask(a) ==
  /\ mu' = NoOne
  /\ todo' = [todo EXCEPT ![a] = {}]
  /\ frame' = [frame EXCEPT ![a] = Direct]
  /\ told' = [told EXCEPT ![a] = {}]
  /\ UNCHANGED target

(* The deferred Unlock runs, the rest of the map does not.                 *)
OfferPanics(a, c) ==
  /\ Casting(a) /\ c \in todo[a] /\ c \in closed
  /\ EndTask(a)
  /\ Goto(a, Unwound(a))
  /\ UNCHANGED <<shared, chan, hand, tally, shown, last>>

EndCast(a) ==
  /\ Casting(a) /\ todo[a] = {}
  /\ EndTask(a)
  /\ Goto(a, IF pc[a] = "parting" THEN "hangup" ELSE Rest(a))
  /\ UNCHANGED <<shared, chan, hand, tally, seen>>

-----------------------------------------------------------------------------
(* writePump                                                               *)

Idle(c) == pump[c] = "running" /\ hand[c] = -1

Take(c) ==
  /\ Idle(c) /\ queue[c] # << >>
  /\ hand' = [hand EXCEPT ![c] = Head(queue[c])]
  /\ queue' = [queue EXCEPT ![c] = Tail(@)]
  /\ UNCHANGED <<shared, closed, mu, pc, task, tally, seen>>

Write(c) ==
  /\ pump[c] = "running" /\ hand[c] # -1 /\ c \in conn
  /\ last' = [last EXCEPT ![c] = IF hand[c] = Direct THEN @ ELSE hand[c]]
  /\ hand' = [hand EXCEPT ![c] = -1]
  /\ UNCHANGED <<shared, chan, mu, pc, task, tally, shown>>

(* defect: a failed ping is not noticed                                    *)
PingIgnored(c) == FALSE

PingFails(c) == Idle(c) /\ c \notin conn

(* A write or a ping fails or times out, or the channel is found closed    *)
(* and drained: the pump closes the connection and returns.                *)
PumpStops(c) ==
  /\ \/ pump[c] = "running" /\ hand[c] # -1
     \/ PingFails(c)
     \/ Idle(c) /\ c \in closed /\ queue[c] = << >>
  /\ pump' = [pump EXCEPT ![c] = "done"]
  /\ hand' = [hand EXCEPT ![c] = -1]
  /\ conn' = conn \ {c}
  /\ UNCHANGED <<clients, named, chan, mu, pc, task, tally, seen>>

-----------------------------------------------------------------------------
Cast(a) == \/ ReadOnline(a) \/ BeginCast(a) \/ EndCast(a)
           \/ \E c \in todo[a] : Offer(a, c) \/ OfferPanics(a, c)

Handle(c) == \/ Enqueue(c) \/ EnqueuePanics(c)
             \/ ReadFails(c) \/ Leave(c) \/ Hangup(c)

Pump(c) == Take(c) \/ Write(c) \/ PumpStops(c)

Next ==
  \/ \E c \in Clients : Accept(c) \/ Hello(c) \/ Lose(c) \/ Handle(c) \/ Pump(c)
  \/ \E c, t \in Clients : Relay(c, t)
  \/ \E a \in Actors : Post(a) \/ Cast(a)

Spec == Init /\ [][Next]_vars

(* Goroutines run on.  A reader or a request has one thing to do at a time *)
(* and may have to wait for Hub.mu, which it gets in the end: Go's mutex   *)
(* serves first a waiter that has starved for a millisecond.               *)
Fairness ==
  /\ \A c \in Clients : SF_vars(Handle(c) \/ Cast(c)) /\ WF_vars(Pump(c))
  /\ \A a \in Posters : SF_vars(Cast(a))

FairSpec == Spec /\ Fairness

-----------------------------------------------------------------------------
Frames == 0..frames

TypeOK ==
  /\ clients \subseteq Clients /\ named \subseteq Clients
  /\ closed \subseteq Clients /\ conn \subseteq Clients
  /\ queue \in [Clients -> Seq(Nat)]
  /\ \A c \in Clients : Len(queue[c]) <= Capacity
  /\ hand \in [Clients -> Nat \cup {-1}]
  /\ pump \in [Clients -> {"off", "running", "done"}]
  /\ mu \in Actors \cup {NoOne}
  /\ pc \in [Actors -> Places]
  /\ todo \in [Actors -> SUBSET Clients]
  /\ frame \in [Actors -> Frames]
  /\ target \in [Actors -> Clients \cup {NoOne}]
  /\ told \in [Actors -> SUBSET Clients] /\ shown \in [Clients -> SUBSET Clients]
  /\ frames \in Nat /\ posts \in 0..MaxPosts /\ relays \in 0..MaxRelays
  /\ last \in [Clients -> Frames]

(* Every socket is written broadcasts in the order in which they took      *)
(* Hub.mu, each at most once: two pages never see two changes in opposite  *)
(* orders.  Relayed frames come in between, written by goroutines that do  *)
(* not hold the lock.                                                      *)
InOrder == [][\A c \in Clients : last'[c] # last[c] => last'[c] > last[c]]_vars

(* A slow consumer is dropped: once its channel is closed the socket       *)
(* leaves the hub's map, whatever its pump, its reader and the others are  *)
(* waiting for.                                                            *)
SlowIsDropped == \A c \in Clients : (c \in closed) ~> (c \notin clients)

(* A lost connection leaks no goroutine, although nobody closes its        *)
(* channel.                                                                *)
NothingLeaks == \A c \in Clients :
  (pump[c] = "running" /\ c \notin conn) ~> (pump[c] = "done" /\ pc[c] = "gone")

(* A broadcast never waits for a socket, full or not read at all: a reader *)
(* or a request that has one to make is done with it in the end.           *)
CastEnds == \A a \in Actors :
  (pc[a] \in {"greet", "part", "post"}) ~> (pc[a] \in {"reading", "leave", "hangup", "gone", "off"})

(* client.go: "eternally slow consumers are dropped to protect the rest of *)
(* the mesh".  So a broadcast reaches the channel of every socket that is  *)
(* not itself closed.                                                      *)
OthersProtected ==
  [][\A a \in Actors : Casting(a) /\ mu' = NoOne => todo[a] \subseteq closed]_vars

(* A broadcast is on its way to a page in its channel, in the hand of its  *)
(* pump, or still to be offered to it by whoever holds Hub.mu.             *)
Held(c) == {queue[c][i] : i \in 1..Len(queue[c])}

Offered(c) == {frame[a] : a \in {b \in Actors : Casting(b) /\ c \in todo[b] \ closed}}

Stopped == {c \in Clients : pump[c] = "done"}

Due(c) == IF c \in Stopped THEN {} ELSE (Held(c) \cup {hand[c]} \cup Offered(c)) \ {Direct, -1}

Page == INSTANCE Feed
  WITH Pages <- Clients, count <- frames, due <- [c \in Clients |-> Due(c)],
       shut <- closed, gone <- Stopped

(* The hub, its channels and its pumps implement the feed: a page whose    *)
(* channel is open misses no broadcast that was meant for it and is shown  *)
(* each once and in order, whatever is full, relayed, lost or stopped; it  *)
(* misses one only by a panic, after some channel was closed.              *)
FeedSpec == Page!Spec

AtRest == /\ \A c \in Clients : pc[c] \in {"off", "reading", "gone"}
          /\ \A a \in Posters : pc[a] = "off"

(* docs/03-protocol.md: after a disconnection the online list is updated   *)
(* everywhere.  So when nothing is under way, the last list put into the   *)
(* channel of a socket, which its page will show, is the list of those who *)
(* are online.                                                             *)
RosterIsCurrent ==
  AtRest => \A c \in Online \ closed : shown[c] = Online
=============================================================================
