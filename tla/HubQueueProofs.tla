--------------------------- MODULE HubQueueProofs ---------------------------
(***************************************************************************)
(* What holds of the send queues for every set of sockets and requests,    *)
(* every capacity and any number of broadcasts and relayed frames: the     *)
(* state is well typed, no channel holds more than its capacity, and every *)
(* socket is written broadcasts in the order of their numbers; and the     *)
(* whole is an implementation of Feed.                                     *)
(***************************************************************************)
EXTENDS HubQueue, TLAPS

-----------------------------------------------------------------------------
(* A relaying reader knows whom it relays to.                              *)
Aimed == \A c \in Clients : pc[c] = "relay" => target[c] \in Clients

(* One broadcast at a time, and it carries the highest number.             *)
Locked == \A a \in Actors :
  /\ Casting(a) <=> mu = a
  /\ Casting(a) => frame[a] = frames

(* On its way to a socket a broadcast is behind all earlier ones: what is  *)
(* in the channel, in the hand of the pump and written decreases.  Direct  *)
(* frames, numbered 0, may stand anywhere.                                 *)
Numbered == \A c \in Clients :
  /\ hand[c] <= frames
  /\ hand[c] > 0 => last[c] < hand[c]
  /\ \A i \in 1..Len(queue[c]) :
       /\ queue[c][i] <= frames
       /\ queue[c][i] > 0 => last[c] < queue[c][i] /\ hand[c] < queue[c][i]
  /\ \A i, j \in 1..Len(queue[c]) :
       i < j /\ queue[c][j] > 0 => queue[c][i] < queue[c][j]

(* What the current broadcast has still to offer to a socket is nowhere on *)
(* its way there yet.                                                      *)
NotYet == \A a \in Actors : Casting(a) =>
  \A c \in todo[a] :
    /\ last[c] < frames /\ hand[c] < frames
    /\ \A i \in 1..Len(queue[c]) : queue[c][i] < frames

IInv == TypeOK /\ Aimed /\ Locked /\ Numbered /\ NotYet

-----------------------------------------------------------------------------
(* One element more at the end.                                            *)
LEMMA AppendFacts ==
  ASSUME NEW s \in Seq(Nat), NEW f \in Nat
  PROVE  /\ Append(s, f) \in Seq(Nat)
         /\ Len(Append(s, f)) = Len(s) + 1
         /\ \A i \in 1..Len(s) : Append(s, f)[i] = s[i]
         /\ Append(s, f)[Len(s) + 1] = f
OBVIOUS

(* One element less at the front.                                          *)
LEMMA TailFacts ==
  ASSUME NEW s \in Seq(Nat), s # << >>
  PROVE  /\ Head(s) = s[1] /\ Head(s) \in Nat
         /\ Tail(s) \in Seq(Nat)
         /\ Len(s) \in Nat \ {0} /\ Len(Tail(s)) = Len(s) - 1
         /\ \A i \in 1..Len(Tail(s)) : Tail(s)[i] = s[i + 1] /\ i + 1 \in 1..Len(s)
OBVIOUS

(* Where a reader or a request goes is one of the places.                  *)
LEMMA PlacesFacts ==
  ASSUME NEW a \in Actors
  PROVE  /\ Rest(a) \in Places /\ Rest(a) # "relay" /\ ~(Rest(a) \in {"greeting", "parting", "posting"})
         /\ Unwound(a) \in Places /\ Unwound(a) # "relay"
         /\ ~(Unwound(a) \in {"greeting", "parting", "posting"})
         /\ Sending(a) => /\ AfterSend(a) \in Places /\ AfterSend(a) # "relay"
                          /\ ~(AfterSend(a) \in {"greeting", "parting", "posting"})
BY DEF Rest, Places, Unwound, Sending, AfterSend

(* A frame offered is put at the end of a channel with room, or the        *)
(* channel is closed.                                                      *)
LEMMA PutOrShut ==
  ASSUME TypeOK, NEW c \in Clients, NEW f \in Nat,
         (Room(c) /\ Put(c, f)) \/ Shut(c)
  PROVE  /\ queue' \in [Clients -> Seq(Nat)]
         /\ \A d \in Clients : Len(queue'[d]) <= Capacity
         /\ closed' \subseteq Clients
         /\ \A d \in Clients :
              \/ queue'[d] = queue[d]
              \/ d = c /\ queue'[d] = Append(queue[d], f)
<1>1. CASE Room(c) /\ Put(c, f)
  <2>1. /\ queue' = [queue EXCEPT ![c] = Append(queue[c], f)]
        /\ closed' = closed /\ Len(queue[c]) < Capacity
        BY <1>1 DEF Room, Put
  <2>2. queue \in [Clients -> Seq(Nat)] /\ closed \subseteq Clients
        /\ \A d \in Clients : Len(queue[d]) <= Capacity
        BY DEF TypeOK
  <2>3. queue[c] \in Seq(Nat)
        BY <2>2
  <2>4. /\ Append(queue[c], f) \in Seq(Nat)
        /\ Len(Append(queue[c], f)) <= Capacity
    <3>1. Len(queue[c]) \in Nat /\ Capacity \in Nat
          BY <2>3, HubQueueAssumption
    <3>2. Len(Append(queue[c], f)) = Len(queue[c]) + 1
          BY <2>3, AppendFacts
    <3> QED BY <2>1, <2>3, <3>1, <3>2, AppendFacts
  <2> QED BY <2>1, <2>2, <2>4
<1>2. CASE Shut(c)
  BY <1>2 DEF Shut, TypeOK
<1> QED BY <1>1, <1>2

(* The channels stay in order when one of them gets a frame that is direct *)
(* or behind all others.                                                   *)
LEMMA PutKeepsOrder ==
  ASSUME TypeOK, Numbered, NEW c \in Clients, NEW f \in 0..frames,
         queue' \in [Clients -> Seq(Nat)],
         \A d \in Clients :
           \/ queue'[d] = queue[d]
           \/ d = c /\ queue'[d] = Append(queue[d], f),
         f > 0 => /\ last[c] < f /\ hand[c] < f
                  /\ \A i \in 1..Len(queue[c]) : queue[c][i] < f,
         UNCHANGED <<hand, last, frames>>
  PROVE  Numbered'
<1> SUFFICES ASSUME NEW d \in Clients,
                    d = c /\ queue'[d] = Append(queue[d], f)
             PROVE  /\ \A i \in 1..Len(queue'[d]) :
                         /\ queue'[d][i] <= frames
                         /\ queue'[d][i] > 0 => last[d] < queue'[d][i] /\ hand[d] < queue'[d][i]
                    /\ \A i, j \in 1..Len(queue'[d]) :
                         i < j /\ queue'[d][j] > 0 => queue'[d][i] < queue'[d][j]
    BY DEF Numbered
<1>1. /\ queue[d] \in Seq(Nat) /\ f \in Nat /\ frames \in Nat
      /\ last[d] \in Nat /\ hand[d] \in Nat \cup {-1}
      BY DEF TypeOK, Frames
<1>2. /\ Len(queue'[d]) = Len(queue[d]) + 1 /\ Len(queue[d]) \in Nat
      /\ \A i \in 1..Len(queue[d]) : queue'[d][i] = queue[d][i] /\ queue[d][i] \in Nat
      /\ queue'[d][Len(queue[d]) + 1] = f
      BY <1>1, AppendFacts
<1>3. \A i \in 1..Len(queue'[d]) : i \in 1..Len(queue[d]) \/ i = Len(queue[d]) + 1
      BY <1>2
<1>4. /\ \A i \in 1..Len(queue[d]) :
           /\ queue[d][i] <= frames
           /\ queue[d][i] > 0 => last[d] < queue[d][i] /\ hand[d] < queue[d][i]
      /\ \A i, j \in 1..Len(queue[d]) :
           i < j /\ queue[d][j] > 0 => queue[d][i] < queue[d][j]
      BY DEF Numbered
<1>5. ASSUME NEW i \in 1..Len(queue'[d])
      PROVE  /\ queue'[d][i] <= frames
             /\ queue'[d][i] > 0 => last[d] < queue'[d][i] /\ hand[d] < queue'[d][i]
      BY <1>2, <1>3, <1>4, <1>5
<1>6. ASSUME NEW i \in 1..Len(queue'[d]), NEW j \in 1..Len(queue'[d]),
             i < j, queue'[d][j] > 0
      PROVE  queue'[d][i] < queue'[d][j]
  <2>1. i \in 1..Len(queue[d])
        BY <1>2, <1>3, <1>6
  <2>2. CASE j \in 1..Len(queue[d])
        BY <2>1, <2>2, <1>2, <1>4, <1>6
  <2>3. CASE j = Len(queue[d]) + 1
        BY <2>1, <2>3, <1>2, <1>6
  <2> QED BY <2>2, <2>3, <1>3
<1> QED BY <1>5, <1>6

-----------------------------------------------------------------------------
(* The initial state.                                                      *)
LEMMA InitIInv == Init => IInv
<1> SUFFICES ASSUME Init PROVE IInv
    OBVIOUS
<1> USE HubQueueAssumption
<1>0. << >> \in Seq(Nat) /\ Len(<< >>) = 0
      OBVIOUS
<1>1. TypeOK
  <2>1. queue \in [Clients -> Seq(Nat)] /\ \A c \in Clients : Len(queue[c]) <= Capacity
        BY <1>0 DEF Init
  <2> QED BY <2>1 DEF Init, TypeOK, Frames, Places, Direct
<1>2. Aimed BY DEF Init, Aimed, Actors
<1>3. Locked BY DEF Init, Locked, Casting, Actors
<1>4. Numbered
  <2>1. \A c \in Clients : queue[c] = << >>
        BY DEF Init
  <2>2. ASSUME NEW c \in Clients, NEW i \in 1..Len(queue[c]) PROVE FALSE
    <3>1. queue[c] = << >>
          BY <2>1
    <3>2. Len(queue[c]) = 0
          BY <3>1
    <3> QED BY <3>2
  <2>3. ASSUME NEW c \in Clients PROVE hand[c] <= frames /\ ~(hand[c] > 0)
    <3>1. frames = 0 /\ hand[c] = -1
          BY DEF Init
    <3>2. -1 <= 0 /\ ~(-1 > 0)
          OBVIOUS
    <3> QED BY <3>1, <3>2
  <2> QED BY <2>2, <2>3 DEF Numbered
<1>5. NotYet BY DEF Init, NotYet, Casting
<1> QED BY <1>1, <1>2, <1>3, <1>4, <1>5 DEF IInv

(* The order of the channels is untouched by a step that leaves channels,  *)
(* hands and pages alone and begins no broadcast.                          *)
LEMMA OrderUntouched ==
  ASSUME Numbered, NotYet, UNCHANGED <<queue, hand, last, frames>>,
         \A a \in Actors : Casting(a)' => Casting(a) /\ todo'[a] \subseteq todo[a]
  PROVE  Numbered' /\ NotYet'
<1>1. Numbered'
      BY DEF Numbered
<1>2. NotYet'
      BY DEF NotYet
<1> QED BY <1>1, <1>2

(* A reader that goes to a place outside a broadcast from one outside it   *)
(* leaves the lock as it is.                                               *)
LEMMA GotoKeepsLock ==
  ASSUME TypeOK, Locked, NEW a \in Actors, NEW where \in Places,
         ~Casting(a), ~(where \in {"greeting", "parting", "posting"}),
         Goto(a, where), UNCHANGED <<mu, frame, frames, todo>>
  PROVE  /\ Locked'
         /\ pc' \in [Actors -> Places]
         /\ \A b \in Actors : Casting(b)' => Casting(b) /\ todo'[b] \subseteq todo[b]
         /\ \A b \in Actors : b # a => pc'[b] = pc[b]
         /\ pc'[a] = where
<1>1. pc \in [Actors -> Places] /\ pc' = [pc EXCEPT ![a] = where]
      BY DEF TypeOK, Goto
<1>2. \A b \in Actors : Casting(b)' <=> Casting(b)
      BY <1>1 DEF Casting
<1> QED BY <1>1, <1>2 DEF Locked

(* One lemma for each action of a reader or a request.                     *)

(* A socket is accepted.                                                   *)
LEMMA AcceptStep ==
  ASSUME IInv, NEW c \in Clients, Accept(c)
  PROVE  IInv'
<1> USE HubQueueAssumption DEF IInv
<1>1. ~Casting(c) /\ c \in Actors /\ Goto(c, "reading") /\ "reading" \in Places
      /\ ~("reading" \in {"greeting", "parting", "posting"})
      /\ UNCHANGED <<mu, frame, frames, todo, queue, hand, last>>
      BY PlacesFacts DEF Accept, MuFree, Casting, Actors, Places, shared, chan, task, tally, seen
<1>2. /\ Locked'
      /\ pc' \in [Actors -> Places]
      /\ \A b \in Actors : Casting(b)' => Casting(b) /\ todo'[b] \subseteq todo[b]
      /\ \A b \in Actors : b # c => pc'[b] = pc[b]
      /\ pc'[c] = "reading"
      BY <1>1, GotoKeepsLock
<1>3. TypeOK'
      BY <1>1, <1>2 DEF Accept, MuFree, TypeOK, Online, Frames, Actors, shared, chan, task, tally, seen
<1>4. Aimed'
      BY <1>2, PlacesFacts DEF Accept, MuFree, Aimed, Actors, TypeOK, Online, shared, chan, task, tally, seen
<1>5. Numbered' /\ NotYet'
      BY <1>1, <1>2, OrderUntouched
<1> QED BY <1>2, <1>3, <1>4, <1>5

(* A hello names it.                                                       *)
LEMMA HelloStep ==
  ASSUME IInv, NEW c \in Clients, Hello(c)
  PROVE  IInv'
<1> USE HubQueueAssumption DEF IInv
<1>1. ~Casting(c) /\ c \in Actors /\ Goto(c, "snapshot") /\ "snapshot" \in Places
      /\ ~("snapshot" \in {"greeting", "parting", "posting"})
      /\ UNCHANGED <<mu, frame, frames, todo, queue, hand, last>>
      BY PlacesFacts DEF Hello, MuFree, Casting, Actors, Places, shared, chan, task, tally, seen
<1>2. /\ Locked'
      /\ pc' \in [Actors -> Places]
      /\ \A b \in Actors : Casting(b)' => Casting(b) /\ todo'[b] \subseteq todo[b]
      /\ \A b \in Actors : b # c => pc'[b] = pc[b]
      /\ pc'[c] = "snapshot"
      BY <1>1, GotoKeepsLock
<1>3. TypeOK'
      BY <1>1, <1>2 DEF Hello, MuFree, TypeOK, Online, Frames, Actors, shared, chan, task, tally, seen
<1>4. Aimed'
      BY <1>2, PlacesFacts DEF Hello, MuFree, Aimed, Actors, TypeOK, Online, shared, chan, task, tally, seen
<1>5. Numbered' /\ NotYet'
      BY <1>1, <1>2, OrderUntouched
<1> QED BY <1>2, <1>3, <1>4, <1>5

(* A frame is to be relayed.                                               *)
LEMMA RelayStep ==
  ASSUME IInv, NEW c \in Clients, NEW t \in Clients, Relay(c, t)
  PROVE  IInv'
<1> USE HubQueueAssumption DEF IInv
<1>1. ~Casting(c) /\ c \in Actors /\ Goto(c, "relay") /\ "relay" \in Places
      /\ ~("relay" \in {"greeting", "parting", "posting"})
      /\ UNCHANGED <<mu, frame, frames, todo, queue, hand, last>>
      BY PlacesFacts DEF Relay, MuFree, Casting, Actors, Places, shared, chan, task, tally, seen
<1>2. /\ Locked'
      /\ pc' \in [Actors -> Places]
      /\ \A b \in Actors : Casting(b)' => Casting(b) /\ todo'[b] \subseteq todo[b]
      /\ \A b \in Actors : b # c => pc'[b] = pc[b]
      /\ pc'[c] = "relay"
      BY <1>1, GotoKeepsLock
<1>3. TypeOK'
      BY <1>1, <1>2 DEF Relay, MuFree, TypeOK, Online, Frames, Actors, shared, chan, task, tally, seen
<1>4. Aimed'
      BY <1>2, PlacesFacts DEF Relay, MuFree, Aimed, Actors, TypeOK, Online, shared, chan, task, tally, seen
<1>5. Numbered' /\ NotYet'
      BY <1>1, <1>2, OrderUntouched
<1> QED BY <1>2, <1>3, <1>4, <1>5

(* A read fails.                                                           *)
LEMMA ReadFailsStep ==
  ASSUME IInv, NEW c \in Clients, ReadFails(c)
  PROVE  IInv'
<1> USE HubQueueAssumption DEF IInv
<1>1. ~Casting(c) /\ c \in Actors /\ Goto(c, "leave") /\ "leave" \in Places
      /\ ~("leave" \in {"greeting", "parting", "posting"})
      /\ UNCHANGED <<mu, frame, frames, todo, queue, hand, last>>
      BY PlacesFacts DEF ReadFails, Casting, Actors, Places, shared, chan, task, tally, seen
<1>2. /\ Locked'
      /\ pc' \in [Actors -> Places]
      /\ \A b \in Actors : Casting(b)' => Casting(b) /\ todo'[b] \subseteq todo[b]
      /\ \A b \in Actors : b # c => pc'[b] = pc[b]
      /\ pc'[c] = "leave"
      BY <1>1, GotoKeepsLock
<1>3. TypeOK'
      BY <1>1, <1>2 DEF ReadFails, TypeOK, Online, Frames, Actors, shared, chan, task, tally, seen
<1>4. Aimed'
      BY <1>2, PlacesFacts DEF ReadFails, Aimed, Actors, TypeOK, Online, shared, chan, task, tally, seen
<1>5. Numbered' /\ NotYet'
      BY <1>1, <1>2, OrderUntouched
<1> QED BY <1>2, <1>3, <1>4, <1>5

(* The deferred calls take it out of the map.                              *)
LEMMA LeaveStep ==
  ASSUME IInv, NEW c \in Clients, Leave(c)
  PROVE  IInv'
<1> USE HubQueueAssumption DEF IInv
<1>1. ~Casting(c) /\ c \in Actors /\ Goto(c, "left") /\ "left" \in Places
      /\ ~("left" \in {"greeting", "parting", "posting"})
      /\ UNCHANGED <<mu, frame, frames, todo, queue, hand, last>>
      BY PlacesFacts DEF Leave, Unlisted, MuFree, Casting, Actors, Places, shared, chan, task, tally, seen
<1>2. /\ Locked'
      /\ pc' \in [Actors -> Places]
      /\ \A b \in Actors : Casting(b)' => Casting(b) /\ todo'[b] \subseteq todo[b]
      /\ \A b \in Actors : b # c => pc'[b] = pc[b]
      /\ pc'[c] = "left"
      BY <1>1, GotoKeepsLock
<1>3. TypeOK'
      BY <1>1, <1>2 DEF Leave, Unlisted, MuFree, TypeOK, Online, Frames, Actors, shared, chan, task, tally, seen
<1>4. Aimed'
      BY <1>2, PlacesFacts DEF Leave, Unlisted, MuFree, Aimed, Actors, TypeOK, Online, shared, chan, task, tally, seen
<1>5. Numbered' /\ NotYet'
      BY <1>1, <1>2, OrderUntouched
<1> QED BY <1>2, <1>3, <1>4, <1>5

(* The last of them closes the connection.                                 *)
LEMMA HangupStep ==
  ASSUME IInv, NEW c \in Clients, Hangup(c)
  PROVE  IInv'
<1> USE HubQueueAssumption DEF IInv
<1>1. ~Casting(c) /\ c \in Actors /\ Goto(c, "gone") /\ "gone" \in Places
      /\ ~("gone" \in {"greeting", "parting", "posting"})
      /\ UNCHANGED <<mu, frame, frames, todo, queue, hand, last>>
      BY PlacesFacts DEF Hangup, Casting, Actors, Places, shared, chan, task, tally, seen
<1>2. /\ Locked'
      /\ pc' \in [Actors -> Places]
      /\ \A b \in Actors : Casting(b)' => Casting(b) /\ todo'[b] \subseteq todo[b]
      /\ \A b \in Actors : b # c => pc'[b] = pc[b]
      /\ pc'[c] = "gone"
      BY <1>1, GotoKeepsLock
<1>3. TypeOK'
      BY <1>1, <1>2 DEF Hangup, TypeOK, Online, Frames, Actors, shared, chan, task, tally, seen
<1>4. Aimed'
      BY <1>2, PlacesFacts DEF Hangup, Aimed, Actors, TypeOK, Online, shared, chan, task, tally, seen
<1>5. Numbered' /\ NotYet'
      BY <1>1, <1>2, OrderUntouched
<1> QED BY <1>2, <1>3, <1>4, <1>5

(* Content is to be broadcast.                                             *)
LEMMA PostStep ==
  ASSUME IInv, NEW a \in Actors, Post(a)
  PROVE  IInv'
<1> USE HubQueueAssumption DEF IInv
<1>1. ~Casting(a) /\ a \in Actors /\ Goto(a, "post") /\ "post" \in Places
      /\ ~("post" \in {"greeting", "parting", "posting"})
      /\ UNCHANGED <<mu, frame, frames, todo, queue, hand, last>>
      BY PlacesFacts DEF Post, Rest, Casting, Actors, Places, shared, chan, task, tally, seen
<1>2. /\ Locked'
      /\ pc' \in [Actors -> Places]
      /\ \A b \in Actors : Casting(b)' => Casting(b) /\ todo'[b] \subseteq todo[b]
      /\ \A b \in Actors : b # a => pc'[b] = pc[b]
      /\ pc'[a] = "post"
      BY <1>1, GotoKeepsLock
<1>3. TypeOK'
      BY <1>1, <1>2 DEF Post, Rest, TypeOK, Online, Frames, Actors, shared, chan, task, tally, seen
<1>4. Aimed'
      BY <1>2, PlacesFacts DEF Post, Rest, Aimed, Actors, TypeOK, Online, shared, chan, task, tally, seen
<1>5. Numbered' /\ NotYet'
      BY <1>1, <1>2, OrderUntouched
<1> QED BY <1>2, <1>3, <1>4, <1>5

(* The online list is read.                                                *)
LEMMA ReadOnlineStep ==
  ASSUME IInv, NEW a \in Actors, ReadOnline(a)
  PROVE  IInv'
<1> USE HubQueueAssumption DEF IInv
<1>1. ~Casting(a) /\ a \in Actors /\ Goto(a, IF pc[a] = "hello" THEN "greet" ELSE "part") /\ (IF pc[a] = "hello" THEN "greet" ELSE "part") \in Places
      /\ ~((IF pc[a] = "hello" THEN "greet" ELSE "part") \in {"greeting", "parting", "posting"})
      /\ UNCHANGED <<mu, frame, frames, todo, queue, hand, last>>
      BY PlacesFacts DEF ReadOnline, MuFree, Casting, Actors, Places, shared, chan, task, tally, seen
<1>2. /\ Locked'
      /\ pc' \in [Actors -> Places]
      /\ \A b \in Actors : Casting(b)' => Casting(b) /\ todo'[b] \subseteq todo[b]
      /\ \A b \in Actors : b # a => pc'[b] = pc[b]
      /\ pc'[a] = IF pc[a] = "hello" THEN "greet" ELSE "part"
      BY <1>1, GotoKeepsLock
<1>3. TypeOK'
      BY <1>1, <1>2 DEF ReadOnline, MuFree, TypeOK, Online, Frames, Actors, shared, chan, task, tally, seen
<1>4. Aimed'
      BY <1>2, PlacesFacts DEF ReadOnline, MuFree, Aimed, Actors, TypeOK, Online, shared, chan, task, tally, seen
<1>5. Numbered' /\ NotYet'
      BY <1>1, <1>2, OrderUntouched
<1> QED BY <1>2, <1>3, <1>4, <1>5

(* A blocking send panics.                                                 *)
LEMMA EnqueuePanicsStep ==
  ASSUME IInv, NEW a \in Clients, EnqueuePanics(a)
  PROVE  IInv'
<1> USE HubQueueAssumption DEF IInv
<1>1. ~Casting(a) /\ a \in Actors /\ Goto(a, Unwound(a)) /\ Unwound(a) \in Places
      /\ ~(Unwound(a) \in {"greeting", "parting", "posting"})
      /\ UNCHANGED <<mu, frame, frames, todo, queue, hand, last>>
      BY PlacesFacts DEF EnqueuePanics, Sending, Casting, Actors, Places, shared, chan, task, tally, seen
<1>2. /\ Locked'
      /\ pc' \in [Actors -> Places]
      /\ \A b \in Actors : Casting(b)' => Casting(b) /\ todo'[b] \subseteq todo[b]
      /\ \A b \in Actors : b # a => pc'[b] = pc[b]
      /\ pc'[a] = Unwound(a)
      BY <1>1, GotoKeepsLock
<1>3. TypeOK'
      BY <1>1, <1>2 DEF EnqueuePanics, Sending, TypeOK, Online, Frames, Actors, shared, chan, task, tally, seen
<1>4. Aimed'
      BY <1>2, PlacesFacts DEF EnqueuePanics, Sending, Aimed, Actors, TypeOK, Online, shared, chan, task, tally, seen
<1>5. Numbered' /\ NotYet'
      BY <1>1, <1>2, OrderUntouched
<1> QED BY <1>2, <1>3, <1>4, <1>5

(* A connection is lost.                                                   *)
LEMMA LoseStep ==
  ASSUME IInv, NEW c \in Clients, Lose(c)
  PROVE  IInv'
<1> USE DEF IInv
<1>1. UNCHANGED <<clients, named, closed, queue, hand, pump, mu, pc, todo, frame, target,
                  told, frames, posts, relays, shown, last>> /\ conn' = conn \ {c}
      BY DEF Lose, chan, task, tally, seen
<1>2. \A b \in Actors : Casting(b)' <=> Casting(b)
      BY <1>1 DEF Casting
<1>3. TypeOK' /\ Aimed'
      BY <1>1 DEF TypeOK, Aimed, Frames
<1>4. Locked'
      BY <1>1, <1>2 DEF Locked
<1>5. Numbered' /\ NotYet'
      BY <1>1, <1>2, OrderUntouched
<1> QED BY <1>3, <1>4, <1>5

(* A blocking send puts a direct frame, or its timeout closes the channel. *)
LEMMA EnqueueStep ==
  ASSUME IInv, NEW a \in Clients, Enqueue(a)
  PROVE  IInv'
<1> USE HubQueueAssumption DEF IInv
<1> DEFINE d == Dest(a)
<1>1. /\ a \in Actors /\ d \in Clients /\ ~Casting(a) /\ Sending(a)
      /\ (Room(d) /\ Put(d, Direct)) \/ Shut(d)
      /\ Goto(a, AfterSend(a))
      BY DEF Enqueue, Sending, Casting, Actors, Dest, Aimed
<1>2. /\ AfterSend(a) \in Places
      /\ ~(AfterSend(a) \in {"greeting", "parting", "posting"}) /\ AfterSend(a) # "relay"
      BY <1>1, PlacesFacts
<1>3. /\ UNCHANGED <<clients, named, conn, pump, hand, mu, todo, frame, frames, posts, relays, last>>
      /\ target' = [target EXCEPT ![a] = NoOne]
      /\ told' = [told EXCEPT ![a] = {}]
      /\ shown' = [shown EXCEPT ![a] = told[a]] \/ shown' = shown
      BY DEF Enqueue, shared, tally
<1>4. /\ Locked'
      /\ pc' \in [Actors -> Places]
      /\ \A b \in Actors : Casting(b)' => Casting(b) /\ todo'[b] \subseteq todo[b]
      /\ \A b \in Actors : b # a => pc'[b] = pc[b]
      /\ pc'[a] = AfterSend(a)
      BY <1>1, <1>2, <1>3, GotoKeepsLock
<1>5. /\ queue' \in [Clients -> Seq(Nat)]
      /\ \A e \in Clients : Len(queue'[e]) <= Capacity
      /\ closed' \subseteq Clients
      /\ \A e \in Clients :
           \/ queue'[e] = queue[e]
           \/ e = d /\ queue'[e] = Append(queue[e], Direct)
  <2>1. Direct \in Nat BY DEF Direct
  <2> HIDE DEF d
  <2> QED BY <1>1, <2>1, PutOrShut
<1>6. TypeOK'
      BY <1>1, <1>3, <1>4, <1>5 DEF TypeOK, Frames, Actors
<1>7. Aimed'
      BY <1>2, <1>3, <1>4 DEF Aimed, Actors, TypeOK
<1>8. Numbered'
  <2>1. Direct \in 0..frames /\ ~(Direct > 0)
        BY DEF Direct, TypeOK
  <2> HIDE DEF d
  <2> QED BY <1>1, <1>3, <1>5, <2>1, PutKeepsOrder
<1>9. NotYet'
  <2> SUFFICES ASSUME NEW b \in Actors, Casting(b)', NEW e \in todo'[b]
               PROVE  /\ last[e] < frames /\ hand[e] < frames
                      /\ \A i \in 1..Len(queue'[e]) : queue'[e][i] < frames
      BY <1>3 DEF NotYet
  <2>1. Casting(b) /\ e \in todo[b] /\ e \in Clients
        BY <1>4 DEF TypeOK
  <2>2. /\ last[e] < frames /\ hand[e] < frames
        /\ \A i \in 1..Len(queue[e]) : queue[e][i] < frames
        BY <2>1 DEF NotYet
  <2>3. CASE queue'[e] = queue[e]
        BY <2>2, <2>3
  <2>4. CASE queue'[e] = Append(queue[e], Direct)
    <3>1. /\ Len(queue'[e]) = Len(queue[e]) + 1 /\ Len(queue[e]) \in Nat
          /\ \A i \in 1..Len(queue[e]) : queue'[e][i] = queue[e][i]
          /\ queue'[e][Len(queue[e]) + 1] = 0
          BY <2>1, <2>4, AppendFacts DEF Direct, TypeOK
    <3>2. 0 < frames
          BY <2>1, <2>2 DEF TypeOK, Frames
    <3> QED BY <2>2, <3>1, <3>2
  <2> QED BY <1>5, <2>1, <2>3, <2>4
<1> QED BY <1>4, <1>6, <1>7, <1>8, <1>9

(* A broadcast begins: its number is behind everything on its way.         *)
LEMMA BeginCastStep ==
  ASSUME IInv, NEW a \in Actors, BeginCast(a)
  PROVE  IInv'
<1> USE HubQueueAssumption DEF IInv
<1>1. /\ mu = NoOne /\ mu' = a /\ frames' = frames + 1 /\ frames \in Nat
      /\ frame' = [frame EXCEPT ![a] = frames + 1]
      /\ UNCHANGED <<clients, named, conn, pump, closed, queue, hand, target, told, posts,
                     relays, shown, last>>
      BY DEF BeginCast, MuFree, TypeOK, shared, chan, seen
<1>2. PICK to \in SUBSET Clients : todo' = [todo EXCEPT ![a] = to]
  <2>1. clients \subseteq Clients /\ Online \subseteq Clients
        BY DEF TypeOK, Online
  <2> QED BY <2>1 DEF BeginCast
<1>3. PICK p \in {"greeting", "parting", "posting"} : pc' = [pc EXCEPT ![a] = p]
  <2>1. CASE pc[a] = "greet" BY <2>1 DEF BeginCast, Goto
  <2>2. CASE pc[a] = "part"  BY <2>2 DEF BeginCast, Goto
  <2>3. CASE pc[a] = "post"  BY <2>3 DEF BeginCast, Goto
  <2> QED BY <2>1, <2>2, <2>3 DEF BeginCast
<1>4. pc' \in [Actors -> Places] /\ \A b \in Actors : pc'[b] = IF b = a THEN p ELSE pc[b]
      BY <1>3 DEF TypeOK, Places
<1>5. \A b \in Actors : ~Casting(b)
      BY <1>1 DEF Locked, Actors
<1>6. \A b \in Actors : Casting(b)' <=> b = a
      BY <1>4, <1>5 DEF Casting
<1>7. TypeOK'
  <2>1. frame' \in [Actors -> Frames'] /\ last' \in [Clients -> Frames'] /\ frames' \in Nat
        BY <1>1 DEF TypeOK, Frames
  <2>2. todo' \in [Actors -> SUBSET Clients]
        BY <1>2 DEF TypeOK
  <2>3. mu' \in Actors \cup {NoOne}
        BY <1>1
  <2> QED BY <1>1, <1>4, <2>1, <2>2, <2>3 DEF TypeOK
<1>8. Aimed'
      BY <1>1, <1>4 DEF Aimed, Actors
<1>9. Locked'
      BY <1>1, <1>6 DEF Locked, TypeOK
<1>10. \A c \in Clients :
         /\ last[c] < frames + 1 /\ hand[c] < frames + 1
         /\ \A i \in 1..Len(queue[c]) : queue[c][i] < frames + 1
  <2> SUFFICES ASSUME NEW c \in Clients
               PROVE  /\ last[c] < frames + 1 /\ hand[c] < frames + 1
                      /\ \A i \in 1..Len(queue[c]) : queue[c][i] < frames + 1
      OBVIOUS
  <2>1. last[c] \in 0..frames /\ hand[c] \in Nat \cup {-1} /\ queue[c] \in Seq(Nat)
        BY DEF TypeOK, Frames
  <2>2. \A i \in 1..Len(queue[c]) : queue[c][i] \in Nat
        BY <2>1
  <2> QED BY <1>1, <2>1, <2>2 DEF Numbered
<1>11. Numbered'
  <2> SUFFICES ASSUME NEW c \in Clients
               PROVE  /\ hand[c] <= frames'
                      /\ \A i \in 1..Len(queue[c]) : queue[c][i] <= frames'
      BY <1>1 DEF Numbered
  <2>1. hand[c] \in Nat \cup {-1} /\ queue[c] \in Seq(Nat)
        BY DEF TypeOK
  <2>2. \A i \in 1..Len(queue[c]) : queue[c][i] \in Nat
        BY <2>1
  <2> QED BY <1>1, <1>10, <2>1, <2>2
<1>12. NotYet'
  <2>1. todo'[a] \subseteq Clients
        BY <1>2 DEF TypeOK
  <2> QED BY <1>1, <1>6, <1>10, <2>1 DEF NotYet
<1> QED BY <1>7, <1>8, <1>9, <1>11, <1>12

(* The frame is offered to one socket.                                     *)
LEMMA OfferStep ==
  ASSUME IInv, NEW a \in Actors, NEW c \in todo[a], Offer(a, c)
  PROVE  IInv'
<1> USE HubQueueAssumption DEF IInv
<1>1. /\ Casting(a) /\ c \in Clients /\ frame[a] = frames /\ frames \in Nat
      /\ \A b \in Actors : Casting(b) => b = a
      BY DEF Offer, TypeOK, Locked
<1>2. (Room(c) /\ Put(c, frames)) \/ Shut(c)
      BY <1>1 DEF Offer, TryEnqueue
<1>3. /\ UNCHANGED <<clients, named, conn, pump, hand, mu, pc, frame, target, told, frames,
                     posts, relays, last>>
      /\ todo' = [todo EXCEPT ![a] = todo[a] \ {c}]
      /\ shown' = [shown EXCEPT ![c] = told[a]] \/ shown' = shown
      BY DEF Offer, shared, tally
<1>4. /\ queue' \in [Clients -> Seq(Nat)]
      /\ \A e \in Clients : Len(queue'[e]) <= Capacity
      /\ closed' \subseteq Clients
      /\ \A e \in Clients :
           \/ queue'[e] = queue[e]
           \/ e = c /\ queue'[e] = Append(queue[e], frames)
      BY <1>1, <1>2, PutOrShut
<1>5. TypeOK'
      BY <1>1, <1>3, <1>4 DEF TypeOK, Frames
<1>6. \A b \in Actors : Casting(b)' <=> Casting(b)
      BY <1>3 DEF Casting
<1>7. Aimed' /\ Locked'
      BY <1>3, <1>6 DEF Aimed, Locked
<1>8. Numbered'
  <2>1. /\ last[c] < frames /\ hand[c] < frames
        /\ \A i \in 1..Len(queue[c]) : queue[c][i] < frames
        BY <1>1 DEF NotYet
  <2>2. frames \in 0..frames
        BY <1>1
  <2> QED BY <1>1, <1>3, <1>4, <2>1, <2>2, PutKeepsOrder
<1>9. NotYet'
  <2> SUFFICES ASSUME NEW b \in Actors, Casting(b)', NEW e \in todo'[b]
               PROVE  /\ last[e] < frames /\ hand[e] < frames
                      /\ \A i \in 1..Len(queue'[e]) : queue'[e][i] < frames
      BY <1>3 DEF NotYet
  <2>1. b = a /\ e \in todo[a] /\ e # c /\ e \in Clients
        BY <1>1, <1>3, <1>6 DEF TypeOK
  <2>2. queue'[e] = queue[e]
        BY <1>4, <2>1
  <2> QED BY <1>1, <2>1, <2>2 DEF NotYet
<1> QED BY <1>5, <1>7, <1>8, <1>9

(* A broadcast ends, by itself or by a panic.                              *)
LEMMA EndStep ==
  ASSUME IInv, NEW a \in Actors,
         EndCast(a) \/ \E c \in todo[a] : OfferPanics(a, c)
  PROVE  IInv'
<1> USE HubQueueAssumption DEF IInv
<1>1. PICK p \in Places \ {"relay", "greeting", "parting", "posting"} :
        pc' = [pc EXCEPT ![a] = p]
  <2>1. CASE EndCast(a)
    <3>1. CASE pc[a] = "parting" BY <2>1, <3>1 DEF EndCast, Goto, Places
    <3>2. CASE pc[a] # "parting" BY <2>1, <3>2, PlacesFacts DEF EndCast, Goto
    <3> QED BY <3>1, <3>2
  <2>2. CASE \E c \in todo[a] : OfferPanics(a, c)
        BY <2>2, PlacesFacts DEF OfferPanics, Goto
  <2> QED BY <2>1, <2>2
<1>2. Casting(a) /\ EndTask(a)
      /\ UNCHANGED <<clients, named, conn, pump, closed, queue, hand, frames, posts, relays,
                     shown, last>>
      BY DEF EndCast, OfferPanics, shared, chan, tally, seen
<1>3. /\ mu = a /\ mu' = NoOne /\ a # NoOne
      /\ \A b \in Actors : Casting(b) => b = a
      BY <1>2 DEF EndTask, Locked, Actors
<1>4. pc' \in [Actors -> Places] /\ \A b \in Actors : pc'[b] = IF b = a THEN p ELSE pc[b]
      BY <1>1 DEF TypeOK
<1>5. \A b \in Actors : ~Casting(b)'
      BY <1>3, <1>4 DEF Casting
<1>6. TypeOK'
  <2>1. /\ todo' \in [Actors -> SUBSET Clients] /\ told' \in [Actors -> SUBSET Clients]
        /\ target' \in [Actors -> Clients \cup {NoOne}]
        BY <1>2 DEF EndTask, TypeOK
  <2>2. frame' \in [Actors -> Frames']
        BY <1>2 DEF EndTask, TypeOK, Frames, Direct
  <2> QED BY <1>2, <1>3, <1>4, <2>1, <2>2 DEF TypeOK, Frames
<1>7. Aimed'
      BY <1>2, <1>4 DEF EndTask, Aimed, Actors
<1>8. Locked'
      BY <1>3, <1>5 DEF Locked, Actors
<1>9. Numbered' /\ NotYet'
      BY <1>2, <1>5, OrderUntouched
<1> QED BY <1>6, <1>7, <1>8, <1>9

(* The pump takes the first frame out of the channel.                      *)
LEMMA TakeStep ==
  ASSUME IInv, NEW c \in Clients, Take(c)
  PROVE  IInv'
<1> USE DEF IInv
<1>1. /\ queue[c] # << >> /\ queue[c] \in Seq(Nat)
      /\ hand' = [hand EXCEPT ![c] = Head(queue[c])]
      /\ queue' = [queue EXCEPT ![c] = Tail(queue[c])]
      /\ UNCHANGED <<clients, named, conn, pump, closed, mu, pc, todo, frame, target, told,
                     frames, posts, relays, shown, last>>
      BY DEF Take, TypeOK, shared, task, tally, seen
<1>2. /\ Head(queue[c]) = queue[c][1] /\ Head(queue[c]) \in Nat
      /\ Tail(queue[c]) \in Seq(Nat)
      /\ Len(queue[c]) \in Nat \ {0} /\ Len(Tail(queue[c])) = Len(queue[c]) - 1
      /\ \A i \in 1..Len(Tail(queue[c])) :
           Tail(queue[c])[i] = queue[c][i + 1] /\ i + 1 \in 1..Len(queue[c])
      BY <1>1, TailFacts
<1>3. /\ hand' \in [Clients -> Nat \cup {-1}] /\ queue' \in [Clients -> Seq(Nat)]
      /\ \A d \in Clients : d # c => hand'[d] = hand[d] /\ queue'[d] = queue[d]
      /\ hand'[c] = queue[c][1] /\ queue'[c] = Tail(queue[c]) /\ 1 \in 1..Len(queue[c])
      BY <1>1, <1>2 DEF TypeOK
<1>4. TypeOK'
  <2>1. Len(queue[c]) <= Capacity /\ Len(queue'[c]) <= Capacity
        BY <1>2, <1>3, HubQueueAssumption DEF TypeOK
  <2> QED BY <1>1, <1>3, <2>1 DEF TypeOK, Frames
<1>5. \A b \in Actors : Casting(b)' <=> Casting(b)
      BY <1>1 DEF Casting
<1>6. Aimed' /\ Locked'
      BY <1>1, <1>5 DEF Aimed, Locked
<1>7. Numbered'
  <2>1. ASSUME NEW d \in Clients, d # c
        PROVE  /\ hand'[d] <= frames
               /\ hand'[d] > 0 => last[d] < hand'[d]
               /\ \A i \in 1..Len(queue'[d]) :
                    /\ queue'[d][i] <= frames
                    /\ queue'[d][i] > 0 => last[d] < queue'[d][i] /\ hand'[d] < queue'[d][i]
               /\ \A i, j \in 1..Len(queue'[d]) :
                    i < j /\ queue'[d][j] > 0 => queue'[d][i] < queue'[d][j]
        BY <1>3, <2>1 DEF Numbered
  <2>2. /\ queue[c][1] <= frames
        /\ queue[c][1] > 0 => last[c] < queue[c][1]
        /\ \A i \in 1..Len(queue[c]) :
             /\ queue[c][i] <= frames
             /\ queue[c][i] > 0 => last[c] < queue[c][i]
        /\ \A i, j \in 1..Len(queue[c]) :
             i < j /\ queue[c][j] > 0 => queue[c][i] < queue[c][j]
        BY <1>3 DEF Numbered
  <2>3. /\ hand'[c] <= frames
        /\ hand'[c] > 0 => last[c] < hand'[c]
        BY <1>3, <2>2
  <2>4. ASSUME NEW i \in 1..Len(queue'[c])
        PROVE  /\ queue'[c][i] <= frames
               /\ queue'[c][i] > 0 => last[c] < queue'[c][i] /\ hand'[c] < queue'[c][i]
    <3>1. queue'[c][i] = queue[c][i + 1] /\ i + 1 \in 1..Len(queue[c]) /\ 1 < i + 1
          BY <1>2, <1>3
    <3> QED BY <1>3, <2>2, <3>1
  <2>5. ASSUME NEW i \in 1..Len(queue'[c]), NEW j \in 1..Len(queue'[c]),
               i < j, queue'[c][j] > 0
        PROVE  queue'[c][i] < queue'[c][j]
    <3>1. /\ queue'[c][i] = queue[c][i + 1] /\ i + 1 \in 1..Len(queue[c])
          /\ queue'[c][j] = queue[c][j + 1] /\ j + 1 \in 1..Len(queue[c])
          BY <1>2, <1>3
    <3>2. i \in Int /\ j \in Int
          OBVIOUS
    <3>3. i + 1 < j + 1 /\ queue[c][j + 1] > 0
          BY <2>5, <3>1, <3>2
    <3>4. queue[c][i + 1] < queue[c][j + 1]
          BY <2>2, <3>1, <3>3
    <3> QED BY <3>1, <3>4
  <2> QED BY <1>1, <2>1, <2>3, <2>4, <2>5 DEF Numbered
<1>8. NotYet'
  <2> SUFFICES ASSUME NEW b \in Actors, Casting(b)', NEW e \in todo[b]
               PROVE  /\ last[e] < frames /\ hand'[e] < frames
                      /\ \A i \in 1..Len(queue'[e]) : queue'[e][i] < frames
      BY <1>1 DEF NotYet
  <2>1. /\ e \in Clients /\ last[e] < frames /\ hand[e] < frames
        /\ \A i \in 1..Len(queue[e]) : queue[e][i] < frames
        BY <1>5 DEF NotYet, TypeOK
  <2>2. CASE e # c
        BY <1>3, <2>1, <2>2
  <2>3. CASE e = c
        BY <1>2, <1>3, <2>1, <2>3
  <2> QED BY <2>2, <2>3
<1> QED BY <1>4, <1>6, <1>7, <1>8

(* The pump has written the frame in its hand.                             *)
LEMMA WriteStep ==
  ASSUME IInv, NEW c \in Clients, Write(c)
  PROVE  IInv' /\ \A d \in Clients : last'[d] # last[d] => last'[d] > last[d]
<1> USE DEF IInv
<1>1. /\ hand[c] # -1 /\ hand[c] \in Nat /\ hand[c] <= frames /\ last[c] \in 0..frames
      /\ frames \in Nat
      /\ hand' = [hand EXCEPT ![c] = -1]
      /\ last' = [last EXCEPT ![c] = IF hand[c] = Direct THEN last[c] ELSE hand[c]]
      /\ UNCHANGED <<clients, named, conn, pump, closed, queue, mu, pc, todo, frame, target,
                     told, frames, posts, relays, shown>>
      BY DEF Write, TypeOK, Frames, Numbered, shared, chan, task, tally
<1>2. /\ \A d \in Clients : d # c => hand'[d] = hand[d] /\ last'[d] = last[d]
      /\ hand'[c] = -1
      /\ last'[c] = IF hand[c] = 0 THEN last[c] ELSE hand[c]
      /\ last' \in [Clients -> 0..frames] /\ hand' \in [Clients -> Nat \cup {-1}]
      BY <1>1 DEF TypeOK, Direct, Frames
<1>3. hand[c] > 0 => last[c] < hand[c]
      BY DEF Numbered
<1>4. TypeOK'
      BY <1>1, <1>2 DEF TypeOK, Frames
<1>5. \A b \in Actors : Casting(b)' <=> Casting(b)
      BY <1>1 DEF Casting
<1>6. Aimed' /\ Locked'
      BY <1>1, <1>5 DEF Aimed, Locked
<1>7. Numbered'
  <2> SUFFICES ASSUME NEW d \in Clients
               PROVE  /\ hand'[d] <= frames
                      /\ hand'[d] > 0 => last'[d] < hand'[d]
                      /\ \A i \in 1..Len(queue[d]) :
                           queue[d][i] > 0 => last'[d] < queue[d][i] /\ hand'[d] < queue[d][i]
      BY <1>1 DEF Numbered
  <2>0. \A i \in 1..Len(queue[d]) : queue[d][i] \in Nat
        BY DEF TypeOK
  <2>1. CASE d # c
        BY <1>2, <2>1 DEF Numbered
  <2>2. CASE d = c
    <3>1. \A i \in 1..Len(queue[c]) :
            queue[c][i] > 0 => last[c] < queue[c][i] /\ hand[c] < queue[c][i]
          BY DEF Numbered
    <3> QED BY <1>1, <1>2, <2>0, <2>2, <3>1
  <2> QED BY <2>1, <2>2
<1>8. NotYet'
  <2> SUFFICES ASSUME NEW b \in Actors, Casting(b)', NEW e \in todo[b]
               PROVE  last'[e] < frames /\ hand'[e] < frames
      BY <1>1, <1>5 DEF NotYet
  <2>1. /\ e \in Clients /\ last[e] < frames /\ hand[e] < frames /\ last[e] \in 0..frames
        BY <1>5 DEF NotYet, TypeOK, Frames
  <2> QED BY <1>1, <1>2, <2>1
<1>9. \A d \in Clients : last'[d] # last[d] => last'[d] > last[d]
      BY <1>1, <1>2, <1>3
<1> QED BY <1>4, <1>6, <1>7, <1>8, <1>9

(* The pump stops.                                                         *)
LEMMA PumpStopsStep ==
  ASSUME IInv, NEW c \in Clients, PumpStops(c)
  PROVE  IInv'
<1> USE DEF IInv
<1>1. /\ hand' = [hand EXCEPT ![c] = -1] /\ conn' = conn \ {c}
      /\ pump' = [pump EXCEPT ![c] = "done"]
      /\ UNCHANGED <<clients, named, closed, queue, mu, pc, todo, frame, target, told,
                     frames, posts, relays, shown, last>>
      BY DEF PumpStops, chan, task, tally, seen
<1>2. /\ \A d \in Clients : hand'[d] = hand[d] \/ hand'[d] = -1
      /\ hand' \in [Clients -> Nat \cup {-1}]
      BY <1>1 DEF TypeOK
<1>3. TypeOK'
      BY <1>1, <1>2 DEF TypeOK, Frames
<1>4. \A b \in Actors : Casting(b)' <=> Casting(b)
      BY <1>1 DEF Casting
<1>5. Aimed' /\ Locked'
      BY <1>1, <1>4 DEF Aimed, Locked
<1>6. frames \in Nat /\ \A d \in Clients : \A i \in 1..Len(queue[d]) : queue[d][i] \in Nat
      BY DEF TypeOK
<1>7. Numbered'
  <2> SUFFICES ASSUME NEW d \in Clients
               PROVE  /\ hand'[d] <= frames
                      /\ hand'[d] > 0 => last[d] < hand'[d]
                      /\ \A i \in 1..Len(queue[d]) : queue[d][i] > 0 => hand'[d] < queue[d][i]
      BY <1>1 DEF Numbered
  <2>1. CASE hand'[d] = hand[d]
        BY <2>1 DEF Numbered
  <2>2. CASE hand'[d] = -1
        BY <1>6, <2>2
  <2> QED BY <1>2, <2>1, <2>2
<1>8. NotYet'
  <2> SUFFICES ASSUME NEW b \in Actors, Casting(b)', NEW e \in todo[b]
               PROVE  hand'[e] < frames
      BY <1>1, <1>4 DEF NotYet
  <2>1. e \in Clients /\ hand[e] < frames
        BY <1>4 DEF NotYet, TypeOK
  <2> QED BY <1>2, <1>6, <2>1
<1> QED BY <1>3, <1>5, <1>7, <1>8

-----------------------------------------------------------------------------
(* Every step keeps the invariant.                                         *)
LEMMA NextIInv == IInv /\ [Next]_vars => IInv'
<1> SUFFICES ASSUME IInv, [Next]_vars PROVE IInv'
    OBVIOUS
<1>1. ASSUME NEW c \in Clients, Accept(c) \/ Hello(c) \/ Lose(c)
      PROVE  IInv'
      BY <1>1, AcceptStep, HelloStep, LoseStep
<1>2. ASSUME NEW c \in Clients, Handle(c)
      PROVE  IInv'
      BY <1>2, EnqueueStep, EnqueuePanicsStep, ReadFailsStep, LeaveStep, HangupStep DEF Handle
<1>3. ASSUME NEW c \in Clients, Pump(c)
      PROVE  IInv'
      BY <1>3, TakeStep, WriteStep, PumpStopsStep DEF Pump
<1>4. ASSUME NEW c \in Clients, NEW t \in Clients, Relay(c, t)
      PROVE  IInv'
      BY <1>4, RelayStep
<1>5. ASSUME NEW a \in Actors, Post(a)
      PROVE  IInv'
      BY <1>5, PostStep
<1>6. ASSUME NEW a \in Actors, Cast(a)
      PROVE  IInv'
      BY <1>6, ReadOnlineStep, BeginCastStep, EndStep, OfferStep DEF Cast
<1>7. CASE UNCHANGED vars
  <2>1. \A b \in Actors : Casting(b)' <=> Casting(b)
        BY <1>7 DEF Casting, vars
  <2>2. TypeOK' /\ Aimed'
        BY <1>7 DEF IInv, TypeOK, Aimed, Frames, vars
  <2>3. Locked'
        BY <1>7, <2>1 DEF IInv, Locked, vars
  <2>4. Numbered' /\ NotYet'
        BY <1>7, <2>1, OrderUntouched DEF IInv, vars
  <2> QED BY <2>2, <2>3, <2>4 DEF IInv
<1> QED BY <1>1, <1>2, <1>3, <1>4, <1>5, <1>6, <1>7 DEF Next

(* Only a write changes what a page was last written, and it moves on.     *)
LEMMA OnlyForward ==
  ASSUME IInv, [Next]_vars, NEW c \in Clients, last'[c] # last[c]
  PROVE  last'[c] > last[c]
<1> SUFFICES last' # last => \E d \in Clients : Write(d)
    BY WriteStep
<1>1. ASSUME NEW d \in Clients, Accept(d) \/ Hello(d) \/ Lose(d) \/ Handle(d)
      PROVE  last' = last
      BY <1>1 DEF Accept, Hello, Lose, Handle, Enqueue, EnqueuePanics, ReadFails, Leave,
                  Hangup, seen
<1>2. ASSUME NEW d \in Clients, Take(d) \/ PumpStops(d)
      PROVE  last' = last
      BY <1>2 DEF Take, PumpStops, seen
<1>3. ASSUME NEW d \in Clients, NEW t \in Clients, Relay(d, t)
      PROVE  last' = last
      BY <1>3 DEF Relay, seen
<1>4. ASSUME NEW a \in Actors, Post(a) \/ Cast(a)
      PROVE  last' = last
      BY <1>4 DEF Post, Cast, ReadOnline, BeginCast, EndCast, Offer, OfferPanics, seen
<1>5. CASE UNCHANGED vars
      BY <1>5 DEF vars
<1> QED BY <1>1, <1>2, <1>3, <1>4, <1>5 DEF Next, Pump

-----------------------------------------------------------------------------
(* The feed.  Under the invariant the only broadcast still being offered   *)
(* is the newest one.                                                      *)
LEMMA OfferedFacts ==
  ASSUME IInv, NEW c \in Clients
  PROVE  /\ Offered(c) \subseteq {frames}
         /\ \A a \in Actors : Casting(a) /\ c \in todo[a] \ closed => Offered(c) = {frames}
         /\ (\A a \in Actors : ~(Casting(a) /\ c \in todo[a] \ closed)) => Offered(c) = {}
         /\ frames \in Offered(c) => frames \notin Held(c) /\ frames # hand[c]
         /\ frames \in Nat /\ hand[c] \in Nat \cup {-1} /\ Held(c) \subseteq Nat
<1>1. \A a \in Actors : Casting(a) => frame[a] = frames
      BY DEF IInv, Locked
<1>2. ASSUME frames \in Offered(c)
      PROVE  frames \notin Held(c) /\ frames # hand[c]
  <2>1. PICK a \in Actors : Casting(a) /\ c \in todo[a]
        BY <1>2 DEF Offered
  <2>2. hand[c] < frames /\ \A i \in 1..Len(queue[c]) : queue[c][i] < frames
        BY <2>1 DEF IInv, NotYet
  <2>3. frames \in Nat /\ ~(frames < frames)
        BY DEF IInv, TypeOK
  <2> QED BY <2>2, <2>3 DEF Held
<1>3. /\ frames \in Nat /\ hand[c] \in Nat \cup {-1}
      /\ Held(c) \subseteq Nat
  <2>1. queue[c] \in Seq(Nat) /\ frames \in Nat /\ hand[c] \in Nat \cup {-1}
        BY DEF IInv, TypeOK
  <2>2. \A i \in 1..Len(queue[c]) : queue[c][i] \in Nat
        BY <2>1
  <2> QED BY <2>1, <2>2 DEF Held
<1>4. Offered(c) \subseteq {frames}
      BY <1>1 DEF Offered
<1>5. ASSUME NEW a \in Actors, Casting(a), c \in todo[a] \ closed
      PROVE  Offered(c) = {frames}
      BY <1>1, <1>5 DEF Offered
<1>6. ASSUME \A a \in Actors : ~(Casting(a) /\ c \in todo[a] \ closed)
      PROVE  Offered(c) = {}
      BY <1>6 DEF Offered
<1> QED BY <1>2, <1>3, <1>4, <1>5, <1>6

(* What a channel holds when a frame is put into it or taken out.          *)
LEMMA HeldFacts ==
  ASSUME NEW c \in Clients, queue[c] \in Seq(Nat)
  PROVE  /\ \A f \in Nat : queue'[c] = Append(queue[c], f) => Held(c)' = Held(c) \cup {f}
         /\ queue[c] # << >> /\ queue'[c] = Tail(queue[c])
            => Held(c) = Held(c)' \cup {Head(queue[c])}
         /\ queue'[c] = queue[c] => Held(c)' = Held(c)
<1>1. ASSUME NEW f \in Nat, queue'[c] = Append(queue[c], f)
      PROVE  Held(c)' = Held(c) \cup {f}
  <2>1. /\ Len(queue'[c]) = Len(queue[c]) + 1 /\ Len(queue[c]) \in Nat
        /\ \A i \in 1..Len(queue[c]) : queue'[c][i] = queue[c][i]
        /\ queue'[c][Len(queue[c]) + 1] = f
        BY <1>1, AppendFacts
  <2>2. /\ \A i \in 1..Len(queue'[c]) : i \in 1..Len(queue[c]) \/ i = Len(queue[c]) + 1
        /\ \A i \in 1..Len(queue[c]) : i \in 1..Len(queue'[c])
        /\ Len(queue[c]) + 1 \in 1..Len(queue'[c])
        BY <2>1
  <2>3. {queue'[c][i] : i \in 1..Len(queue'[c])} = {queue[c][i] : i \in 1..Len(queue[c])} \cup {f}
        BY <2>1, <2>2, Zenon
  <2> QED BY <2>3 DEF Held
<1>2. ASSUME queue[c] # << >>, queue'[c] = Tail(queue[c])
      PROVE  Held(c) = Held(c)' \cup {Head(queue[c])}
  <2>1. /\ Head(queue[c]) = queue[c][1] /\ Len(queue[c]) \in Nat \ {0}
        /\ Len(queue'[c]) = Len(queue[c]) - 1
        /\ \A i \in 1..Len(queue'[c]) :
             queue'[c][i] = queue[c][i + 1] /\ i + 1 \in 1..Len(queue[c])
        BY <1>2, TailFacts
  <2>2. \A j \in 1..Len(queue[c]) : j = 1 \/ j - 1 \in 1..Len(queue'[c])
        BY <2>1
  <2>3. \A j \in 1..Len(queue[c]) : j # 1 => queue[c][j] = queue'[c][j - 1]
        BY <2>1, <2>2
  <2>4. 1 \in 1..Len(queue[c])
        BY <2>1
  <2>5. {queue[c][i] : i \in 1..Len(queue[c])}
        = {queue'[c][i] : i \in 1..Len(queue'[c])} \cup {Head(queue[c])}
    <3>1. ASSUME NEW j \in 1..Len(queue[c])
          PROVE  queue[c][j] \in {queue'[c][i] : i \in 1..Len(queue'[c])} \cup {Head(queue[c])}
          BY <2>1, <2>2, <2>3, Zenon
    <3>2. ASSUME NEW i \in 1..Len(queue'[c])
          PROVE  queue'[c][i] \in {queue[c][j] : j \in 1..Len(queue[c])}
          BY <2>1, Zenon
    <3>3. Head(queue[c]) \in {queue[c][j] : j \in 1..Len(queue[c])}
          BY <2>1, <2>4, Zenon
    <3> QED BY <3>1, <3>2, <3>3, Zenon
  <2> QED BY <2>5 DEF Held
<1>3. ASSUME queue'[c] = queue[c]
      PROVE  Held(c)' = Held(c)
      BY <1>3 DEF Held
<1> QED BY <1>1, <1>2, <1>3

(* A step that moves nothing on its way to a page is none of the feed's.   *)
LEMMA FeedStutters ==
  ASSUME UNCHANGED <<frames, last, closed, pump>>, \A c \in Clients : Due(c)' = Due(c)
  PROVE  UNCHANGED Page!fvars
<1>1. [c \in Clients |-> Due(c)]' = [c \in Clients |-> Due(c)]
      OBVIOUS
<1> QED BY <1>1 DEF Page!fvars, Stopped

(* The actions that stutter by leaving channels, hands and broadcasts.     *)
LEMMA OutsideStutters ==
  ASSUME UNCHANGED <<queue, hand, closed, pump, frames, last, frame>>,
         \A a \in Actors : (Casting(a)' <=> Casting(a)) /\ (Casting(a) => todo'[a] = todo[a])
  PROVE  UNCHANGED Page!fvars
<1> SUFFICES ASSUME NEW c \in Clients PROVE Due(c)' = Due(c)
    BY FeedStutters
<1>1. {b \in Actors : Casting(b) /\ c \in todo[b] \ closed}'
      = {b \in Actors : Casting(b) /\ c \in todo[b] \ closed}
      OBVIOUS
<1>2. Offered(c)' = Offered(c)
      BY <1>1 DEF Offered
<1> QED BY <1>2 DEF Due, Held, Stopped

(* A broadcast takes the lock: it is published to its recipients.          *)
LEMMA BeginCastPublishes ==
  ASSUME IInv, NEW a \in Actors, BeginCast(a)
  PROVE  Page!Next
<1> USE DEF IInv
<1>1. PICK to \in SUBSET Clients : todo' = [todo EXCEPT ![a] = to]
      BY DEF BeginCast, TypeOK, Online
<1>2. /\ mu = NoOne /\ frames' = frames + 1 /\ frames \in Nat
      /\ frame' = [frame EXCEPT ![a] = frames + 1]
      /\ UNCHANGED <<closed, queue, hand, pump, last>>
      BY DEF BeginCast, MuFree, TypeOK, shared, chan, seen
<1>3. /\ pc[a] \in {"greet", "part", "post"}
      /\ pc' = [pc EXCEPT ![a] = CASE pc[a] = "greet" -> "greeting"
                                    [] pc[a] = "part"  -> "parting"
                                    [] pc[a] = "post"  -> "posting"]
      BY DEF BeginCast, Goto
<1>4. \A b \in Actors : ~Casting(b)
      BY <1>2, HubQueueAssumption DEF Locked, Actors
<1>5. /\ todo'[a] = to /\ frame'[a] = frames + 1
      /\ \A b \in Actors : Casting(b)' <=> b = a
      BY <1>1, <1>2, <1>3, <1>4 DEF Casting, TypeOK
<1>6. ASSUME NEW c \in Clients
      PROVE  Due(c)' = IF c \in to \ (closed \cup Stopped)
                       THEN Due(c) \cup {frames + 1} ELSE Due(c)
  <2>1. Offered(c) = {}
        BY <1>4 DEF Offered
  <2>2. Offered(c)' = IF c \in to \ closed THEN {frames + 1} ELSE {}
    <3>1. CASE c \in to \ closed
      <4>1. {b \in Actors : Casting(b) /\ c \in todo[b] \ closed}' = {a}
            BY <1>2, <1>5, <3>1
      <4> QED BY <1>5, <3>1, <4>1 DEF Offered
    <3>2. CASE c \notin to \ closed
      <4>1. {b \in Actors : Casting(b) /\ c \in todo[b] \ closed}' = {}
            BY <1>2, <1>5, <3>2
      <4> QED BY <3>2, <4>1 DEF Offered
    <3> QED BY <3>1, <3>2
  <2>3. Held(c)' = Held(c) /\ hand'[c] = hand[c] /\ Stopped' = Stopped
        BY <1>2 DEF Held, Stopped
  <2>4. frames + 1 \notin {Direct, -1}
        BY <1>2 DEF Direct
  <2> QED BY <2>1, <2>2, <2>3, <2>4 DEF Due
<1>7. Page!Publish(to)
  <2>1. [c \in Clients |-> Due(c)]'
        = [c \in Clients |-> IF c \in to \ (closed \cup Stopped)
                             THEN [d \in Clients |-> Due(d)][c] \cup {frames + 1}
                             ELSE [d \in Clients |-> Due(d)][c]]
        BY <1>6
  <2> QED BY <1>2, <2>1 DEF Page!Publish, Stopped
<1> QED BY <1>7 DEF Page!Next

(* A channel with room takes a frame: the newest broadcast, which was on   *)
(* its way already, or a direct one, which is none.                        *)
LEMMA PutStutters ==
  ASSUME IInv, NEW c \in Clients, NEW f \in {Direct, frames}, Put(c, f),
         UNCHANGED <<hand, pump, frames, last>>,
         \A d \in Clients : d # c \/ f = Direct => Offered(d)' = Offered(d),
         f # Direct => frames \in Offered(c) /\ Offered(c)' = {}
  PROVE  UNCHANGED Page!fvars
<1> USE DEF IInv
<1>1. /\ queue \in [Clients -> Seq(Nat)] /\ f \in Nat
      /\ queue' = [queue EXCEPT ![c] = Append(queue[c], f)] /\ closed' = closed
      BY DEF Put, TypeOK, Direct
<1> SUFFICES ASSUME NEW d \in Clients PROVE Due(d)' = Due(d)
    BY <1>1, FeedStutters
<1>2. Stopped' = Stopped
      BY DEF Stopped
<1>3. CASE d # c
  <2>1. queue'[d] = queue[d] /\ queue[d] \in Seq(Nat)
        BY <1>1, <1>3
  <2>2. Held(d)' = Held(d)
        BY <2>1, HeldFacts
  <2> QED BY <1>2, <1>3, <2>2 DEF Due
<1>4. CASE d = c
  <2>1. queue'[c] = Append(queue[c], f) /\ queue[c] \in Seq(Nat)
        BY <1>1
  <2>2. Held(c)' = Held(c) \cup {f}
        BY <1>1, <2>1, HeldFacts
  <2>3. CASE f = Direct
        BY <1>2, <1>4, <2>2, <2>3 DEF Due
  <2>4. CASE f # Direct
    <3>1. Offered(c) = {f} /\ Offered(c)' = {}
          BY <2>4, OfferedFacts
    <3> QED BY <1>2, <1>4, <2>2, <3>1 DEF Due
  <2> QED BY <2>3, <2>4
<1> QED BY <1>3, <1>4

(* A full channel is closed: its page is shut, and what was still to be    *)
(* offered to it is due no more.                                           *)
LEMMA ShutShuts ==
  ASSUME IInv, NEW c \in Clients, c \notin closed, Shut(c),
         UNCHANGED <<hand, pump, frames, last>>,
         \A d \in Clients : d # c => Offered(d)' = Offered(d),
         Offered(c)' = {}
  PROVE  Page!Next
<1> USE DEF IInv
<1>1. /\ closed' = closed \cup {c} /\ queue' = queue /\ Stopped' = Stopped
      /\ \A d \in Clients : Held(d)' = Held(d)
      BY DEF Shut, Held, Stopped
<1>2. \A d \in Clients : d # c => Due(d)' = Due(d)
      BY <1>1 DEF Due
<1>3. Offered(c) \subseteq {frames} /\ (frames \in Offered(c) => frames \notin Held(c) \cup {hand[c]})
      BY OfferedFacts
<1>4. Due(c)' = Due(c) \/ Due(c)' = Due(c) \ {frames}
  <2>1. CASE frames \in Offered(c)
    <3>1. Offered(c) = {frames} /\ frames \notin Held(c) \cup {hand[c]}
          BY <1>3, <2>1
    <3>2. Due(c)' = Due(c) \ {frames}
          BY <1>1, <3>1 DEF Due
    <3> QED BY <3>2
  <2>2. CASE frames \notin Offered(c)
    <3>1. Offered(c) = {}
          BY <1>3, <2>2
    <3> QED BY <1>1, <3>1 DEF Due
  <2> QED BY <2>1, <2>2
<1>5. \/ [d \in Clients |-> Due(d)]' = [d \in Clients |-> Due(d)]
      \/ [d \in Clients |-> Due(d)]'
         = [[d \in Clients |-> Due(d)] EXCEPT ![c] = @ \ {frames}]
      BY <1>2, <1>4
<1>6. Page!Shut(c)
      BY <1>1, <1>5 DEF Page!Shut, Stopped
<1> QED BY <1>6 DEF Page!Next

(* A backlog push or a relayed call: a direct frame, or a channel closed.  *)
LEMMA EnqueueFeeds ==
  ASSUME IInv, NEW a \in Clients, Enqueue(a)
  PROVE  [Page!Next]_(Page!fvars)
<1> USE DEF IInv
<1>1. /\ Sending(a) /\ UNCHANGED <<hand, pump, frames, last, todo, frame>>
      /\ pc' = [pc EXCEPT ![a] = AfterSend(a)] /\ a \in Actors
      BY DEF Enqueue, Goto, shared, tally, Actors
<1>2. PICK c \in Clients : c = Dest(a)
      BY <1>1 DEF Dest, Sending, Aimed
<1>3. \A b \in Actors : Casting(b)' <=> Casting(b)
      BY <1>1, PlacesFacts DEF Casting, Sending, TypeOK
<1>4. \/ Room(c) /\ Put(c, Direct)
      \/ Full(c) /\ Shut(c)
      BY <1>2 DEF Enqueue
<1>5. CASE Put(c, Direct)
  <2>1. ASSUME NEW d \in Clients
        PROVE  Offered(d)' = Offered(d)
    <3>1. {b \in Actors : Casting(b) /\ d \in todo[b] \ closed}'
          = {b \in Actors : Casting(b) /\ d \in todo[b] \ closed}
          BY <1>1, <1>3, <1>5 DEF Put
    <3> QED BY <1>1, <3>1 DEF Offered
  <2> QED BY <1>1, <1>2, <1>5, <2>1, PutStutters
<1>6. CASE Full(c) /\ Shut(c)
  <2>1. closed' = closed \cup {c}
        BY <1>6 DEF Shut
  <2>2. ASSUME NEW d \in Clients, d # c
        PROVE  Offered(d)' = Offered(d)
    <3>1. {b \in Actors : Casting(b) /\ d \in todo[b] \ closed}'
          = {b \in Actors : Casting(b) /\ d \in todo[b] \ closed}
          BY <1>1, <1>3, <2>1, <2>2
    <3> QED BY <1>1, <3>1 DEF Offered
  <2>3. Offered(c)' = {}
    <3>1. {b \in Actors : Casting(b)' /\ c \in todo'[b] \ closed'} = {}
          BY <2>1
    <3> QED BY <3>1 DEF Offered
  <2> QED BY <1>1, <1>2, <1>6, <2>2, <2>3, ShutShuts DEF Full
<1> QED BY <1>4, <1>5, <1>6

(* The newest broadcast is offered: it moves into the channel, or the      *)
(* channel is closed.                                                      *)
LEMMA OfferFeeds ==
  ASSUME IInv, NEW a \in Actors, NEW c \in todo[a], Offer(a, c)
  PROVE  [Page!Next]_(Page!fvars)
<1> USE DEF IInv
<1>1. /\ Casting(a) /\ c \in Clients /\ c \notin closed /\ frame[a] = frames
      /\ \A b \in Actors : Casting(b) => b = a
      BY DEF Offer, TypeOK, Locked
<1>2. /\ UNCHANGED <<hand, pump, frames, last, frame, pc>>
      /\ todo' = [todo EXCEPT ![a] = todo[a] \ {c}]
      /\ (Room(c) /\ Put(c, frames)) \/ Shut(c)
      BY <1>1 DEF Offer, TryEnqueue, shared, tally
<1>3. \A b \in Actors : Casting(b)' <=> Casting(b)
      BY <1>2 DEF Casting
<1>4. closed' = closed \/ closed' = closed \cup {c}
      BY <1>2 DEF Put, Shut
<1>5. ASSUME NEW d \in Clients, d # c
      PROVE  Offered(d)' = Offered(d)
  <2>1. {b \in Actors : Casting(b) /\ d \in todo[b] \ closed}'
        = {b \in Actors : Casting(b) /\ d \in todo[b] \ closed}
        BY <1>1, <1>2, <1>3, <1>4, <1>5 DEF TypeOK
  <2> QED BY <1>2, <2>1 DEF Offered
<1>6. Offered(c)' = {}
  <2>1. {b \in Actors : Casting(b)' /\ c \in todo'[b] \ closed'} = {}
        BY <1>1, <1>2, <1>3 DEF TypeOK
  <2> QED BY <2>1 DEF Offered
<1>7. Offered(c) = {frames}
      BY <1>1, OfferedFacts
<1>8. CASE Room(c) /\ Put(c, frames)
  <2>1. CASE frames = Direct
    <3>1. FALSE
          BY <1>1, <2>1 DEF NotYet, TypeOK, Frames, Direct
    <3> QED BY <3>1
  <2>2. CASE frames # Direct
        BY <1>1, <1>2, <1>5, <1>6, <1>7, <1>8, <2>2, PutStutters
  <2> QED BY <2>1, <2>2
<1>9. CASE Shut(c)
      BY <1>1, <1>2, <1>5, <1>6, <1>9, ShutShuts
<1> QED BY <1>2, <1>8, <1>9

(* A send to a closed channel panics: those the broadcast was not offered  *)
(* to yet miss it.                                                         *)
LEMMA PanicMisses ==
  ASSUME IInv, NEW a \in Actors, NEW c \in todo[a], OfferPanics(a, c)
  PROVE  Page!Next
<1> USE DEF IInv
<1>1. /\ Casting(a) /\ c \in closed /\ mu' = NoOne /\ a # NoOne
      /\ \A b \in Actors : Casting(b) => b = a
      /\ UNCHANGED <<queue, hand, closed, pump, frames, last>>
      /\ todo[a] \in SUBSET Clients
      BY HubQueueAssumption DEF OfferPanics, EndTask, Locked, TypeOK, Actors, shared, chan, tally
<1>2. pc' = [pc EXCEPT ![a] = Unwound(a)]
      BY DEF OfferPanics, Goto
<1>3. \A b \in Actors : ~Casting(b)'
      BY <1>1, <1>2, PlacesFacts DEF Casting, TypeOK
<1>4. ASSUME NEW d \in Clients
      PROVE  Due(d)' = IF d \in todo[a] THEN Due(d) \ {frames} ELSE Due(d)
  <2>1. Offered(d)' = {}
    <3>1. {b \in Actors : Casting(b)' /\ d \in todo'[b] \ closed'} = {}
          BY <1>3
    <3> QED BY <3>1 DEF Offered
  <2>2. Held(d)' = Held(d) /\ hand'[d] = hand[d] /\ Stopped' = Stopped
        BY <1>1 DEF Held, Stopped
  <2>3. CASE d \in todo[a]
    <3>1. hand[d] < frames /\ \A i \in 1..Len(queue[d]) : queue[d][i] < frames
          BY <1>1, <2>3 DEF NotYet
    <3>2. frames \in Nat /\ ~(frames < frames)
          BY DEF TypeOK
    <3>3. frames \notin Held(d) \cup {hand[d]}
          BY <3>1, <3>2 DEF Held
    <3>4. Offered(d) \subseteq {frames}
          BY OfferedFacts
    <3> QED BY <2>1, <2>2, <2>3, <3>3, <3>4 DEF Due
  <2>4. CASE d \notin todo[a]
    <3>1. Offered(d) = {}
          BY <1>1, <2>4 DEF Offered
    <3> QED BY <2>1, <2>2, <2>4, <3>1 DEF Due
  <2> QED BY <2>3, <2>4
<1>5. [d \in Clients |-> Due(d)]'
      = [d \in Clients |-> IF d \in todo[a] THEN [e \in Clients |-> Due(e)][d] \ {frames}
                           ELSE [e \in Clients |-> Due(e)][d]]
      BY <1>4
<1>6. Page!Miss(todo[a])
      BY <1>1, <1>5 DEF Page!Miss, Stopped
<1> QED BY <1>1, <1>6 DEF Page!Next

(* A broadcast that has been offered to all ends.                          *)
LEMMA EndCastStutters ==
  ASSUME IInv, NEW a \in Actors, EndCast(a)
  PROVE  UNCHANGED Page!fvars
<1> USE DEF IInv
<1>1. /\ Casting(a) /\ todo[a] = {}
      /\ \A b \in Actors : Casting(b) => b = a
      /\ UNCHANGED <<queue, hand, closed, pump, frames, last>>
      BY HubQueueAssumption DEF EndCast, Locked, shared, chan, tally, seen
<1>2. todo' = [todo EXCEPT ![a] = {}]
      BY DEF EndCast, EndTask
<1>3. \A b \in Actors : Casting(b)' => Casting(b)
  <2>1. CASE pc[a] = "parting"
        BY <2>1 DEF EndCast, Goto, Casting, TypeOK
  <2>2. CASE pc[a] # "parting"
        BY <2>2, PlacesFacts DEF EndCast, Goto, Casting, TypeOK
  <2> QED BY <2>1, <2>2
<1> SUFFICES ASSUME NEW d \in Clients PROVE Due(d)' = Due(d)
    BY <1>1, FeedStutters
<1>4. Offered(d) = {}
      BY <1>1 DEF Offered
<1>5. Offered(d)' = {}
  <2>1. {b \in Actors : Casting(b)' /\ d \in todo'[b] \ closed'} = {}
        BY <1>1, <1>2, <1>3 DEF TypeOK
  <2> QED BY <2>1 DEF Offered
<1> QED BY <1>1, <1>4, <1>5 DEF Due, Held, Stopped

(* The pump takes a frame in its hand: it is still on its way.             *)
LEMMA TakeStutters ==
  ASSUME IInv, NEW c \in Clients, Take(c)
  PROVE  UNCHANGED Page!fvars
<1> USE DEF IInv
<1>1. /\ queue \in [Clients -> Seq(Nat)] /\ queue[c] # << >> /\ hand[c] = -1
      /\ hand' = [hand EXCEPT ![c] = Head(queue[c])]
      /\ queue' = [queue EXCEPT ![c] = Tail(queue[c])]
      /\ hand \in [Clients -> Nat \cup {-1}]
      /\ UNCHANGED <<closed, pump, frames, last, pc, todo, frame>>
      BY DEF Take, Idle, TypeOK, shared, task, tally, seen
<1> SUFFICES ASSUME NEW d \in Clients PROVE Due(d)' = Due(d)
    BY <1>1, FeedStutters
<1>2. Offered(d)' = Offered(d) /\ Stopped' = Stopped
      BY <1>1 DEF Offered, Casting, Stopped
<1>3. queue[d] \in Seq(Nat)
      BY <1>1
<1>4. CASE d # c
  <2>1. queue'[d] = queue[d] /\ hand'[d] = hand[d]
        BY <1>1, <1>4
  <2> QED BY <1>2, <1>3, <2>1, HeldFacts DEF Due
<1>5. CASE d = c
  <2>1. queue'[d] = Tail(queue[d]) /\ queue[d] # << >> /\ hand'[d] = Head(queue[d])
        BY <1>1, <1>5
  <2>2. Held(d) = Held(d)' \cup {Head(queue[d])}
        BY <1>3, <2>1, HeldFacts
  <2> QED BY <1>1, <1>2, <1>5, <2>1, <2>2 DEF Due
<1> QED BY <1>4, <1>5

(* The pump writes: a direct frame is none of the feed's, a broadcast is   *)
(* shown, and it is the oldest of those on their way to the page.          *)
LEMMA WriteShows ==
  ASSUME IInv, NEW c \in Clients, Write(c)
  PROVE  [Page!Next]_(Page!fvars)
<1> USE DEF IInv
<1>1. /\ pump[c] = "running" /\ hand[c] \in Nat /\ hand[c] # -1 /\ hand[c] <= frames
      /\ hand' = [hand EXCEPT ![c] = -1]
      /\ last' = [last EXCEPT ![c] = IF hand[c] = Direct THEN last[c] ELSE hand[c]]
      /\ UNCHANGED <<closed, queue, pump, frames, pc, todo, frame>>
      /\ hand \in [Clients -> Nat \cup {-1}] /\ last \in [Clients -> 0..frames]
      BY DEF Write, TypeOK, Frames, Numbered, shared, chan, task, tally
<1>2. /\ \A d \in Clients : Offered(d)' = Offered(d) /\ Held(d)' = Held(d)
      /\ Stopped' = Stopped
      BY <1>1 DEF Offered, Casting, Held, Stopped
<1>3. \A d \in Clients : d # c => Due(d)' = Due(d)
      BY <1>1, <1>2 DEF Due
<1>4. CASE hand[c] = Direct
  <2>1. Due(c)' = Due(c)
        BY <1>1, <1>2, <1>4 DEF Due, Direct
  <2>2. last' = last
        BY <1>1, <1>4
  <2>3. UNCHANGED Page!fvars
        BY <1>1, <1>3, <2>1, <2>2, FeedStutters
  <2> QED BY <2>3
<1>5. CASE hand[c] # Direct
  <2>1. /\ hand[c] > 0 /\ c \notin Stopped /\ hand[c] \in Due(c)
        BY <1>1, <1>5 DEF Direct, Stopped, Due
  <2>2. ASSUME NEW f \in Held(c), f \notin {Direct, -1}
        PROVE  hand[c] < f
    <3>1. PICK i \in 1..Len(queue[c]) : f = queue[c][i]
          BY DEF Held
    <3>2. f \in Nat
          BY OfferedFacts
    <3> QED BY <2>1, <2>2, <3>1, <3>2 DEF Numbered, Direct
  <2>3. ASSUME NEW f \in Offered(c)
        PROVE  hand[c] < f
    <3>1. f = frames /\ frames \in Nat /\ frames # hand[c]
          BY OfferedFacts
    <3> QED BY <1>1, <3>1
  <2>4. \A f \in Due(c) : hand[c] <= f
    <3> SUFFICES ASSUME NEW f \in Due(c) PROVE hand[c] <= f
        OBVIOUS
    <3>1. f = hand[c] \/ f \in Offered(c) \/ (f \in Held(c) /\ f \notin {Direct, -1})
          BY <2>1 DEF Due
    <3>2. Offered(c) \subseteq Nat /\ Held(c) \subseteq Nat
          BY OfferedFacts
    <3> QED BY <1>1, <2>2, <2>3, <3>1, <3>2
  <2>5. hand[c] \notin Held(c) \cup Offered(c)
    <3>1. ~(hand[c] < hand[c])
          BY <1>1
    <3>2. hand[c] \notin {Direct, -1}
          BY <1>1, <1>5
    <3> QED BY <2>2, <2>3, <3>1, <3>2
  <2>6. Due(c)' = Due(c) \ {hand[c]}
        BY <1>1, <1>2, <2>1, <2>5 DEF Due
  <2>7. [d \in Clients |-> Due(d)]'
        = [[d \in Clients |-> Due(d)] EXCEPT ![c] = @ \ {hand[c]}]
        BY <1>3, <2>6
  <2>8. last' = [last EXCEPT ![c] = hand[c]]
        BY <1>1, <1>5
  <2>9. Page!Show(c)
    <3>1. [d \in Clients |-> Due(d)][c] = Due(c)
          OBVIOUS
    <3>2. UNCHANGED <<frames, closed, Stopped>>
          BY <1>1, <1>2
    <3> QED BY <2>1, <2>4, <2>7, <2>8, <3>1, <3>2 DEF Page!Show, Stopped
  <2> QED BY <2>9 DEF Page!Next
<1> QED BY <1>4, <1>5

(* The pump stops: the page leaves, and nothing is due to it any more.     *)
LEMMA PumpStopsLeaves ==
  ASSUME IInv, NEW c \in Clients, PumpStops(c)
  PROVE  Page!Next
<1> USE DEF IInv
<1>1. /\ pump' = [pump EXCEPT ![c] = "done"] /\ pump \in [Clients -> {"off", "running", "done"}]
      /\ hand' = [hand EXCEPT ![c] = -1] /\ hand \in [Clients -> Nat \cup {-1}]
      /\ UNCHANGED <<closed, queue, frames, last, pc, todo, frame>>
      BY DEF PumpStops, TypeOK, chan, task, tally, seen
<1>2. Stopped' = Stopped \cup {c}
      BY <1>1 DEF Stopped
<1>3. \A d \in Clients : Offered(d)' = Offered(d) /\ Held(d)' = Held(d)
      BY <1>1 DEF Offered, Casting, Held
<1>4. Due(c)' = {} /\ \A d \in Clients : d # c => Due(d)' = Due(d)
      BY <1>1, <1>2, <1>3 DEF Due
<1>5. [d \in Clients |-> Due(d)]' = [[d \in Clients |-> Due(d)] EXCEPT ![c] = {}]
      BY <1>4
<1>6. Page!Leave(c)
      BY <1>1, <1>2, <1>5 DEF Page!Leave, Stopped
<1> QED BY <1>6 DEF Page!Next

(* The remaining actions of readers and requests do not touch the feed.    *)
LEMMA OtherStutters ==
  ASSUME IInv, NEW a \in Actors,
         \/ /\ a \in Clients
            /\ \/ Hello(a) \/ Lose(a) \/ EnqueuePanics(a) \/ ReadFails(a) \/ Leave(a)
               \/ Hangup(a) \/ \E t \in Clients : Relay(a, t)
         \/ Post(a) \/ ReadOnline(a)
  PROVE  UNCHANGED Page!fvars
<1> USE DEF IInv
<1>1. /\ UNCHANGED <<queue, hand, closed, pump, frames, last, frame, todo>>
      /\ pc' = pc \/ \E p \in Places \ {"greeting", "parting", "posting"} :
                        ~Casting(a) /\ pc' = [pc EXCEPT ![a] = p]
  <2>1. CASE a \in Clients /\ (Hello(a) \/ Lose(a) \/ ReadFails(a) \/ Leave(a) \/ Hangup(a))
        BY <2>1 DEF Hello, Lose, ReadFails, Leave, Hangup, Goto, Casting, Places,
                    shared, chan, task, tally, seen
  <2>2. CASE \E t \in Clients : Relay(a, t)
        BY <2>2 DEF Relay, Goto, Casting, Places, shared, chan, task, tally, seen
  <2>3. CASE EnqueuePanics(a)
        BY <2>3, PlacesFacts DEF EnqueuePanics, Goto, Casting, Sending, shared, chan, task, tally, seen
  <2>4. CASE Post(a)
        BY <2>4 DEF Post, Rest, Goto, Casting, Places, shared, chan, task, tally, seen
  <2>5. CASE ReadOnline(a)
        BY <2>5 DEF ReadOnline, Goto, Casting, Places, shared, chan, task, tally, seen
  <2> QED BY <2>1, <2>2, <2>3, <2>4, <2>5
<1>2. \A b \in Actors : Casting(b)' <=> Casting(b)
      BY <1>1 DEF Casting, TypeOK
<1> QED BY <1>1, <1>2, OutsideStutters

(* A socket is accepted; its pump was off and is not done.                 *)
LEMMA AcceptStutters ==
  ASSUME IInv, NEW c \in Clients, Accept(c)
  PROVE  UNCHANGED Page!fvars
<1> USE DEF IInv
<1>1. /\ UNCHANGED <<queue, hand, closed, frames, last, frame, todo>>
      /\ pump' = [pump EXCEPT ![c] = "running"] /\ pump[c] = "off"
      /\ pump \in [Clients -> {"off", "running", "done"}]
      /\ pc' = [pc EXCEPT ![c] = "reading"] /\ pc[c] = "off"
      BY DEF Accept, Goto, TypeOK, chan, task, tally, seen
<1>2. Stopped' = Stopped
      BY <1>1 DEF Stopped
<1>3. \A b \in Actors : Casting(b)' <=> Casting(b)
      BY <1>1 DEF Casting, TypeOK
<1>4. \A d \in Clients : Offered(d)' = Offered(d) /\ Held(d)' = Held(d)
      BY <1>1, <1>3 DEF Offered, Held
<1>5. [d \in Clients |-> Due(d)]' = [d \in Clients |-> Due(d)]
      BY <1>1, <1>2, <1>4 DEF Due
<1> QED BY <1>1, <1>2, <1>5 DEF Page!fvars, Stopped

(* Every step of the hub, its channels and its pumps is a step of the feed *)
(* or none.                                                                *)
LEMMA StepFeeds == IInv /\ [Next]_vars => [Page!Next]_(Page!fvars)
<1> SUFFICES ASSUME IInv, [Next]_vars PROVE [Page!Next]_(Page!fvars)
    OBVIOUS
<1>0. Clients \subseteq Actors
      BY DEF Actors
<1>1. ASSUME NEW c \in Clients, Accept(c) \/ Hello(c) \/ Lose(c) \/ Handle(c) \/ Pump(c)
      PROVE  [Page!Next]_(Page!fvars)
  <2>1. CASE Accept(c)
        BY <2>1, AcceptStutters
  <2>2. CASE Hello(c) \/ Lose(c) \/ EnqueuePanics(c) \/ ReadFails(c) \/ Leave(c) \/ Hangup(c)
        BY <1>0, <2>2, OtherStutters
  <2>3. CASE Enqueue(c)
        BY <2>3, EnqueueFeeds
  <2>4. CASE Pump(c)
        BY <2>4, TakeStutters, WriteShows, PumpStopsLeaves DEF Pump
  <2> QED BY <1>1, <2>1, <2>2, <2>3, <2>4 DEF Handle
<1>2. ASSUME NEW c \in Clients, NEW t \in Clients, Relay(c, t)
      PROVE  [Page!Next]_(Page!fvars)
      BY <1>0, <1>2, OtherStutters
<1>3. ASSUME NEW a \in Actors, Post(a) \/ Cast(a)
      PROVE  [Page!Next]_(Page!fvars)
      BY <1>3, OtherStutters, BeginCastPublishes, EndCastStutters, OfferFeeds, PanicMisses DEF Cast
<1>4. CASE UNCHANGED vars
  <2>1. \A b \in Actors : Casting(b)' <=> Casting(b)
        BY <1>4 DEF Casting, vars
  <2>2. UNCHANGED Page!fvars
        BY <1>4, <2>1, OutsideStutters DEF vars
  <2> QED BY <2>2
<1> QED BY <1>1, <1>2, <1>3, <1>4 DEF Next

(* Hub and channels are well typed: in particular a channel never holds    *)
(* more frames than its capacity.                                          *)
THEOREM TypeCorrectness == Spec => []TypeOK
<1>1. IInv => TypeOK
      BY DEF IInv
<1> QED BY InitIInv, NextIInv, <1>1, PTL DEF Spec

(* Every socket is written broadcasts in the order in which they took      *)
(* Hub.mu, however full its channel and whatever is closed, relayed or     *)
(* panics in between.                                                      *)
THEOREM BroadcastsInOrder == Spec => InOrder
<1>1. IInv /\ [Next]_vars => [\A c \in Clients : last'[c] # last[c] => last'[c] > last[c]]_vars
      BY OnlyForward
<1> QED BY InitIInv, NextIInv, <1>1, PTL DEF Spec, InOrder

(* The hub with its channels and pumps implements the feed: a page whose   *)
(* channel is open misses no broadcast meant for it, short of a panic, and *)
(* is shown each once and in order.                                        *)
THEOREM ImplementsFeed == Spec => FeedSpec
<1>1. Init => Page!Init
  <2> SUFFICES ASSUME Init PROVE Page!Init
      OBVIOUS
  <2>1. Stopped = {}
        BY DEF Init, Stopped
  <2>2. ASSUME NEW c \in Clients PROVE Due(c) = {}
    <3>1. Offered(c) = {}
          BY DEF Init, Offered, Casting
    <3>2. Held(c) = {} /\ hand[c] = -1
      <4>1. queue[c] = << >> /\ hand[c] = -1
            BY DEF Init
      <4>2. 1..Len(queue[c]) = {}
            BY <4>1
      <4> QED BY <4>1, <4>2 DEF Held
    <3> QED BY <3>1, <3>2 DEF Due
  <2> QED BY <2>1, <2>2 DEF Init, Page!Init, Stopped
<1> QED BY InitIInv, NextIInv, StepFeeds, <1>1, PTL DEF Spec, FeedSpec, Page!Spec
=============================================================================
