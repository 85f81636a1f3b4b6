----------------------------- MODULE CallProofs -----------------------------
(***************************************************************************)
(* Proofs about calls, for any users, any contacts and any number of       *)
(* calls.  The invariant follows a description from the connection it      *)
(* belongs to through task, frame, task and pending offer to the           *)
(* connection that takes it as its remote one, and with it who called, or  *)
(* accepted, whom.                                                         *)
(***************************************************************************)
EXTENDS Call, TLAPS

-----------------------------------------------------------------------------
(* The inductive invariant.                                                *)

Made(n, u) == n \in DOMAIN owner /\ owner[n] = u

Agreed(u, p) == <<u, p>> \in agreed

(* What an async function holds on to is the user's own, or was sent by    *)
(* somebody who had agreed to talk to the user.                            *)
TaskOK(u, t) ==
  /\ t.fn \in {"start", "accept"} =>
       /\ t.at \in {"media", "offer", "remote", "answer", "seal"}
       /\ t.peer \in Users /\ Agreed(u, t.peer)
       /\ t.at # "media" => Made(t.sdp, u)
  /\ t.fn \in {"invite", "accepted"} =>
       t.at = "open" /\ t.peer \in Users /\ Made(t.sdp, t.peer) /\ Agreed(t.peer, u)
  /\ t.fn \in {"bye", "reject"} => t.at = "sign" /\ t.peer \in Users
  /\ t.fn = "track" => t.at = "track" /\ Made(t.sdp, u)

FrameOK(u, f) ==
  f.kind \in {"invite", "accept"} => Made(f.sdp, f.from) /\ Agreed(f.from, u)

OfferOK(u, n) == n # 0 => n \in DOMAIN owner /\ Agreed(owner[n], u)

RemoteOK(p) ==
  remote[p] # 0 => remote[p] \in DOMAIN owner /\ Agreed(owner[remote[p]], owner[p])

OwnOpen(u, n, o) == n # 0 => n \in o /\ Made(n, u)

Settles(t, o) == t.at \in {"offer", "remote", "answer", "track"} => t.sdp \in o

(* RingingWillEnd of one page                                              *)
WillEnd(k, ts) ==
  LET Waits(fn, places) == \E t \in ts : t.fn = fn /\ t.at \in places
  IN  /\ k.state = "calling" => \/ k.answerTimer \/ k.lateTimers > 0
                                \/ Waits("start", {"offer", "seal"})
      /\ k.state = "ringing" => k.ringTimer \/ k.mute \/ Waits("accept", {"media", "remote"})

PageOK(u) ==
  /\ OwnOpen(u, ctl[u].pc, open)
  /\ OfferOK(u, ctl[u].offer)
  /\ \A t \in tasks[u] : TaskOK(u, t) /\ Settles(t, open)
  /\ WillEnd(ctl[u], tasks[u])

Pages ==
  /\ ctl \in [Users -> Controllers] /\ tasks \in [Users -> SUBSET Tasks]
  /\ \A u \in Users : PageOK(u)

Mail ==
  /\ inbox \in [Users -> Seq(Frames)]
  /\ \A u \in Users : \A i \in DOMAIN inbox[u] : FrameOK(u, inbox[u][i])

Links ==
  /\ owner \in Seq(Users) /\ remote \in Seq(Nat) /\ Len(remote) = Len(owner)
  /\ \A p \in DOMAIN remote : RemoteOK(p)

Sets ==
  /\ open \subseteq DOMAIN owner /\ local \subseteq DOMAIN owner
  /\ failed \subseteq DOMAIN owner
  /\ calls \in 0..MaxCalls /\ agreed \subseteq Users \X Users

IInv == Pages /\ Mail /\ Links /\ Sets

-----------------------------------------------------------------------------
(* What every step does: connections and agreements are never forgotten.   *)

Grows ==
  /\ \A n \in DOMAIN owner : n \in DOMAIN owner' /\ owner'[n] = owner[n]
  /\ agreed \subseteq agreed'

LEMMA SameGrows == UNCHANGED owner /\ agreed \subseteq agreed' => Grows
  BY DEF Grows

LEMMA TaskKeeps ==
  ASSUME NEW u, NEW t, Grows, TaskOK(u, t)
  PROVE  TaskOK(u, t)'
  BY DEF Grows, TaskOK, Made, Agreed

LEMMA FrameKeeps ==
  ASSUME NEW u, NEW f, Grows, FrameOK(u, f)
  PROVE  FrameOK(u, f)'
  BY DEF Grows, FrameOK, Made, Agreed

LEMMA OfferKeeps ==
  ASSUME NEW u, NEW n, Grows, OfferOK(u, n)
  PROVE  OfferOK(u, n)'
  BY DEF Grows, OfferOK, Agreed

LEMMA MadeKeeps ==
  ASSUME NEW u, NEW n, Grows, Made(n, u)
  PROVE  Made(n, u)'
  BY DEF Grows, Made

LEMMA PageKeeps ==
  ASSUME Pages, Grows, NEW u \in Users, NEW v \in Users, v # u,
         ctl'[v] = ctl[v], tasks'[v] = tasks[v],
         \A n \in open \ open' : owner[n] = u
  PROVE  PageOK(v)'
<1>1. PageOK(v)
  BY DEF Pages
<1>2. ASSUME NEW n, Made(n, v), n \in open PROVE n \in open'
  BY <1>2 DEF Made
<1>3. OwnOpen(v, ctl[v].pc, open)'
  BY <1>1, <1>2, MadeKeeps DEF PageOK, OwnOpen
<1>4. OfferOK(v, ctl[v].offer)'
  BY <1>1, OfferKeeps DEF PageOK
<1>5. ASSUME NEW t \in tasks[v] PROVE TaskOK(v, t)' /\ Settles(t, open')
  <2>1. TaskOK(v, t) /\ Settles(t, open)
    BY <1>1 DEF PageOK
  <2>2. t \in Tasks
    BY DEF Pages
  <2>3. t.at \in {"offer", "remote", "answer", "track"} => Made(t.sdp, v)
    BY <2>1, <2>2 DEF TaskOK, Tasks
  <2> QED
    BY <2>1, <2>3, <1>2, TaskKeeps DEF Settles
<1> QED
  BY <1>1, <1>3, <1>4, <1>5 DEF PageOK, Settles

(* One page changes, the others stay as they are.                          *)
LEMMA PageStep ==
  ASSUME Pages, Grows, NEW u \in Users, NEW k \in Controllers,
         NEW ts \in SUBSET Tasks, NEW o, Become(u, k, ts, o),
         \A n \in open \ o : owner[n] = u,
         OwnOpen(u, k.pc, o)', OfferOK(u, k.offer)',
         \A t \in ts : TaskOK(u, t)',
         WillEnd(k, Alive(ts, o))
  PROVE  Pages'
<1>1. /\ ctl' = [ctl EXCEPT ![u] = k]
      /\ tasks' = [tasks EXCEPT ![u] = Alive(ts, o)]
      /\ open' = o
  BY DEF Become
<1>2. /\ Alive(ts, o) \in SUBSET Tasks
      /\ \A t \in Alive(ts, o) : t \in ts /\ Settles(t, o)
  BY DEF Alive, Settles
<1>3. /\ ctl' \in [Users -> Controllers] /\ tasks' \in [Users -> SUBSET Tasks]
      /\ ctl'[u] = k /\ tasks'[u] = Alive(ts, o)
      /\ \A v \in Users : v # u => ctl'[v] = ctl[v] /\ tasks'[v] = tasks[v]
  BY <1>1, <1>2 DEF Pages
<1>4. PageOK(u)'
  BY <1>1, <1>2, <1>3 DEF PageOK
<1>5. ASSUME NEW v \in Users, v # u PROVE PageOK(v)'
  BY <1>1, <1>3, <1>5, PageKeeps
<1> QED
  BY <1>3, <1>4, <1>5 DEF Pages

LEMMA EndStep ==
  ASSUME Pages, Links, Sets, Grows, NEW u \in Users, NEW k \in Controllers,
         k.pc \in {0, ctl[u].pc}, NEW ts \in SUBSET Tasks,
         \A t \in ts : TaskOK(u, t)', End(u, k, ts)
  PROVE  Pages' /\ open' \subseteq open
<1>1. PICK e, o : Become(u, e, ts, o) /\ e = Ended(k) /\ o = open \ {k.pc}
  BY DEF End
<1>2. e \in Controllers /\ e.pc = 0 /\ e.offer = 0 /\ e.state = "ended"
  BY <1>1 DEF Ended, Controllers
<1>3. \A n \in open \ o : owner[n] = u
  <2>1. 0 \notin open
    BY DEF Links, Sets
  <2> QED
    BY <1>1, <2>1 DEF Pages, PageOK, OwnOpen, Made
<1> QED
  BY <1>1, <1>2, <1>3, PageStep DEF OwnOpen, OfferOK, WillEnd, Become

LEMMA HangUpStep ==
  ASSUME Pages, Links, Sets, Grows, NEW u \in Users, NEW k \in Controllers,
         k.pc \in {0, ctl[u].pc}, NEW ts \in SUBSET Tasks,
         \A t \in ts : TaskOK(u, t)', HangUp(u, k, ts)
  PROVE  Pages' /\ open' \subseteq open
<1>1. CASE Busy(k) /\ k.peer # None
  <2>1. PICK b : b = Task("bye", "sign", k.peer, k.pc)
    OBVIOUS
  <2>2. b \in Tasks /\ k.peer \in Users
    BY <1>1, <2>1 DEF Task, Tasks, Controllers
  <2>3. TaskOK(u, b)'
    BY <2>1, <2>2 DEF Task, TaskOK
  <2>4. PICK s \in SUBSET Tasks : s = ts \cup {b}
    BY <2>2
  <2>5. End(u, k, s)
    BY <1>1, <2>1, <2>4 DEF HangUp
  <2> QED
    BY <2>3, <2>4, <2>5, EndStep
<1>2. CASE ~(Busy(k) /\ k.peer # None)
  <2>1. End(u, k, ts)
    BY <1>2 DEF HangUp
  <2> QED
    BY <2>1, EndStep
<1> QED
  BY <1>1, <1>2

(* The functions of a page wait for nothing new.                           *)
LEMMA KeepStep ==
  ASSUME Pages, Grows, NEW u \in Users, NEW ts \in SUBSET Tasks,
         \A t \in ts : TaskOK(u, t)', Keep(u, ts),
         WillEnd(ctl[u], Alive(ts, open))
  PROVE  Pages' /\ open' = open
<1>1. PICK k, o : k = ctl[u] /\ o = open /\ k \in Controllers
  BY DEF Pages
<1>2. Become(u, k, ts, o) /\ open' = open
  BY <1>1 DEF Keep, Become
<1>3. OwnOpen(u, k.pc, o) /\ OfferOK(u, k.offer)
  BY <1>1 DEF Pages, PageOK
<1>4. OwnOpen(u, k.pc, o)' /\ OfferOK(u, k.offer)'
  BY <1>3, OfferKeeps, MadeKeeps DEF OwnOpen
<1> QED
  BY <1>1, <1>2, <1>4, PageStep

-----------------------------------------------------------------------------
(* Frames.                                                                 *)

LEMMA MailKeeps ==
  ASSUME Mail, Grows, UNCHANGED inbox
  PROVE  Mail'
  BY FrameKeeps DEF Mail

LEMMA MailSent ==
  ASSUME Mail, Grows, NEW p \in Users, NEW f \in Frames, Send(p, f), FrameOK(p, f)'
  PROVE  Mail'
<1>1. CASE UNCHANGED inbox
  BY <1>1, MailKeeps
<1>2. CASE inbox' = [inbox EXCEPT ![p] = Append(inbox[p], f)]
  <2>1. inbox' \in [Users -> Seq(Frames)]
    BY <1>2 DEF Mail
  <2>2. ASSUME NEW u \in Users, NEW i \in DOMAIN inbox'[u]
        PROVE  FrameOK(u, inbox[u][i])'
    <3>1. CASE u = p /\ i = Len(inbox[p]) + 1
      BY <1>2, <3>1 DEF Mail
    <3>2. CASE ~(u = p /\ i = Len(inbox[p]) + 1)
      <4>1. i \in DOMAIN inbox[u] /\ inbox'[u][i] = inbox[u][i]
        BY <1>2, <2>2, <3>2 DEF Mail
      <4>2. PICK g : g = inbox[u][i]
        OBVIOUS
      <4> QED
        BY <4>1, <4>2, FrameKeeps DEF Mail
    <3> QED
      BY <3>1, <3>2
  <2> QED
    BY <2>1, <2>2 DEF Mail
<1> QED
  BY <1>1, <1>2 DEF Send

LEMMA MailTaken ==
  ASSUME Mail, Grows, NEW u \in Users, inbox[u] # << >>,
         inbox' = [inbox EXCEPT ![u] = Tail(inbox[u])]
  PROVE  Mail' /\ Head(inbox[u]) \in Frames /\ FrameOK(u, Head(inbox[u]))
<1>1. inbox' \in [Users -> Seq(Frames)] /\ Head(inbox[u]) \in Frames
  BY DEF Mail
<1>2. FrameOK(u, Head(inbox[u]))
  <2>1. 1 \in DOMAIN inbox[u] /\ Head(inbox[u]) = inbox[u][1]
    BY DEF Mail
  <2> QED
    BY <2>1 DEF Mail
<1>3. ASSUME NEW v \in Users, NEW i \in DOMAIN inbox'[v]
      PROVE  FrameOK(v, inbox[v][i])'
  <2>1. PICK j \in DOMAIN inbox[v] : inbox'[v][i] = inbox[v][j]
    <3>1. CASE v = u
      <4>1. i + 1 \in DOMAIN inbox[u] /\ inbox'[u][i] = inbox[u][i + 1]
        BY <3>1 DEF Mail
      <4> QED
        BY <3>1, <4>1
    <3>2. CASE v # u
      BY <3>2 DEF Mail
    <3> QED
      BY <3>1, <3>2
  <2>2. PICK g : g = inbox[v][j]
    OBVIOUS
  <2> QED
    BY <2>1, <2>2, FrameKeeps DEF Mail
<1> QED
  BY <1>1, <1>2, <1>3 DEF Mail

-----------------------------------------------------------------------------
(* Connections and their descriptions.                                     *)

LEMMA LinksKeep ==
  ASSUME Links, UNCHANGED <<owner, remote>>, Grows
  PROVE  Links'
  BY DEF Links, RemoteOK, Agreed, Grows

LEMMA LinksDescribed ==
  ASSUME Links, NEW n \in DOMAIN owner, NEW m \in DOMAIN owner,
         Agreed(owner[m], owner[n]),
         remote' = [remote EXCEPT ![n] = m], UNCHANGED <<owner, agreed>>
  PROVE  Links'
<1>1. /\ remote' \in Seq(Nat) /\ Len(remote') = Len(owner') /\ owner' = owner
      /\ DOMAIN remote' = DOMAIN remote /\ n \in DOMAIN remote
      /\ remote'[n] = m /\ \A p \in DOMAIN remote : p # n => remote'[p] = remote[p]
  BY DEF Links
<1>2. ASSUME NEW p \in DOMAIN remote' PROVE RemoteOK(p)'
  BY <1>1, <1>2 DEF Links, RemoteOK, Agreed
<1> QED
  BY <1>1, <1>2 DEF Links

LEMMA LinksMade ==
  ASSUME Links, NEW u \in Users, NEW m \in Nat, OfferOK(u, m), NEW c, c = NewPC,
         owner' = Append(owner, u), remote' = Append(remote, m), UNCHANGED agreed
  PROVE  Links' /\ Grows /\ Made(c, u)' /\ c \in Nat /\ c # 0
<1>1. /\ owner' \in Seq(Users) /\ remote' \in Seq(Nat) /\ Len(remote') = Len(owner')
      /\ c \in DOMAIN owner' /\ owner'[c] = u /\ remote'[c] = m
      /\ c \in Nat /\ c # 0
      /\ \A n \in DOMAIN owner : n \in DOMAIN owner' /\ owner'[n] = owner[n]
      /\ \A n \in DOMAIN remote : n \in DOMAIN owner /\ remote'[n] = remote[n]
      /\ \A n \in DOMAIN remote' : n \in DOMAIN remote \/ n = c
  BY DEF Links, NewPC
<1>2. Grows
  BY <1>1 DEF Grows
<1>3. ASSUME NEW n \in DOMAIN remote' PROVE RemoteOK(n)'
  <2>1. CASE n \in DOMAIN remote
    BY <1>1, <2>1 DEF Links, RemoteOK, Agreed
  <2>2. CASE n = c
    BY <1>1, <2>2 DEF OfferOK, RemoteOK, Agreed
  <2> QED
    BY <1>1, <2>1, <2>2
<1> QED
  BY <1>1, <1>2, <1>3 DEF Links, Made

-----------------------------------------------------------------------------
(* The user's actions.                                                     *)

LEMMA InitIInv == Init => IInv
  BY CallAssumption
     DEF Init, Fresh, IInv, Pages, PageOK, OwnOpen, OfferOK, WillEnd, Controllers,
         Mail, Links, Sets

LEMMA CallKeeps ==
  ASSUME IInv, NEW u \in Users, NEW p \in Users, Call(u, p)
  PROVE  IInv'
<1>1. PICK k, ts, o :
        /\ Become(u, k, ts, o) /\ o = open
        /\ k = [ctl[u] EXCEPT !.peer = p, !.dialing = TRUE]
        /\ ts = tasks[u] \cup {Task("start", "media", p, calls + 1)}
  BY DEF Call
<1>2. /\ ~Busy(ctl[u]) /\ calls < MaxCalls /\ calls' = calls + 1
      /\ agreed' = agreed \cup {<<u, p>>}
      /\ UNCHANGED <<inbox, owner, local, remote, failed>>
  BY DEF Call
<1>3. Grows
  BY <1>2, SameGrows
<1>4. PICK t : t = Task("start", "media", p, calls + 1)
  OBVIOUS
<1>5. t \in Tasks /\ TaskOK(u, t)'
  <2>1. calls + 1 \in Nat /\ p \in Users
    BY CallAssumption DEF IInv, Sets
  <2>2. t \in Tasks
    BY <1>4, <2>1 DEF Task, Tasks
  <2> QED
    BY <1>2, <1>4, <2>2 DEF Task, TaskOK, Agreed
<1>6. k \in Controllers /\ k.pc = ctl[u].pc /\ k.offer = ctl[u].offer /\ k.state = ctl[u].state
  BY <1>1 DEF IInv, Pages, Controllers
<1>7. ts \in SUBSET Tasks /\ \A x \in ts : TaskOK(u, x)'
  BY <1>1, <1>3, <1>4, <1>5, TaskKeeps DEF IInv, Pages, PageOK
<1>8. OwnOpen(u, k.pc, o)' /\ OfferOK(u, k.offer)'
  BY <1>1, <1>3, <1>6, MadeKeeps, OfferKeeps DEF IInv, Pages, PageOK, OwnOpen
<1>9. WillEnd(k, Alive(ts, o))
  BY <1>2, <1>6 DEF Busy, WillEnd
<1>10. Pages'
  BY <1>1, <1>3, <1>6, <1>7, <1>8, <1>9, PageStep DEF IInv
<1>11. Sets'
  BY <1>1, <1>2, CallAssumption DEF IInv, Sets, Become
<1> QED
  BY <1>2, <1>3, <1>10, <1>11, MailKeeps, LinksKeep DEF IInv

(* A call ends: controller u, with fields k, cleans up, and may say so.    *)
LEMMA Ending ==
  ASSUME IInv, NEW u \in Users, NEW k \in Controllers, k.pc \in {0, ctl[u].pc},
         NEW ts \in SUBSET Tasks, \A t \in ts : TaskOK(u, t),
         End(u, k, ts) \/ HangUp(u, k, ts), Mail',
         UNCHANGED <<owner, local, remote, calls, agreed>>, failed' \subseteq DOMAIN owner
  PROVE  IInv'
<1>1. Grows
  BY SameGrows
<1>2. Pages' /\ open' \subseteq open
  BY <1>1, TaskKeeps, EndStep, HangUpStep DEF IInv
<1>3. Links' /\ Sets'
  BY <1>1, <1>2, LinksKeep DEF IInv, Sets
<1> QED
  BY <1>2, <1>3 DEF IInv

LEMMA SameMail == ASSUME IInv, UNCHANGED <<inbox, owner, agreed>> PROVE Mail'
  BY SameGrows, MailKeeps DEF IInv

LEMMA TasksOK ==
  ASSUME IInv, NEW u \in Users
  PROVE  /\ ctl[u] \in Controllers /\ tasks[u] \in SUBSET Tasks
         /\ \A t \in tasks[u] : TaskOK(u, t)
  BY DEF IInv, Pages, PageOK

LEMMA AcceptKeeps ==
  ASSUME IInv, NEW u \in Users, Accept(u)
  PROVE  IInv'
<1>1. PICK k, ts, o, t :
        /\ Become(u, k, ts, o) /\ o = open
        /\ k = [ctl[u] EXCEPT !.ringTimer = FALSE, !.mute = FALSE]
        /\ t = Task("accept", "media", ctl[u].peer, ctl[u].offer)
        /\ ts = tasks[u] \cup {t}
  BY DEF Accept
<1>2. /\ Ringing(ctl[u]) /\ ctl[u].peer # None
      /\ agreed' = agreed \cup {<<u, ctl[u].peer>>}
      /\ UNCHANGED <<inbox, owner, local, remote, failed, calls>>
  BY DEF Accept
<1>3. Grows
  BY <1>2, SameGrows
<1>4. ctl[u].peer \in Users /\ ctl[u].offer \in Nat
  BY <1>2, TasksOK DEF Controllers
<1>5. t \in Tasks /\ TaskOK(u, t)'
  <2>1. t \in Tasks
    BY <1>1, <1>4 DEF Task, Tasks
  <2> QED
    BY <1>1, <1>2, <1>4, <2>1 DEF Task, TaskOK, Agreed
<1>6. k \in Controllers /\ k.pc = ctl[u].pc /\ k.offer = ctl[u].offer /\ k.state = "ringing"
  BY <1>1, <1>2, TasksOK DEF Controllers, Ringing
<1>7. ts \in SUBSET Tasks /\ \A x \in ts : TaskOK(u, x)'
  BY <1>1, <1>3, <1>5, TaskKeeps, TasksOK
<1>8. OwnOpen(u, k.pc, o)' /\ OfferOK(u, k.offer)'
  BY <1>1, <1>3, <1>6, MadeKeeps, OfferKeeps DEF IInv, Pages, PageOK, OwnOpen
<1>9. WillEnd(k, Alive(ts, o))
  BY <1>1, <1>6 DEF WillEnd, Alive, Task
<1>10. Pages'
  BY <1>1, <1>3, <1>6, <1>7, <1>8, <1>9, PageStep DEF IInv
<1>11. Sets'
  BY <1>1, <1>2, <1>4 DEF IInv, Sets, Become
<1> QED
  BY <1>2, <1>3, <1>10, <1>11, MailKeeps, LinksKeep DEF IInv

LEMMA RejectKeeps ==
  ASSUME IInv, NEW u \in Users, Reject(u)
  PROVE  IInv'
<1>1. PICK k, ts, t :
        /\ End(u, k, ts) /\ k = ctl[u]
        /\ t = Refuse(k.peer, k.offer) /\ ts = tasks[u] \cup {t}
  BY DEF Reject
<1>2. k.peer \in Users /\ k.offer \in Nat
  BY <1>1, TasksOK DEF Reject, Controllers
<1>3. t \in Tasks
  BY <1>1, <1>2 DEF Refuse, Task, Tasks
<1>4. TaskOK(u, t)
  BY <1>1, <1>2, <1>3 DEF Refuse, Task, TaskOK
<1> QED
  BY <1>1, <1>3, <1>4, TasksOK, SameMail, Ending DEF Reject, IInv, Sets

LEMMA HangupKeeps ==
  ASSUME IInv, NEW u \in Users, Hangup(u)
  PROVE  IInv'
<1>1. PICK k, ts : HangUp(u, k, ts) /\ k = ctl[u] /\ ts = tasks[u]
  BY DEF Hangup
<1> QED
  BY <1>1, TasksOK, SameMail, Ending DEF Hangup, IInv, Sets

-----------------------------------------------------------------------------
(* start and accept.                                                       *)

LEMMA RestOK ==
  ASSUME IInv, NEW u \in Users, NEW t \in tasks[u]
  PROVE  /\ t \in Tasks /\ TaskOK(u, t) /\ Settles(t, open)
         /\ Rest(u, t) \in SUBSET Tasks /\ \A x \in Rest(u, t) : TaskOK(u, x)
  BY DEF IInv, Pages, PageOK, Rest

(* start and accept go on to place at, with the connection n they made.    *)
LEMMA OnwardOK ==
  ASSUME IInv, NEW u \in Users, NEW t \in tasks[u], Grows,
         t.fn \in {"start", "accept"}, NEW at \in {"offer", "remote", "answer", "seal"},
         NEW n \in Nat, Made(n, u)', NEW ts, ts = Onward(u, t, at, n)
  PROVE  \E s \in ts : /\ s.at = at /\ s.sdp = n /\ s.fn = t.fn
                       /\ ts = Rest(u, t) \cup {s}
                       /\ ts \in SUBSET Tasks /\ \A x \in ts : TaskOK(u, x)'
<1>1. PICK s : s = [t EXCEPT !.at = at, !.sdp = n]
  OBVIOUS
<1>2. t \in Tasks /\ TaskOK(u, t)'
  BY RestOK, TaskKeeps
<1>3. s \in Tasks /\ s.at = at /\ s.sdp = n /\ s.fn = t.fn /\ s.peer = t.peer
  BY <1>1, <1>2 DEF Tasks
<1>4. TaskOK(u, s)'
  BY <1>2, <1>3 DEF TaskOK
<1>5. \A x \in Rest(u, t) : TaskOK(u, x)'
  BY RestOK, TaskKeeps
<1> QED
  BY <1>1, <1>3, <1>4, <1>5, RestOK DEF Onward

LEMMA StartMediaKeeps ==
  ASSUME IInv, NEW u \in Users, NEW t \in tasks[u], StartMedia(u, t)
  PROVE  IInv'
<1>1. PICK c, m, k, ts, o :
        /\ c = NewPC /\ m = 0 /\ Become(u, k, ts, o)
        /\ k = [ctl[u] EXCEPT !.pc = c, !.state = "calling", !.dialing = FALSE]
        /\ ts = Onward(u, t, "offer", c) /\ o = open \cup {c}
  BY DEF StartMedia
<1>2. /\ owner' = Append(owner, u) /\ remote' = Append(remote, m)
      /\ UNCHANGED <<inbox, local, failed, calls, agreed>> /\ t.fn = "start"
  BY <1>1 DEF StartMedia
<1>3. m \in Nat /\ OfferOK(u, m)
  BY <1>1, TasksOK DEF IInv, Pages, PageOK, OfferOK, Controllers
<1>4. Links' /\ Grows /\ Made(c, u)' /\ c \in Nat /\ c # 0
  BY <1>1, <1>2, <1>3, LinksMade DEF IInv
<1>5. "offer" \in {"offer", "remote", "answer", "seal"} /\ t.fn \in {"start", "accept"}
  BY <1>2
<1>6. PICK s \in ts :
        /\ s.at = "offer" /\ s.sdp = c /\ s.fn = t.fn
        /\ ts \in SUBSET Tasks /\ \A x \in ts : TaskOK(u, x)'
  BY <1>1, <1>4, <1>5, OnwardOK
<1>7. k \in Controllers /\ k.pc = c /\ k.state = "calling" /\ k.offer = ctl[u].offer
  BY <1>1, <1>4, TasksOK DEF Controllers
<1>8. OwnOpen(u, k.pc, o)' /\ OfferOK(u, k.offer)'
  <2>1. OfferOK(u, k.offer)
    BY <1>7 DEF IInv, Pages, PageOK, OfferOK
  <2> QED
    BY <1>1, <1>4, <1>7, <2>1, OfferKeeps DEF OwnOpen
<1>9. WillEnd(k, Alive(ts, o))
  BY <1>1, <1>2, <1>6, <1>7 DEF WillEnd, Alive
<1>10. Pages'
  <2>1. \A n \in open \ o : owner[n] = u
    BY <1>1
  <2> QED
    BY <1>1, <1>4, <1>6, <1>7, <1>8, <1>9, <2>1, PageStep DEF IInv
<1>11. Sets'
  BY <1>1, <1>2, <1>4 DEF IInv, Sets, Become, Grows, Made
<1> QED
  BY <1>2, <1>4, <1>10, <1>11, MailKeeps DEF IInv

LEMMA AcceptMediaKeeps ==
  ASSUME IInv, NEW u \in Users, NEW t \in tasks[u], AcceptMedia(u, t)
  PROVE  IInv'
<1>1. PICK c, m, k, ts, o :
        /\ c = NewPC /\ m = ctl[u].offer /\ Become(u, k, ts, o)
        /\ k = [ctl[u] EXCEPT !.pc = c]
        /\ ts = Onward(u, t, "remote", c) /\ o = open \cup {c}
  BY DEF AcceptMedia
<1>2. /\ owner' = Append(owner, u) /\ remote' = Append(remote, m)
      /\ UNCHANGED <<inbox, local, failed, calls, agreed>>
      /\ t.fn = "accept" /\ t.at = "media"
  BY <1>1 DEF AcceptMedia
<1>3. m \in Nat /\ OfferOK(u, m)
  BY <1>1, TasksOK DEF IInv, Pages, PageOK, OfferOK, Controllers
<1>4. Links' /\ Grows /\ Made(c, u)' /\ c \in Nat /\ c # 0
  BY <1>1, <1>2, <1>3, LinksMade DEF IInv
<1>5. "remote" \in {"offer", "remote", "answer", "seal"} /\ t.fn \in {"start", "accept"}
  BY <1>2
<1>6. PICK s \in ts :
        /\ s.at = "remote" /\ s.sdp = c /\ s.fn = t.fn /\ ts = Rest(u, t) \cup {s}
        /\ ts \in SUBSET Tasks /\ \A x \in ts : TaskOK(u, x)'
  BY <1>1, <1>4, <1>5, OnwardOK
<1>7. /\ k \in Controllers /\ k.pc = c /\ k.state = ctl[u].state /\ k.offer = ctl[u].offer
      /\ k.answerTimer = ctl[u].answerTimer /\ k.ringTimer = ctl[u].ringTimer
      /\ k.lateTimers = ctl[u].lateTimers
  BY <1>1, <1>4, TasksOK DEF Controllers
<1>8. OwnOpen(u, k.pc, o)' /\ OfferOK(u, k.offer)'
  <2>1. OfferOK(u, k.offer)
    BY <1>7 DEF IInv, Pages, PageOK, OfferOK
  <2> QED
    BY <1>1, <1>4, <1>7, <2>1, OfferKeeps DEF OwnOpen
<1>9. WillEnd(k, Alive(ts, o))
  <2>1. WillEnd(ctl[u], tasks[u]) /\ \A x \in tasks[u] : Settles(x, open)
    BY DEF IInv, Pages, PageOK
  <2>2. \A x \in tasks[u] : x = t \/ x \in Alive(ts, o)
    BY <1>1, <1>6, <2>1 DEF Rest, Alive, Settles
  <2>3. s \in Alive(ts, o) /\ s.fn = "accept"
    BY <1>1, <1>2, <1>6 DEF Alive
  <2> QED
    BY <1>2, <1>6, <1>7, <2>1, <2>2, <2>3 DEF WillEnd
<1>10. Pages'
  <2>1. Become(u, k, ts, o) /\ \A n \in open \ o : owner[n] = u
    BY <1>1
  <2>2. ts \in SUBSET Tasks /\ \A x \in ts : TaskOK(u, x)'
    BY <1>6
  <2>3. k \in Controllers
    BY <1>7
  <2> QED
    BY <1>4, <1>8, <1>9, <2>1, <2>2, <2>3, PageStep DEF IInv
<1>11. Sets'
  BY <1>1, <1>2, <1>4 DEF IInv, Sets, Become, Grows, Made
<1> QED
  BY <1>2, <1>4, <1>10, <1>11, MailKeeps DEF IInv

(* Whatever connection makes the answer is the page's own.                 *)
LEMMA OfferTakenKeeps ==
  ASSUME IInv, NEW u \in Users, NEW t \in tasks[u], OfferTaken(u, t)
  PROVE  IInv'
<1>1. PICK k : /\ k = [ctl[u] EXCEPT !.offer = 0, !.state = "connecting", !.dialing = FALSE]
               /\ IF Answerable(k.pc) THEN Become(u, k, Onward(u, t, "answer", k.pc), open)
                  ELSE HangUp(u, k, Rest(u, t))
  BY DEF OfferTaken
<1>2. /\ t.at = "remote"
      /\ UNCHANGED <<inbox, owner, local, remote, failed, calls, agreed>>
  BY DEF OfferTaken
<1>3. /\ k \in Controllers /\ k.pc = ctl[u].pc /\ k.offer = 0
      /\ k.state = "connecting"
  BY <1>1, TasksOK DEF Controllers
<1>4. CASE ~Answerable(k.pc)
  <2>1. PICK ts : HangUp(u, k, ts) /\ ts = Rest(u, t)
    BY <1>1, <1>4
  <2> QED
    BY <1>2, <1>3, <2>1, RestOK, SameMail, Ending DEF IInv, Sets
<1>5. CASE Answerable(k.pc)
  <2>1. PICK n, ts, o : /\ Become(u, k, ts, o) /\ o = open /\ n = k.pc
                        /\ ts = Onward(u, t, "answer", n)
    BY <1>1, <1>5
  <2>2. Grows
    BY <1>2, SameGrows
  <2>3. n \in Nat /\ n # 0 /\ Made(n, u) /\ n \in open
    BY <1>3, <1>5, <2>1 DEF Answerable, IInv, Pages, PageOK, OwnOpen, Controllers
  <2>4. Made(n, u)' /\ t.fn \in {"start", "accept"}
    BY <1>2, <2>2, <2>3, RestOK, MadeKeeps DEF TaskOK, Tasks
  <2>5. "answer" \in {"offer", "remote", "answer", "seal"}
    OBVIOUS
  <2>6. ts \in SUBSET Tasks /\ \A x \in ts : TaskOK(u, x)'
    BY <2>1, <2>2, <2>3, <2>4, <2>5, OnwardOK
  <2>7. OwnOpen(u, k.pc, o)' /\ OfferOK(u, k.offer)'
    BY <1>3, <2>1, <2>3, <2>4 DEF OwnOpen, OfferOK
  <2>8. WillEnd(k, Alive(ts, o))
    BY <1>3 DEF WillEnd
  <2>9. Pages' /\ open' = open
    BY <2>1, <2>2, <1>3, <2>6, <2>7, <2>8, PageStep DEF IInv, Become
  <2>10. Sets'
    BY <1>2, <2>9 DEF IInv, Sets
  <2> QED
    BY <1>2, <2>2, <2>9, <2>10, MailKeeps, LinksKeep DEF IInv
<1> QED
  BY <1>4, <1>5

LEMMA AcceptLateKeeps ==
  ASSUME IInv, NEW u \in Users, NEW t \in tasks[u], AcceptLate(u, t)
  PROVE  IInv'
<1>1. PICK k, ts : HangUp(u, k, ts) /\ k = [ctl[u] EXCEPT !.pc = 0] /\ ts = Rest(u, t)
  BY DEF AcceptLate
<1>2. k \in Controllers /\ k.pc = 0
  BY <1>1, TasksOK DEF Controllers
<1> QED
  BY <1>1, <1>2, RestOK, SameMail, Ending DEF AcceptLate, IInv, Sets

LEMMA AbortKeeps ==
  ASSUME IInv, NEW u \in Users, NEW t \in tasks[u], Abort(u, t),
         UNCHANGED <<inbox, owner, local, remote, failed, calls, agreed>>
  PROVE  IInv'
<1>1. PICK k, ts : /\ End(u, k, ts) \/ HangUp(u, k, ts)
                   /\ k = ctl[u] /\ ts = Rest(u, t)
  BY DEF Abort
<1> QED
  BY <1>1, TasksOK, RestOK, SameMail, Ending DEF IInv, Sets

LEMMA DescribeKeeps ==
  ASSUME IInv, NEW u \in Users, NEW t \in tasks[u], Describe(u, t)
  PROVE  IInv'
<1>1. CASE ~(ctl[u].pc = t.sdp /\ t.sdp \notin local)
  BY <1>1, AbortKeeps DEF Describe
<1>2. CASE ctl[u].pc = t.sdp /\ t.sdp \notin local
  <2>1. PICK ts : /\ Keep(u, ts) /\ ts = Onward(u, t, "seal", t.sdp)
                  /\ t.at \in {"offer", "answer"} /\ local' = local \cup {t.sdp}
                  /\ UNCHANGED <<inbox, owner, remote, failed, calls, agreed>>
    BY <1>2 DEF Describe
  <2>2. Grows
    BY <2>1, SameGrows
  <2>3. t \in Tasks /\ TaskOK(u, t) /\ Settles(t, open) /\ t.sdp \in Nat
    BY RestOK DEF Tasks
  <2>4. t.fn \in {"start", "accept"} /\ Made(t.sdp, u) /\ Made(t.sdp, u)'
    BY <2>1, <2>2, <2>3, MadeKeeps DEF TaskOK, Tasks
  <2>5. "seal" \in {"offer", "remote", "answer", "seal"}
    OBVIOUS
  <2>6. PICK s \in ts :
          /\ s.at = "seal" /\ s.fn = t.fn /\ ts = Rest(u, t) \cup {s}
          /\ ts \in SUBSET Tasks /\ \A x \in ts : TaskOK(u, x)'
    BY <2>1, <2>2, <2>3, <2>4, <2>5, OnwardOK
  <2>7. WillEnd(ctl[u], Alive(ts, open))
    <3>1. WillEnd(ctl[u], tasks[u]) /\ \A x \in tasks[u] : Settles(x, open)
      BY DEF IInv, Pages, PageOK
    <3>2. t.at \notin {"media", "remote"} /\ \A x \in tasks[u] : x = t \/ x \in Alive(ts, open)
      BY <2>1, <2>6, <3>1 DEF Rest, Alive, Settles
    <3>3. s \in Alive(ts, open)
      BY <2>6 DEF Alive
    <3> QED
      BY <2>1, <2>6, <3>1, <3>2, <3>3 DEF WillEnd
  <2>8. Pages' /\ open' = open
    BY <2>1, <2>2, <2>6, <2>7, KeepStep DEF IInv
  <2>9. Sets'
    BY <2>1, <2>4, <2>8 DEF IInv, Sets, Made
  <2> QED
    BY <2>1, <2>2, <2>8, <2>9, MailKeeps, LinksKeep DEF IInv
<1> QED
  BY <1>1, <1>2

(* A frame u sends is about a connection of u's, to somebody u agreed to   *)
(* talk to; a function that only goes away leaves its page all right.      *)
LEMMA SendInviteKeeps ==
  ASSUME IInv, NEW u \in Users, NEW t \in tasks[u], SendInvite(u, t)
  PROVE  IInv'
<1>1. PICK k, ts, o, f :
        /\ Become(u, k, ts, o) /\ k = ArmAnswerTimer(ctl[u]) /\ ts = Rest(u, t) /\ o = open
        /\ f = Frame("invite", u, t.sdp) /\ Send(t.peer, f)
        /\ t.fn = "start" /\ t.at = "seal"
        /\ UNCHANGED <<owner, local, remote, failed, calls, agreed>>
  BY DEF SendInvite
<1>2. Grows
  BY <1>1, SameGrows
<1>3. /\ t \in Tasks /\ TaskOK(u, t)
      /\ t.peer \in Users /\ Agreed(u, t.peer) /\ Made(t.sdp, u)
  BY <1>1, RestOK DEF TaskOK
<1>4. Mail'
  <2>1. f \in Frames /\ FrameOK(t.peer, f)
    BY <1>1, <1>3 DEF Frame, Frames, FrameOK, Tasks
  <2> QED
    BY <1>1, <1>2, <1>3, <2>1, FrameKeeps, MailSent DEF IInv
<1>5. /\ k \in Controllers /\ k.pc = ctl[u].pc /\ k.offer = ctl[u].offer
      /\ k.state = ctl[u].state /\ k.answerTimer /\ k.ringTimer = ctl[u].ringTimer
      /\ k.mute = ctl[u].mute
  <2>1. ctl[u] \in Controllers
    BY TasksOK
  <2>2. ctl[u].lateTimers + 1 \in Nat
    BY <2>1 DEF Controllers
  <2> QED
    BY <1>1, <2>1, <2>2 DEF ArmAnswerTimer, Controllers
<1>6. ts \in SUBSET Tasks /\ \A x \in ts : TaskOK(u, x)'
  BY <1>1, <1>2, RestOK, TaskKeeps
<1>7. OwnOpen(u, k.pc, o)' /\ OfferOK(u, k.offer)'
  BY <1>1, <1>2, <1>5, MadeKeeps, OfferKeeps DEF IInv, Pages, PageOK, OwnOpen
<1>8. WillEnd(k, Alive(ts, o))
  <2>1. WillEnd(ctl[u], tasks[u]) /\ \A x \in tasks[u] : Settles(x, open)
    BY DEF IInv, Pages, PageOK
  <2>2. \A x \in tasks[u] : x.fn # "start" => x \in Alive(ts, o)
    BY <1>1, <2>1 DEF Rest, Alive, Settles
  <2> QED
    BY <1>5, <2>1, <2>2 DEF WillEnd
<1>9. Pages' /\ open' = open
  BY <1>1, <1>2, <1>5, <1>6, <1>7, <1>8, PageStep DEF IInv, Become
<1>10. Sets'
  BY <1>1, <1>9 DEF IInv, Sets
<1> QED
  BY <1>1, <1>2, <1>4, <1>9, <1>10, LinksKeep DEF IInv

(* A function that neither dials nor answers ends, and may start others.   *)
LEMMA Settled ==
  ASSUME IInv, NEW u \in Users, NEW ts \in SUBSET Tasks, \A x \in ts : TaskOK(u, x),
         \A x \in tasks[u] : x.fn = "start" \/ x.at \in {"media", "remote"} => x \in ts,
         Keep(u, ts), Mail', UNCHANGED <<owner, local, remote, failed, calls, agreed>>
  PROVE  IInv'
<1>1. Grows
  BY SameGrows
<1>2. WillEnd(ctl[u], Alive(ts, open))
  <2>1. WillEnd(ctl[u], tasks[u]) /\ \A x \in tasks[u] : Settles(x, open)
    BY DEF IInv, Pages, PageOK
  <2>2. \A x \in tasks[u] :
          x.fn = "start" \/ x.at \in {"media", "remote"} => x \in Alive(ts, open)
    BY <2>1 DEF Alive, Settles
  <2> QED
    BY <2>1, <2>2 DEF WillEnd
<1>3. \A x \in ts : TaskOK(u, x)'
  BY <1>1, TaskKeeps
<1>4. Pages' /\ open' = open
  BY <1>1, <1>2, <1>3, KeepStep DEF IInv
<1>5. Sets'
  BY <1>4 DEF IInv, Sets
<1> QED
  BY <1>1, <1>4, <1>5, LinksKeep DEF IInv

LEMMA SendAcceptKeeps ==
  ASSUME IInv, NEW u \in Users, NEW t \in tasks[u], SendAccept(u, t)
  PROVE  IInv'
<1>1. PICK ts, f :
        /\ Keep(u, ts) /\ ts = Rest(u, t)
        /\ f = Frame("accept", u, t.sdp) /\ Send(t.peer, f)
        /\ t.fn = "accept" /\ t.at = "seal"
        /\ UNCHANGED <<owner, local, remote, failed, calls, agreed>>
  BY DEF SendAccept, AnswerTo
<1>2. /\ t \in Tasks /\ TaskOK(u, t)
      /\ t.peer \in Users /\ Agreed(u, t.peer) /\ Made(t.sdp, u)
  BY <1>1, RestOK DEF TaskOK
<1>3. f \in Frames /\ FrameOK(t.peer, f)
  BY <1>1, <1>2 DEF Frame, Frames, FrameOK, Tasks
<1>4. Mail'
  BY <1>1, <1>2, <1>3, SameGrows, FrameKeeps, MailSent DEF IInv
<1>5. \A x \in tasks[u] : x = t \/ x \in ts
  BY <1>1 DEF Rest
<1> QED
  BY <1>1, <1>4, <1>5, RestOK, Settled

LEMMA SendEndKeeps ==
  ASSUME IInv, NEW u \in Users, NEW t \in tasks[u], SendEnd(u, t)
  PROVE  IInv'
<1>1. PICK ts, f :
        /\ Keep(u, ts) /\ ts = Rest(u, t)
        /\ f = Frame(t.fn, u, 0) /\ Send(t.peer, f) /\ t.at = "sign"
        /\ UNCHANGED <<owner, local, remote, failed, calls, agreed>>
  BY DEF SendEnd
<1>2. t \in Tasks /\ TaskOK(u, t)
  BY RestOK
<1>3. t.fn \in {"bye", "reject"} /\ t.peer \in Users
  BY <1>1, <1>2 DEF TaskOK, Tasks
<1>4. f \in Frames /\ FrameOK(t.peer, f)
  BY <1>1, <1>3 DEF Frame, Frames, FrameOK
<1>5. Mail'
  BY <1>1, <1>3, <1>4, SameGrows, FrameKeeps, MailSent DEF IInv
<1>6. \A x \in tasks[u] : x = t \/ x \in ts
  BY <1>1 DEF Rest
<1> QED
  BY <1>1, <1>3, <1>5, <1>6, RestOK, Settled

-----------------------------------------------------------------------------
(* Frames that are received.                                               *)

LEMMA ReceiveKeeps ==
  ASSUME IInv, NEW u \in Users, Receive(u)
  PROVE  IInv'
<1>1. PICK f : f = Head(inbox[u])
  OBVIOUS
<1>2. /\ inbox[u] # << >> /\ inbox' = [inbox EXCEPT ![u] = Tail(inbox[u])]
      /\ UNCHANGED <<owner, local, remote, failed, calls, agreed>>
  BY DEF Receive
<1>3. Mail' /\ f \in Frames /\ FrameOK(u, f)
  BY <1>1, <1>2, SameGrows, MailTaken DEF IInv
<1>4. CASE f.kind = "invite" /\ OnInvite(u, f)
  <2>1. PICK ts, t : /\ Keep(u, ts) /\ ts = tasks[u] \cup {t}
                     /\ t \in {Refuse(f.from, f.sdp), Task("invite", "open", f.from, f.sdp)}
    BY <1>4 DEF OnInvite
  <2>2. t \in Tasks /\ TaskOK(u, t)
    BY <1>3, <1>4, <2>1 DEF Refuse, Task, Tasks, TaskOK, Frames, FrameOK
  <2> QED
    BY <1>2, <1>3, <2>1, <2>2, TasksOK, Settled
<1>5. CASE f.kind = "accept" /\ OnAccept(u, f)
  <2>1. PICK ts, t : /\ Keep(u, ts) /\ ts \in {tasks[u], tasks[u] \cup {t}}
                     /\ t = Task("accepted", "open", f.from, f.sdp)
    BY <1>5 DEF OnAccept
  <2>2. t \in Tasks /\ TaskOK(u, t)
    BY <1>3, <1>5, <2>1 DEF Task, Tasks, TaskOK, Frames, FrameOK
  <2> QED
    BY <1>2, <1>3, <2>1, <2>2, TasksOK, Settled
<1>6. ASSUME End(u, ctl[u], tasks[u]) \/ HangUp(u, ctl[u], tasks[u]) PROVE IInv'
  <2>1. PICK k, ts : (End(u, k, ts) \/ HangUp(u, k, ts)) /\ k = ctl[u] /\ ts = tasks[u]
    BY <1>6
  <2> QED
    BY <1>2, <1>3, <2>1, TasksOK, Ending DEF IInv, Sets
<1> QED
  BY <1>1, <1>4, <1>5, <1>6 DEF Receive

LEMMA OpenInviteKeeps ==
  ASSUME IInv, NEW u \in Users, NEW t \in tasks[u], OpenInvite(u, t)
  PROVE  IInv'
<1>1. /\ t.fn = "invite" /\ t.at = "open" /\ t \in Tasks /\ TaskOK(u, t)
      /\ t.peer \in Users /\ Made(t.sdp, t.peer) /\ Agreed(t.peer, u)
      /\ UNCHANGED <<inbox, owner, local, remote, failed, calls, agreed>>
  BY RestOK DEF OpenInvite, TaskOK
<1>2. CASE Busy(ctl[u])
  <2>1. PICK ts, r : /\ Keep(u, ts) /\ ts = Rest(u, t) \cup {r}
                     /\ r = Refuse(t.peer, t.sdp)
    BY <1>2 DEF OpenInvite
  <2>2. r \in Tasks /\ TaskOK(u, r)
    BY <1>1, <2>1 DEF Refuse, Task, Tasks, TaskOK
  <2>3. \A x \in tasks[u] : x = t \/ x \in ts
    BY <2>1 DEF Rest
  <2> QED
    BY <1>1, <2>1, <2>2, <2>3, RestOK, SameMail, Settled
<1>3. CASE ~Busy(ctl[u])
  <2>1. PICK k, ts, o :
          /\ Become(u, k, ts, o) /\ o = open /\ ts = Rest(u, t)
          /\ k \in Rung(ctl[u], t.peer, t.sdp)
    BY <1>3 DEF OpenInvite
  <2>2. Grows
    BY <1>1, SameGrows
  <2>3. /\ k \in Controllers /\ k.pc = ctl[u].pc /\ k.offer = t.sdp
        /\ k.state = "ringing" /\ (k.ringTimer \/ k.mute)
    <3>1. PICK sound \in BOOLEAN :
            k = [ctl[u] EXCEPT !.state = "ringing", !.peer = t.peer, !.offer = t.sdp,
                               !.dialing = FALSE, !.ringTimer = sound, !.mute = ~sound]
      BY <2>1 DEF Rung
    <3>2. ctl[u] \in Controllers /\ t.sdp \in Nat
      BY <1>1, TasksOK DEF Tasks
    <3>3. k \in Controllers
      BY <1>1, <3>1, <3>2 DEF Controllers
    <3>4. k.pc = ctl[u].pc /\ k.offer = t.sdp /\ k.state = "ringing"
      BY <3>1, <3>2 DEF Controllers
    <3>5. k.ringTimer = sound /\ k.mute = ~sound
      BY <3>1, <3>2 DEF Controllers
    <3> QED
      BY <3>3, <3>4, <3>5
  <2>4. OwnOpen(u, k.pc, o)' /\ OfferOK(u, k.offer)'
    <3>1. OfferOK(u, k.offer)
      BY <1>1, <2>3 DEF OfferOK, Made
    <3> QED
      BY <2>1, <2>2, <2>3, <3>1, OfferKeeps, MadeKeeps DEF IInv, Pages, PageOK, OwnOpen
  <2>5. WillEnd(k, Alive(ts, o))
    BY <2>3 DEF WillEnd
  <2>6. Pages' /\ open' = open
    <3>1. ts \in SUBSET Tasks /\ \A x \in ts : TaskOK(u, x)'
      BY <2>1, <2>2, RestOK, TaskKeeps
    <3> QED
      BY <2>1, <2>2, <2>3, <2>4, <2>5, <3>1, PageStep DEF IInv, Become
  <2>7. Sets'
    BY <1>1, <2>6 DEF IInv, Sets
  <2> QED
    BY <1>1, <2>2, <2>6, <2>7, LinksKeep, MailKeeps DEF IInv
<1> QED
  BY <1>2, <1>3

(* The description that is set was made by somebody who had agreed to talk *)
(* to u, on a connection of u's that has no remote description.            *)
LEMMA OpenAcceptKeeps ==
  ASSUME IInv, NEW u \in Users, NEW t \in tasks[u], OpenAccept(u, t)
  PROVE  IInv'
<1>1. PICK k, n, ts, s :
        /\ n = ctl[u].pc
        /\ k = [ctl[u] EXCEPT !.state = "connecting", !.answerTimer = FALSE,
                              !.dialing = FALSE]
        /\ s = Task("track", "track", None, n)
        /\ ts = IF n \in local /\ remote[n] = 0 THEN Rest(u, t) \cup {s} ELSE Rest(u, t)
        /\ Become(u, k, ts, open)
  BY DEF OpenAccept
<1>2. /\ t.fn = "accepted" /\ UNCHANGED <<inbox, owner, local, failed, calls, agreed>>
      /\ IF n \in local /\ remote[n] = 0 THEN remote' = [remote EXCEPT ![n] = t.sdp]
                                         ELSE UNCHANGED remote
  BY <1>1 DEF OpenAccept
<1>3. /\ Made(t.sdp, t.peer) /\ Agreed(t.peer, u) /\ Grows
      /\ OwnOpen(u, n, open) /\ OfferOK(u, ctl[u].offer)
  BY <1>1, <1>2, RestOK, SameGrows DEF TaskOK, IInv, Pages, PageOK
<1>4. n \in local => n \in DOMAIN owner /\ n # 0 /\ Made(n, u)
  BY <1>3 DEF IInv, Sets, Links, OwnOpen
<1>5. Links'
  <2>1. CASE n \in local /\ remote[n] = 0
    BY <1>2, <1>3, <1>4, <2>1, LinksDescribed DEF IInv, Made
  <2>2. CASE ~(n \in local /\ remote[n] = 0)
    BY <1>2, <1>3, <2>2, LinksKeep DEF IInv
  <2> QED
    BY <2>1, <2>2
<1>6. /\ k \in Controllers /\ k.pc = n /\ k.offer = ctl[u].offer
      /\ k.state = "connecting"
  BY <1>1, TasksOK DEF Controllers
<1>7. ts \in SUBSET Tasks /\ \A x \in ts : TaskOK(u, x)'
  <2>1. s \in Tasks
    BY <1>1, TasksOK DEF Task, Tasks, Controllers
  <2>2. n \in local => TaskOK(u, s)
    BY <1>1, <1>4, <2>1 DEF Task, TaskOK
  <2> QED
    BY <1>1, <1>3, <2>1, <2>2, RestOK, TaskKeeps
<1>8. PICK o : o = open
  OBVIOUS
<1>9. OwnOpen(u, k.pc, o)' /\ OfferOK(u, k.offer)'
  BY <1>3, <1>6, <1>8, MadeKeeps, OfferKeeps DEF OwnOpen
<1>10. WillEnd(k, Alive(ts, o))
  BY <1>6 DEF WillEnd
<1>11. Pages' /\ open' = open
  BY <1>1, <1>3, <1>6, <1>7, <1>8, <1>9, <1>10, PageStep DEF IInv, Become
<1>12. Sets'
  BY <1>2, <1>11 DEF IInv, Sets
<1> QED
  BY <1>2, <1>3, <1>5, <1>11, <1>12, MailKeeps DEF IInv

LEMMA TrackKeeps ==
  ASSUME IInv, NEW u \in Users, NEW t \in tasks[u], Track(u, t)
  PROVE  IInv'
<1>1. PICK k, ts, o :
        /\ Become(u, k, ts, o) /\ o = open /\ ts = Rest(u, t)
        /\ k = [ctl[u] EXCEPT !.state = "in-call", !.dialing = FALSE]
  BY DEF Track
<1>2. UNCHANGED <<inbox, owner, local, remote, failed, calls, agreed>> /\ Grows
  BY SameGrows DEF Track
<1>3. /\ k \in Controllers /\ k.pc = ctl[u].pc /\ k.offer = ctl[u].offer
      /\ k.state = "in-call"
  BY <1>1, TasksOK DEF Controllers
<1>4. ts \in SUBSET Tasks /\ \A x \in ts : TaskOK(u, x)'
  BY <1>1, <1>2, RestOK, TaskKeeps
<1>5. OwnOpen(u, k.pc, o)' /\ OfferOK(u, k.offer)'
  BY <1>1, <1>2, <1>3, MadeKeeps, OfferKeeps DEF IInv, Pages, PageOK, OwnOpen
<1>6. WillEnd(k, Alive(ts, o))
  BY <1>3 DEF WillEnd
<1>7. Pages' /\ open' = open
  BY <1>1, <1>2, <1>3, <1>4, <1>5, <1>6, PageStep DEF IInv, Become
<1>8. Sets'
  BY <1>2, <1>7 DEF IInv, Sets
<1> QED
  BY <1>2, <1>7, <1>8, MailKeeps, LinksKeep DEF IInv

-----------------------------------------------------------------------------
(* Timers and the connection.                                              *)

LEMMA TimeoutKeeps ==
  ASSUME IInv, NEW u \in Users, Timeout(u)
  PROVE  IInv'
<1>1. CASE (ctl[u].answerTimer \/ ctl[u].ringTimer) /\ HangUp(u, ctl[u], tasks[u])
  <2>1. PICK k, ts : HangUp(u, k, ts) /\ k = ctl[u] /\ ts = tasks[u]
    BY <1>1
  <2> QED
    BY <2>1, TasksOK, SameMail, Ending DEF Timeout, IInv, Sets
<1>2. CASE /\ ctl[u].lateTimers > 0
           /\ HangUp(u, [ctl[u] EXCEPT !.lateTimers = @ - 1], tasks[u])
  <2>1. PICK k, ts : /\ HangUp(u, k, ts) /\ ts = tasks[u]
                     /\ k = [ctl[u] EXCEPT !.lateTimers = @ - 1]
    BY <1>2
  <2>2. ctl[u] \in Controllers /\ ctl[u].lateTimers - 1 \in Nat
    BY <1>2, TasksOK DEF Controllers
  <2>3. k \in Controllers /\ k.pc = ctl[u].pc
    BY <2>1, <2>2 DEF Controllers
  <2> QED
    BY <2>1, <2>3, TasksOK, SameMail, Ending DEF Timeout, IInv, Sets
<1> QED
  BY <1>1, <1>2 DEF Timeout

LEMMA FailKeeps ==
  ASSUME IInv, NEW u \in Users, Fail(u)
  PROVE  IInv'
<1>1. PICK k, ts : HangUp(u, k, ts) /\ k = ctl[u] /\ ts = tasks[u]
  BY DEF Fail
<1>2. failed' \subseteq DOMAIN owner
  BY DEF Fail, IInv, Sets
<1> QED
  BY <1>1, <1>2, TasksOK, SameMail, Ending DEF Fail

-----------------------------------------------------------------------------
LEMMA NextIInv == IInv /\ [Next]_vars => IInv'
<1> SUFFICES ASSUME IInv, [Next]_vars PROVE IInv'
  OBVIOUS
<1>1. ASSUME NEW u \in Users, User(u) PROVE IInv'
  BY <1>1, AcceptKeeps, RejectKeeps, HangupKeeps, CallKeeps DEF User
<1>2. ASSUME NEW u \in Users, Proceed(u) PROVE IInv'
  <2>1. PICK t \in tasks[u] :
          \/ StartMedia(u, t) \/ AcceptMedia(u, t) \/ OfferTaken(u, t)
          \/ AcceptLate(u, t) \/ MediaDenied(u, t) \/ Describe(u, t) \/ SendInvite(u, t)
          \/ SendAccept(u, t) \/ SendEnd(u, t) \/ OpenInvite(u, t)
          \/ OpenAccept(u, t) \/ Track(u, t)
    BY <1>2 DEF Proceed
  <2>2. CASE MediaDenied(u, t)
    BY <2>2, AbortKeeps DEF MediaDenied
  <2> QED
    BY <2>1, <2>2, StartMediaKeeps, AcceptMediaKeeps, OfferTakenKeeps, AcceptLateKeeps,
       DescribeKeeps, SendInviteKeeps, SendAcceptKeeps, SendEndKeeps, OpenInviteKeeps,
       OpenAcceptKeeps, TrackKeeps
<1>3. ASSUME NEW u \in Users, Receive(u) \/ Timeout(u) \/ Fail(u) PROVE IInv'
  BY <1>3, ReceiveKeeps, TimeoutKeeps, FailKeeps
<1>4. CASE UNCHANGED vars
  BY <1>4 DEF vars, IInv, Pages, PageOK, OwnOpen, OfferOK, TaskOK, Made, Agreed,
              Mail, FrameOK, Links, RemoteOK, Sets
<1> QED
  BY <1>1, <1>2, <1>3, <1>4 DEF Next

LEMMA AlwaysIInv == Spec => []IInv
  BY InitIInv, NextIInv, PTL DEF Spec

(* Every reachable state is well typed, and the connection a controller    *)
(* holds is its own and not closed.                                        *)
THEOREM TypeCorrectness == Spec => []TypeOK
<1>1. IInv => TypeOK
  BY DEF IInv, Pages, PageOK, OwnOpen, Made, Mail, Links, Sets, TypeOK
<1> QED
  BY <1>1, AlwaysIInv, PTL

(* Two connections carry audio only between users who called each other or *)
(* accepted a call, whatever overtakes what between clicks, frames and     *)
(* async functions.                                                        *)
THEOREM AudioByConsent == Spec => []Consent
<1>1. IInv => Consent
  <2> SUFFICES ASSUME IInv, NEW p \in DOMAIN owner, NEW q \in DOMAIN owner, Up(p, q)
               PROVE  <<owner[p], owner[q]>> \in agreed
    BY DEF Consent
  <2>1. q \in DOMAIN remote /\ remote[q] = p /\ p # 0
    BY DEF Up, IInv, Links
  <2> QED
    BY <2>1 DEF IInv, Links, RemoteOK, Agreed
<1> QED
  BY <1>1, AlwaysIInv, PTL

(* A page that calls or rings always has a timer, or a function under way  *)
(* that arms one or ends the call.                                         *)
THEOREM NoEndlessRinging == Spec => []RingingWillEnd
<1>1. IInv => RingingWillEnd
  BY DEF IInv, Pages, PageOK, WillEnd, RingingWillEnd
<1> QED
  BY <1>1, AlwaysIInv, PTL
=============================================================================
