-------------------------------- MODULE Call --------------------------------
(***************************************************************************)
(* Calls between two browsers (frontend/src/call/webRTC.ts, driven by      *)
(* hooks/useRtc.ts): invite, accept, reject and bye travel as frames the   *)
(* node relays, if at all; audio does not.  Every controller runs async    *)
(* functions that wait for the microphone, the peer connection and the     *)
(* cipher, and frames, timers and the user come in between.                *)
(*                                                                         *)
(* A peer connection is its number, and so is the SDP it offers or answers *)
(* with.  Connections are up when each is described by the other.          *)
(***************************************************************************)
EXTENDS Integers, Sequences

CONSTANTS
  Users,    \* each with one page and everybody's public key
  None,
  Contacts, \* <<u, p>>: u's page offers to call p
  MaxCalls  \* bound: calls that are started

ASSUME CallAssumption ==
  /\ None \notin Users /\ MaxCalls \in Nat
  /\ Contacts \subseteq Users \X Users

VARIABLES
  ctl,     \* the fields of each CallController, see Fresh
  tasks,   \* its async functions under way
  inbox,   \* frames relayed to each page
  owner,   \* of every peer connection made so far
  open,    \* those not closed: they and their microphone are on
  local,   \* those with a local description
  remote,  \* the remote description of each, 0 for none
  failed,  \* those whose failure has been reported
  calls,   \* calls started
  agreed   \* history: who called, or accepted, whom

vars == <<ctl, tasks, inbox, owner, open, local, remote, failed, calls, agreed>>

Fresh ==
  [state |-> "idle", peer |-> None, offer |-> 0, pc |-> 0,
   answerTimer |-> FALSE, ringTimer |-> FALSE,
   mute |-> FALSE,     \* it rings with neither a sound nor a timer
   lateTimers |-> 0,   \* answer timers whose handle was overwritten
   dialing |-> FALSE]  \* the page shows a call, the controller not yet

Init ==
  /\ ctl = [u \in Users |-> Fresh]
  /\ tasks = [u \in Users |-> {}]
  /\ inbox = [u \in Users |-> << >>]
  /\ owner = << >> /\ remote = << >>
  /\ open = {} /\ local = {} /\ failed = {}
  /\ calls = 0 /\ agreed = {}

(* n is the connection or description it is about, or tells it from others. *)
Task(fn, at, p, n) == [fn |-> fn, at |-> at, peer |-> p, sdp |-> n]
Frame(kind, u, n) == [kind |-> kind, from |-> u, sdp |-> n]

Busy(k)  == k.state \notin {"idle", "ended"}

(* defect: cleanup forgets to drop the connection it closed                *)
StillThere(k) == [k EXCEPT !.state = "ended", !.peer = None, !.offer = 0,
                           !.answerTimer = FALSE, !.ringTimer = FALSE, !.mute = FALSE,
                           !.dialing = FALSE]

Ended(k) == [k EXCEPT !.state = "ended", !.peer = None, !.offer = 0, !.pc = 0,
                      !.answerTimer = FALSE, !.ringTimer = FALSE, !.mute = FALSE,
                      !.dialing = FALSE]

(* A promise of a connection that is closed is never settled.              *)
Alive(ts, o) ==
  {t \in ts : t.at \in {"offer", "remote", "answer", "track"} => t.sdp \in o}

(* Controller u has fields k and tasks ts; only the connections in o stay. *)
Become(u, k, ts, o) ==
  /\ ctl' = [ctl EXCEPT ![u] = k]
  /\ tasks' = [tasks EXCEPT ![u] = Alive(ts, o)]
  /\ open' = o

(* cleanup and setState('ended')                                           *)
End(u, k, ts) == Become(u, Ended(k), ts, open \ {k.pc})

Refuse(p, n) == Task("reject", "sign", p, n)

(* hangup: the peer, if there is one, is told.                             *)
HangUp(u, k, ts) ==
  End(u, k, IF Busy(k) /\ k.peer # None THEN ts \cup {Task("bye", "sign", k.peer, k.pc)}
            ELSE ts)

Keep(u, ts) == Become(u, ctl[u], ts, open)

-----------------------------------------------------------------------------
(* The user.  The page offers a call when none is shown.                   *)

Call(u, p) ==
  /\ ~Busy(ctl[u]) /\ ~ctl[u].dialing /\ <<u, p>> \in Contacts
  /\ calls < MaxCalls
  /\ Become(u, [ctl[u] EXCEPT !.peer = p, !.dialing = TRUE],
            tasks[u] \cup {Task("start", "media", p, calls + 1)}, open)
  /\ calls' = calls + 1 /\ agreed' = agreed \cup {<<u, p>>}
  /\ UNCHANGED <<inbox, owner, local, remote, failed>>

Ringing(k) == k.state = "ringing" /\ (k.ringTimer \/ k.mute)

Accept(u) ==
  /\ Ringing(ctl[u]) /\ ctl[u].offer # 0 /\ ctl[u].peer # None
  /\ Become(u, [ctl[u] EXCEPT !.ringTimer = FALSE, !.mute = FALSE],
            tasks[u] \cup {Task("accept", "media", ctl[u].peer, ctl[u].offer)}, open)
  /\ agreed' = agreed \cup {<<u, ctl[u].peer>>}
  /\ UNCHANGED <<inbox, owner, local, remote, failed, calls>>

Reject(u) ==
  /\ Ringing(ctl[u]) /\ ctl[u].peer # None
  /\ End(u, ctl[u], tasks[u] \cup {Refuse(ctl[u].peer, ctl[u].offer)})
  /\ UNCHANGED <<inbox, owner, local, remote, failed, calls, agreed>>

Hangup(u) ==
  /\ (Busy(ctl[u]) \/ ctl[u].dialing) /\ ~Ringing(ctl[u])
  /\ HangUp(u, ctl[u], tasks[u])
  /\ UNCHANGED <<inbox, owner, local, remote, failed, calls, agreed>>

User(u) == Accept(u) \/ Reject(u) \/ Hangup(u) \/ \E p \in Users : Call(u, p)

-----------------------------------------------------------------------------
(* start and accept.                                                       *)

Rest(u, t) == tasks[u] \ {t}
Onward(u, t, at, n) == Rest(u, t) \cup {[t EXCEPT !.at = at, !.sdp = n]}
NewPC == Len(owner) + 1

(* The page's socket may be down, or the peer's: the frame is lost.        *)
Send(p, f) == inbox' \in {inbox, [inbox EXCEPT ![p] = Append(@, f)]}

StartMedia(u, t) ==
  /\ t.fn = "start" /\ t.at = "media"
  /\ owner' = Append(owner, u) /\ remote' = Append(remote, 0)
  /\ Become(u, [ctl[u] EXCEPT !.pc = NewPC, !.state = "calling", !.dialing = FALSE],
            Onward(u, t, "offer", NewPC), open \cup {NewPC})
  /\ UNCHANGED <<inbox, local, failed, calls, agreed>>

(* The connection takes whatever offer is pending now; it stays pending     *)
(* until the connection has taken it.                                      *)
AcceptMedia(u, t) ==
  /\ t.fn = "accept" /\ t.at = "media" /\ ctl[u].offer # 0
  /\ owner' = Append(owner, u) /\ remote' = Append(remote, ctl[u].offer)
  /\ Become(u, [ctl[u] EXCEPT !.pc = NewPC],
            Onward(u, t, "remote", NewPC), open \cup {NewPC})
  /\ UNCHANGED <<inbox, local, failed, calls, agreed>>

(* A connection makes an answer once, to the offer it has taken.           *)
Answerable(n) == n # 0 /\ remote[n] # 0 /\ n \notin local

(* The answer is made by the page's connection of this moment, which       *)
(* another accept may have replaced.                                       *)
OfferTaken(u, t) ==
  /\ t.at = "remote"
  /\ LET k == [ctl[u] EXCEPT !.offer = 0, !.state = "connecting", !.dialing = FALSE]
     IN  IF Answerable(k.pc) THEN Become(u, k, Onward(u, t, "answer", k.pc), open)
         ELSE HangUp(u, k, Rest(u, t))
  /\ UNCHANGED <<inbox, owner, local, remote, failed, calls, agreed>>

(* There is none any more: setRemoteDescription throws, and the new        *)
(* connection, which has replaced ctl[u].pc, is closed again.              *)
AcceptLate(u, t) ==
  /\ t.fn = "accept" /\ t.at = "media" /\ ctl[u].offer = 0
  /\ HangUp(u, [ctl[u] EXCEPT !.pc = 0], Rest(u, t))
  /\ UNCHANGED <<inbox, owner, local, remote, failed, calls, agreed>>

Abort(u, t) == IF t.fn = "start" THEN End(u, ctl[u], Rest(u, t))
               ELSE HangUp(u, ctl[u], Rest(u, t))

(* The user does not let the page use the microphone.                      *)
MediaDenied(u, t) ==
  /\ t.at = "media"
  /\ Abort(u, t)
  /\ UNCHANGED <<inbox, owner, local, remote, failed, calls, agreed>>

(* createOffer or createAnswer, then setLocalDescription.                  *)
Describe(u, t) ==
  /\ t.at \in {"offer", "answer"}
  /\ IF ctl[u].pc = t.sdp /\ t.sdp \notin local
     THEN Keep(u, Onward(u, t, "seal", t.sdp)) /\ local' = local \cup {t.sdp}
     ELSE Abort(u, t) /\ UNCHANGED local
  /\ UNCHANGED <<inbox, owner, remote, failed, calls, agreed>>

(* defect: the answer goes to the peer of the moment                       *)
CurrentPeer(u, t) == ctl[u].peer

AnswerTo(u, t) == t.peer

(* defect: nobody hears of a call that is not answered                     *)
NoAnswerTimer(k) == k

ArmAnswerTimer(k) ==
  [k EXCEPT !.answerTimer = TRUE,
            !.lateTimers = IF k.answerTimer THEN @ + 1 ELSE @]

SendInvite(u, t) ==
  /\ t.fn = "start" /\ t.at = "seal"
  /\ Send(t.peer, Frame("invite", u, t.sdp))
  /\ Become(u, ArmAnswerTimer(ctl[u]), Rest(u, t), open)
  /\ UNCHANGED <<owner, local, remote, failed, calls, agreed>>

SendAccept(u, t) ==
  /\ t.fn = "accept" /\ t.at = "seal"
  /\ Send(AnswerTo(u, t), Frame("accept", u, t.sdp))
  /\ Keep(u, Rest(u, t))
  /\ UNCHANGED <<owner, local, remote, failed, calls, agreed>>

(* sendSignal of a bye or a reject                                         *)
SendEnd(u, t) ==
  /\ t.at = "sign"
  /\ Send(t.peer, Frame(t.fn, u, 0))
  /\ Keep(u, Rest(u, t))
  /\ UNCHANGED <<owner, local, remote, failed, calls, agreed>>

-----------------------------------------------------------------------------
(* Frames, in the order in which the node relayed them.                    *)

OnInvite(u, f) ==
  Keep(u, tasks[u] \cup {IF Busy(ctl[u]) THEN Refuse(f.from, f.sdp)
                         ELSE Task("invite", "open", f.from, f.sdp)})

OnAccept(u, f) ==
  Keep(u, IF ctl[u].state = "calling" /\ ctl[u].peer = f.from
          THEN tasks[u] \cup {Task("accepted", "open", f.from, f.sdp)} ELSE tasks[u])

Receive(u) ==
  /\ inbox[u] # << >>
  /\ LET f == Head(inbox[u])
     IN  \/ f.kind = "invite" /\ OnInvite(u, f)
         \/ f.kind = "accept" /\ OnAccept(u, f)
         \/ f.kind = "reject" /\ End(u, ctl[u], tasks[u])
         \/ f.kind = "bye"    /\ HangUp(u, ctl[u], tasks[u])
  /\ inbox' = [inbox EXCEPT ![u] = Tail(@)]
  /\ UNCHANGED <<owner, local, remote, failed, calls, agreed>>

(* defect: nothing stops the bell                                          *)
RingsOn(k, p, n) == {[k EXCEPT !.state = "ringing", !.peer = p, !.offer = n, !.dialing = FALSE]}

(* With the sound starts the timer; where the page gets no AudioContext    *)
(* there is neither.                                                       *)
Rung(k, p, n) ==
  {[k EXCEPT !.state = "ringing", !.peer = p, !.offer = n, !.dialing = FALSE,
             !.ringTimer = sound, !.mute = ~sound] : sound \in BOOLEAN}

(* The rest of handleInvite, and incoming.                                 *)
OpenInvite(u, t) ==
  /\ t.fn = "invite"
  /\ IF Busy(ctl[u]) THEN Keep(u, Rest(u, t) \cup {Refuse(t.peer, t.sdp)})
     ELSE \E k \in Rung(ctl[u], t.peer, t.sdp) : Become(u, k, Rest(u, t), open)
  /\ UNCHANGED <<inbox, owner, local, remote, failed, calls, agreed>>

(* The description is refused unless the connection is waiting for one.    *)
OpenAccept(u, t) ==
  /\ t.fn = "accepted"
  /\ LET n == ctl[u].pc
         k == [ctl[u] EXCEPT !.state = "connecting", !.answerTimer = FALSE,
                             !.dialing = FALSE]
     IN  IF n \in local /\ remote[n] = 0
         THEN /\ remote' = [remote EXCEPT ![n] = t.sdp]
              /\ Become(u, k, Rest(u, t) \cup {Task("track", "track", None, n)}, open)
         ELSE Become(u, k, Rest(u, t), open) /\ UNCHANGED remote
  /\ UNCHANGED <<inbox, owner, local, failed, calls, agreed>>

(* ontrack comes with the remote description.  In accept it comes before   *)
(* setState('connecting'), so a callee stays in that state.                *)
Track(u, t) ==
  /\ t.fn = "track"
  /\ Become(u, [ctl[u] EXCEPT !.state = "in-call", !.dialing = FALSE], Rest(u, t), open)
  /\ UNCHANGED <<inbox, owner, local, remote, failed, calls, agreed>>

-----------------------------------------------------------------------------
(* Timers and the connection.                                              *)

Timeout(u) ==
  /\ \/ (ctl[u].answerTimer \/ ctl[u].ringTimer) /\ HangUp(u, ctl[u], tasks[u])
     \/ /\ ctl[u].lateTimers > 0
        /\ HangUp(u, [ctl[u] EXCEPT !.lateTimers = @ - 1], tasks[u])
  /\ UNCHANGED <<inbox, owner, local, remote, failed, calls, agreed>>

Up(p, q) == p # q /\ {p, q} \subseteq DOMAIN owner /\ remote[p] = q /\ remote[q] = p

(* onconnectionstatechange: the other end is gone, or the network is.      *)
Fail(u) ==
  /\ \E p \in (open \cap local) \ failed :
       /\ owner[p] = u /\ remote[p] # 0
       /\ failed' = failed \cup {p}
  /\ HangUp(u, ctl[u], tasks[u])
  /\ UNCHANGED <<inbox, owner, local, remote, calls, agreed>>

Proceed(u) ==
  \E t \in tasks[u] :
    \/ StartMedia(u, t) \/ AcceptMedia(u, t) \/ OfferTaken(u, t) \/ AcceptLate(u, t)
    \/ MediaDenied(u, t) \/ Describe(u, t) \/ SendInvite(u, t) \/ SendAccept(u, t)
    \/ SendEnd(u, t) \/ OpenInvite(u, t) \/ OpenAccept(u, t) \/ Track(u, t)

Next == \E u \in Users : User(u) \/ Proceed(u) \/ Receive(u) \/ Timeout(u) \/ Fail(u)

Spec == Init /\ [][Next]_vars

-----------------------------------------------------------------------------
Controllers ==
  [state : {"idle", "calling", "ringing", "connecting", "in-call", "ended"},
   peer : Users \cup {None}, offer : Nat, pc : Nat,
   answerTimer : BOOLEAN, ringTimer : BOOLEAN, mute : BOOLEAN, lateTimers : Nat,
   dialing : BOOLEAN]

Tasks ==
  [fn : {"start", "accept", "bye", "reject", "invite", "accepted", "track"},
   at : {"media", "offer", "remote", "answer", "seal", "sign", "open", "track"},
   peer : Users \cup {None}, sdp : Nat]

Frames == [kind : {"invite", "accept", "reject", "bye"}, from : Users, sdp : Nat]

(* A controller's own connection is one it has made and not closed.        *)
TypeOK ==
  /\ ctl \in [Users -> Controllers]
  /\ tasks \in [Users -> SUBSET Tasks]
  /\ inbox \in [Users -> Seq(Frames)]
  /\ owner \in Seq(Users) /\ remote \in Seq(Nat) /\ Len(remote) = Len(owner)
  /\ open \subseteq DOMAIN owner /\ local \subseteq DOMAIN owner
  /\ failed \subseteq DOMAIN owner
  /\ calls \in 0..MaxCalls /\ agreed \subseteq Users \X Users
  /\ \A u \in Users : ctl[u].pc # 0 => ctl[u].pc \in open /\ owner[ctl[u].pc] = u

(* Whatever is late, lost or refused, two connections carry audio only if  *)
(* each user called the other or accepted a call of the other's.           *)
Consent ==
  \A p, q \in DOMAIN owner : Up(p, q) => <<owner[p], owner[q]>> \in agreed

(* A page neither calls nor rings for ever: at any time a timer is armed,  *)
(* or a function is under way that arms one or ends the call.  Only where  *)
(* the bell itself failed nothing ends a call that nobody answers.         *)
RingingWillEnd ==
  \A u \in Users :
    LET Waits(fn, places) == \E t \in tasks[u] : t.fn = fn /\ t.at \in places
    IN  /\ ctl[u].state = "calling" => \/ ctl[u].answerTimer \/ ctl[u].lateTimers > 0
                                       \/ Waits("start", {"offer", "seal"})
        /\ ctl[u].state = "ringing" => \/ ctl[u].ringTimer \/ ctl[u].mute
                                       \/ Waits("accept", {"media", "remote"})
=============================================================================
