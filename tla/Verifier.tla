------------------------------ MODULE Verifier ------------------------------
(***************************************************************************)
(* The check every packet passes (server/internal/protocol/protocol.go):   *)
(* identity and signature, then the clock estimator, which learns from     *)
(* admins (crypto/clock.go), then the replay guard (crypto/sign.go).       *)
(* Requests run concurrently; the estimator and the guard have a lock      *)
(* each, and the node's clock goes on between the two.                     *)
(*                                                                         *)
(* A packet stands for its nonce.  The same packet may arrive many times:  *)
(* requests are repeated and frames delivered late.                        *)
(***************************************************************************)
EXTENDS Integers, FiniteSets

CONSTANTS
  Packets,     \* signed by registered subscribers; each has its own nonce
  Admins,      \* those signed by an admin
  Requests,    \* concurrent calls of Verify
  NoPacket,
  Window,      \* of freshness, ReplayGuard.window: -clock-skew, 10 minutes if not given
  Correction,  \* MaxClockCorrection
  Max,         \* ReplayGuard.max
  Drifts,      \* how wrong the clocks of the devices are
  Instants,    \* bound: what the node's clock shows when something happens
  MaxRestarts  \* bound: of the node

ASSUME VerifierAssumption ==
  /\ Admins \subseteq Packets /\ NoPacket \notin Packets
  /\ Window \in Nat /\ Correction \in Nat /\ Max \in Nat
  /\ Drifts \subseteq Int
  /\ Instants \subseteq Nat /\ 0 \in Instants /\ MaxRestarts \in Nat

VARIABLES
  calibrate,  \* the -clock-calibrate flag
  now,        \* the node's clock
  ts,         \* packets signed so far, with their timestamps
  offset,     \* ClockOffset.offset
  samples,    \* ClockOffset.samples, of which 0, 1 and more are told apart
  seen,       \* ReplayGuard.seen: nonce to timestamp
  pc,         \* where each request stands
  pkt,        \* its packet
  at,         \* the local variable now of Verify
  spare,      \* history: how far inside the window it arrived, -1 for outside
  wrong,      \* history: samples that were wrong, at most 2 are counted
  early,      \* history: one of the first two was
  ahead,      \* history: how far ahead of the node an admin's packet has been
  accepted,   \* history: packets accepted by this process
  restarts

guard   == <<seen, accepted>>
clock   == <<offset, samples, wrong, early, ahead>>
request == <<pc, pkt, at, spare>>
vars == <<calibrate, now, ts, offset, samples, wrong, early, ahead, seen, accepted,
          pc, pkt, at, spare, restarts>>

Signed == DOMAIN ts

Init ==
  /\ calibrate \in BOOLEAN
  /\ now = 0
  /\ ts = << >>
  /\ offset = 0 /\ samples = 0 /\ wrong = 0 /\ early = FALSE /\ ahead = 0
  /\ seen = << >> /\ accepted = {}
  /\ pc = [r \in Requests |-> "idle"]
  /\ pkt = [r \in Requests |-> NoPacket]
  /\ at = [r \in Requests |-> 0]
  /\ spare = [r \in Requests |-> -1]
  /\ restarts = 0

Extend(f, x, v) == [y \in DOMAIN f \cup {x} |-> IF y = x THEN v ELSE f[y]]

-----------------------------------------------------------------------------
(* The surroundings.                                                       *)

Tick ==
  /\ \E t \in Instants : t > now /\ now' = t
  /\ UNCHANGED <<calibrate, ts, clock, guard, request, restarts>>

Sign(p) ==
  /\ p \notin Signed
  /\ \E d \in Drifts : ts' = Extend(ts, p, now + d)
  /\ UNCHANGED <<calibrate, now, clock, guard, request, restarts>>

(* What the estimator and the guard know is in memory only.                *)
Restart ==
  /\ restarts < MaxRestarts
  /\ restarts' = restarts + 1
  /\ offset' = 0 /\ samples' = 0 /\ wrong' = 0 /\ early' = FALSE /\ ahead' = 0
  /\ seen' = << >> /\ accepted' = {}
  /\ pc' = [r \in Requests |-> "idle"]
  /\ pkt' = [r \in Requests |-> NoPacket]
  /\ at' = [r \in Requests |-> 0]
  /\ spare' = [r \in Requests |-> -1]
  /\ UNCHANGED <<calibrate, now, ts>>

-----------------------------------------------------------------------------
(* Verify.                                                                 *)

Distance(t, u) == IF t >= u THEN t - u ELSE u - t

Spare(t) == IF Distance(t, now) <= Window THEN Window - Distance(t, now) ELSE -1

(* Identity and signature are in order; the clock is read.                 *)
Arrive(r, p) ==
  /\ pc[r] = "idle" /\ p \in Signed
  /\ pc' = [pc EXCEPT ![r] = IF ~calibrate THEN "check"
                             ELSE IF p \in Admins THEN "observe" ELSE "adjust"]
  /\ pkt' = [pkt EXCEPT ![r] = p]
  /\ at' = [at EXCEPT ![r] = now]
  /\ spare' = [spare EXCEPT ![r] = Spare(ts[p])]
  /\ UNCHANGED <<calibrate, now, ts, clock, guard, restarts>>

(* defect: the correction is not limited                                   *)
Unclamped(d) == d

Clamped(d) == IF d > Correction THEN Correction
              ELSE IF d < -Correction THEN -Correction ELSE d

(* Division of a Duration drops the fraction.                              *)
Quarter(d) == IF d >= 0 THEN d \div 4 ELSE -((-d) \div 4)

(* defect: every sample counts in full                                     *)
LastSample(d) == d

Estimate(d) == IF samples < 2 THEN d ELSE offset + Quarter(d - offset)

Observe(r) ==
  /\ pc[r] = "observe"
  /\ LET delta == ts[pkt[r]] - at[r]
     IN  /\ offset' = Estimate(Clamped(delta))
         /\ wrong' = IF delta # 0 /\ wrong < 2 THEN wrong + 1 ELSE wrong
         /\ early' = (early \/ (delta # 0 /\ samples < 2))
         /\ ahead' = IF Clamped(delta) > ahead THEN Clamped(delta) ELSE ahead
  /\ samples' = IF samples < 2 THEN samples + 1 ELSE samples
  /\ pc' = [pc EXCEPT ![r] = "adjust"]
  /\ UNCHANGED <<calibrate, now, ts, guard, pkt, at, spare, restarts>>

Adjust(r) ==
  /\ pc[r] = "adjust"
  /\ at' = [at EXCEPT ![r] = @ + offset]
  /\ pc' = [pc EXCEPT ![r] = "check"]
  /\ UNCHANGED <<calibrate, now, ts, clock, guard, pkt, spare, restarts>>

Fresh(r) == ts[pkt[r]] \in (at[r] - Window)..(at[r] + Window)

(* defect: everything older than now is dropped from the full cache        *)
PrunedToNow(f, time) == [p \in {q \in DOMAIN f : f[q] >= time} |-> f[p]]

Pruned(f, time) == [p \in {q \in DOMAIN f : f[q] >= time - Window} |-> f[p]]

Done(r) ==
  /\ pc' = [pc EXCEPT ![r] = "idle"]
  /\ pkt' = [pkt EXCEPT ![r] = NoPacket]
  /\ at' = [at EXCEPT ![r] = 0]
  /\ spare' = [spare EXCEPT ![r] = -1]

Accept(r) ==
  /\ pc[r] = "check" /\ Fresh(r) /\ pkt[r] \notin DOMAIN seen
  /\ LET more == Extend(seen, pkt[r], ts[pkt[r]])
     IN  seen' = IF Cardinality(DOMAIN more) > Max THEN Pruned(more, at[r]) ELSE more
  /\ accepted' = accepted \cup {pkt[r]}
  /\ Done(r)
  /\ UNCHANGED <<calibrate, now, ts, clock, restarts>>

Reject(r) ==
  /\ pc[r] = "check" /\ (Fresh(r) => pkt[r] \in DOMAIN seen)
  /\ Done(r)
  /\ UNCHANGED <<calibrate, now, ts, clock, guard, restarts>>

-----------------------------------------------------------------------------
Verify(r) == Observe(r) \/ Adjust(r) \/ Accept(r) \/ Reject(r)

Next == \/ Tick \/ Restart
        \/ \E p \in Packets : Sign(p)
        \/ \E r \in Requests : Verify(r) \/ \E p \in Packets : Arrive(r, p)

Spec == Init /\ [][Next]_vars

-----------------------------------------------------------------------------
TypeOK ==
  /\ calibrate \in BOOLEAN /\ now \in Instants /\ restarts \in 0..MaxRestarts
  /\ Signed \subseteq Packets /\ ts \in [Signed -> Int]
  /\ offset \in -Correction..Correction /\ samples \in 0..2
  /\ wrong \in 0..2 /\ early \in BOOLEAN /\ ahead \in 0..Correction
  /\ DOMAIN seen \subseteq accepted /\ accepted \subseteq Signed
  /\ \A p \in DOMAIN seen : seen[p] = ts[p]
  /\ pc \in [Requests -> {"idle", "observe", "adjust", "check"}]
  /\ pkt \in [Requests -> Packets \cup {NoPacket}]
  /\ at \in [Requests -> Int] /\ spare \in [Requests -> -1..Window]
  /\ \A r \in Requests : pc[r] # "idle" => pkt[r] \in Signed

(* The most advanced clock the node has gone by in this process: its own,  *)
(* or, if it calibrates, as far ahead as an admin's packet has been.       *)
Reach == now + (IF calibrate THEN ahead ELSE 0)

(* However many requests are under way and however full the cache is, a    *)
(* packet is accepted again only when it is stale on that clock (a request *)
(* may have read the clock before and wait for the lock while another one  *)
(* prunes), or after a restart.  So a node that does not calibrate refuses *)
(* every replay inside its window, and so does one whose admins' packets   *)
(* are right or late, but never ahead.                                     *)
NoReplayWhileFresh ==
  [][\A r \in Requests :
       Accept(r) /\ pkt[r] \in accepted => ts[pkt[r]] < Reach - Window]_vars

(* docs/02-cryptography.md: a repeated nonce is refused, and calibration   *)
(* eases refusals without weakening the protection.  It is not so: once an *)
(* admin's packet was ahead, nonces of fresh packets are pruned, and when  *)
(* the estimate comes back these packets are accepted again.               *)
CalibrationWeakensNothing ==
  [][\A r \in Requests :
       Accept(r) /\ pkt[r] \in accepted => ts[pkt[r]] < now - Window]_vars

(* What one wrong sample moves the estimate by, at most.                   *)
Jolt == Quarter(Correction)

(* "Slow to be fooled by a single bad packet" (clock.go).  While admins'   *)
(* packets are right, calibration makes the node turn away no packet that  *)
(* arrives inside the window; and once two were right, one wrong one, be   *)
(* it of a broken clock or a packet that came late, costs those only that  *)
(* are within a quarter of the correction of the window's end.             *)
OneBadSampleIsHarmless ==
  [][\A r \in Requests :
       /\ Reject(r) /\ ~early /\ wrong < 2
       /\ spare[r] >= (IF wrong = 0 THEN 0 ELSE Jolt)
       => pkt[r] \in DOMAIN seen]_vars
=============================================================================
