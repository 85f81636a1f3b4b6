--------------------------- MODULE VerifierProofs ---------------------------
(***************************************************************************)
(* Proofs about packet verification, for any packets, requests, drifts,    *)
(* window (the -clock-skew flag) and limit of the correction.              *)
(***************************************************************************)
EXTENDS Verifier, TLAPS

-----------------------------------------------------------------------------
(* The operators.                                                          *)

(* The correction is an integer inside its limits, and none for no error.  *)
LEMMA ClampedBounds ==
  ASSUME NEW d \in Int
  PROVE  /\ Clamped(d) \in Int
         /\ Clamped(d) <= Correction /\ -Correction <= Clamped(d)
         /\ d = 0 => Clamped(d) = 0
  BY VerifierAssumption DEF Clamped

(* A quarter is no further from zero than the whole, on the same side, and *)
(* a quarter of a correction is at most the jolt.                          *)
LEMMA QuarterBounds ==
  ASSUME NEW d \in Int
  PROVE  /\ Quarter(d) \in Int
         /\ d >= 0 => 0 <= Quarter(d) /\ Quarter(d) <= d
         /\ d <= 0 => d <= Quarter(d) /\ Quarter(d) <= 0
         /\ d <= Correction /\ -Correction <= d
              => Quarter(d) <= Jolt /\ -Jolt <= Quarter(d)
  BY VerifierAssumption DEF Quarter, Jolt

LEMMA JoltBounds == Jolt \in Nat
  BY VerifierAssumption DEF Quarter, Jolt

(* Inside the window the spare is what is left of it.                      *)
LEMMA SpareBounds ==
  ASSUME NEW t \in Int, now \in Int
  PROVE  /\ Spare(t) \in -1..Window
         /\ Spare(t) >= 0 => t - now <= Window - Spare(t) /\ now - t <= Window - Spare(t)
  BY VerifierAssumption DEF Spare, Distance

(* The estimate never leaves the limits of the correction, and is never    *)
(* ahead of both the sample and the estimate before.                       *)
LEMMA EstimateBounds ==
  ASSUME NEW d \in Int, d <= Correction, -Correction <= d,
         offset \in Int, offset <= Correction, -Correction <= offset
  PROVE  /\ Estimate(d) \in Int
         /\ Estimate(d) <= Correction /\ -Correction <= Estimate(d)
         /\ Estimate(d) <= d \/ Estimate(d) <= offset
  <1>1. CASE samples < 2
    BY <1>1 DEF Estimate
  <1>2. CASE ~(samples < 2)
    <2>1. d - offset \in Int
      OBVIOUS
    <2>2. /\ Quarter(d - offset) \in Int
          /\ d - offset >= 0 => 0 <= Quarter(d - offset) /\ Quarter(d - offset) <= d - offset
          /\ d - offset <= 0 => d - offset <= Quarter(d - offset) /\ Quarter(d - offset) <= 0
      BY <2>1, QuarterBounds
    <2>3. Estimate(d) = offset + Quarter(d - offset)
      BY <1>2 DEF Estimate
    <2> QED
      BY <2>1, <2>2, <2>3, VerifierAssumption
  <1> QED
    BY <1>1, <1>2

(* One wrong sample among right ones moves the estimate by a jolt at most. *)
LEMMA EstimateCalm ==
  ASSUME NEW d \in Int, d <= Correction, -Correction <= d, offset \in Int,
         offset <= Jolt, -Jolt <= offset,
         d = 0 \/ (offset = 0 /\ ~(samples < 2))
  PROVE  /\ Estimate(d) <= Jolt /\ -Jolt <= Estimate(d)
         /\ d = 0 /\ offset = 0 => Estimate(d) = 0
  <1>1. CASE samples < 2
    BY <1>1, JoltBounds DEF Estimate
  <1>2. CASE ~(samples < 2)
    <2>1. d - offset \in Int
      OBVIOUS
    <2>2. /\ Quarter(d - offset) \in Int
          /\ d - offset >= 0 => 0 <= Quarter(d - offset) /\ Quarter(d - offset) <= d - offset
          /\ d - offset <= 0 => d - offset <= Quarter(d - offset) /\ Quarter(d - offset) <= 0
          /\ d - offset <= Correction /\ -Correction <= d - offset
               => Quarter(d - offset) <= Jolt /\ -Jolt <= Quarter(d - offset)
      BY <2>1, QuarterBounds
    <2>3. Estimate(d) = offset + Quarter(d - offset)
      BY <1>2 DEF Estimate
    <2>4. CASE d = 0
      BY <2>1, <2>2, <2>3, <2>4, JoltBounds
    <2>5. CASE offset = 0 /\ d # 0
      BY <2>1, <2>2, <2>3, <2>5, JoltBounds
    <2> QED
      BY <2>4, <2>5
  <1> QED
    BY <1>1, <1>2

-----------------------------------------------------------------------------
(* The invariant.                                                          *)

(* A request has read the clock in the past, and corrects it within limits. *)
ReadBefore ==
  \A r \in Requests :
    /\ pc[r] \in {"observe", "adjust"} => at[r] <= now
    /\ pc[r] = "check" => at[r] <= Reach

(* The estimate is never ahead of every sample.                            *)
Led == offset <= ahead

(* Only a calibrated node takes the steps of the estimator.                *)
OnlyWhenCalibrating ==
  \A r \in Requests : pc[r] \in {"observe", "adjust"} => calibrate

(* A nonce is forgotten only when its packet is stale for the most advanced *)
(* clock a request could have.                                             *)
ForgottenWhenStale ==
  \A p \in accepted : p \in DOMAIN seen \/ ts[p] < Reach - Window

LEMMA ReachBounds == TypeOK => now \in Int /\ Reach \in Int /\ now <= Reach
  BY VerifierAssumption DEF Reach, TypeOK

(* Unless something was wrong early, the estimate stays small.             *)
Calm ==
  ~early => /\ samples < 2 => wrong = 0
            /\ wrong = 0 => offset = 0
            /\ wrong < 2 => offset <= Jolt /\ -Jolt <= offset

(* How far the estimate may be off by now.                                 *)
Slack == IF wrong = 0 THEN 0 ELSE Jolt

LEMMA SlackBounds == Slack \in Nat /\ Slack <= Jolt
  BY JoltBounds DEF Slack

(* And a packet with that much to spare stays inside the window.           *)
SpareInWindow ==
  wrong < 2 /\ ~early =>
    \A r \in Requests : spare[r] >= Slack =>
      /\ pc[r] \in {"observe", "adjust"} =>
           /\ ts[pkt[r]] - at[r] <= Window - spare[r]
           /\ at[r] - ts[pkt[r]] <= Window - spare[r]
      /\ pc[r] = "check" => Fresh(r)

IInv == /\ TypeOK /\ ReadBefore /\ Led /\ OnlyWhenCalibrating /\ ForgottenWhenStale
        /\ Calm /\ SpareInWindow

(* What the history and the guard's map are extended with.                 *)
LEMMA ExtendFacts ==
  ASSUME NEW f, NEW x, NEW v \in Int, f \in [DOMAIN f -> Int]
  PROVE  /\ DOMAIN Extend(f, x, v) = DOMAIN f \cup {x}
         /\ Extend(f, x, v) \in [DOMAIN f \cup {x} -> Int]
         /\ Extend(f, x, v)[x] = v
         /\ \A y \in DOMAIN f \ {x} : Extend(f, x, v)[y] = f[y]
  BY DEF Extend

-----------------------------------------------------------------------------
(* The steps.                                                              *)

LEMMA InitIInv == Init => IInv
<1> SUFFICES ASSUME Init PROVE IInv
  OBVIOUS
<1>1. Signed = {} /\ ts \in [Signed -> Int]
  BY DEF Init, Signed
<1>2. DOMAIN seen = {}
  BY DEF Init
<1>3. -Correction <= 0 /\ 0 <= Correction /\ 0 <= Window /\ Jolt \in Nat
  BY VerifierAssumption, JoltBounds
<1>4. TypeOK
  <2>1. spare \in [Requests -> -1..Window]
    BY <1>3, VerifierAssumption DEF Init
  <2>2. /\ pc \in [Requests -> {"idle", "observe", "adjust", "check"}]
        /\ pkt \in [Requests -> Packets \cup {NoPacket}] /\ at \in [Requests -> Int]
        /\ \A r \in Requests : pc[r] = "idle"
    BY DEF Init
  <2>3. /\ now \in Instants /\ restarts \in 0..MaxRestarts
        /\ offset \in -Correction..Correction /\ ahead \in 0..Correction
    BY <1>3, VerifierAssumption DEF Init
  <2>4. samples \in 0..2 /\ wrong \in 0..2 /\ accepted = {}
    BY DEF Init
  <2>5. early \in BOOLEAN /\ calibrate \in BOOLEAN
    BY Zenon DEF Init
  <2> QED
    BY <1>1, <1>2, <2>1, <2>2, <2>3, <2>4, <2>5 DEF TypeOK
<1>5. ReadBefore /\ Led /\ OnlyWhenCalibrating /\ ForgottenWhenStale /\ Calm /\ SpareInWindow
  BY <1>3 DEF Init, ReadBefore, Led, OnlyWhenCalibrating, ForgottenWhenStale, Calm, SpareInWindow
<1> QED
  BY <1>4, <1>5 DEF IInv

LEMMA TickStep == IInv /\ Tick => IInv'
<1> SUFFICES ASSUME IInv, Tick PROVE IInv'
  OBVIOUS
<1>1. now \in Nat /\ now' \in Nat /\ now <= now' /\ now' \in Instants
  BY VerifierAssumption DEF IInv, TypeOK, Tick
<1>2. TypeOK'
  BY <1>1 DEF IInv, TypeOK, Tick, Signed, clock, guard, request
<1>3. Reach \in Int /\ Reach' \in Int /\ Reach <= Reach'
  BY <1>1, VerifierAssumption DEF IInv, TypeOK, Reach, Tick, clock
<1>4. ReadBefore' /\ OnlyWhenCalibrating' /\ Led'
  BY <1>1, <1>3 DEF IInv, TypeOK, ReadBefore, OnlyWhenCalibrating, Led, Tick, request, clock
<1>5. ForgottenWhenStale'
  <2> SUFFICES ASSUME NEW p \in accepted, p \notin DOMAIN seen
               PROVE  ts[p] < Reach' - Window
    BY DEF ForgottenWhenStale, Tick, guard
  <2>1. ts[p] < Reach - Window /\ ts[p] \in Int
    BY DEF IInv, ForgottenWhenStale, TypeOK, Signed
  <2> QED
    BY <1>3, <2>1, VerifierAssumption
<1>6. Calm' /\ SpareInWindow'
  BY DEF IInv, Calm, SpareInWindow, Slack, Fresh, Tick, clock, request
<1> QED
  BY <1>2, <1>4, <1>5, <1>6 DEF IInv

LEMMA SignStep == ASSUME NEW p \in Packets PROVE IInv /\ Sign(p) => IInv'
<1> SUFFICES ASSUME IInv, Sign(p) PROVE IInv'
  OBVIOUS
<1>1. PICK d \in Drifts : ts' = Extend(ts, p, now + d)
  BY DEF Sign
<1>2. now + d \in Int /\ ts \in [DOMAIN ts -> Int]
  BY VerifierAssumption DEF IInv, TypeOK, Signed
<1>3. /\ DOMAIN ts' = DOMAIN ts \cup {p} /\ ts' \in [DOMAIN ts' -> Int]
      /\ \A q \in DOMAIN ts : ts'[q] = ts[q]
  <2>1. p \notin DOMAIN ts
    BY DEF Sign, Signed
  <2>2. /\ DOMAIN ts' = DOMAIN ts \cup {p} /\ ts' \in [DOMAIN ts \cup {p} -> Int]
        /\ \A q \in DOMAIN ts \ {p} : ts'[q] = ts[q]
    BY <1>1, <1>2 DEF Extend
  <2> QED
    BY <2>1, <2>2
<1>4. TypeOK'
  BY <1>3 DEF IInv, TypeOK, Sign, Signed, clock, guard, request
<1>5. ReadBefore' /\ Led' /\ OnlyWhenCalibrating' /\ Calm'
  BY DEF IInv, ReadBefore, Reach, Led, OnlyWhenCalibrating, Calm, Sign, request, clock
<1>6. ForgottenWhenStale'
  BY <1>3 DEF IInv, TypeOK, ForgottenWhenStale, Reach, Sign, Signed, guard, clock
<1>7. SpareInWindow'
  <2> SUFFICES ASSUME wrong < 2, ~early, NEW r \in Requests, spare[r] >= Slack
               PROVE  /\ pc[r] \in {"observe", "adjust"} =>
                           /\ ts'[pkt[r]] - at[r] <= Window - spare[r]
                           /\ at[r] - ts'[pkt[r]] <= Window - spare[r]
                      /\ pc[r] = "check" => Fresh(r)'
    BY DEF SpareInWindow, Slack, Sign, clock, request
  <2>1. pc[r] # "idle" => ts'[pkt[r]] = ts[pkt[r]]
    BY <1>3 DEF IInv, TypeOK, Signed
  <2> QED
    BY <2>1 DEF IInv, SpareInWindow, Fresh, Sign, request
<1> QED
  BY <1>4, <1>5, <1>6, <1>7 DEF IInv

LEMMA RestartStep == IInv /\ Restart => IInv'
<1> SUFFICES ASSUME IInv, Restart PROVE IInv'
  OBVIOUS
<1>1. DOMAIN seen' = {} /\ restarts' \in 0..MaxRestarts
  BY VerifierAssumption DEF Restart, IInv, TypeOK
<1>2. -Correction <= 0 /\ 0 <= Correction /\ 0 <= Window /\ Jolt \in Nat
  BY VerifierAssumption, JoltBounds
<1>3. TypeOK'
  <2>1. spare' \in [Requests -> -1..Window]
    BY <1>2, VerifierAssumption DEF Restart
  <2>2. /\ pc' \in [Requests -> {"idle", "observe", "adjust", "check"}]
        /\ pkt' \in [Requests -> Packets \cup {NoPacket}] /\ at' \in [Requests -> Int]
        /\ \A r \in Requests : pc'[r] = "idle"
    BY DEF Restart
  <2>3. offset' \in -Correction..Correction /\ ahead' \in 0..Correction
    BY <1>2, VerifierAssumption DEF Restart
  <2>4. samples' \in 0..2 /\ wrong' \in 0..2 /\ accepted' = {}
    BY DEF Restart
  <2>5. /\ calibrate' \in BOOLEAN /\ now' \in Instants /\ ts' = ts
        /\ Signed \subseteq Packets /\ ts \in [Signed -> Int]
    BY DEF Restart, IInv, TypeOK
  <2>6. early' \in BOOLEAN
    BY Zenon DEF Restart
  <2> QED
    BY <1>1, <2>1, <2>2, <2>3, <2>4, <2>5, <2>6 DEF TypeOK, Signed
<1>4. /\ ReadBefore' /\ Led' /\ OnlyWhenCalibrating' /\ ForgottenWhenStale'
      /\ Calm' /\ SpareInWindow'
  BY <1>2 DEF Restart, ReadBefore, Led, OnlyWhenCalibrating, ForgottenWhenStale, Calm, SpareInWindow
<1> QED
  BY <1>3, <1>4 DEF IInv

LEMMA ArriveStep ==
  ASSUME NEW r \in Requests, NEW p \in Packets PROVE IInv /\ Arrive(r, p) => IInv'
<1> SUFFICES ASSUME IInv, Arrive(r, p) PROVE IInv'
  OBVIOUS
<1>1. now \in Int /\ ts[p] \in Int
  BY ReachBounds DEF IInv, TypeOK, Arrive, Signed
<1>2. /\ Spare(ts[p]) \in -1..Window
      /\ Spare(ts[p]) >= 0 => /\ ts[p] - now <= Window - Spare(ts[p])
                              /\ now - ts[p] <= Window - Spare(ts[p])
  BY <1>1, SpareBounds
<1>3. TypeOK'
  <2>1. spare' \in [Requests -> -1..Window]
    BY <1>2 DEF IInv, TypeOK, Arrive
  <2> QED
    BY <1>1, <2>1 DEF IInv, TypeOK, Arrive, Signed, clock, guard
<1>4. ReadBefore' /\ OnlyWhenCalibrating'
  <2>1. Reach' = Reach /\ Reach \in Int /\ now <= Reach
    BY ReachBounds DEF IInv, Reach, Arrive, clock
  <2> QED
    BY <1>1, <2>1 DEF IInv, TypeOK, ReadBefore, OnlyWhenCalibrating, Arrive
<1>5. ForgottenWhenStale' /\ Calm' /\ Led'
  BY DEF IInv, ForgottenWhenStale, Reach, Calm, Led, Arrive, clock, guard
<1>6. SpareInWindow'
  <2> SUFFICES ASSUME wrong < 2, ~early, NEW q \in Requests, spare'[q] >= Slack
               PROVE  /\ pc'[q] \in {"observe", "adjust"} =>
                           /\ ts[pkt'[q]] - at'[q] <= Window - spare'[q]
                           /\ at'[q] - ts[pkt'[q]] <= Window - spare'[q]
                      /\ pc'[q] = "check" => Fresh(q)'
    BY DEF SpareInWindow, Slack, Arrive, clock
  <2>1. CASE q = r
    <3>1. at'[r] = now /\ pkt'[r] = p /\ spare'[r] = Spare(ts[p])
      BY DEF IInv, TypeOK, Arrive
    <3>2. /\ ts[p] - now <= Window - Spare(ts[p]) /\ now - ts[p] <= Window - Spare(ts[p])
          /\ Spare(ts[p]) \in 0..Window
      BY <1>2, <2>1, <3>1, SlackBounds, VerifierAssumption
    <3>3. ts[p] \in (now - Window)..(now + Window)
      BY <1>1, <3>2, VerifierAssumption
    <3> QED
      BY <2>1, <3>1, <3>2, <3>3 DEF Fresh, Arrive
  <2>2. CASE q # r
    BY <2>2 DEF IInv, TypeOK, SpareInWindow, Fresh, Arrive
  <2> QED
    BY <2>1, <2>2
<1> QED
  BY <1>3, <1>4, <1>5, <1>6 DEF IInv

LEMMA ObserveStep == ASSUME NEW r \in Requests PROVE IInv /\ Observe(r) => IInv'
<1> SUFFICES ASSUME IInv, Observe(r) PROVE IInv'
  OBVIOUS
<1> DEFINE delta == ts[pkt[r]] - at[r]
<1>1. delta \in Int
  BY DEF IInv, TypeOK, Observe, Signed
<1>2. /\ offset' = Estimate(Clamped(delta))
      /\ wrong' = IF delta # 0 /\ wrong < 2 THEN wrong + 1 ELSE wrong
      /\ early' = (early \/ (delta # 0 /\ samples < 2))
      /\ ahead' = IF Clamped(delta) > ahead THEN Clamped(delta) ELSE ahead
      /\ samples' = IF samples < 2 THEN samples + 1 ELSE samples
  BY DEF Observe
<1>3. offset \in Int /\ offset <= Correction /\ -Correction <= offset
  BY VerifierAssumption DEF IInv, TypeOK
<1>4. wrong \in 0..2 /\ samples \in 0..2 /\ wrong' \in 0..2 /\ samples' \in 0..2
  BY <1>2 DEF IInv, TypeOK
<1> HIDE DEF delta
<1>5. /\ Clamped(delta) \in Int
      /\ Clamped(delta) <= Correction /\ -Correction <= Clamped(delta)
      /\ delta = 0 => Clamped(delta) = 0
  BY <1>1, ClampedBounds
<1>6. /\ offset' \in Int /\ offset' <= Correction /\ -Correction <= offset'
      /\ offset' <= Clamped(delta) \/ offset' <= offset
  BY <1>2, <1>3, <1>5, EstimateBounds
<1>7. TypeOK'
  <2>1. offset' \in -Correction..Correction /\ ahead' \in 0..Correction
    BY <1>2, <1>5, <1>6, VerifierAssumption DEF IInv, TypeOK
  <2>2. early' \in BOOLEAN
    BY <1>2
  <2>3. pc' \in [Requests -> {"idle", "observe", "adjust", "check"}]
    BY DEF IInv, TypeOK, Observe
  <2>4. \A q \in Requests : pc'[q] # "idle" => pkt[q] \in Signed
    BY DEF IInv, TypeOK, Observe
  <2> QED
    BY <1>4, <2>1, <2>2, <2>3, <2>4 DEF IInv, TypeOK, Observe, Signed, guard
<1>8. ReadBefore' /\ Led' /\ OnlyWhenCalibrating' /\ ForgottenWhenStale'
  <2>1. /\ ahead \in Int /\ ahead' \in Int /\ ahead <= ahead' /\ Clamped(delta) <= ahead'
        /\ offset <= ahead
    BY <1>2, <1>5, VerifierAssumption DEF IInv, TypeOK, Led
  <2>2. Reach \in Int /\ Reach' \in Int /\ Reach <= Reach'
    BY <2>1, ReachBounds DEF IInv, Reach, Observe
  <2>3. Led'
    BY <1>3, <1>5, <1>6, <2>1 DEF Led
  <2>4. OnlyWhenCalibrating'
    BY DEF IInv, TypeOK, OnlyWhenCalibrating, Observe
  <2>5. ReadBefore'
    BY <2>2 DEF IInv, TypeOK, ReadBefore, Observe
  <2>6. ForgottenWhenStale'
    <3> SUFFICES ASSUME NEW p \in accepted, p \notin DOMAIN seen
                 PROVE  ts[p] < Reach' - Window
      BY DEF ForgottenWhenStale, Observe, guard
    <3>1. ts[p] < Reach - Window /\ ts[p] \in Int
      BY DEF IInv, ForgottenWhenStale, TypeOK, Signed
    <3> QED
      BY <2>2, <3>1, VerifierAssumption
  <2> QED
    BY <2>3, <2>4, <2>5, <2>6
<1>9. Calm'
  <2> SUFFICES ASSUME ~early'
               PROVE  /\ samples' < 2 => wrong' = 0
                      /\ wrong' = 0 => offset' = 0
                      /\ wrong' < 2 => offset' <= Jolt /\ -Jolt <= offset'
    BY DEF Calm
  <2>1. ~early /\ (delta = 0 \/ ~(samples < 2))
    BY <1>2
  <2>2. /\ samples < 2 => wrong = 0
        /\ wrong = 0 => offset = 0
        /\ wrong < 2 => offset <= Jolt /\ -Jolt <= offset
    BY <2>1 DEF IInv, Calm
  <2>3. samples' < 2 => wrong' = 0
    BY <1>2, <1>4, <2>1, <2>2
  <2>4. wrong' < 2 => wrong < 2 /\ (delta = 0 \/ (offset = 0 /\ ~(samples < 2)))
    BY <1>2, <1>4, <2>1, <2>2
  <2>5. wrong' = 0 => delta = 0 /\ offset = 0
    BY <1>2, <1>4, <2>2
  <2>6. CASE wrong' < 2
    <3>1. Clamped(delta) = 0 \/ (offset = 0 /\ ~(samples < 2))
      BY <1>5, <2>4, <2>6
    <3>2. offset <= Jolt /\ -Jolt <= offset
      BY <2>2, <2>4, <2>6
    <3>3. /\ Estimate(Clamped(delta)) <= Jolt /\ -Jolt <= Estimate(Clamped(delta))
          /\ Clamped(delta) = 0 /\ offset = 0 => Estimate(Clamped(delta)) = 0
      BY <1>3, <1>5, <3>1, <3>2, EstimateCalm
    <3> QED
      BY <1>2, <1>5, <2>3, <2>5, <3>3
  <2>7. CASE ~(wrong' < 2)
    BY <1>4, <2>3, <2>7
  <2> QED
    BY <2>6, <2>7
<1>10. SpareInWindow'
  <2> SUFFICES ASSUME wrong' < 2, ~early', NEW q \in Requests, spare[q] >= Slack'
               PROVE  /\ pc'[q] \in {"observe", "adjust"} =>
                           /\ ts[pkt[q]] - at[q] <= Window - spare[q]
                           /\ at[q] - ts[pkt[q]] <= Window - spare[q]
                      /\ pc'[q] = "check" => Fresh(q)
    BY DEF SpareInWindow, Fresh, Observe
  <2>1. /\ ~early
        /\ wrong < 2 /\ (wrong' = 0 => wrong = 0)
    <3>1. ~early
      BY <1>2
    <3>2. wrong < 2 /\ (wrong' = 0 => wrong = 0)
      BY <1>2, <1>4
    <3> QED
      BY <3>1, <3>2
  <2>2. Slack' = IF wrong' = 0 THEN 0 ELSE Jolt
    BY DEF Slack, Jolt, Quarter
  <2>3. spare[q] \in Int /\ Slack <= Slack' /\ Slack \in Int /\ Slack' \in Int
    BY <2>1, <2>2, JoltBounds, VerifierAssumption DEF Slack, IInv, TypeOK
  <2>4. spare[q] >= Slack
    BY <2>3
  <2> QED
    BY <2>1, <2>4 DEF IInv, TypeOK, SpareInWindow, Observe
<1> QED
  BY <1>7, <1>8, <1>9, <1>10 DEF IInv

LEMMA AdjustStep == ASSUME NEW r \in Requests PROVE IInv /\ Adjust(r) => IInv'
<1> SUFFICES ASSUME IInv, Adjust(r) PROVE IInv'
  OBVIOUS
<1>1. offset \in Int /\ at[r] \in Int /\ at' = [at EXCEPT ![r] = at[r] + offset]
  BY VerifierAssumption DEF IInv, TypeOK, Adjust
<1>2. TypeOK'
  BY <1>1 DEF IInv, TypeOK, Adjust, Signed, clock, guard
<1>3. calibrate
  BY DEF IInv, OnlyWhenCalibrating, Adjust
<1>4. ReadBefore' /\ Led' /\ OnlyWhenCalibrating' /\ ForgottenWhenStale'
  <2>1. Reach' = Reach /\ Reach = now + ahead /\ offset <= ahead /\ ahead \in Int
    BY <1>3, VerifierAssumption DEF IInv, TypeOK, Led, Reach, Adjust, clock
  <2>2. OnlyWhenCalibrating' /\ ForgottenWhenStale' /\ Led'
    BY <1>3, <2>1 DEF IInv, ForgottenWhenStale, OnlyWhenCalibrating, Led, Adjust, guard, clock
  <2>3. now \in Int /\ at[r] <= now
    BY ReachBounds DEF IInv, ReadBefore, Adjust
  <2>4. at'[r] <= Reach /\ pc'[r] = "check"
    BY <1>1, <2>1, <2>3 DEF IInv, TypeOK, Adjust
  <2>5. \A q \in Requests \ {r} : at'[q] = at[q] /\ pc'[q] = pc[q]
    BY <1>1 DEF IInv, TypeOK, Adjust
  <2>6. now' = now
    BY DEF Adjust
  <2> QED
    BY <2>1, <2>2, <2>4, <2>5, <2>6 DEF IInv, ReadBefore
<1>5. Calm'
  BY DEF IInv, Calm, Adjust, clock
<1>6. SpareInWindow'
  <2> SUFFICES ASSUME wrong < 2, ~early, NEW q \in Requests, spare[q] >= Slack
               PROVE  /\ pc'[q] \in {"observe", "adjust"} =>
                           /\ ts[pkt[q]] - at'[q] <= Window - spare[q]
                           /\ at'[q] - ts[pkt[q]] <= Window - spare[q]
                      /\ pc'[q] = "check" => Fresh(q)'
    BY DEF SpareInWindow, Slack, Adjust, clock
  <2>1. CASE q = r
    <3>1. /\ ts[pkt[r]] - at[r] <= Window - spare[r] /\ at[r] - ts[pkt[r]] <= Window - spare[r]
          /\ pkt[r] \in Signed
      BY <2>1 DEF IInv, TypeOK, SpareInWindow, Adjust
    <3>2. offset <= Slack /\ -Slack <= offset
      BY DEF IInv, Calm, Slack
    <3>3. spare[r] \in Int /\ ts[pkt[r]] \in Int /\ Slack \in Int /\ Window \in Int
      BY <3>1, SlackBounds, VerifierAssumption DEF IInv, TypeOK
    <3>4. ts[pkt[r]] \in (at[r] + offset - Window)..(at[r] + offset + Window)
      BY <1>1, <2>1, <3>1, <3>2, <3>3
    <3>5. at'[r] = at[r] + offset /\ pc'[r] = "check"
      BY <1>1 DEF IInv, TypeOK, Adjust
    <3>6. ts'[pkt'[r]] = ts[pkt[r]]
      BY DEF Adjust
    <3>7. ts'[pkt'[r]] \in (at'[r] - Window)..(at'[r] + Window)
      BY <1>1, <3>3, <3>4, <3>5, <3>6
    <3>8. Fresh(r)'
      BY <3>7 DEF Fresh
    <3> QED
      BY <2>1, <3>5, <3>8
  <2>2. CASE q # r
    BY <1>1, <2>2 DEF IInv, TypeOK, SpareInWindow, Fresh, Adjust
  <2> QED
    BY <2>1, <2>2
<1> QED
  BY <1>2, <1>4, <1>5, <1>6 DEF IInv

(* What the end of a request does to the invariant, whatever the guard did. *)
LEMMA DoneStep ==
  ASSUME NEW r \in Requests, IInv, Done(r), UNCHANGED <<calibrate, now, ts, clock>>
  PROVE  /\ pc' \in [Requests -> {"idle", "observe", "adjust", "check"}]
         /\ pkt' \in [Requests -> Packets \cup {NoPacket}]
         /\ at' \in [Requests -> Int] /\ spare' \in [Requests -> -1..Window]
         /\ \A q \in Requests : pc'[q] # "idle" => pkt'[q] \in Signed
         /\ ReadBefore' /\ Led' /\ OnlyWhenCalibrating' /\ Calm' /\ SpareInWindow'
<1>1. spare' \in [Requests -> -1..Window]
  BY VerifierAssumption DEF IInv, TypeOK, Done
<1>2. /\ pc' \in [Requests -> {"idle", "observe", "adjust", "check"}]
      /\ pkt' \in [Requests -> Packets \cup {NoPacket}] /\ at' \in [Requests -> Int]
      /\ \A q \in Requests : pc'[q] # "idle" => pkt'[q] \in Signed
  BY DEF IInv, TypeOK, Done
<1>3. \A q \in Requests : \/ pc'[q] = "idle"
                          \/ UNCHANGED <<pc[q], pkt[q], at[q], spare[q]>>
  BY DEF IInv, TypeOK, Done
<1>4. ReadBefore' /\ Led' /\ OnlyWhenCalibrating' /\ Calm'
  BY <1>3 DEF IInv, ReadBefore, Reach, Led, OnlyWhenCalibrating, Calm, clock
<1>5. SpareInWindow'
  BY <1>3 DEF IInv, SpareInWindow, Slack, Fresh, clock
<1> QED
  BY <1>1, <1>2, <1>4, <1>5

LEMMA AcceptStep == ASSUME NEW r \in Requests PROVE IInv /\ Accept(r) => IInv'
<1> SUFFICES ASSUME IInv, Accept(r) PROVE IInv'
  OBVIOUS
<1> DEFINE more == Extend(seen, pkt[r], ts[pkt[r]])
<1>1. /\ pkt[r] \in Signed /\ accepted' = accepted \cup {pkt[r]}
      /\ seen' = IF Cardinality(DOMAIN more) > Max THEN Pruned(more, at[r]) ELSE more
      /\ Done(r) /\ UNCHANGED <<calibrate, now, ts, clock, restarts>>
  BY DEF IInv, TypeOK, Accept
<1>2. /\ DOMAIN more = DOMAIN seen \cup {pkt[r]}
      /\ \A p \in DOMAIN more : more[p] = ts[p]
  BY DEF IInv, TypeOK, Extend
<1>3. /\ DOMAIN Pruned(more, at[r]) = {p \in DOMAIN more : more[p] >= at[r] - Window}
      /\ \A p \in DOMAIN Pruned(more, at[r]) : Pruned(more, at[r])[p] = more[p]
  BY DEF Pruned
<1> HIDE DEF more
<1>4. /\ DOMAIN seen' \subseteq accepted' /\ accepted' \subseteq Signed
      /\ \A p \in DOMAIN seen' : seen'[p] = ts[p]
  <2>1. DOMAIN seen' \subseteq DOMAIN more /\ \A p \in DOMAIN seen' : seen'[p] = more[p]
    BY <1>1, <1>3
  <2> QED
    BY <1>1, <1>2, <2>1 DEF IInv, TypeOK
<1>5. TypeOK'
  BY <1>1, <1>4, DoneStep DEF IInv, TypeOK, Signed, clock
<1>6. ForgottenWhenStale'
  <2> SUFFICES ASSUME NEW p \in accepted', p \notin DOMAIN seen'
               PROVE  ts[p] < Reach - Window
    BY <1>1 DEF ForgottenWhenStale, Reach, clock
  <2>1. /\ now \in Int /\ at[r] \in Int /\ ts[p] \in Int /\ Reach \in Int
        /\ at[r] <= Reach
    BY <1>1, ReachBounds DEF IInv, TypeOK, Signed, ReadBefore, Accept
  <2>2. CASE p \in DOMAIN more
    <3>1. ~(ts[p] >= at[r] - Window)
      BY <1>1, <1>2, <1>3, <2>2
    <3> QED
      BY <2>1, <3>1, VerifierAssumption
  <2>3. CASE p \notin DOMAIN more
    <3>1. p \in accepted /\ p \notin DOMAIN seen
      BY <1>1, <1>2, <2>3
    <3> QED
      BY <3>1 DEF IInv, ForgottenWhenStale
  <2> QED
    BY <2>2, <2>3
<1> QED
  BY <1>1, <1>5, <1>6, DoneStep DEF IInv

LEMMA RejectStep == ASSUME NEW r \in Requests PROVE IInv /\ Reject(r) => IInv'
<1> SUFFICES ASSUME IInv, Reject(r) PROVE IInv'
  OBVIOUS
<1>1. Done(r) /\ UNCHANGED <<calibrate, now, ts, clock, guard, restarts>>
  BY DEF Reject
<1>2. TypeOK'
  BY <1>1, DoneStep DEF IInv, TypeOK, Signed, clock, guard
<1>3. ForgottenWhenStale'
  BY <1>1 DEF IInv, ForgottenWhenStale, Reach, guard, clock
<1> QED
  BY <1>1, <1>2, <1>3, DoneStep DEF IInv

(* Every step of the specification keeps the invariant.                    *)
LEMMA NextIInv == IInv /\ [Next]_vars => IInv'
<1> SUFFICES ASSUME IInv, [Next]_vars PROVE IInv'
  OBVIOUS
<1>1. CASE Tick
  BY <1>1, TickStep
<1>2. CASE Restart
  BY <1>2, RestartStep
<1>3. ASSUME NEW p \in Packets, Sign(p) PROVE IInv'
  BY <1>3, SignStep
<1>4. ASSUME NEW r \in Requests, Verify(r) PROVE IInv'
  BY <1>4, ObserveStep, AdjustStep, AcceptStep, RejectStep DEF Verify
<1>5. ASSUME NEW r \in Requests, NEW p \in Packets, Arrive(r, p) PROVE IInv'
  BY <1>5, ArriveStep
<1>6. CASE UNCHANGED vars
  BY <1>6 DEF vars, IInv, TypeOK, Signed, ReadBefore, OnlyWhenCalibrating,
              ForgottenWhenStale, Reach, Led, Calm, SpareInWindow, Slack, Fresh
<1> QED
  BY <1>1, <1>2, <1>3, <1>4, <1>5, <1>6 DEF Next

LEMMA AlwaysIInv == Spec => []IInv
  BY InitIInv, NextIInv, PTL DEF Spec

-----------------------------------------------------------------------------
(* Every reachable state is well typed, and the correction of the clock    *)
(* never exceeds its limit, whatever the admins' clocks say.               *)
THEOREM TypeCorrectness == Spec => []TypeOK
<1>1. IInv => TypeOK
  BY DEF IInv
<1> QED
  BY <1>1, AlwaysIInv, PTL

(* No packet inside the window of the most advanced clock the node has     *)
(* gone by is accepted again, however small the cache, however many        *)
(* requests race for the guard, for any window: on a node that does not    *)
(* calibrate, none inside its own.                                         *)
THEOREM AcceptedOnce == Spec => NoReplayWhileFresh
<1> DEFINE Once == \A r \in Requests :
      Accept(r) /\ pkt[r] \in accepted => ts[pkt[r]] < Reach - Window
<1>1. IInv => Once
  BY DEF IInv, ForgottenWhenStale, Accept
<1>2. IInv /\ [Next]_vars => [Once]_vars
  BY <1>1
<1> HIDE DEF Once
<1>3. Spec => [][Once]_vars
  BY <1>2, AlwaysIInv, PTL DEF Spec
<1> QED
  BY <1>3 DEF NoReplayWhileFresh, Once

(* While samples are right no packet inside the window is turned away, and *)
(* one wrong sample after two right ones costs only those within a quarter *)
(* of the correction of its end, for any window and any correction.        *)
THEOREM OneBadSampleIsAbsorbed == Spec => OneBadSampleIsHarmless
<1> DEFINE Harmless == \A r \in Requests :
      /\ Reject(r) /\ ~early /\ wrong < 2
      /\ spare[r] >= (IF wrong = 0 THEN 0 ELSE Jolt)
      => pkt[r] \in DOMAIN seen
<1>1. IInv => Harmless
  BY DEF IInv, SpareInWindow, Slack, Reject
<1>2. IInv /\ [Next]_vars => [Harmless]_vars
  BY <1>1
<1> HIDE DEF Harmless
<1>3. Spec => [][Harmless]_vars
  BY <1>2, AlwaysIInv, PTL DEF Spec
<1> QED
  BY <1>3 DEF OneBadSampleIsHarmless, Harmless
=============================================================================
