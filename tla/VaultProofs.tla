---------------------------- MODULE VaultProofs ----------------------------
(***************************************************************************)
(* What holds of the vault for every number of writers, writes, failures   *)
(* and boots: the inductive invariant IInv, and from it type correctness,  *)
(* a vault that never regresses and never carries the zeroed key, and the  *)
(* implementation of DurableLog.                                           *)
(***************************************************************************)
EXTENDS Vault, TLAPS

(* Zero is within every bound.                                             *)
LEMMA ZeroInRange == 0 \in 0..MaxWrites /\ 0 \in 0..MaxFaults /\ 0 \in 0..MaxBoots
BY BoundsAssumption

(* The initial state, before the first boot, satisfies the invariant.      *)
LEMMA InitIInv == Init => IInv
<1> SUFFICES ASSUME Init PROVE IInv
    OBVIOUS
<1>1. TypeOK
      BY ZeroInRange DEF Init, TypeOK, Sealers, Closers, Ticker, PcStates
<1>2. VaultUnsealable /\ Mutex /\ HandleOK /\ SnapshotOK /\ WrittenOK
      BY DEF Init, VaultUnsealable, Mutex, HandleOK, SnapshotOK, WrittenOK, InCritical
<1> QED BY <1>1, <1>2 DEF IInv

(* Every operation of the store, its goroutines and its process, at any    *)
(* interleaving, keeps the types of the state.                             *)
LEMMA NextTypeOK == IInv /\ [Next]_vars => TypeOK'
<1> USE BoundsAssumption, ZeroInRange DEF IInv, TypeOK, files, flags, handle, process, Goto, Return,
        Sealers, Closers, Ticker, PcStates
<1> SUFFICES ASSUME IInv, [Next]_vars PROVE TypeOK'
    OBVIOUS
<1>1. CASE Open
  <2>1. pc' \in [Sealers -> PcStates] /\ snap' \in [Sealers -> 0..MaxWrites]
        BY <1>1 DEF Open
  <2>2. boots' \in 0..MaxBoots /\ raw' \in 0..MaxWrites
        BY <1>1 DEF Open, UnsealedCopy
  <2> QED BY <1>1, <2>1, <2>2 DEF Open
<1>2. CASE Tick \/ TickerExit BY <1>2 DEF Tick, TickerExit
<1>3. CASE Signal \/ Crash BY <1>3 DEF Signal, Crash
<1>4. ASSUME NEW w \in Writers, Commit(w) \/ MarkDirty(w) PROVE TypeOK'
  <2>1. CASE Commit(w) BY <2>1 DEF Commit
  <2>2. CASE MarkDirty(w) BY <2>2 DEF MarkDirty
  <2> QED BY <1>4, <2>1, <2>2
<1>5. ASSUME NEW h \in Sealers, SealStep(h) PROVE TypeOK'
  <2>1. CASE Lock(h) BY <2>1 DEF Lock
  <2>2. CASE Skip(h) BY <2>2 DEF Skip
  <2>3. CASE Snapshot(h) BY <2>3 DEF Snapshot, SnapshotContents
  <2>4. CASE SnapshotRefused(h) BY <2>4 DEF SnapshotRefused, FlagsAfterError
  <2>5. CASE Fault(h) BY <2>5 DEF Fault, FlagsAfterError
  <2>6. CASE Seal(h) BY <2>6 DEF Seal
  <2>7. CASE MarkClean(h) BY <2>7 DEF MarkClean
  <2> QED BY <1>5, <2>1, <2>2, <2>3, <2>4, <2>5, <2>6, <2>7 DEF SealStep
<1>6. ASSUME NEW h \in Closers, CloseStep(h) PROVE TypeOK'
  <2>1. CASE CallClose(h) BY <2>1 DEF CallClose
  <2>2. CASE Release(h) BY <2>2 DEF Release, HandleClosed
  <2>3. CASE Exit(h) BY <2>3 DEF Exit
  <2> QED BY <1>6, <2>1, <2>2, <2>3 DEF CloseStep
<1>7. CASE UNCHANGED vars BY <1>7 DEF vars
<1> QED BY <1>1, <1>2, <1>3, <1>4, <1>5, <1>6, <1>7 DEF Next

(* Only the holder of Store.mu is inside Persist or Close, after any step. *)
LEMMA NextMutex == IInv /\ [Next]_vars => Mutex'
<1> USE DEF IInv, TypeOK, Mutex, InCritical, files, flags, handle, process, Goto, Return,
        Sealers, Closers, Ticker, PcStates
<1> SUFFICES ASSUME IInv, [Next]_vars PROVE Mutex'
    OBVIOUS
<1>1. CASE Open BY <1>1 DEF Open
<1>2. CASE Tick \/ TickerExit BY <1>2 DEF Tick, TickerExit
<1>3. CASE Signal \/ Crash BY <1>3 DEF Signal, Crash
<1>4. ASSUME NEW w \in Writers, Commit(w) \/ MarkDirty(w) PROVE Mutex'
    BY <1>4 DEF Commit, MarkDirty
<1>5. ASSUME NEW h \in Sealers, SealStep(h) PROVE Mutex'
  <2>1. CASE Lock(h) BY <2>1 DEF Lock, MutexFree
  <2>2. CASE Skip(h) BY <2>2 DEF Skip
  <2>3. CASE Snapshot(h) BY <2>3 DEF Snapshot
  <2>4. CASE SnapshotRefused(h) BY <2>4 DEF SnapshotRefused
  <2>5. CASE Fault(h) BY <2>5 DEF Fault
  <2>6. CASE Seal(h) BY <2>6 DEF Seal
  <2>7. CASE MarkClean(h) BY <2>7 DEF MarkClean
  <2> QED BY <1>5, <2>1, <2>2, <2>3, <2>4, <2>5, <2>6, <2>7 DEF SealStep
<1>6. ASSUME NEW h \in Closers, CloseStep(h) PROVE Mutex'
  <2>1. CASE CallClose(h) BY <2>1 DEF CallClose
  <2>2. CASE Release(h) BY <2>2 DEF Release
  <2>3. CASE Exit(h) BY <2>3 DEF Exit
  <2> QED BY <1>6, <2>1, <2>2, <2>3 DEF CloseStep
<1>7. CASE UNCHANGED vars BY <1>7 DEF vars
<1> QED BY <1>1, <1>2, <1>3, <1>4, <1>5, <1>6, <1>7 DEF Next

(* No step puts an open handle behind the vault, invalidates a snapshot    *)
(* that is about to be sealed, changes a vault whose flags are about to be *)
(* cleared, or seals under the zeroed key.                                 *)
LEMMA NextHandle ==
  IInv /\ [Next]_vars => (VaultUnsealable /\ HandleOK /\ SnapshotOK /\ WrittenOK)'
<1> USE DEF IInv, TypeOK, VaultUnsealable, HandleOK, SnapshotOK, WrittenOK, files, flags, handle,
        process, Goto, Return, Sealers, Closers, Ticker, PcStates
<1> DEFINE Data == VaultUnsealable /\ HandleOK /\ SnapshotOK /\ WrittenOK
<1> SUFFICES ASSUME IInv, [Next]_vars PROVE Data'
    OBVIOUS
<1>1. CASE Open BY <1>1 DEF Open, UnsealedCopy
<1>2. CASE Tick \/ TickerExit BY <1>2 DEF Tick, TickerExit
<1>3. CASE Signal \/ Crash BY <1>3 DEF Signal, Crash
<1>4. ASSUME NEW w \in Writers, Commit(w) \/ MarkDirty(w) PROVE Data'
    BY <1>4 DEF Commit, MarkDirty
<1>5. ASSUME NEW h \in Sealers, SealStep(h) PROVE Data'
  <2>1. CASE Lock(h) BY <2>1 DEF Lock
  <2>2. CASE Skip(h) BY <2>2 DEF Skip
  <2>3. CASE Snapshot(h) BY <2>3 DEF Snapshot, SnapshotContents
  <2>4. CASE SnapshotRefused(h) BY <2>4 DEF SnapshotRefused
  <2>5. CASE Fault(h) BY <2>5 DEF Fault
  <2>6. CASE Seal(h)
        (* the others are not inside: h holds the lock                     *)
    <3>1. \A g \in Sealers \ {h} : pc[g] \notin {"snapped", "written"}
          BY <2>6 DEF Seal, Mutex, InCritical
    <3> QED BY <2>6, <3>1 DEF Seal
  <2>7. CASE MarkClean(h) BY <2>7 DEF MarkClean
  <2> QED BY <1>5, <2>1, <2>2, <2>3, <2>4, <2>5, <2>6, <2>7 DEF SealStep
<1>6. ASSUME NEW h \in Closers, CloseStep(h) PROVE Data'
  <2>1. CASE CallClose(h) BY <2>1 DEF CallClose
  <2>2. CASE Release(h)
    <3>1. \A g \in Sealers : pc[g] # "snapped"
          BY <2>2 DEF Release, Mutex, InCritical
    <3> QED BY <2>2, <3>1 DEF Release, HandleClosed
  <2>3. CASE Exit(h) BY <2>3 DEF Exit
  <2> QED BY <1>6, <2>1, <2>2, <2>3 DEF CloseStep
<1>7. CASE UNCHANGED vars BY <1>7 DEF vars
<1> QED BY <1>1, <1>2, <1>3, <1>4, <1>5, <1>6, <1>7 DEF Next

(* The inductive invariant holds in every reachable state.                 *)
THEOREM Invariance == Spec => []IInv
<1>1. IInv /\ [Next]_vars => IInv'
      BY NextTypeOK, NextMutex, NextHandle DEF IInv
<1> QED BY InitIInv, <1>1, PTL DEF Spec

(* Type correctness of the store.                                          *)
THEOREM TypeCorrectness == Spec => []TypeOK
<1>1. IInv => TypeOK BY DEF IInv
<1> QED BY Invariance, <1>1, PTL

(* The vault is always sealed under a key the master key can open.         *)
THEOREM AlwaysUnsealable == Spec => []VaultUnsealable
<1>1. IInv => VaultUnsealable BY DEF IInv
<1> QED BY Invariance, <1>1, PTL

(* Only Seal touches the file, and its snapshot is not behind it.          *)
LEMMA StepForward == IInv /\ [Next]_vars => vault' >= vault
<1> SUFFICES ASSUME IInv, [Next]_vars PROVE vault' >= vault
    OBVIOUS
<1>1. vault \in Nat
      BY BoundsAssumption DEF IInv, TypeOK
<1>2. CASE \E h \in Sealers : Seal(h)
      BY <1>2, BoundsAssumption DEF Seal, IInv, TypeOK, SnapshotOK
<1>3. CASE ~ \E h \in Sealers : Seal(h)
  <2>1. vault' = vault
        BY <1>3 DEF Next, vars, files, Open, Tick, TickerExit, Signal, Crash, Commit,
           MarkDirty, SealStep, CloseStep, Lock, Skip, Snapshot, SnapshotRefused, Fault,
           MarkClean, CallClose, Release, Exit
  <2> QED BY <1>1, <2>1
<1> QED BY <1>2, <1>3

(* No interleaving of seals, failures and restarts takes the vault back.   *)
THEOREM NeverRegresses == Spec => VaultNeverRegresses
<1>1. IInv /\ [Next]_vars => [vault' >= vault]_vars BY StepForward
<1> QED BY Invariance, <1>1, PTL DEF Spec, VaultNeverRegresses

(* The flags are lowered at the end of a seal only; a commit or a mark     *)
(* brings what will raise them, or raises them.                            *)
LEMMA StepRemembers ==
  IInv /\ [Next]_vars =>
    (Remembered /\ ~Remembered' => \E h \in Sealers : MarkClean(h) /\ snap[h] < raw)
<1> USE DEF Remembered, files, flags, handle, process
<1> SUFFICES ASSUME IInv, [Next]_vars, Remembered,
                    \A h \in Sealers : MarkClean(h) => ~(snap[h] < raw)
             PROVE  Remembered'
    OBVIOUS
<1>1. CASE Open BY <1>1 DEF Open
<1>2. CASE Tick \/ TickerExit \/ Signal BY <1>2 DEF Tick, TickerExit, Signal
<1>3. CASE Crash BY <1>3 DEF Crash
<1>4. ASSUME NEW w \in Writers, Commit(w) \/ MarkDirty(w) PROVE Remembered'
      BY <1>4 DEF Commit, MarkDirty
<1>5. ASSUME NEW h \in Sealers, SealStep(h) PROVE Remembered'
  <2>1. CASE Lock(h) \/ Skip(h) \/ Snapshot(h) BY <2>1 DEF Lock, Skip, Snapshot
  <2>2. CASE SnapshotRefused(h) \/ Fault(h) BY <2>2 DEF SnapshotRefused, Fault, FlagsAfterError
  <2>3. CASE Seal(h)
        (* a seal that may have nothing new to save does not take it back  *)
    <3>1. dbOpen /\ vault <= snap[h] /\ snap[h] <= raw
          BY <2>3 DEF Seal, IInv, SnapshotOK
    <3>2. vault \in Nat /\ raw \in Nat /\ snap[h] \in Nat
          BY BoundsAssumption DEF IInv, TypeOK
    <3>3. raw = vault => snap[h] = raw
          BY <3>1, <3>2
    <3> QED BY <2>3, <3>3 DEF Seal
  <2>4. CASE MarkClean(h)
    <3>1. vault = snap[h] /\ (dbOpen => vault <= raw)
          BY <2>4 DEF MarkClean, IInv, WrittenOK, HandleOK
    <3>2. vault \in Nat /\ raw \in Nat
          BY BoundsAssumption DEF IInv, TypeOK
    <3>3. ~(snap[h] < raw) /\ UNCHANGED <<dbOpen, raw, vault>>
          BY <2>4 DEF MarkClean
    <3>4. dbOpen => raw = vault
          BY <3>1, <3>2, <3>3
    <3> QED BY <3>3, <3>4
  <2> QED BY <1>5, <2>1, <2>2, <2>3, <2>4 DEF SealStep
<1>6. ASSUME NEW h \in Closers, CloseStep(h) PROVE Remembered'
      BY <1>6 DEF CloseStep, CallClose, Release, HandleClosed, Exit
<1>7. CASE UNCHANGED vars BY <1>7 DEF vars
<1> QED BY <1>1, <1>2, <1>3, <1>4, <1>5, <1>6, <1>7 DEF Next

(* No step of the store forgets a committed write, except the end of a     *)
(* seal that another write overtook.                                       *)
THEOREM OnlyOverlapsForget == Spec => ForgetsOnlyOverlaps
<1>1. IInv /\ [Next]_vars =>
        [Remembered /\ ~Remembered' =>
           \E h \in Sealers : MarkClean(h) /\ snap[h] < raw]_vars
      BY StepRemembers
<1> QED BY Invariance, <1>1, PTL DEF Spec, ForgetsOnlyOverlaps

(* Every step of the store appends to the durable log, saves a longer      *)
(* prefix of it, loses the unsaved suffix, or leaves it alone.             *)
LEMMA StepImplements == IInv /\ [Next]_vars => [Durable!Next]_(Durable!dvars)
<1> USE DEF Durable!dvars, files, flags, handle, process
<1> DEFINE L == IF dbOpen THEN raw ELSE vault
<1> SUFFICES ASSUME IInv, [Next]_vars
             PROVE  Durable!Next \/ (L' = L /\ vault' = vault)
    BY DEF Durable!dvars
<1>0. vault \in Nat /\ raw \in Nat /\ dbOpen \in BOOLEAN
      BY BoundsAssumption DEF IInv, TypeOK
<1>1. CASE Open BY <1>1 DEF Open, UnsealedCopy, IInv, HandleOK
<1>2. CASE Tick \/ TickerExit \/ Signal BY <1>2 DEF Tick, TickerExit, Signal
<1>3. CASE Crash BY <1>3 DEF Crash, Durable!Next, Durable!Lose
<1>4. ASSUME NEW w \in Writers, Commit(w) \/ MarkDirty(w)
      PROVE  Durable!Next \/ (L' = L /\ vault' = vault)
  <2>1. CASE Commit(w) BY <2>1 DEF Commit, Durable!Next, Durable!Append
  <2>2. CASE MarkDirty(w) BY <2>2 DEF MarkDirty
  <2> QED BY <1>4, <2>1, <2>2
<1>5. ASSUME NEW h \in Sealers, SealStep(h)
      PROVE  Durable!Next \/ (L' = L /\ vault' = vault)
  <2>1. CASE Seal(h)
    <3>1. /\ dbOpen /\ vault <= snap[h] /\ snap[h] <= raw /\ snap[h] \in Nat
          BY <2>1, BoundsAssumption DEF Seal, IInv, TypeOK, SnapshotOK
    <3>2. L' = L /\ vault' = snap[h]
          BY <2>1, <3>1 DEF Seal
    <3> QED BY <3>1, <3>2 DEF Durable!Next, Durable!Save
  <2>2. CASE ~Seal(h)
    <3>1. vault' = vault /\ raw' = raw /\ dbOpen' = dbOpen
          BY <1>5, <2>2 DEF SealStep, Lock, Skip, Snapshot, SnapshotRefused, Fault, MarkClean
    <3> QED BY <3>1
  <2> QED BY <2>1, <2>2
<1>6. ASSUME NEW h \in Closers, CloseStep(h)
      PROVE  Durable!Next \/ (L' = L /\ vault' = vault)
  <2>1. CASE CallClose(h) BY <2>1 DEF CallClose
  <2>2. CASE Release(h) BY <2>2 DEF Release, HandleClosed, Durable!Next, Durable!Lose
  <2>3. CASE Exit(h) BY <2>3 DEF Exit, Durable!Next, Durable!Lose
  <2> QED BY <1>6, <2>1, <2>2, <2>3 DEF CloseStep
<1>7. CASE UNCHANGED vars BY <1>7 DEF vars
<1> QED BY <1>1, <1>2, <1>3, <1>4, <1>5, <1>6, <1>7 DEF Next

(* The vault implements the durable log for every value of the constants.  *)
THEOREM ImplementsDurableLog == Spec => DurableLogSpec
<1>1. Init => Durable!Init BY DEF Init, Durable!Init
<1> QED BY Invariance, StepImplements, <1>1, PTL DEF Spec, DurableLogSpec, Durable!Spec
=============================================================================
