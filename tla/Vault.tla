------------------------------- MODULE Vault -------------------------------
(***************************************************************************)
(* The sealed SQLite store of a node (server/internal/db/db.go and         *)
(* encrypt.go) under the goroutines cmd/server/main.go starts around it.   *)
(*                                                                         *)
(* Request goroutines commit to a plaintext working copy and then set the  *)
(* dirty flag.  Three goroutines take Store.mu and re-seal the vault from  *)
(* a VACUUM INTO snapshot: the persist ticker, main's deferred Close and   *)
(* the Close of the USB watchdog.  The contents of the database are        *)
(* abstracted to the number of committed writes.                           *)
(***************************************************************************)
EXTENDS Naturals

CONSTANTS
  Writers,      \* request goroutines
  MaxWrites,    \* bound: commits of one history
  MaxFaults,    \* bound: failures of VACUUM INTO, of a read or of seal
  MaxBoots      \* bound: number of db.Open calls

ASSUME BoundsAssumption == /\ MaxWrites \in Nat
                           /\ MaxFaults \in Nat
                           /\ MaxBoots \in Nat

Ticker  == "ticker"
Closers == {"main", "watch"}
Sealers == {Ticker} \cup Closers

VARIABLES
  vault,      \* writes inside the sealed file vault.db
  vaultKey,   \* the key vault.db was sealed with: "live" or "zero"
  raw,        \* writes committed to the plaintext working copy
  dbOpen,     \* the *sql.DB handle is open
  key,        \* Store.key: "live", or "zero" after Close cleared it
  dirty,      \* Store.dirty
  sealed,     \* Store.sealed
  mu,         \* holder of Store.mu, or "free"
  pc,         \* where each sealing goroutine stands
  snap,       \* writes inside the snapshot each of them read back
  unmarked,   \* writers between their commit and markDirty
  up,         \* the process: "up", "exited" (returned) or "crashed"
  stopping,   \* the signal context is cancelled
  faults,     \* failures injected so far
  boots       \* db.Open calls so far

files   == <<vault, vaultKey>>
flags   == <<dirty, sealed>>
handle  == <<raw, dbOpen, key>>
process == <<up, stopping, boots>>
vars == <<vault, vaultKey, raw, dbOpen, key, dirty, sealed, mu, pc, snap,
          unmarked, up, stopping, faults, boots>>

PcStates == {"idle", "waiting", "locked", "snapped", "written",
             "flushed", "unflushed", "closed", "failed", "done"}

Init ==
  /\ vault = 0 /\ vaultKey = "live"
  /\ raw = 0 /\ dbOpen = FALSE /\ key = "zero"
  /\ dirty = FALSE /\ sealed = FALSE
  /\ mu = "free"
  /\ pc = [h \in Sealers |-> "idle"]
  /\ snap = [h \in Sealers |-> 0]
  /\ unmarked = {}
  /\ up = "exited" /\ stopping = FALSE
  /\ faults = 0 /\ boots = 0

-----------------------------------------------------------------------------
(* Parts of the operations below.  Each is preceded by the defect a run    *)
(* must catch when it takes the part's place.                              *)

(* defect: an unreadable vault is taken for a first run                    *)
BlankCopy == 0

(* Open writes what unseal returned to the working copy.                   *)
UnsealedCopy == vault

(* defect: Persist without s.mu.Lock()                                     *)
NoExclusion == TRUE

MutexFree == mu = "free"

(* defect: the snapshot counts a transaction that is still open            *)
UncommittedContents == raw + 1

(* What VACUUM INTO captures: the committed writes.                        *)
SnapshotContents == raw

(* defect: dirty is taken down before the seal and not restored on error   *)
ForgottenFlags == dirty' = FALSE /\ sealed' = sealed

(* An error return of Persist and finalSeal leaves both flags alone.       *)
FlagsAfterError == UNCHANGED flags

(* defect: Close zeroes the key but leaves the handle and the file         *)
HandleKept == UNCHANGED <<raw, dbOpen>>

HandleClosed == dbOpen' = FALSE /\ raw' = 0

-----------------------------------------------------------------------------
(* db.Open: unseal the vault into a fresh working copy; migrate leaves the *)
(* store dirty and never sealed, so the first Persist always seals.        *)
Open ==
  /\ up # "up" /\ boots < MaxBoots
  /\ vaultKey = "live"
  /\ boots' = boots + 1
  /\ up' = "up" /\ stopping' = FALSE
  /\ raw' = UnsealedCopy /\ dbOpen' = TRUE /\ key' = "live"
  /\ dirty' = TRUE /\ sealed' = FALSE
  /\ mu' = "free"
  /\ pc' = [h \in Sealers |-> "idle"]
  /\ snap' = [h \in Sealers |-> 0]
  /\ unmarked' = {}
  /\ UNCHANGED <<files, faults>>

(* A request handler commits; markDirty is a later step of the same call.  *)
(* Writers do not take Store.mu.                                           *)
Commit(w) ==
  /\ up = "up" /\ dbOpen
  /\ w \notin unmarked /\ raw < MaxWrites
  /\ raw' = raw + 1
  /\ unmarked' = unmarked \cup {w}
  /\ UNCHANGED <<files, dbOpen, key, flags, mu, pc, snap, process, faults>>

MarkDirty(w) ==
  /\ up = "up" /\ w \in unmarked
  /\ dirty' = TRUE
  /\ unmarked' = unmarked \ {w}
  /\ UNCHANGED <<files, handle, sealed, mu, pc, snap, process, faults>>

-----------------------------------------------------------------------------
Goto(h, where) == pc' = [pc EXCEPT ![h] = where]

(* Where Persist or finalSeal returns to: Persist to the ticker loop, with *)
(* the lock released; finalSeal into the rest of Close, with the lock.     *)
Return(h, ok) ==
  IF h = Ticker
  THEN Goto(h, "idle") /\ mu' = "free"
  ELSE Goto(h, IF ok THEN "flushed" ELSE "unflushed") /\ UNCHANGED mu

(* The ticker fires.  After the cancellation select may still choose t.C.  *)
Tick ==
  /\ up = "up" /\ pc[Ticker] = "idle"
  /\ Goto(Ticker, "waiting")
  /\ UNCHANGED <<files, handle, flags, mu, snap, unmarked, process, faults>>

TickerExit ==
  /\ up = "up" /\ stopping /\ pc[Ticker] = "idle"
  /\ Goto(Ticker, "done")
  /\ UNCHANGED <<files, handle, flags, mu, snap, unmarked, process, faults>>

(* SIGINT or SIGTERM cancels the context the ticker and the server use.    *)
Signal ==
  /\ up = "up" /\ ~stopping
  /\ stopping' = TRUE
  /\ UNCHANGED <<files, handle, flags, mu, pc, snap, unmarked, up, boots, faults>>

(* main: Serve returned (after the signal, or because listening failed);   *)
(* watch: the key carrier disappeared.  Each calls Close once.             *)
CallClose(h) ==
  /\ up = "up" /\ pc[h] = "idle"
  /\ Goto(h, "waiting")
  /\ UNCHANGED <<files, handle, flags, mu, snap, unmarked, process, faults>>

Lock(h) ==
  /\ up = "up" /\ pc[h] = "waiting" /\ MutexFree
  /\ mu' = h
  /\ Goto(h, "locked")
  /\ UNCHANGED <<files, handle, flags, snap, unmarked, process, faults>>

(* Nothing to seal: the early return of Persist and of finalSeal.          *)
Skip(h) ==
  /\ up = "up" /\ pc[h] = "locked"
  /\ ~dirty /\ sealed
  /\ Return(h, TRUE)
  /\ UNCHANGED <<files, handle, flags, snap, unmarked, process, faults>>

(* VACUUM INTO: SQLite has one connection, so it excludes commits.         *)
Snapshot(h) ==
  /\ up = "up" /\ pc[h] = "locked"
  /\ dirty \/ ~sealed
  /\ dbOpen /\ (h = Ticker => ~stopping)
  /\ snap' = [snap EXCEPT ![h] = SnapshotContents]
  /\ Goto(h, "snapped")
  /\ UNCHANGED <<files, handle, flags, mu, unmarked, process, faults>>

(* VACUUM INTO on a closed handle or with a cancelled context fails.       *)
SnapshotRefused(h) ==
  /\ up = "up" /\ pc[h] = "locked"
  /\ dirty \/ ~sealed
  /\ ~dbOpen \/ (h = Ticker /\ stopping)
  /\ FlagsAfterError
  /\ Return(h, FALSE)
  /\ UNCHANGED <<files, handle, snap, unmarked, process, faults>>

(* A full disk, an expired context, a failed write: the call returns early *)
(* with both flags as they were.                                           *)
Fault(h) ==
  /\ up = "up" /\ faults < MaxFaults
  /\ \/ pc[h] = "locked" /\ (dirty \/ ~sealed)
     \/ pc[h] = "snapped"
  /\ faults' = faults + 1
  /\ FlagsAfterError
  /\ Return(h, FALSE)
  /\ UNCHANGED <<files, handle, snap, unmarked, process>>

(* seal: encrypt to vault.db.part, then rename over vault.db.              *)
Seal(h) ==
  /\ up = "up" /\ pc[h] = "snapped"
  /\ vault' = snap[h] /\ vaultKey' = key
  /\ Goto(h, "written")
  /\ UNCHANGED <<handle, flags, mu, snap, unmarked, process, faults>>

(* sealed is read and written under the lock only, so storing it together  *)
(* with dirty loses no interleaving.                                       *)
MarkClean(h) ==
  /\ up = "up" /\ pc[h] = "written"
  /\ sealed' = TRUE /\ dirty' = FALSE
  /\ Return(h, TRUE)
  /\ UNCHANGED <<files, handle, snap, unmarked, process, faults>>

(* The rest of Close: the handle is closed, the working copy removed, the  *)
(* key zeroed and the lock released, also when the final seal failed.      *)
Release(h) ==
  /\ up = "up" /\ pc[h] \in {"flushed", "unflushed"}
  /\ HandleClosed /\ key' = "zero"
  /\ mu' = "free"
  /\ Goto(h, IF pc[h] = "flushed" THEN "closed" ELSE "failed")
  /\ UNCHANGED <<files, flags, snap, unmarked, process, faults>>

-----------------------------------------------------------------------------
(* main returns, or the watchdog calls os.Exit(1), once its Close is done. *)
Exit(h) ==
  /\ up = "up" /\ pc[h] \in {"closed", "failed"}
  /\ up' = "exited"
  /\ raw' = 0 /\ dbOpen' = FALSE /\ key' = "zero"
  /\ UNCHANGED <<files, flags, mu, pc, snap, unmarked, stopping, boots, faults>>

(* The process dies between any two steps; the working copy has a random   *)
(* name and is never opened again.                                         *)
Crash ==
  /\ up = "up"
  /\ up' = "crashed"
  /\ raw' = 0 /\ dbOpen' = FALSE /\ key' = "zero"
  /\ UNCHANGED <<files, flags, mu, pc, snap, unmarked, stopping, boots, faults>>

SealStep(h) == \/ Lock(h) \/ Skip(h) \/ Snapshot(h) \/ SnapshotRefused(h)
               \/ Fault(h) \/ Seal(h) \/ MarkClean(h)

CloseStep(h) == CallClose(h) \/ Release(h) \/ Exit(h)

Next ==
  \/ Open \/ Tick \/ TickerExit \/ Signal \/ Crash
  \/ \E w \in Writers : Commit(w) \/ MarkDirty(w)
  \/ \E h \in Sealers : SealStep(h)
  \/ \E h \in Closers : CloseStep(h)

Spec == Init /\ [][Next]_vars

(* The ticker fires for ever; a goroutine inside Persist or Close goes on; *)
(* Go's mutex hands over in FIFO order to starving waiters, and select     *)
(* picks among ready cases at random: hence strong fairness for the two.   *)
(* Nothing forces a commit, a signal, a loss of the carrier or a crash.    *)
Fairness ==
  /\ WF_vars(Tick) /\ SF_vars(TickerExit)
  /\ WF_vars(stopping /\ CallClose("main"))
  /\ \A w \in Writers : WF_vars(MarkDirty(w))
  /\ \A h \in Sealers :
       /\ SF_vars(Lock(h))
       /\ WF_vars(Skip(h) \/ Snapshot(h) \/ SnapshotRefused(h) \/ Fault(h))
       /\ WF_vars(Seal(h) \/ Fault(h))
       /\ WF_vars(MarkClean(h))
  /\ \A h \in Closers : WF_vars(Release(h)) /\ WF_vars(Exit(h))

FairSpec == Spec /\ Fairness

-----------------------------------------------------------------------------
TypeOK ==
  /\ vault \in 0..MaxWrites /\ vaultKey \in {"live", "zero"}
  /\ raw \in 0..MaxWrites /\ dbOpen \in BOOLEAN /\ key \in {"live", "zero"}
  /\ dirty \in BOOLEAN /\ sealed \in BOOLEAN
  /\ mu \in Sealers \cup {"free"}
  /\ pc \in [Sealers -> PcStates]
  /\ snap \in [Sealers -> 0..MaxWrites]
  /\ unmarked \in SUBSET Writers
  /\ up \in {"up", "exited", "crashed"} /\ stopping \in BOOLEAN
  /\ faults \in 0..MaxFaults /\ boots \in 0..MaxBoots

(* A re-seal never replaces the vault by an older snapshot: no interleaving *)
(* of the ticker, the two Closes, failures and restarts takes the file     *)
(* back, so what survived one crash survives every later one.              *)
VaultNeverRegresses == [][vault' >= vault]_vars

(* Close zeroes Store.key in place, and AES accepts 32 zero bytes; yet no  *)
(* late Persist or second Close ever writes a vault under the zeroed key,  *)
(* which the master key could never open again.                            *)
VaultUnsealable == vaultKey = "live"

(* A write that is marked dirty while no seal is in flight reaches the     *)
(* vault: by the next tick, by a retry after a failure, or by the final    *)
(* seal of a Close.  Only a crash or a Close that reports an error may     *)
(* come first.                                                             *)
DirtyIsSealed ==
  \A n \in 1..MaxWrites :
    (up = "up" /\ dirty /\ dbOpen /\ mu = "free" /\ raw >= n)
      ~> \/ vault >= n
         \/ up = "crashed"
         \/ \E h \in Closers : pc[h] = "failed"

(* db.go says of Persist: "No-op unless there were writes since the last   *)
(* seal."  So when both flags say there is nothing to seal, no writer is   *)
(* about to mark and nobody is sealing, the vault holds every commit.      *)
SkipMeansSealed ==
  (up = "up" /\ dbOpen /\ mu = "free" /\ unmarked = {} /\ ~dirty /\ sealed)
    => vault = raw

(* A committed write is remembered: it is in the vault, or a flag or the   *)
(* writer that is about to set one will have the next seal take it there.  *)
Remembered == dbOpen => raw = vault \/ dirty \/ ~sealed \/ unmarked # {}

(* That comment is wrong in one case only: of all steps of Persist, Close, *)
(* writers and restarts, whether they fail, return early or wait behind    *)
(* each other, none forgets a write but the end of a seal behind whose     *)
(* snapshot another write was committed.                                   *)
ForgetsOnlyOverlaps ==
  [][Remembered /\ ~Remembered' =>
       \E h \in Sealers : MarkClean(h) /\ snap[h] < raw]_vars

(* The sealed vault implements the durable log: every step appends a       *)
(* write, saves a longer prefix, or loses exactly the unsaved suffix.      *)
Durable == INSTANCE DurableLog
             WITH log <- IF dbOpen THEN raw ELSE vault, saved <- vault

DurableLogSpec == Durable!Spec

-----------------------------------------------------------------------------
(* The inductive invariant behind the safety properties.                   *)

InCritical(h) == pc[h] \in {"locked", "snapped", "written", "flushed", "unflushed"}

(* Store.mu excludes: only its holder is inside Persist or Close.          *)
Mutex == up = "up" => \A h \in Sealers : InCritical(h) => mu = h

(* An open handle belongs to a live process with a live key and is never   *)
(* behind the vault.                                                       *)
HandleOK == dbOpen => up = "up" /\ key = "live" /\ vault <= raw

(* A snapshot about to be sealed lies between the vault and the working    *)
(* copy, and the handle it came from is still open.                        *)
SnapshotOK == \A h \in Sealers :
  (up = "up" /\ pc[h] = "snapped") => dbOpen /\ vault <= snap[h] /\ snap[h] <= raw

(* Between the seal and its flags the vault is the snapshot.               *)
WrittenOK == \A h \in Sealers : (up = "up" /\ pc[h] = "written") => vault = snap[h]

IInv == TypeOK /\ VaultUnsealable /\ Mutex /\ HandleOK /\ SnapshotOK /\ WrittenOK

=============================================================================
