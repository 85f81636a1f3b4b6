# Verification of privatephone

TLA+ specifications of the node (`src/server`, Go) and of the web client
(`src/frontend`, TypeScript), the TLC configurations that check them on small
instances, and TLAPS proofs of their most important properties for every value
of the constants. `PROJECT.json` maps each definition to the lines it models and
lists runs, mutants, hazards, findings and theorems.

## 1. Inventory

| Part | State it keeps | Operations | Interacts with | What must hold |
|---|---|---|---|---|
| Sealed store (`db/db.go`, `db/encrypt.go`) | `vault.db`, plaintext working copy, `dirty`, `sealed`, `key`, `mu` | `Open`, commits + `markDirty`, `Persist`, `Close` | every handler writes to it; ticker, main and USB watchdog seal it | the vault is always readable, never goes back, and receives every write |
| Process (`cmd/server/main.go`, `crypto/master.go`) | key halves, signal context | `run`, `init`, watch, offline subcommands | store | an interrupted start or stop leaves a node that starts again |
| Message handlers (`ws/ingest.go`, `relay.go`, `hub.go`, `import.go`, `db/store.go`) | tables `messages`, `packets`, `packet_acks`; sockets | submit, edit, delete, ack, backlog push | REST, sockets, store | addressed only; nothing unread dropped; nothing missing from a callsign's only page |
| Page (`hooks/useMesh.ts`, `api/client.ts`) | message list, pending acks | frames, answers, reconnect, reload | sockets, REST | one entry per message, equal to the table when quiet |
| Send queue (`ws/client.go`) | bounded channel, `dead` | enqueue, tryEnqueue, close, writePump | hub | a slow client is dropped, nobody else is affected |
| Verifier (`protocol/`, `crypto/sign.go`, `clock.go`) | nonce cache, clock offset | Verify, CheckAt, Observe | every request and frame | a packet is accepted once while the clock is right; one bad clock does little harm |
| Journal and bags (`store.go`, `import.go`, `cmd/server`) | hash chain | AddPacket, export, ImportBag | the ingest handlers, whose replay it is; other nodes by sneaker-net | the chain verifies; an importer keeps the source's history; no row without its effect |
| Chats, markers, zones, alerts, files (`ingest.go`, `chats.go`) | their tables | ingest handlers, live and replayed | journal, sockets | only members post to a chat; a replay does what the live handler did |
| Registry and revocation | `subscribers`, in-memory roster | create, revoke, Kick | verifier, hub | a revoked callsign receives nothing |
| Calls (`call/webRTC.ts`) and PTT (`ptt/ptt.ts`) | call state, timers, peers | signals, media events | relay | two ends agree, no call hangs |
| Key halves, first-run wizard (`usb_common.go`) | files on disk and stick | `init`, first `run`, scan of sticks | sealed store, sticks carried between nodes | no vault loses its key, no admin its private key |
| Tiles, TLS, E2EE, views | files, keys | computation and I/O | | not modelled (section 7) |

The hard behaviours: goroutines around one mutex and two atomic flags; handlers
that make several database statements with no transaction around them; a backlog
push of four steps under live traffic; lost connections, frames and acks;
crashes between any two steps, file writes cut short; bags replayed beside live
handlers; timers and awaits in the browser. `hazards` in
`PROJECT.json` names each at its line.

## 2. Plan

| Module | Abstract specification | Runs | Theorems | State |
|---|---|---|---|---|
| `Vault` | `DurableLog` | `vault`, `vault_flag` | `VaultProofs` | done |
| `StoreForward` (handlers, hub, page) | `Mailbox` | `store_forward*` | `StoreForwardProofs`, `ArrivalProofs` | done |
| `HubQueue` (channel, close, writePump, Hub.mu) | `Feed` | `hub_queue*` | `HubQueueProofs` | done |
| `Verifier` (replay guard and calibration) | | `verifier` | `VerifierProofs` | done |
| `Call` (two-party calls between pages) | | `call` | `CallProofs` | done |
| `Sync` over `Tables` (handlers, chain, bags, import) | the source's history, which an importer follows | `sync` | `SyncProofs` | done |
| `FirstRun` (key halves, sticks, first run) | | `first_run` | `FirstRunProofs` | done |
| Push-to-talk, the live roster, delivery to chats | | | | not modelled, see section 7 |

`Vault` and `StoreForward` come first because everything the node promises rests
on them. They are separate: `StoreForward` treats a restart as keeping all
committed rows, which is what `Vault` shows for writes that a seal has saved.
No module that is proved about declares a RECURSIVE operator.

## 3. Modules

**`DurableLog`** — a log and the length of its saved prefix; append, save, lose
the unsaved suffix. What a user of the store may rely on.

**`Vault`** — `db.Store` and the goroutines around it. The contents of the
database are the number of committed writes: every property here is about which
prefix of the writes is where. `vault`/`vaultKey` are the sealed file, `raw` the
working copy, `dirty`, `sealed`, `key`, `mu` the fields of `Store`; `pc` and
`snap` are the positions and local variables of the three goroutines that seal.
One action per step another goroutine can observe: `Lock`, `Skip` (early
return), `Snapshot` (`VACUUM INTO`), `Seal` (write and rename), `MarkClean` (the
two flags), `Release` (the rest of `Close`). `Commit` and `MarkDirty` are two
steps because the code's are. `SnapshotRefused` is the failure that must occur
(closed handle, cancelled context), `Fault` one that may. `Crash` may happen
anywhere; `Open` starts a new process from the vault. `Remembered` says that a write is
in the vault or that a flag, or a writer about to set one, will have it sealed.

**`Mailbox`** — packets are posted, seen by those who may read them, and
confirmed only after having been seen.

**`StoreForward`** — one request per packet, in the stages of its handler (`Lookup`,
`Store`, `Journal`, `Deliver`, `Answer`), any two requests interleaved at statement
boundaries; the socket of each device with the four steps of `pushBacklog`; the frames
in flight; the page's message list and its unsent acks. Bodies are edit numbers. The
two `Keys` of a copy are the two values of `n` the code produces for one message: the
payload's and the envelope's. The journal is a set; the order of edits inside a batch
is the author's (`ORDER BY ts`; two edits signed in the same second are taken in
order). A lost socket loses what was queued on it. `applied` is a history variable:
what each callsign's pages have processed.

**`Feed`** — publications are numbered, and every page is shown those meant for it, in
order and without a gap, until it leaves; a page that reads too slowly is shut and owed
nothing more. Once a page is shut others may miss a publication: the only weakness.

**`HubQueue`** — the channel of each socket (`queue`, `closed`), its `writePump`
(`pump`, and `hand`, the frame it has taken out), its reader in `Hub.Handle` with
the deferred calls, REST requests, and `Hub.mu` (`mu`). `pc` says what a reader or
a request is doing; a broadcast holds `mu` and offers its frame to the sockets in
`todo` one by one, in any order. Broadcasts are numbers; backlog, relayed frames
and `call_error` are all `Direct`. A send on a closed channel panics:
`OfferPanics` and `EnqueuePanics` unwind to the deferred calls, as Go and net/http
do. `ReadOnline` and `BeginCast` are two steps, because `broadcastPresence` takes
the lock twice. For the refinement of `Feed` what is due to a page is what its channel
and its pump's hand hold and what a broadcast under way has still to offer it (`Held`,
`Offered`, `Due`); a closed channel is a shut page. `StoreForward` and `HubQueue` describe the same sockets at two
levels: the first assumes that no channel fills and keeps only the order of frames
and their loss with the connection; the second shows what the channel guarantees
(`InOrder`) and what it does not when one does fill (findings 3 and 4).

**`Verifier`** — the check before every handler: concurrent calls of
`Verifier.Verify`, each in the steps between which another may come (`Arrive` reads
the clock, `Observe` and `Adjust` use the estimator under its lock, `Accept` or
`Reject` is `CheckAt` under the guard's). A packet stands for its nonce and may
arrive any number of times, as repeated requests and late frames do; only
authentic packets are modelled, since `Verify` changes no state for others. The
guard and the estimator are lost at a restart, because the code keeps them in
memory. Time is counted in units of two and a half minutes: window 4, correction
12, and the estimator's division drops the fraction of a unit where the code drops
that of a nanosecond. `calibrate` is the `-clock-calibrate` flag, chosen in `Init`;
`Window` is the `-clock-skew` flag, a constant without a lower bound. Three history variables say
what the properties compare with: `ahead`, how far ahead of the node an admin's packet
has been (so that `Reach` is the most advanced clock the node has gone by), `spare`,
how far inside the window a request's packet was when it arrived, and
`wrong`, how many samples were not right. `NoReplayWhileFresh` and
`OneBadSampleIsHarmless` are what the code keeps of what its documents promise; the promises
themselves fail (findings 28 and 29; the first is `CalibrationWeakensNothing`).
`StoreForward` takes a packet that reaches its handler as accepted once.

**`Call`** — every page's `CallController`: its fields (`ctl`), the async functions
it has suspended at an `await` (`tasks`: where each waits, whom and which
connection or description it holds on to), and the frames relayed to it
(`inbox`). One action per piece of code between two awaits: `Call`, `Accept`,
`Reject` and `Hangup` are the user's, `StartMedia` to `SendEnd` the rest of `start`,
`accept` and `sendSignal`. `accept` waits after the microphone for the browser to take
the offer (`OfferTaken`), and then uses the connection the page has by then: it is
`Answerable` if it has an offer and made no answer yet. `Receive` is `onPeerFrame`, `OpenInvite` and
`OpenAccept` what follows the opening of a signal. A connection is its number, and
so is the SDP made on it; the browser's part is external: a connection is up when
each end is described by the other, the promises of a closed one are never
settled, and any that is described may fail once. The bell may fail to ring (`mute`). `agreed` is a history
variable: who called, or accepted, whom. The relay is `HubQueue`'s `relayCall`, seen
from the pages as a FIFO that may lose frames.

**`Tables`** — what one signed packet does to a node's tables, for every kind of
packet that is journalled: markers, zones, alerts, messages, files, named chats and
revocations. `Own`, `NotTheAuthor`, `NotAMember` and the like are what a handler
finds before it writes; `Refused`, `Missing` and `Repeated` what comes of it live and
in a replay; `Written` the statement. `Entitled` says, apart from all handlers, whose packet may do
what, and `Warranted` that nothing in the tables is anybody else's work. A row is named by the packet that made it,
as the code finds rows by author and nonce. `Blind` are the statements that do not
look again at what the handler looked up, so that another one may have come between.

**`Sync`** (EXTENDS `Tables`) — journals, bags and imports on several nodes. A row
(`Row`) is a packet and the chain value before it; the hash is injective, so a chain
value is the list of packets up to the row. `Submit`, `WriteRow` and `Journal` are a
live handler's three parts; `RereadFails` is a chat that is archived before its
handler reads it again, which is then not journalled (a replay journals it all
the same). Every kind of packet that is journalled has a handler in `replayImport`,
so its default is left out. `Export` makes a bag of the journal rows from one of the
authors' dates on; an import reads a bag (`Begin`, or `BeginSpoilt` for a
file that lost rows or was altered on the way), strips the prefix the node knows
(`Strip`), checks chain, head and signatures (`Check`) and replays row by row in the
statements of the handlers (`Look`, `Find`, `Write`, `JournalRow`). `RowFails` is the
error that leaves a row out, `JournalFails` the one that is only logged, `Cancel` a
request whose client went away, `Crash` a return to what `Seal` saved last. `skipped` is
a history variable: packets an import at the node did not journal.

**`FirstRun`** — `init`, `run` and `initNode` as sequences of file writes, each of which
may be cut short: the local half, the half on the stick, the vault before and after it
has an admin, `admin.pem`, the certificate files. `Sticks` is the scan, `Compatible` and
`Clean` the two ways to choose a stick, `Carry` the hands that move sticks between
machines. Random values are serial numbers. `zeroed` is a history variable: nodes that
wrote halves with the zero identity (finding 18).

**`MCVault`, `MCStoreForward`, `MCHubQueue`, `MCVerifier`, `MCCall`, `MCSync`,
`MCFirstRun`** give the constants of the runs their values. **`VaultProofs`,
`StoreForwardProofs`, `ArrivalProofs`, `HubQueueProofs`, `VerifierProofs`,
`CallProofs`, `SyncProofs`, `FirstRunProofs`** hold the proofs.

How they fit together. `Vault` shows what a crash takes away; `Sync` uses exactly that
(`Crash` returns journal and tables to the last seal), and `StoreForward`, which has
only graceful restarts, keeps committed rows. `Tables` and `Sync` say what a handler
does to the node, `StoreForward` how its frame reaches pages, `HubQueue` what one
socket makes of the frame, `Verifier` which packets get to a handler at all,
`FirstRun` how a node comes to have the vault that `Vault` opens.

## 4. Runs

| Run | Instance | Shows |
|---|---|---|
| `vault` | 2 writers, 3 sealers, 2 writes at a time, 1 fault, 2 boots (106k states) | type, `VaultUnsealable`, `VaultNeverRegresses`, `ForgetsOnlyOverlaps`, `DirtyIsSealed`, refinement of `DurableLog` |
| `vault_flag` | same, no faults, 1 boot | violates `SkipMeansSealed`: finding 1 |
| `store_forward` | author + reader, 1 broadcast, 1 edit, delete, 2 connections, 1 fault or restart, overlapping requests (1.1M states) | type, `BacklogKept`, `NothingMissing`, refinement of `Mailbox` |
| `store_forward_private` | author + addressee + third user, 1 edit, delete (237k states) | `OnlyAddressed` |
| `store_forward_live` | as `store_forward`, no edit, no fault (14k states) | `BacklogArrives`, `MessageArrives` |
| `hub_queue` | a talking and a silent socket, a REST request, channels of 1 frame, 1 content broadcast, 1 relay (728k states) | type and capacity, `InOrder`, refinement of `Feed` |
| `hub_queue_live` | the two sockets, presence broadcasts only (20k states) | `SlowIsDropped`, `NothingLeaks`, `CastEnds` |
| `hub_queue_drop` | two talking sockets, a REST request | violates `OthersProtected`: finding 3 |
| `verifier` | an admin's and a subscriber's packet, 2 interchangeable requests, a cache of 1 nonce, clocks right, ahead by half a window and ahead by the correction, 4 moments, 1 restart (2.3M states) | type and limit of the correction, `NoReplayWhileFresh`, `OneBadSampleIsHarmless` |
| `call` | two users who may call a third, 2 calls; the callers are interchangeable, so TLC explores one state of each symmetric pair (1.1M states) | type and ownership of connections, `Consent`, `RingingWillEnd` |
| `sync` | a node with alice and an admin, and one that only imports; a chat, a message to it, its end, a revocation of alice, and alice's revocation of the admin, which is refused, three of the five in any order; 2 exports, 2 imports, 1 fault, and none where the chat is ended (800k states; the imports are interchangeable; with one fault one node at most crashes, so only one of them need seal, and after it nobody reads what was saved) | type and where an import stands, `JournalsVerify`, `Follows`, `ReportIsTrue`, `EffectFirst`, `Authorised` |
| `first_run` | 2 machines, 2 sticks, 5 first runs; machines and sticks are interchangeable (553k states) | type and progress of a command, `VaultOpens`, `AdminUsable` |

The bounds. Two writers and three sealers are the smallest instance in which a commit,
its mark, a seal and a second sealer can all overlap; two writes tell an old snapshot
from a new one, two boots let a crash be followed by a crash. In `StoreForward` one
message with one edit and a delete meets every stage of every handler; two connections
of the reader give a first backlog, a lost connection and a second backlog with an ack
of the first still under way. More messages add no interaction, since no handler reads
two messages. In `HubQueue` a channel of one frame fills, overflows and is closed
within one hello, with a second frame in the pump's hand; the second socket is the one
a broadcast may miss, and its own connection and pump fail independently. `Talkers`
bounds which sockets are sent frames by their pages; each says hello once. In
`Verifier` a cache of one nonce is full after one packet, so the second one prunes
while the other request waits. The clock shows 0, 1, 5 and 13 units: a packet may come a
moment late, after more than the window, which makes nonces stale, and after more than
the correction, which limits it. Both bounds are exact: with `Reach - Window - 1`
TLC finds `NoReplayWhileFresh` violated, with calibration and without, and with `Jolt - 1`
`OneBadSampleIsHarmless`. The instance has the default window; with that of
`-clock-skew 5m` (two units) both hold too. In `Call` two
calls are a call and a redial, or a call and one that comes in between; the second
caller is the one whose invite, answer or bye may be taken for the other's. Two users
who call each other are left to the proofs. In `Sync` the chat and the message to it
are the pair whose order matters in a replay, the revocation is a third row that may
come between and has an earlier date, so that an export by date leaves a gap; the refused
one is what a node that did not ask for the author's role would let through; the end of
the chat may come between the chat's row and its journal row; two imports overlap each other, or follow each other after a fault; one importer is
enough for every property of the run. `OneHistory` compares two: it is proved, and held on
a smaller instance (one source, two importers, two messages, one fault, 221k states) before that. In `FirstRun` five first runs are what it takes for both machines
to be cut short and repeat, and for one of them to write over the other's stick: the
exception for the zero identity in `VaultOpens` is never used with four. Deadlock is
not checked: with bounded writes, connections, boots, calls, posts and runs the
systems do stop.

Fairness. `Vault`: the ticker fires for ever, a goroutine inside `Persist` or `Close`
goes on (weak fairness); `Lock` and the exit from `select` need strong fairness, which
Go gives (a mutex hands over to starving waiters, `select` chooses at random). Nothing
forces commits, signals, the loss of the carrier or crashes, and a crash or a failed
`Close` is an allowed outcome of `DirtyIsSealed`. `StoreForward`: handlers run on, the
push runs on, a page handles its frames and reconnects (`client.ts` retries with
back-off for ever); nothing forces users, acks, or connections to stay up. `HubQueue`:
pumps go on (weak fairness; a write or a ping fails at the latest after its timeout),
readers and requests go on and get `Hub.mu` in the end (strong fairness, by Go's
starvation mode of a mutex); nothing forces sockets, hellos, relays or broadcasts of
content. The other modules assume no fairness and have no liveness property.

Each property of a passing run has a mutant: a plausible defect, written as an
operator beside the definition it would replace, under which TLC finds the
property violated.

## 5. Proofs

The proofs hold for all sets of writers, users, devices and messages and for all
bounds; the assumptions are the typing of the constants, in the module's named ASSUME.
Fairness plays no part in them.

`VaultProofs`: the inductive invariant adds to the type invariant that only the
holder of `Store.mu` is inside `Persist` or `Close` (`Mutex`), that an open
handle has a live key and is not behind the vault (`HandleOK`), and that a
snapshot about to be sealed lies between vault and working copy
(`SnapshotOK`), and is what the vault holds once it is sealed (`WrittenOK`). Without `Mutex` a waiting ticker could hold an old snapshot over
another's newer seal; without `HandleOK` a late `Persist` could seal after
`Close` zeroed the key. From it follow `AlwaysUnsealable`, `NeverRegresses`, and,
step by step, `ImplementsDurableLog`. `OnlyOverlapsForget` (`ForgetsOnlyOverlaps`) marks
out finding 1: of all steps, failed, early or concurrent, only the end of a seal behind
whose snapshot a write was committed forgets that write.

`StoreForwardProofs`: the inductive invariant adds that every frame and every
pending push is addressed to its device's callsign and, for a batch, journalled
(`InFlight`), that acks recorded or pending are for packets their signer has
applied (`AcksSeen`), and that only the author's page waits for an answer
(`AuthorWaits`). From it follow `Confidential` (`OnlyAddressed`),
`NothingUnreadDropped` (`BacklogKept`) and `ImplementsMailbox`.

`HubQueueProofs` (assumption `HubQueueAssumption`): the inductive invariant adds
that a broadcast is under way exactly while its actor holds `mu`, and carries the
highest number (`Locked`); that along channel, hand and page numbers decrease
(`Numbered`); and that the current number is nowhere on the way to a socket still
in `todo` (`NotYet`), which is what the lock around the whole broadcast buys. From
it follow `TypeCorrectness` (with the capacity), `BroadcastsInOrder` (`InOrder`) and
`ImplementsFeed`: the start of a broadcast publishes to the sockets in `todo`; putting a
frame into a channel or taking it out leaves `Due` as it is, because the frame is in
exactly one of the three places; what a pump writes is the oldest of what is due, by
`Numbered`; and only a panic, which needs a closed channel, empties `todo` early.

`VerifierProofs` (assumption `VerifierAssumption`; nothing is assumed of the window,
which is a flag, or of the correction): the inductive invariant adds that the estimate is
never ahead of every sample (`Led`); that a request's time is in the past, and after
`Adjust` not ahead of the most advanced clock (`ReadBefore`), so that whatever it prunes
is stale on that one (`ForgottenWhenStale`), which only advances; that until something is
wrong early, no wrong sample leaves the estimate at zero and one keeps it within a
quarter of the correction (`Calm`), since right samples only bring it back; and that a
packet with that much to spare therefore stays in the window of the adjusted time
(`SpareInWindow`). From it follow `TypeCorrectness`, `AcceptedOnce`
(`NoReplayWhileFresh`) and `OneBadSampleIsAbsorbed` (`OneBadSampleIsHarmless`).

`CallProofs` (assumption `CallAssumption`): the inductive invariant follows a
description from the connection it was made on to the one that takes it: what a
function holds on to (`TaskOK`) or a frame carries (`FrameOK`) is its sender's own,
and the sender had agreed to talk to whoever gets it; so is a pending offer
(`OfferOK`) and a remote description (`RemoteOK`). Without the first two an answer
that is late could describe the connection of another call. An answer may be made
on another connection than its `accept` started with; it is proved to be one of the page's
own, with an offer of somebody the page agreed to talk to. `Settles` (no
function waits for a closed connection) is what keeps a call without a timer from
being left alone. From it follow `TypeCorrectness`, `AudioByConsent` (`Consent`) and
`NoEndlessRinging` (`RingingWillEnd`).

`ArrivalProofs` (on top of `StoreForwardProofs`): `NothingMissing` needs to follow a
message to a page through all phases of a push. `LifeInv` is the life of its row:
written once, by its own request, before the packet is journalled, and not again after
the delete. `BatchInv`: a batch is the last frame of a push, and what a page applied is
journalled. `ArrivalInv`: whatever the phase, the message is in the list and nothing on
the way will hide it, or a frame on the way or a read that is still to come will bring
it; a snapshot that lacks it is followed by a batch that has it, because nobody but the
page's own callsign could have acknowledged it. From it follows `NothingIsMissing`.

`SyncProofs` (assumptions `TablesAssumption`, `SyncAssumption`): the inductive
invariant `SyncInv` is a conjunction of layers, each proved from those before it.
`TypeInv` adds to the type that what is replayed is genuine. `ChainInv`: journals and
vaults chain and hold no packet twice. `CarriedInv`: rows of bags are journal rows, or
damaged. `AnchorInv` and `FollowInv`: while nothing was left out and no history was
forked, an importer's journal and vault consist of carried rows and the row an import
is at continues one of them; this is what the check of the head buys, although
handlers and other imports append after it. `ReportInv`: the rows before the one at
hand are journalled. `PostedInv` and `EffectInv`: every packet in a journal, or on its
way into one, had its effect and no later packet undid it. `AuthorInv`: what a handler
has looked up, live or in a replay, entitles its packet, and stays true while others
write, since authors, roles and kinds of packets do not change. From it follow
`TypeCorrectness`, `JournalsIntact` (`JournalsVerify`), `ImportersFollow` (`Follows`),
`ReportsAreTrue` (`ReportIsTrue`), `JournalAfterEffect` (`EffectFirst`) and
`NobodyExceedsRights` (`Authorised`). `ImportersAgree` (`OneHistory`) compares
importers with each other: the journals of two importers consist of carried rows and chain, so at the first
position where they differed (`Least`) both rows would name the same predecessor, and
two carried rows with one predecessor are one row (`SameRows`).

`FirstRunProofs` (assumption `FirstRunAssumption`): `StageInv` says how far the files
are when a command is at a stage; `IdInv` that a new identity is known to one node
only and that two local halves of one identity are of the zero one; `ChosenInv` that
the stick about to be written belongs to no other node; `HeldInv` that a half once
written with its partner is kept. Without `ChosenInv` nothing would prevent the write
of another node's command from taking a key away. From them follow `TypeCorrectness`,
`VaultsOpen` (`VaultOpens`) and `AdminsUsable` (`AdminUsable`).

Only model-checked: the liveness properties (`DirtyIsSealed`, `BacklogArrives`,
`MessageArrives`, `SlowIsDropped`, `NothingLeaks`, `CastEnds`), which are beyond the
prover. Every safety property that a passing run checks is also proved.

## 6. Findings

1. `vault_flag`: a write marked dirty during a seal is forgotten by
   `dirty.Store(false)` (`db.go:409`, `474`); even a clean shutdown then drops it.
2. The copy from the snapshot and the copy from the backlog of one message carry
   different `n`, and both are listed (`ShownOnce` of `StoreForward`).
3. `hub_queue_drop`: a send on the closed channel of a dropped socket panics in
   the middle of a broadcast (`client.go:46`); the sockets after it get nothing,
   and the panic ends the request or socket of the innocent sender.
4. Two `broadcastPresence` calls may send their lists in the
   opposite order (`hub.go:194`), and the stale list stays on the pages
   (`RosterIsCurrent` of `HubQueue`).
5. The first two samples of the clock estimator replace the
   offset outright, so one wrong admin packet after a start moves the node's clock
   by three windows and packets that are right are refused (`clock.go:42`).
6. The nonce cache is not a cache of the last 10 000: it only drops what is
   stale (`sign.go:121`).
7. The snapshot holds 200 messages, the protocol document says 300
   (`store.go:593`).
8. Anonymous sockets do receive broadcasts, the protocol document says they do
   not take part in routing (`relay.go:123`).
9. Call, hang up while the page still waits for the microphone, call again: both
   `start`s make a connection and the first is never closed (`webRTC.ts:84`), where
   the README promises one active call per client. If the bye is lost, the page shows no
   call while its first connection is up.
10. An answer that is opened after the call has ended leaves the controller
   'connecting' with no connection and no timer (`webRTC.ts:165`).
11. A reject or bye of anybody, or of an earlier call, ends the current call
   (`webRTC.ts:171`).
12. The callee's page never gets to 'in-call' (`webRTC.ts:126`).
13. A row of a bag that fails with any error but not-found is left out of the journal,
   later rows are not, and the chains part (`import.go:208`).
14. A chat that exists without its row is never journalled (`chats.go:84`).
15. Only the known prefix of a bag is skipped, where the protocol document skips the
   whole bag (`import.go:63`); an interrupted import that is repeated inserts
   markers, messages and files twice (`import.go:119`).
16. "Author or admin": an admin cannot delete another's marker, message or zone
   (`ingest.go:97`).
17. An encrypted zone update loses its envelope (`ingest.go:456`).
18. A repeated first run writes halves with identity zero; two such nodes take each
   other's stick for their own (`usb_common.go:257`).
19. A node that died before its certificate files were written cannot be repaired by
   the command the message names (`main.go:731`).
20. A half file cut short after its magic makes the scan panic (`master.go:149`).
21. An ack counts for the callsign: of two pages of one callsign one may lack a message
   until its next connection (`store.go:978`). `NothingMissing` is therefore stated
   for a page that is its callsign's only one.
22. Push-to-talk: a button released while the browser asks for the microphone leaves it
   on (`ptt.ts:114`).
23. A revocation and its lifting at one time may leave registry and roster different
   (`handlers.go:317`); `broadcastJSON` and `pushBacklog` do not consult the roster
   (`hub.go:230`).
24. A chat created during a push disappears from the page again (`useMesh.ts:355`).
25. A message to a chat that is archived while it is posted goes to everybody
   (`ingest.go:148`).
26. Accept, hang up, ring, accept again, and both accepts take the same pending offer: the
   first connection is never closed, and the second answer ends the call
   (`webRTC.ts:124`).
27. Of two changes of one row the tables may take one order and the journal the other, since
   they are written in separate statements; importers replay the journal's, and end with
   the journal of the source and other tables (`import.go:15`).
28. With calibration a replay of a fresh packet may be accepted: an admin's packet that is
   ahead advances the clock nonces are pruned by, and the correction comes back
   (`clock.go:57`; `CalibrationWeakensNothing` of `Verifier`, violated in 12 steps).
29. A quarter of the largest correction is 7.5 minutes: with `-clock-skew 5m` and
   calibration one admin's packet that comes late makes the node refuse packets that
   arrive at once (`clock.go:44`).
30. Where `AudioContext` throws, a page rings without a timer (`webRTC.ts:334`).

Findings 1 and 3 have a run each. The others were met while modelling: 2, 4, 9 to 11, 21
and 26 to 29 are behaviours TLC shows when asked for the corresponding property, 13, 18 and 30
appear when the exceptions of `Follows`, `ReportIsTrue`, `VaultOpens` and `RingingWillEnd`
are dropped.

## 7. What is not modelled

Left out for good: cryptographic computation (E2EE, SFrame, certificates), tiles and
static files, views, vault backup, the Makefile and scripts: they are computation,
presentation or plain file I/O. Three parts have state but no module:

- *Push-to-talk* (`ptt.ts`). No signal is compared with the session it names and no
  function looks again after an `await`, so every safety property one would state
  fails at once; finding 22 and a hazard say how.
- *The live roster, Kick and hello*. `deliver` consults the roster under `Hub.mu`, and
  nothing else does; a property that holds would repeat that one line. `Sync` models
  the registry, which `Verify` reads; finding 23 is about the rest.
- *Delivery to a chat's members and the pages' chat lists*. Findings 24 and 25; the
  membership check and the chat table are in `Tables`.

Two processes on one vault (an offline subcommand beside a running node) are not
modelled either: there is no lock and nothing is promised. Inside the modelled parts
these are left out: the schema migration of `Open`, paging of history, the 200-message
cap of a snapshot; in `StoreForward` the bounded send queue, which is `HubQueue`'s; in
`HubQueue` the revoked roster `deliver` consults, two sockets of one callsign (each
socket stands for itself in the online list) and a second hello on one socket; in
`Verifier` the computation of canonical forms and signatures, `VerifyStored` being in
`Sync`; in `Call` ICE candidates, the SFrame key, the call log, the texts, and errors
other than a refused microphone; in `Tables` texts, positions and blobs; in `Sync` a
row whose id alone was altered (the id is not compared with the row) and the roster
that a revocation in a bag updates; in `FirstRun` the single-file key (`-key`,
`-rescue-out`), the operator's dialogue, loss of power (nothing is fsynced) and a
stick changed between the scan and the write. A `start` whose connection was replaced
while it described its offer simply aborts.
