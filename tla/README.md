# CrossSync in TLA+

CrossSync keeps folders on several devices equal, without a server. This
directory models the parts of it that decide what ends up on the disks: the
index of a folder and its exchange between devices, the choice of the winning
version of a path, scans and their gates, pulls, deletions and moves, the
transfer of blocks, and the scheduling of scans and rounds. TLC checks small
instances of the models; TLAPS proves, for every instance, the safety properties
of all modules (but for three of the folder), what the choice of a winner
promises, and how the blocks of a file are planned.

Paths below are relative to `src/`.

## 1. The system

### Components

| Component | Keeps | Does | Right when |
|---|---|---|---|
| Version vectors (`internal/version`) | one counter per device | `Bump`, `Merge`, `Compare` | bumping dominates, merging is the least upper bound, comparison is the same from both sides |
| Folder index (`internal/index`) | a row per path (version, stat, blocks, tombstone, sequence), a generation id, a marker per peer, settle and missing tables | `Put` allocates the next sequence; list after a sequence; prune tombstones; reopen | a sequence stands for one write for ever; rows survive crashes |
| Index exchange (`internal/node/session.go`, `internal/sync/peerview_exchange.go`) | the view each device has of the other's index; the marker "peer P, process S, has generation G up to sequence N" | full or delta send in frames, updates during the pull phases, marker recorded at the end | a delta never leaves out what the peer lacks; a cut stream is never taken for a whole index |
| Sync engine (`internal/sync/engine.go`) | index, views, in-flight set, cached pending lists | apply local changes; `globalFrom`, `NeedPulls`, `PendingUploads`, `JoinIdentical`, `PlanMoves`, `PlanOverwrite`, `Pull.Finish`, `ApplyDeletion` | no edit is destroyed, all devices choose the same winner, disks converge |
| Pending lists (`pending_incremental.go`) | dirty names, two sets, two lists | look at the dirty names only, or walk everything | the lists are those of the full walk |
| Scanner (`internal/scanner`) | settle and missing tables, in-flight list | walk, hash, pair renames, gate changes and deletions | every stable change is found once, nothing unstable is advertised, one bad walk deletes nothing |
| Scan requests (`watcher`, `pathqueue.go`, `node.go`, `main.go`) | watcher batch and channel, path queue, queued rescans of a paused folder | full, scoped, verified and rebuilding passes under the folder's lock | no accepted request and no reported path is dropped |
| Pull batch (`internal/node/pull_batch.go`) | window, byte budget, active files | keep several files in flight over one connection | ends whatever the peer does, writes what it asked for, leaves the wire clean |
| Serving (`serveUntil`, `serveBlock`) | worker pool, cache of open files | one answer per request, in any order | |
| Hold area (`internal/hold`) | copies of mass-deleted files, a manifest that dates them | move away, restore, delete, purge | a copy stays for its time, and not longer |
| Gate releases (`gate_release.go`) | renames out of the include gate and the peers they wait for | record, confirm, forget | the rename is not undone, and tracking it ends |
| Scheduler (`connmgr.go`, `run.go`, `synckick.go`) | backoff, in-flight mark, session slots | run rounds and kicks | rounds keep happening, one round per pair |
| Staging, versioning, block reuse | temp files, archive, donor index | atomic commit, conflict copies, archived versions | |
| Events, alerts, control plane, UI, configuration, certificates | logs, settings | HTTP and MCP handlers, parsing | |

### How they interact

A node runs a *round* per peer: dial, handshake (each side sends a random
session id that lives as long as its process), exchange of indexes in both
directions, pull phase of the initiator, `PhaseDone`, pull phase of the
responder, `Close`. During a pull phase the other side serves blocks; every row
the puller writes is sent as an index update. Both sides of a round take the
session slot for the peer, so that a round never meets another one of the same
pair. Scans run on their own goroutines and write the same index under the
engine lock, one lock hold per batch of changes; the operator may at any time
pause, rebuild, restore, reconfigure or remove.

Hard to test, therefore: state read at the start of a session, a scan or a walk
and used at its end while others write; connections that die between any two
frames; a process that restarts on one side only; counters derived from what is
left in the database; decisions two devices take independently and that must
come out equal; gates that count observations across restarts and
cancellations; requests handed from one goroutine to another around a flag that
takes no lock; and a byte budget shared by files of which only one is woken.
The `hazards` list of `PROJECT.json` names the lines.

## 2. Modules

| Module | Models | Run in |
|---|---|---|
| `IndexExchange` | one sender's index, its markers, and its exchange with any number of peers, frame by frame | `MCIndexExchange` |
| `IndexExchangeProofs` | theorems about it | |
| `GlobalModel` | version vectors, entries, `globalFrom`, `pullWanted`, `uploadWanted` as operators | extended by `FolderSync`, `PendingLists`, `GateReleases` |
| `FolderSync` | a folder on several devices: disks, users, scans, sessions, pulls, failures | `MCFolderSync` |
| `FolderSyncProofs` | theorems about vectors, the choice among entries, and the folder | |
| `PullBatch` | one batch over one connection with the peer that serves it | `MCPullBatch` |
| `ScanGates` | one folder's scanner, path by path, against the users who write | `MCScanGates` |
| `ScanGatesProofs` | theorems about it | |
| `ScanRequests` | who scans the folder and when; pauses, queued requests, watcher and path queue | `MCScanRequests` |
| `ScanRequestsProofs` | theorems about it | |
| `PeerRounds` | when two devices sync: tickers, kicks, backoff, session slots | `MCPeerRounds` |
| `PeerRoundsProofs` | theorems about it | |
| `PendingLists` | the incremental pull and upload lists | `MCPendingLists` |
| `PendingPromise` | what a caller may rely on of those lists; `PendingLists` refines it | |
| `PullSessionProofs` | theorems about the pull phase: the lists with their refinement, and the batch | |
| `HeldDeletions` | mass deletions with the hold area, its manifest, purge and restore | `MCHeldDeletions` |
| `HeldDeletionsProofs` | theorems about it | |
| `GateReleases` | a file renamed out of the include gate, and its peers | `MCGateReleases` |
| `GateReleasesProofs` | theorems about it | |

`FolderSync` is the composition: its sessions use the index exchange at the
level of what `IndexExchange` guarantees (rows after the marker, or all rows),
its pulls at the level of what `PullBatch` guarantees (a pull finishes with the
whole content, or is abandoned), its lists at the level of `PendingPromise`
(the full walk), its fairness at the level of what `PeerRounds` and
`ScanRequests` establish (rounds and scans keep coming), and one round per pair
at a time, which `PeerRounds` checks.

### IndexExchange

The sender has `rows` (stamp of the write, tombstone flag, sequence), `nextSeq`,
`gen`, and a persisted `marker` per peer. A peer has `sess` (its process), its
`view`, `viewPending`. A connection has a `phase`, the generation and sequence
read at its start (`snapGen`, `snapSeq`), what is still to be sent (`outbox`),
the `wire`, and updates owed. One action per step of `SyncOnce` and `Serve`:
`OpenSession` (handshake, then `IndexID` and `MaxSeq`), `ListEntries`
(`ListAfter` or `ListAll`, a later step than the snapshot, as in the code),
`SendFrame`, `RecvIndexFrame` (`SetPeerIndex`, `SetPeerIndexAppend`,
`BeginPeerViewExchange`, `EndPeerViewExchange`), `PullEntry` and
`SendIndexUpdate`, `FinishInitiator` and `FinishResponder`
(`recordPeerIndex`). Disturbances: `LocalWrite`, `PutFails`, `PruneTombstones`,
`ReleaseRow`, `RebuildIndex`, `Reopen`, `Restart` of the peer, `ForgetPeer` and
`ReloadFolder` (its view is thrown away, its process goes on), `Drop`. The
constant `Operations` says which of them may happen. `base` is a history
variable: the last snapshot the peer's process received in full.

### GlobalModel

`globalFrom` is one pass over a Go map; its result is modelled as the set of
outcomes over all orders of the pass. `CanonicalGreater` is the order of the
strings that `canonicalVersion` builds, for ids and counters of one digit.

### FolderSync

Per device: `disk`, the running `scan` (what it saw and what it compared with),
`idx`, a `view` of every peer, and for every peer the names the marker covers
(`told`), whether the marker is of the running process (`met`) and what has not
been written since the session began (`snap`). Per pair: the session (`link`),
the pull list (`needs`), started pulls (`job`). A scan is two steps
(`ScanWalk`, `ScanApply`), as the walk compares with rows that may be written
before the changes are applied. `Plan` is `pullAll` up to its list: moves,
joins of identical content, `NeedPulls`. `StartPull`, `StartDeletion`,
`SkipPull` are the outcomes of `pullBatch.start`, each choosing the winner again
as the code does; `FinishPull` and `AbandonPull` end a pull. `saved` and `gone`
are history: contents kept aside, contents a user overwrote or deleted.

Abstractions: a block list is a number, sizes are shared by two contents each,
so that content, size and time are told apart; the folder has neither
directories nor an include gate and is send-and-receive; `settle_scans` and
`delete_confirm_scans` are 1, which switches the scanner's gates off (they are
`ScanGates`); a session step waits for scans to finish and users leave a file
alone while it is being pulled, unless `"unscanned"` is among the operations,
in which case both may overtake each other (at most `MaxDrops` times).

### PullBatch

Every file needs the blocks that a resumed temp (`Resumed`) and other local
files (`FilledFromLocal`) do not give. `planPulls` groups them into runs, one
block after the other (`WithBlock` is the body of the loop). Definitions that
`PendingLists` has too carry the name of the batch (`BatchInit`, `BatchNext`,
`BatchTypeOK`), as the theorems about both stand in one module.
`Start` fills a window under the byte budget, `RunArrives`, `Refused`,
`Corrupt`, `DropAnswer` handle one answer, `Timeout` is the read deadline,
`LeaveRest` a pause. The peer reads requests while a worker is free and answers
in any order. Bytes are counted in blocks.

### ScanGates

A pass (`pass`) is a walk in path order (`Visit`), the end of the walk with the
cheap renames (`EndWalk`), the hash of every changed file (`HashFile`), the
pairing of renames and the count of deletions (`Confirm`), the tables
(`Commit`) and the application (`ApplyPass`); full, scoped, verified,
held-back and rebuilding passes differ in scope and gates. The pause flag is
looked at where the code probes it (`SkipAll`, `DropJob`, `Cancel`). A file is a
stamp (size and time) and a content; `Rewrite` changes the content under its
stamp. Users write in several steps, move, copy with the old time, and remove.
`settle` and `missing` survive `Restart`, `last` (the scanner's in-flight list)
and `held` (the engine's) do not. Time is the age of a settling row, up to the
quiet window; `el` is the time since the pass began, from which the code dates
what it sees.

### ScanRequests

The threads are the serve loop, the path queue's worker, an operator's rescan,
and the goroutines that resumes start: `Resumers` run what the pause had queued,
`Lookers` are the control plane's own rescans, and those of several resumes may
be under way at once. Each asks, queues, takes, waits for the folder's lock and
walks in separate steps, and the flag, which no lock guards, moves between any
two of them: a walk may find the pause at a probe and be cancelled, or be over
(`hit`) after stopping at a pause that was resumed before the last probe.
`Edit` is a change whose event may never arrive, `Flush` the debounce timer with
the bounded channel, `Add` and `Drain` the path queue. `owed` is history: the
requests that were accepted and that no complete pass has answered; `unmet` are
those of them that the code gives up (a rebuild that a resume had begun and a
pause cancelled, and what a walk cut by a pause and its resume was to answer),
`late` says that one was queued after the resume (section 5).

### PeerRounds

Per device the threads that start rounds, each with the place it is at in
`SyncAll` and `SyncWithPeer`; the connection manager's mark and backoff, the
session slot, and the inbound sessions. `Acquire` and `Decline` are
`acquirePeerSession` with its timeout. A round transfers counters, which say
how many changes of the other side a device has. Faults are network outages and
paused transfers.

### PendingLists and PendingPromise

The dirty set, the two sets and the two lists of `pendingCache`; a call is
`Begin` (drain, choose), then `Look` per dirty name, or the two walks
`ListPulls`/`EvalPulls` and `ListUps`/`Publish`. Index writes commit and mark in
two steps, without the engine lock. `PendingPromise` knows nothing of dirty
names: a name is wanted or not, and an answer is right about every name whose
change neither overlapped the call nor was lost. The refinement mapping takes
`want` from the full computation over the current index and views.

### HeldDeletions

The deletion pass of a session with its workers (`PlanDeletion`, `MoveAway`,
`RecordHeld`, `Unlink`, `PutTombstone` per name), two of which may run at once;
the store with its batch counter, dirty flag and lazily loaded manifest;
`PurgeWalk` and `PurgeOne`, `RestoreHeld`, `DeleteHeld`, `DeleteAllHeld`;
`UpdateFolder`, which replaces the store; `Crash`, `Flush`. `due` of a copy is
its true age, `old` the age its modification time suggests.

### GateReleases

Device `Self` renames `a`, inside its include gate, to `b`, outside it. The
scan writes both rows and records the owners; peers follow (`ApplyMove`), let go
(`ReleaseMove`), or apply deletion and pull one by one; `ConfirmReleases` drops
both rows without tombstones. A restart loses the views, a first frame is a
view without the names, and the list is saved after the rows.

## 3. Model checking

| Run | Instance | Checks |
|---|---|---|
| `exchange_sessions` | 2 names, 1 peer, 3 writes, 2 generations, 2 peer processes, 1 drop; reopen, rebuild | `TypeOK`, `DeltaBasisSound`, `TruncatedViewFlagged`, `EventuallyCurrent` |
| `exchange_maintenance` | the same with 2 writes; prune, release, failed writes, rebuild, forget, reload | `MarkerAdvances` |
| `folder_conflicts` | 2 devices (one keeps copies, one archives), 1 path, 2 times, 3 edits, 1 restart or drop | `NoLostUpdate`, `WinnersAgree`, `VersionNeverRegresses`, `Converges` |
| `folder_operator` | 2 paths, 2 edits or renames, 1 disturbance of any kind | `TypeOK`, `MarkersMatchViews` |
| `folder_moves` | 2 paths, 3 edits, renames or seeded files | `VersionIdentifiesContent`, `UploadsArePulled`, `Converges` |
| `pull_shared_budget` | 2 files of up to 4 blocks, window 2, runs of 2, a budget of 4 blocks | `CountedMeansWritten`, `WireDrained`, `AccountCoversOwed`, `HeldBackByOthers`, `BatchEnds` |
| `scan_gates` | 3 paths, one outside the gate, depth 2 for both gates, window 1, 2 user operations, 1 fault | `NoPartialIndexed`, `HeldFilesProtected`, `MoveHalvesTogether`, `OneFaultNeverDeletes` |
| `scan_requests` | 1 path, channel of 1 batch, 1 edit, 1 rescan, 1 pause besides an initial one that may owe a rebuild, resumes at any time | `RequestsKept`, `PathsKept`, `RequestsRun`, `ChangesScanned` |
| `peer_rounds` | a device with ticker and kicks against one whose operator syncs by hand, 2 changes, 1 outage or pause | `OneRoundPerPair`, `NoLostKick`, `SlotsFreed`, `ChangesSync` |
| `pending_lists` | 2 names, one outside the include list, an entry and its tombstone, 3 changes | `ListsCurrent`, `AnswersAsPromised` |
| `held_deletions` | 1 file, 2 passes, 1 edit, 2 deletions, 1 fault, 2 orders of the operator, the time of the undo window once | `ManifestCurrent`, `RecordedCopiesKept`, `HoldDrains`, `IndexDescribesTree` |
| `gate_releases` | 2 peers, one with the same gate, 2 restarts, 1 removed peer | `RenameNotUndone`, `OwnersGiveUpFirst`, `ReleaseEnds` |

Every module states a type invariant. Those of `IndexExchange` and `FolderSync`
are among the runs; the others describe the state space for the reader and hold
in the same instances (add `TypeOK` to the invariants of a configuration).

*Why the bounds are enough to be interesting.* Frames carry one entry
(`ChunkSize` 1), so two names already give a stream that can be cut in the
middle. Three writes allow one before, one between snapshot and listing and one
after the marker. Two processes and two generations are what a stale marker
needs. In `FolderSync` three edits give a conflict and an edit on top of its
result; two times make ties and inversions. A verified scan of a disk whose rows
are all right starts only while a session step may still overtake it (otherwise
it writes back what it read). The budget of `pull_shared_budget` is the window
of one file (with the default settings it is half of that): one file can use it
up, and the other is admitted with no request of its own, or stopped in the
middle of its window. Two user operations in `ScanGates` are an unfinished write
and its end, or a move on top of a write; the gates are at their smallest depth
that is not "off", and one fault is one less than the deletion gate must
withstand. `DirtyShare` 1 makes both the incremental look and the forced rebuild
happen with two names. Two passes nest the batches of the hold store. Two peers
give a release one owner that moves and one that lets go. In `scan_requests` and
`held_deletions` one path suffices, because paths do not interact there. The
pause of `scan_requests` may come and go inside one pass; that the goroutines of
one resume meet those of the next is left to the theorems, which have any number
(with two of each and no rescan the run passes too).

Most runs do not check for deadlock: users, writers and failures are bounded,
so those models come to rest when their bounds are used up; that a session,
batch, request or release does not stop half-way is what the liveness
properties say. `peer_rounds` checks for deadlock, as its ticker never ends.

*Fairness.*

- `IndexExchange` and `FolderSync`: weak fairness of the steps of a session,
  taken as one action per pair, and of scans. The nodes start rounds from a
  ticker and retry after every failure (`connmgr.go`, `SyncAll`; `run.go`,
  `SyncWithPeer`), each step of a round either happens or ends in an error, and
  scans are repeated by their own ticker. Nothing is assumed of users, drops,
  restarts or operators.
- `PullBatch` (`FairBatchSpec`): the goroutine of the batch runs on and the peer's read loop and
  workers serve while the peer is there; that a vanished peer is noticed is the
  read deadline. `BatchEnds` says that the batch returns, or comes to a state in which it waits although nothing is
  outstanding (`NeverWaitsForNothing` fails, section 5): a peer that only sends
  pings then keeps it there, and no fairness can help.
- `PeerRounds`: goroutines run, the ticker and the backoff clock go on, outages
  and pauses end. Nothing is assumed of kicks, operators and changes. Who of the
  two dialling devices gets a slot is not assumed either, so `ChangesSync` is
  about behaviours in which the dials do not cross for ever.
- `ScanRequests`: the full walk's ticker, goroutines, the end of a pause, and
  strong fairness of entering the folder's mutex for the threads that compete
  with the ticker (Go's mutex is fair to a waiter after a millisecond). Nothing
  is assumed of watcher and queue: `ChangesScanned` shows that the full walk is
  enough.
- `HeldDeletions`: passes run to their end, scans and the hourly purge repeat.
- `GateReleases`: scans and the steps of rounds with configured peers repeat.

## 4. Proofs

`IndexExchangeProofs` proves, for any sets of names and peers and any bounds,

- `TypeCorrect`: `Spec => []TypeOK`;
- `DeltaBasisIsSound`: `Spec => []DeltaBasisSound`;
- `TruncatedViewIsFlagged`: `Spec => []TruncatedViewFlagged`;
- `MarkerOnlyAdvances`: `Spec => MarkerAdvances`;

all under `SafeOperations`: views are not thrown away within a process, and the
database is not reopened after sequences were given up (pruning, releases and
failed writes are allowed as long as the process runs; reopening is allowed as
long as rows stay). Section 5 shows that each of the excluded cases breaks
`DeltaBasisSound`, so the assumption cannot be weakened without changing the
code.

None of the properties is inductive. `IInv` adds, besides types:

- `SeqInv`: the sequences of the rows lie below `nextSeq`, and where the
  database may be reopened the highest sequence given out is still in a row, so
  that the counter is found again;
- per peer (`PeerInv`): `Ordered` (marker and completed exchange are not ahead
  of the snapshot of a session that would replace them), `Shape` (which frames
  can be under way in which phase), `DeltaOnly` (while a usable marker exists no
  full send can sweep the view), `Fresh` (nothing older than a row at or below
  the snapshot is under way), `Coverage` (every such row is still to be sent, on
  the wire, or in the view), and the two properties themselves.

The argument is that a name is always somewhere on its way: from `rows` to
`outbox` (`ListEntries`), to `wire` (`SendFrame`), to `view`
(`RecvIndexFrame`), and a write in between gives it a sequence above the
snapshot, so that it is no longer promised. Each action has a lemma; the
invariance theorem puts them together.

`FolderSyncProofs` proves of module `GlobalModel`, for any set of devices: `CompareSwaps`,
`BumpDominates`, `MergeIsJoin`, `CanonicalDecides`; `OneEntryWins`, the fact
that two devices with two entries never leave a conflict undecided;
`NewestIsKept`, that an entry whose vector dominates is kept whatever its time
and whichever entry the pass meets first; `LatestIsChosen`, that among any
number of views, visited in any order, an entry that dominates all others is the
winner (on concurrent entries `Displaces` is no order, see section 5, so nothing
more can be said of more than two); and `UploadIsPulled`, that between two
devices what one counts as an upload is what the other will pull;
and of `FolderSync`, for any devices, names, operations and bounds,

- `TypeCorrect`: `Spec => []TypeOK`. `TypeOK` says more than types: a row has a
  content exactly if it is live, a running session has one of its two devices as
  initiator, and no content is numbered that no user wrote. `SessionEnds`
  (puller and server of a session are its two devices) rests on it;
- `MarkersAreTrue`: `Spec => []MarkersMatchViews`. A marker is recorded from a
  snapshot at the end of the session, so the inductive invariant (`Matching`)
  says the same of the snapshots that are still open, and that nobody has one of
  itself. `CoverShrinks` is the shape of all but two steps: what is covered after
  the step was covered before, and its row and view agree as before. The
  exchange and the end of a session are the two that cover more;
- `OnlyPullsTurnBack`: whatever the operations and failures, a row's version goes
  back only at the end of a pull or in a rebuild. A scan applies what it saw to
  the row as it is by then, a rename and a move write only where no row is, and
  a join raises every counter (`AppliedRow`, `MovedRow`, `JoinedFacts`). What is
  left of `VersionNeverRegresses` is the pull that writes a winner chosen
  earlier, and there it does fail (section 5);
- `CountedUploadsArePulled`: `Spec => []UploadsArePulled`, from `TypeCorrect`
  and `UploadIsPulled`;
- `PairAgreesOnWinners`: `Spec => [](VersionIdentifiesContent => WinnersAgree)`
  for two devices, under `PlainOperations`: no verified scans, no pruning (both
  leave a view that is not the row any more: section 5 for the first; after the
  second a tombstone stays in the views). The run `folder_conflicts` is such an
  instance. The inductive invariant `SentInv` strengthens `Matching` from
  versions to whole entries: whatever a device was told of (`Covered`: by a
  marker, by an open snapshot, or by saying nothing of a path without a row) is
  in its view as it is in the index. Then both sides choose between the same two
  entries, and `SameWinner` is `OneEntryWins`. That a version identifies a
  content stays a hypothesis: it is about the history of the edits and is
  model-checked in `folder_moves`.

`ScanGatesProofs` proves, for any finite set of paths and any bounds, all four
properties of the run:

- `GateKeepsPartialOut`: `Spec => []NoPartialIndexed`, for `SettleSeconds > 0`
  (with the window disabled the gate only counts scans, and a writer may pause
  for two of them). `GateInv` relates the ages of runs and writers: no run is
  older than the last write of any file with its stamp, the time of the pass
  under way included (`RunsRight`); a writer has never been silent for a whole
  window (`WritersRight`); so what the gate releases has no writer
  (`JobsRight`), and the second look at the stamp after the hash makes that true
  of what was read (`ContentsRight`). Runs dated too early (`early`) are
  exactly what the argument has to leave out;
- `ListsFollowTable`: `Spec => []HeldFilesProtected`. Outside its scope a pass
  carries the table over, inside it what it holds is what it publishes
  (`ListsRight`);
- `MovesStayWhole`: `Spec => MoveHalvesTogether`, for `DeletionScans > 1`: at 1
  the code skips the whole deletion gate, the deferral with it
  (`scanner.go:658`). A reported deletion has a stamp that no row of the table
  carries, from the decision until it is applied (`DeferralRight`); the source
  of a rename hands its content to a target that nothing else takes
  (`RenamesRight`, `ConfirmedAgree`: the three ways to pair paths agree);
- `DeletionsTakeFaults`: `Spec => OneFaultNeverDeletes`. For a path nobody
  removed, the count in the missing table, plus one while a walk has missed it or
  the pause flag may make it, is at most the number of faults (`FaultsCounted`).

`Sound` collects what holds without either hypothesis, `TypeCorrect` among it.

`ScanRequestsProofs`, for any paths, any channel size and any bounds:
`TypeCorrect`; `NoRequestLost`, `Spec => []RequestsKept`; `NoPathDropped`,
`Spec => []PathsKept`. No order of pauses, resumes and passes is excluded:
resumes may overtake the pass that their pause has stopped, and what a request
may then be lost to is said by `unmet`, in the property and not in an
assumption (for paths, `missed`). `IInv` adds to the types where each thread can
be and what it carries there (`ThreadsRight`), what the pass under way answers
(`WalkRight`), and the two properties said of queue, hands and pipeline together
(`RequestsHeld`, `PathsHeld`): a thread that has taken a request counts only
while it waits for the lock, walks, or is about to put it back.

`PeerRoundsProofs`, for any threads on either side: `TypeCorrect`;
`OneRoundAtATime`, `Spec => []OneRoundPerPair`; `KicksAreKept`,
`Spec => []NoLostKick`. A thread is in a round exactly while its device's slot
says so (`DialSlot`), an inbound session that got through holds the server's
slot (`ServeSlot`), sessions need connections (`SessionConnected`) and data
moves only while the peer serves (`DataServed`): two rounds with data would need
three slots.

`PullSessionProofs`, of the lists, for any names, peers and rows: `TypeCorrect`;
`ListsAreCurrent`, `Spec => []ListsCurrent`; and the refinement `KeepsItsPromise`,
`Spec => AnswersAsPromised`: initial states map to initial states, and every
step to a step of `PendingPromise` or to a stutter. `IInv` follows a call
through its walk: the published lists and the sets behind them are right for
every name that is neither queued nor still to be looked at (`ListsKept`,
`SetsKept`), and a listing is right about what did not move since it was taken
(`ListingRight`, `PullsRight`).

The same module proves of the batch, for any number of files and blocks, any
window, run length, budget, concurrency and number of workers, with refusals,
corrupt answers, pauses and a peer that vanishes:

- `PlanGroupsNeeds`: `planPulls` cuts any set of blocks into runs that lie in
  order, cover each block once and nothing else, and are no shorter than the
  gaps and `MaxRun` force them to be (`Grouped`). The plan is a recursive
  function; the proof goes from position to position (`PositionInduction`);
- `BatchInvariant`: `BatchSpec => []BatchInv`, and from it `BatchTypeCorrect`;
- `BatchLeavesWireDrained`: `BatchSpec => []WireDrained`. A request is in one
  place at a time, on either wire or with a worker, and in no place that the
  batch does not wait for (`OnTheWire`); it is on its way only if its run was
  asked for in its turn (`AskedInTurn`);
- `BatchCountsWrittenBlocks`: `BatchSpec => []CountedMeansWritten`. The code
  counts bytes and never looks for holes before the end; the count is right
  because runs still to come share no block with what is written (`CountedOnce`);
- `BatchAccountCoversOwed`: `BatchSpec => []AccountCoversOwed`. The account lies
  between two sets of blocks (`Account`): what is in flight, and what was asked
  for and is not written. A refusal or a dropped answer leaves the account as it
  is, so it may stay above the first for good, and the second says by how much;
- `BatchHeldBackByOthers`: `BatchSpec => HeldBackByOthers`. A file is left
  without a request, when it starts or when its last answer arrives, only if its
  next run does not fit beside what the other files have asked for and not
  received: its own requests are all answered by then, so by `Account` the other
  files have caused every byte the account still holds (`OthersCharged`,
  `RefusedByOthers`). The window, its own blocks, or a byte booked twice never
  hold a file back. Nothing is assumed of window, runs and budget, and nothing
  promises that the file is woken later: in the default configuration it may
  never be (section 5).

`HeldDeletionsProofs`, for any names and any finite number of passes:
`TypeCorrect`; `ManifestIsCurrent`, `Spec => []ManifestCurrent`;
`UndoWindowHolds`, `Spec => RecordedCopiesKept`. A store that is dirty or purging
has read the manifest, and one that is neither says what the manifest says
(`StoreRight`); a recorded copy keeps a record of the right age where the purge
will look (`CopiesRecorded`), and a purge under way found no other
(`PurgeRight`).

`GateReleasesProofs`, for any peers and any bounds: `TypeCorrect`; `RenameStays`,
`Spec => []RenameNotUndone`; `OwnersFirst`, `Spec => OwnersGiveUpFirst`. `IInv`
says who can still serve the old content once the rename is recorded
(`OldIsGone`), that the release waits for every owner in view
(`WaitsForOwners`), and that a view which is not half of one does not run ahead
of its peer (`ViewsAreTrue`).

`TypeOK` of each of these modules is as strong as its proof needs; the inductive
invariants were checked by TLC on the instances of section 3 first. Induction
over numbers (finite sets are bounded, the pass over the views) is done with
well-foundedness of the naturals on an explicit set (`LeastOf`, `SetInduction`,
`IntervalInduction`, `PositionInduction`).

Only model-checked:

- liveness: fairness and `ENABLED` are outside the prover (`EventuallyCurrent`,
  `Converges`, `BatchEnds`, `RequestsRun`, `ChangesScanned`, `SlotsFreed`,
  `ChangesSync`, `HoldDrains`, `IndexDescribesTree`, `ReleaseEnds`);
- `NoLostUpdate`, `VersionIdentifiesContent` and `VersionNeverRegresses` of
  `FolderSync`: they hold under the bounds of their runs and not for every
  `Operations` (section 5), and need the history of every content and counter:
  a device's own counter may go down with the row that loses to a winner, so
  that no order of the writes can be read off the vectors.

## 5. Settings under which a property fails

The passing runs claim what their instance allows. The following were found by
changing `Operations` or another constant in a configuration, or by checking the
stronger property that the module states next to the checked one. Most are
places where the code does less than a comment says; they bound the claims
above.

Index exchange

- `DeltaBasisSound` with `"prune"` and `"reopen"`: the sequence counter is the
  highest sequence of the rows that are left (`index.go:199`), so pruning the
  top row and reopening hands out sequences a marker already covers
  (`index.go:311`: "reserves the next monotonic sequence number"; the sender's
  own restart does not make its markers void, though `protocol.go:98-100` says
  that it does). Failed writes or released rows with `"reopen"` have the same
  effect.
- `MarkerAdvances` with `"reopen"` and any of `"prune"`, `"release"` and
  `"putfail"`, for the same reason: a session after the restart records a lower
  sequence than the one before it.
- `DeltaBasisSound` with `"forget"` or `"reload"`: the receiver throws its view
  away within one process, and the sender's marker still looks valid.

Folder

- With three entries, dominance and time are not transitive together: the winner
  depends on the order of the map (`engine.go:790`; `engine.go:803`: "the
  choice must not depend on map iteration order"). The runs have two devices.
- `NoLostUpdate` with `"rename"`: the target of a rename gets the vector of the
  source (`engine.go:509`) and may dominate a different file another device has
  under that name, which is overwritten without a conflict copy
  (`README.md:133`: two concurrent edits "produce a conflict"). Two
  paths and three edits are enough.
- `NoLostUpdate` with `"prune"` (a recreated path starts below the tombstone the
  peer still has), with `"rebuild"` (vectors start again), with `"unscanned"`
  (`Finish` renames over an edit no scan has seen), or with `Preserve` set to
  `"nothing"` (policy versioning with versioning type none).
- `WinnersAgree` with `"touch"` and `"verify"`: a verified scan adopts a new
  time under the old vector and sequence.
- `VersionIdentifiesContent` with `"seed"` and four edits: `Finish` adopts the
  vector of the winner without merging the row it replaces, so that the next
  edit may reach the vector the peer got by joining.
- `VersionNeverRegresses` with `"seed"` on an archiving device: a scan that
  runs while the archived file is away records a deletion, and the pull then
  puts the older entry back.

Pull batch

- `NeverWaitsForNothing` wherever one file can use the budget up: a file admitted
  then sends no request, and only its own answers would refill it
  (`pull_batch.go:411`, `496`; 393-394: "wait for a response to free room [...]
  The response path refills", 409-410: "The budget may not block the ONLY
  request in flight"). When the other files are done, the batch waits with
  nothing outstanding, and lasts as long as the peer sends pings. The defaults
  allow it (`config.go:198`, `220-222`): four files at once, windows of eight
  runs of 4 MiB, a budget of 16 MiB, so one file of 16 MiB is enough:
  with `FileCount` 2, `BlockCount` 4, `MaxRun` 1, `Window` 8, `Concurrency` 4,
  `Budget` 4 (a block is a run of 4 MiB) and no failures at all, TLC finds such a
  batch at once, and so it does in the instance of `pull_shared_budget`. What a
  refusal leaves in the account, which is never given back
  (`pull_batch.go:437-467`), has the same effect.

Scanner

- `QuietWindowKept` in place of `NoPartialIndexed`: a run of observations is
  dated from the start of the pass (`scanner.go:336`, `511`), and a file that
  changed under the hash keeps that date, so that in a slow pass the window is
  over before the file has been still for it (compare `scanner.go:104-110`).
- A pause and a resume between two probes of one pass: the walk has stopped at
  the pause, and the pass goes on with what it saw as if it were complete.
- The missing table is written before the last probe of the flag, although
  `node.go:1862-1866` says that a cancelled pass leaves it as it was.
- `OneFaultNeverDeletes` without its last clause: one walk that misses a file of
  which a copy with the same time has just appeared pairs the two as a rename.
- `IndexCatchesUp`, that the index follows the disk once users are done, holds
  with two paths and no faults under `FairSpec`; with three the graph is too
  large for a run.

Scan requests

- `NoneStranded`: a request that saw the pause and is queued after the resume
  waits for the next resume or request (`node.go:125-126` says that exactly one
  pass runs per queued request even when they race).
- A rebuild that a resume started and the next pause cut short is only logged
  (`node.go:1939-1941`; `1867-1869`: a queued request "must not be treated as
  answered" by a cancelled pass), so `RequestsAnswered` fails.
- A pause and a resume between two probes of one pass end its walk and not the
  pass: the requests it had taken are answered by half a walk, and a path it
  carried may be dropped (`scanner.go:387`; `SetFolderPaused` takes no lock).
  `RequestsKept` and `PathsKept` except these by name (`unmet`, `missed`).

Rounds

- `OfflineVisible`: the mark is freed before the failure is recorded
  (`connmgr.go:188-200`), so a success of a round that began later may be
  followed by the older failure and the other way round, and the peer is in
  backoff with no open event (compare `connmgr.go:49-51`, `node.go:922-923`).
- A skipped round counts as a success; two devices whose dials keep crossing
  decline each other without end.

Pending lists

- `WalkCoversQueued`: a name written and marked while a rebuild walks is
  drained with the rest at its end (`pending_incremental.go:161`: "the walk
  covered everything queued so far"), and is looked at again only at the next
  rebuild. The same happens to names a failed read had taken, and to pruned
  names, for which no hook is called.

Held deletions

- `WinnersRespected`: the list of deletions is older than its application, and
  a file whose own row has become the winner is deleted all the same
  (`engine.go:1942-1956`).
- `UndoWindowKept`: a copy whose record was never made, or died with the process
  or the replaced store, is dated by its modification time and may be purged at
  once (`hold.go:27-29`: "how long a held deletion is kept", and `416-421`).

Gate releases

- `ReplacementDelivered` with `"fallback"`, `"frames"` or `"early"`: a peer that
  applied the deletion and not yet the pull, half an index, or owners unknown
  after a restart confirm a release before the file is there under its new name
  (`gate_release.go:29-34`, `172-174`).
  `"early"` alone is enough.
- `NewFileKept` with `"recreate"`: the rows of a released path are removed, so a
  new file there starts at a first version that a peer's tombstone dominates.

## 6. Not modelled

Directories and symbolic links (a directory tombstone is applied child by
child); send-only and receive-only folders; the threshold of the deletion guard
and the mass-change signal, which only count; `Ping` and the choice among
several addresses of a peer; power loss with `synchronous=NORMAL`, where what
survives is SQLite's doing; retention in the archive; temps that survive a
crash beyond what `Resumed` says of them; events, alerts, statistics; the
control plane, UI and command line, whose handlers call the operations above
and otherwise parse and format; configuration, certificates and ignore rules,
which are functions of text.

## 7. Plan

1. Core of exchange, winners, folder and pull batch, proofs of the exchange
   (done).
2. Scanner gates, scan requests, rounds, pending lists with their refinement,
   held deletions, gate releases (done).
3. Proofs of folder, scanner gates, requests, rounds, lists with their
   refinement, held deletions and gate releases (done).
4. Proofs of the pull batch and its plan (done).
5. Directories in `FolderSync` and `HeldDeletions`; the exchange step of
   `FolderSync` as a refinement of `IndexExchange`.
