---------------------------- MODULE GateReleases ----------------------------
(***************************************************************************)
(* A file renamed out of a device's include gate (internal/sync:           *)
(* gate_release.go, planRename, PlanMoves, applyMove, CleanupPeerIndex;    *)
(* internal/node: confirmGateReleases).  Device Self has the file "a" in   *)
(* scope and renames it to "b", which its include list does not cover.  It *)
(* advertises the rename, and stops tracking both paths when every peer    *)
(* that owned "a" has confirmed.  The peers follow by a move, let go of    *)
(* the file where their own gate excludes "b", or fall back to a deletion  *)
(* and a pull.  Peers talk to Self only.                                   *)
(***************************************************************************)
EXTENDS GlobalModel

CONSTANTS
    Self,        \* the device that renames
    Gated,       \* peers whose include list does not cover "b" either
    Operations,  \* subset of {"fallback", "recreate", "frames", "early", "unsaved"}
    MaxRestarts, \* bound: restarts of Self
    MaxRemovals  \* bound: peers removed from the configuration

Peers == Devices \ {Self}
Names == {"a", "b"}

ASSUME ReleasesAssumption ==
    /\ Self \in Devices /\ Gated \subseteq Peers
    /\ Operations \subseteq {"fallback", "recreate", "frames", "early", "unsaved"}
    /\ MaxRestarts \in Nat /\ MaxRemovals \in Nat

VARIABLES
    file,      \* Self's tree: name -> content, 0 for no file
    row,       \* device -> name -> index row
    told,      \* peer -> name -> row of Self the peer has been sent
    view,      \* peer -> rows of the peer Self has been sent; NoView after a restart
    release,   \* the pending release: none, or the owners it waits for; it is
               \* saved in the index's meta table whenever it changes
    config,    \* peers that are configured
    halfway,   \* peers whose view is a partial snapshot (viewPending)
    owners,    \* history: peers that had "a" when the rename was recorded
    missed,    \* history: owners Self had no view of at that moment
    followed,  \* history: peers that no longer have the old file as "a"
    dropped,   \* history: Self has stopped tracking the rename
    hasty,     \* history: it did so before an owner had given up "a"
    restarts, removals

vars == <<file, row, told, view, release, config, halfway, owners, missed,
          followed, dropped, hasty, restarts, removals>>
recorded == <<owners, missed>>
bounds == <<restarts, removals>>
history == <<recorded, followed, dropped, hasty, bounds>>

NoView == [n \in {} |-> NoEntry]
NoRows == [n \in Names |-> NoEntry]
NoRelease == [pending |-> FALSE, peers |-> {}]
File(v, c) == [ver |-> v, del |-> FALSE, time |-> c, content |-> c, size |-> c]
Start == [n \in Names |-> IF n = "a" THEN File(Bump(New, Self), 1) ELSE NoEntry]

\* Every peer has the file, and every device knows it.
Init ==
    /\ file = [n \in Names |-> IF n = "a" THEN 1 ELSE 0]
    /\ row = [d \in Devices |-> Start]
    /\ told = [p \in Peers |-> Start]
    /\ view = [p \in Peers |-> Start]
    /\ release = NoRelease
    /\ config = Peers
    /\ halfway = {}
    /\ owners = {} /\ missed = {} /\ followed = {}
    /\ dropped = FALSE /\ hasty = FALSE
    /\ restarts = 0 /\ removals = 0

Renamed == Exists(row[Self]["b"]) \/ dropped

----------------------------------------------------------------------------
(* Self: the rename.                                                       *)

UserRenames ==
    /\ file["a"] = 1 /\ file["b"] = 0 /\ ~Renamed
    /\ file' = [file EXCEPT !["a"] = 0, !["b"] = 1]
    /\ UNCHANGED <<row, told, view, release, config, halfway, history>>

\* Peers' views live in memory.
Reboot ==
    /\ restarts < MaxRestarts /\ restarts' = restarts + 1
    /\ view' = [p \in Peers |-> NoView] /\ halfway' = {}

\* recordReleaseLocked: the peers whose view has the old path live.
Owners == {p \in config : view[p] # NoView /\ Live(view[p]["a"])}
Recorded == [pending |-> TRUE, peers |-> Owners]

\* planRename: a tombstone and a live row with the same vector.
RenamedRows ==
    LET ver == Bump(row[Self]["a"].ver, Self)
    IN  [n \in Names |-> IF n = "a" THEN Tombstone(ver) ELSE File(ver, 1)]

\* The rows, then the release and its saved copy, under the engine lock; the
\* process may die before the list is saved.
ScanRename(reachesSave) ==
    /\ file["b"] = 1 /\ Live(row[Self]["a"]) /\ ~Exists(row[Self]["b"]) /\ ~dropped
    /\ row' = [row EXCEPT ![Self] = RenamedRows]
    /\ owners' = {p \in config : Live(row[p]["a"])}
    /\ missed' = owners' \ Owners
    /\ IF reachesSave
       THEN /\ release' = Recorded
            /\ UNCHANGED <<view, halfway, restarts>>
       ELSE /\ "unsaved" \in Operations
            /\ Reboot
            /\ UNCHANGED release
    /\ UNCHANGED <<file, told, config, followed, dropped, hasty, removals>>

----------------------------------------------------------------------------
(* Sessions between Self and a peer.                                       *)

\* The peer's picture of Self: rows that Self no longer has stay in it.
SendIndex(p) ==
    /\ p \in config
    /\ told' = [told EXCEPT ![p] = [n \in Names |->
                  IF Exists(row[Self][n]) THEN row[Self][n] ELSE told[p][n]]]
    /\ UNCHANGED <<file, row, view, release, config, halfway, history>>

ReceiveIndex(p) ==
    /\ p \in config
    /\ view' = [view EXCEPT ![p] = row[p]]
    /\ halfway' = halfway \ {p}
    /\ UNCHANGED <<file, row, told, release, config, history>>

\* The first frame of an index that does not fit into one, without either name.
ReceiveFrame(p) ==
    /\ "frames" \in Operations /\ p \in config /\ view[p] = NoView
    /\ view' = [view EXCEPT ![p] = NoRows]
    /\ halfway' = halfway \cup {p}
    /\ UNCHANGED <<file, row, told, release, config, history>>

\* PlanMoves: Self has deleted "a" and added "b" with the same content.
CanMove(p) ==
    /\ Live(row[p]["a"]) /\ told[p]["a"].del
    /\ ~Exists(row[p]["b"]) /\ Live(told[p]["b"])
    /\ sameContent(row[p]["a"], told[p]["b"])

\* applyMove: the peer renames its copy.
ApplyMove(p) ==
    /\ p \in config \ Gated /\ CanMove(p)
    /\ row' = [row EXCEPT ![p]["a"] = Tombstone(Bump(@.ver, p)), ![p]["b"] = told[p]["b"]]
    /\ followed' = followed \cup {p}
    /\ UNCHANGED <<file, told, view, release, config, halfway, recorded, dropped, hasty, bounds>>

\* releaseMoveLocked: the new name is outside the peer's own gate, and it lets
\* go of its copy.
ReleaseMove(p) ==
    /\ p \in config \cap Gated /\ CanMove(p)
    /\ row' = [row EXCEPT ![p]["a"] = Tombstone(Bump(@.ver, p))]
    /\ followed' = followed \cup {p}
    /\ UNCHANGED <<file, told, view, release, config, halfway, recorded, dropped, hasty, bounds>>

\* No move is planned (the content exists twice, with "fallback") or it fails:
\* the deletion and the pull are applied one by one, and the session may end in
\* between.
ApplyDeletion(p) ==
    /\ p \in config /\ ("fallback" \in Operations \/ ~CanMove(p))
    /\ Live(row[p]["a"]) /\ told[p]["a"].del /\ Compare(told[p]["a"].ver, row[p]["a"].ver) = 1
    /\ row' = [row EXCEPT ![p]["a"] = Tombstone(Bump(@.ver, p))]
    /\ followed' = followed \cup {p}
    /\ UNCHANGED <<file, told, view, release, config, halfway, recorded, dropped, hasty, bounds>>

\* The blocks are served for the content the index still has.
Serves(mine, wanted) == Live(mine) /\ mine.content = wanted.content

Pull(p) ==
    /\ p \in config \ Gated
    /\ ~Exists(row[p]["b"]) /\ Live(told[p]["b"]) /\ Serves(row[Self]["b"], told[p]["b"])
    /\ ~CanMove(p)
    /\ row' = [row EXCEPT ![p]["b"] = told[p]["b"]]
    /\ UNCHANGED <<file, told, view, release, config, halfway, history>>

----------------------------------------------------------------------------
(* Self: the confirmation.                                                 *)

\* releaseConfirmedLocked, for one owner (mutants: a peer without a view is not
\* waited for; only the content under the new name counts).
ConfirmedUnseen(p) ==
    \/ view[p] = NoView
    \/ Live(view[p]["b"]) /\ view[p]["b"].content = 1
    \/ ~Live(view[p]["b"]) /\ ~Live(view[p]["a"])

ConfirmedByContent(p) == view[p] # NoView /\ Live(view[p]["b"])

Confirmed(p) ==
    /\ view[p] # NoView
    /\ IF Live(view[p]["b"]) THEN view[p]["b"].content = 1 ELSE ~Live(view[p]["a"])

\* ConfirmReleases: both rows go, no tombstone is written; the process may die
\* before the list is saved.
ConfirmReleases(reachesSave) ==
    /\ \A p \in release.peers : Confirmed(p)
    /\ row' = [row EXCEPT ![Self] = NoRows]
    /\ dropped' = TRUE
    /\ hasty' = (hasty \/ ~(owners \cap config \subseteq followed))
    /\ IF reachesSave
       THEN /\ release' = NoRelease
            /\ UNCHANGED <<view, halfway, restarts>>
       ELSE /\ Reboot
            /\ UNCHANGED release
    /\ UNCHANGED <<file, told, config, recorded, followed, removals>>

\* After a scan, and after a completed round with any peer.
ConfirmGateReleases(reachesSave) == release.pending /\ ConfirmReleases(reachesSave)

\* loadReleasesLocked reads the releases back.
Restart ==
    /\ Renamed \/ "early" \in Operations
    /\ Reboot
    /\ UNCHANGED <<file, row, told, release, config, recorded, followed, dropped, hasty, removals>>

\* CleanupPeerIndex and dropPeerFromReleasesLocked.
WithoutPeer(r, p) == [r EXCEPT !.peers = @ \ {p}]

RemovePeer(p) ==
    /\ p \in config /\ removals < MaxRemovals
    /\ removals' = removals + 1
    /\ config' = config \ {p}
    /\ view' = [view EXCEPT ![p] = NoView]
    /\ release' = WithoutPeer(release, p)
    /\ UNCHANGED <<file, row, told, halfway, recorded, followed, dropped, hasty, restarts>>

----------------------------------------------------------------------------
(* Self: the old path comes back.                                          *)

UserRecreates ==
    /\ "recreate" \in Operations /\ Renamed /\ file["a"] = 0
    /\ file' = [file EXCEPT !["a"] = 2]
    /\ UNCHANGED <<row, told, view, release, config, halfway, history>>

\* planChange of the file at the old path: above its row, or from the start.
ScanNew ==
    /\ file["a"] = 2 /\ ~Live(row[Self]["a"])
    /\ row' = [row EXCEPT ![Self]["a"] = File(Bump(@.ver, Self), 2)]
    /\ UNCHANGED <<file, told, view, release, config, halfway, history>>

\* A tombstone of a peer that wins over Self's row is applied.
DeleteLocal(p) ==
    /\ p \in config /\ view[p] # NoView
    /\ Live(row[Self]["a"]) /\ view[p]["a"].del
    /\ Compare(view[p]["a"].ver, row[Self]["a"].ver) = 1
    /\ file' = [file EXCEPT !["a"] = 0]
    /\ row' = [row EXCEPT ![Self]["a"] = Tombstone(Bump(@.ver, Self))]
    /\ UNCHANGED <<told, view, release, config, halfway, history>>

\* A peer takes the new file at the old path.
PullOld(p) ==
    /\ p \in config /\ Live(told[p]["a"]) /\ Serves(row[Self]["a"], told[p]["a"])
    /\ Compare(told[p]["a"].ver, row[p]["a"].ver) = 1
    /\ row' = [row EXCEPT ![p]["a"] = told[p]["a"]]
    /\ followed' = followed \cup {p}
    /\ UNCHANGED <<file, told, view, release, config, halfway, recorded, dropped, hasty, bounds>>

----------------------------------------------------------------------------
\* The old path is in scope: Self takes it back from a peer that has it, once
\* it has no row of its own any more (mutant: over its own tombstone).
PullBackOverTombstone(p) ==
    /\ p \in config /\ view[p] # NoView
    /\ ~Live(row[Self]["a"]) /\ Live(view[p]["a"]) /\ Serves(row[p]["a"], view[p]["a"])
    /\ file' = [file EXCEPT !["a"] = view[p]["a"].content]
    /\ row' = [row EXCEPT ![Self]["a"] = view[p]["a"]]
    /\ UNCHANGED <<told, view, release, config, halfway, history>>

PullBack(p) ==
    /\ p \in config /\ view[p] # NoView
    /\ ~Exists(row[Self]["a"]) /\ Live(view[p]["a"]) /\ Serves(row[p]["a"], view[p]["a"])
    /\ file' = [file EXCEPT !["a"] = view[p]["a"].content]
    /\ row' = [row EXCEPT ![Self]["a"] = view[p]["a"]]
    /\ UNCHANGED <<told, view, release, config, halfway, history>>

Round(p) ==
    \/ SendIndex(p) \/ ReceiveIndex(p) \/ ApplyMove(p) \/ ReleaseMove(p)
    \/ ApplyDeletion(p) \/ Pull(p) \/ PullOld(p) \/ PullBack(p) \/ DeleteLocal(p)

Next ==
    \/ UserRenames \/ UserRecreates \/ ScanNew \/ Restart
    \/ \E reachesSave \in BOOLEAN : ScanRename(reachesSave) \/ ConfirmGateReleases(reachesSave)
    \/ \E p \in Peers : Round(p) \/ ReceiveFrame(p) \/ RemovePeer(p)

Spec == Init /\ [][Next]_vars

\* Rounds with every configured peer are repeated, and so are scans.
FairSpec ==
    /\ Spec
    /\ WF_vars(ScanRename(TRUE)) /\ WF_vars(ScanNew) /\ WF_vars(ConfirmGateReleases(TRUE))
    /\ \A p \in Peers :
         /\ WF_vars(SendIndex(p)) /\ WF_vars(ReceiveIndex(p))
         /\ WF_vars(ApplyMove(p)) /\ WF_vars(ReleaseMove(p)) /\ WF_vars(ApplyDeletion(p))
         /\ WF_vars(Pull(p)) /\ WF_vars(PullBack(p))

----------------------------------------------------------------------------
Rows == [Names -> {e \in Entries : e.content \in 0..2}]

TypeOK ==
    /\ file \in [Names -> 0..2]
    /\ row \in [Devices -> Rows] /\ told \in [Peers -> Rows]
    /\ view \in [Peers -> Rows \cup {NoView}]
    /\ config \subseteq Peers /\ halfway \subseteq Peers
    /\ release \in [pending : BOOLEAN, peers : SUBSET config]
    /\ owners \subseteq Peers /\ missed \subseteq owners /\ followed \subseteq Peers
    /\ dropped \in BOOLEAN /\ hasty \in BOOLEAN
    /\ restarts \in Nat /\ removals \in Nat

\* Self does not stop tracking the rename before every configured peer that
\* owned the old path has given it up or has the file under the new name, as
\* far as Self could know: it had the peer's index when the rename was
\* recorded, and has not half of it now.
OwnersGiveUpFirst ==
    [][dropped' /\ ~dropped =>
         \A p \in owners \cap config :
             p \in followed \cup missed \cup halfway \/ Live(row[p]["b"])]_vars

\* The rename is not undone: Self does not fetch the old path again, unless it
\* stopped tracking the rename too soon.
RenameNotUndone == Renamed /\ file["a"] = 1 => hasty

\* A release does not stay pending for ever, whatever peer is removed and
\* whenever the device restarts, unless the old file comes back after all; in
\* behaviours where no new file is created at the old path.
ReleaseEnds ==
    [](file["a"] # 2) => (release.pending ~> (~release.pending \/ file["a"] = 1))

\* When Self stops tracking the rename, every peer that owned the old path has
\* the content under the new name, or its own gate has let go of it.
ReplacementDelivered ==
    [][dropped' /\ ~dropped =>
         \A p \in owners \cap config : p \in Gated \/ Live(row[p]["b"])]_vars

\* A file the user creates at the old path is not deleted by a peer that never
\* saw it.
NewFileKept == [][file["a"] = 2 => file'["a"] = 2]_vars

=============================================================================
