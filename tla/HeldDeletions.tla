--------------------------- MODULE HeldDeletions ---------------------------
(***************************************************************************)
(* Mass deletions with an undo window, for one folder of one device        *)
(* (internal/hold; internal/node: applyHeldDeletions, RestoreHeld,         *)
(* DeleteHeld, purgeHeld, UpdateFolder, Close; internal/sync:              *)
(* PendingDeletions, applyDeletion).                                       *)
(*                                                                         *)
(* A deletion pass lists the files a peer has deleted, and moves each one  *)
(* into the hold area before it writes the tombstone.  The moves run on    *)
(* several workers and outside the store's lock; the manifest, which dates *)
(* every copy, is written when the last open batch ends.  The operator     *)
(* restores or deletes copies, maintenance purges those older than MaxAge  *)
(* (a copy the manifest does not have is dated by its modification time),  *)
(* users edit the files, and the process may stop anywhere.  A file is its *)
(* content, a number, and whether its modification time is older than      *)
(* MaxAge.                                                                 *)
(***************************************************************************)
EXTENDS Integers, FiniteSets

CONSTANTS
    Names,       \* files of the folder
    Passes,      \* deletion passes that can run at once: one per peer session
    Operations,  \* a subset of {"copy", "error", "update"}
    MaxEdits,    \* bound: changes by users
    MaxDeletes,  \* bound: deletions by peers
    MaxFaults,   \* bound: crashes, shutdowns, folder updates and failing moves
    MaxWeeks,    \* bound: times MaxAge goes by
    MaxOrders    \* bound: restorations and deletions by the operator

ASSUME HeldAssumption ==
    /\ IsFiniteSet(Passes)
    /\ Operations \subseteq {"copy", "error", "update"}
    /\ \A b \in {MaxEdits, MaxDeletes, MaxFaults, MaxWeeks, MaxOrders} : b \in Nat

VARIABLES
    tree,     \* name -> the file in the synced tree
    row,      \* name -> content of the live index row, 0 for a tombstone
    deleted,  \* names whose winner is a peer's tombstone
    held,     \* name -> the copy in the hold area, and whether it is due
    entries,  \* the store's records: name -> "none", "recent" or "due"
    manifest, \* the records on disk
    store,    \* loaded, open batches, dirty
    pass,     \* pass -> "idle", "listed" or "open"
    work,     \* pass -> name -> step of its deletion
    purge,    \* copies a purge has found due and is about to remove
    sure,     \* history: names whose copy is recorded, and not only in a dead process
    ignored,  \* history: names deleted although their own row was the winner
    used      \* bounds used up

vars == <<tree, row, deleted, held, entries, manifest, store, pass, work, purge,
          sure, ignored, used>>
disk == <<tree, held>>
index == <<row, deleted>>
records == <<entries, manifest, store>>

NoFile == [c |-> 0, old |-> FALSE]
NoCopy == [c |-> 0, old |-> FALSE, due |-> FALSE]
NoRecords == [n \in Names |-> "none"]
Bounds == {"edit", "delete", "fault", "week", "order"}
Limit(b) == CASE b = "edit" -> MaxEdits [] b = "delete" -> MaxDeletes
              [] b = "fault" -> MaxFaults [] b = "week" -> MaxWeeks
              [] b = "order" -> MaxOrders
Use(b) == used[b] < Limit(b) /\ used' = [used EXCEPT ![b] = @ + 1]

Present(n) == tree[n].c # 0
Held(n) == held[n].c # 0

Init ==
    /\ tree = [n \in Names |-> [c |-> 1, old |-> TRUE]]
    /\ row = [n \in Names |-> 1]
    /\ deleted = {}
    /\ held = [n \in Names |-> NoCopy]
    /\ entries = NoRecords /\ manifest = NoRecords
    /\ store = [loaded |-> FALSE, batch |-> 0, dirty |-> FALSE]
    /\ pass = [p \in Passes |-> "idle"]
    /\ work = [p \in Passes |-> [n \in Names |-> "none"]]
    /\ purge = {} /\ sure = {} /\ ignored = {}
    /\ used = [b \in Bounds |-> 0]

----------------------------------------------------------------------------
(* The store.                                                              *)

\* The purge keeps the store's lock from its walk to its last removal.
Free == purge = {}

\* loadLocked: the records as every locked operation sees them.
Loaded == IF store.loaded THEN entries ELSE manifest

\* movePath: a rename keeps the modification time, the copy it falls back to
\* has a new one.
Relocations(old) == {old, FALSE}

\* saveLocked, inside and outside a batch.
Save(recs) ==
    /\ entries' = recs
    /\ IF store.batch > 0
       THEN store' = [store EXCEPT !.loaded = TRUE, !.dirty = TRUE] /\ UNCHANGED manifest
       ELSE store' = [store EXCEPT !.loaded = TRUE] /\ manifest' = recs

----------------------------------------------------------------------------
(* The deletion pass of a session.                                         *)

PendingDeletions == {n \in deleted : row[n] # 0}

\* The session reads the pending deletions; moves, joins and the pull list
\* come before they are applied.
ListDeletions(p) ==
    /\ pass[p] = "idle" /\ PendingDeletions # {}
    /\ pass' = [pass EXCEPT ![p] = "listed"]
    /\ work' = [work EXCEPT ![p] = [n \in Names |-> IF n \in PendingDeletions
                                                    THEN "listed" ELSE "none"]]
    /\ UNCHANGED <<disk, index, records, purge, sure, ignored, used>>

BeginBatch(p) ==
    /\ pass[p] = "listed" /\ Free
    /\ pass' = [pass EXCEPT ![p] = "open"]
    /\ store' = [store EXCEPT !.batch = @ + 1]
    /\ UNCHANGED <<disk, index, entries, manifest, work, purge, sure, ignored, used>>

Step(p, n, from, to) ==
    /\ pass[p] = "open" /\ work[p][n] = from
    /\ work' = [work EXCEPT ![p][n] = to]
    /\ UNCHANGED pass

\* PlanOverwrite, and the check for a tombstone that is there already.  The
\* winner is looked up again, and a winner that is not a tombstone is ignored.
PlanDeletion(p, n) ==
    /\ Step(p, n, "listed", IF row[n] = 0 THEN "none" ELSE "planned")
    /\ ignored' = IF row[n] # 0 /\ n \notin deleted THEN ignored \cup {n} ELSE ignored
    /\ UNCHANGED <<disk, index, records, purge, sure, used>>

\* Store.Move: the file, without the lock.  An older copy of the same name is
\* replaced.
MoveAway(p, n) ==
    /\ Step(p, n, "planned", IF Present(n) THEN "moved" ELSE "failed")
    /\ IF Present(n)
       THEN /\ \E old \in Relocations(tree[n].old) :
                 held' = [held EXCEPT ![n] = [c |-> tree[n].c, old |-> old, due |-> FALSE]]
            /\ tree' = [tree EXCEPT ![n] = NoFile]
            /\ sure' = sure \ {n}
       ELSE UNCHANGED <<disk, sure>>
    /\ UNCHANGED <<index, records, purge, ignored, used>>

MoveFails(p, n) ==
    /\ "error" \in Operations /\ Use("fault")
    /\ Step(p, n, "planned", "failed")
    /\ UNCHANGED <<disk, index, records, purge, sure, ignored>>

\* Store.Move: the record, under the lock.
RecordHeld(p, n) ==
    /\ Step(p, n, "moved", "kept") /\ Free
    /\ Save([Loaded EXCEPT ![n] = "recent"])
    /\ sure' = IF Held(n) THEN sure \cup {n} ELSE sure
    /\ UNCHANGED <<disk, index, purge, ignored, used>>

\* The copy could not be held: the file is unlinked.
Unlink(p, n) ==
    /\ Step(p, n, "failed", "kept")
    /\ tree' = [tree EXCEPT ![n] = NoFile]
    /\ UNCHANGED <<held, index, records, purge, sure, ignored, used>>

PutTombstone(p, n) ==
    /\ Step(p, n, "kept", "none")
    /\ row' = [row EXCEPT ![n] = 0]
    /\ deleted' = deleted \ {n}
    /\ UNCHANGED <<disk, records, purge, sure, ignored, used>>

\* EndBatch counts down, and not below zero after UpdateFolder or Flush.
Closed(b) == IF b > 0 THEN b - 1 ELSE 0

\* EndBatch, when all workers are done; the last one writes the manifest
\* (mutant: a batch that ends inside another one is taken for the last).
SettledInner(b) == [store EXCEPT !.batch = b, !.dirty = FALSE]
Settled(b) == [store EXCEPT !.batch = b, !.dirty = IF b = 0 THEN FALSE ELSE @]

EndBatch(p) ==
    /\ pass[p] = "open" /\ Free /\ \A n \in Names : work[p][n] = "none"
    /\ pass' = [pass EXCEPT ![p] = "idle"]
    /\ LET b == Closed(store.batch) IN
         /\ store' = Settled(b)
         /\ manifest' = IF b = 0 /\ store.dirty THEN entries ELSE manifest
    /\ UNCHANGED <<disk, index, entries, work, purge, sure, ignored, used>>

----------------------------------------------------------------------------
(* Maintenance and the operator.                                           *)

\* The age listLocked gives a copy (mutants: the time of the file;
\* nothing, without a record).
FoundDueByTime(n) == held[n].old
FoundDueRecorded(n) == Loaded[n] = "due"
FoundDue(n) == IF Loaded[n] # "none" THEN Loaded[n] = "due" ELSE held[n].old

PurgeWalk ==
    /\ Free
    /\ purge' = {n \in Names : Held(n) /\ FoundDue(n)}
    /\ purge' # {}
    /\ entries' = Loaded /\ store' = [store EXCEPT !.loaded = TRUE]
    /\ UNCHANGED <<disk, index, manifest, pass, work, sure, ignored, used>>

\* deleteLocked of one name; the last one saves.
PurgeOne(n) ==
    /\ n \in purge
    /\ purge' = purge \ {n}
    /\ held' = [held EXCEPT ![n] = NoCopy]
    /\ sure' = sure \ {n}
    /\ IF purge = {n} THEN Save([entries EXCEPT ![n] = "none"])
       ELSE entries' = [entries EXCEPT ![n] = "none"] /\ UNCHANGED <<manifest, store>>
    /\ UNCHANGED <<tree, index, pass, work, ignored, used>>

\* Restore refuses a name that exists in the tree again.
Restorable(n) == Held(n) /\ ~Present(n)

Forgotten(n) == [Loaded EXCEPT ![n] = "none"]

\* The handler scans the folder next (Scan).
RestoreHeld(n) ==
    /\ Free /\ Use("order")
    /\ Restorable(n)
    /\ \E old \in Relocations(held[n].old) :
         tree' = [tree EXCEPT ![n] = [c |-> held[n].c, old |-> old]]
    /\ held' = [held EXCEPT ![n] = NoCopy]
    /\ sure' = sure \ {n}
    /\ Save(Forgotten(n))
    /\ UNCHANGED <<index, pass, work, purge, ignored>>

DeleteHeld(n) ==
    /\ Free /\ Use("order") /\ Held(n)
    /\ held' = [held EXCEPT ![n] = NoCopy]
    /\ sure' = sure \ {n}
    /\ Save(Forgotten(n))
    /\ UNCHANGED <<tree, index, pass, work, purge, ignored>>

\* DeleteAll removes the hold directory, the manifest with it.
DeleteAllHeld ==
    /\ Free /\ Use("order") /\ \E n \in Names : Held(n)
    /\ held' = [n \in Names |-> NoCopy]
    /\ sure' = {}
    /\ entries' = NoRecords /\ manifest' = NoRecords
    /\ store' = [store EXCEPT !.loaded = TRUE]
    /\ UNCHANGED <<tree, index, pass, work, purge, ignored>>

----------------------------------------------------------------------------
(* Scans, users, peers, time.                                              *)

\* A scan of the file: a new or changed one becomes a version of its own, above
\* whatever row is there (mutant: a tombstone is left alone); a missing one is
\* deleted.
Rescanned(n) == IF row[n] = 0 THEN 0 ELSE tree[n].c
Observed(n) == tree[n].c

Scan(n) ==
    /\ row[n] # Observed(n)
    /\ row' = [row EXCEPT ![n] = Observed(n)]
    /\ deleted' = deleted \ {n}
    /\ UNCHANGED <<disk, records, pass, work, purge, sure, ignored, used>>

\* A user writes the file; a copy may bring an old modification time with it.
Edit(n, old) ==
    /\ Use("edit")
    /\ old => "copy" \in Operations
    /\ tree' = [tree EXCEPT ![n] = [c |-> used["edit"] + 2, old |-> old]]
    /\ UNCHANGED <<held, index, records, pass, work, purge, sure, ignored>>

\* Tombstones of a peer that knew the rows arrive.
PeerDeletes(S) ==
    /\ Use("delete") /\ S # {}
    /\ \A n \in S : row[n] # 0 /\ n \notin deleted
    /\ deleted' = deleted \cup S
    /\ UNCHANGED <<disk, row, records, pass, work, purge, sure, ignored>>

\* MaxAge goes by between passes.
Week ==
    /\ Use("week") /\ Free /\ \A p \in Passes : pass[p] = "idle"
    /\ tree' = [n \in Names |-> [tree[n] EXCEPT !.old = @ \/ Present(n)]]
    /\ held' = [n \in Names |-> [held[n] EXCEPT !.old = @ \/ Held(n), !.due = @ \/ Held(n)]]
    /\ LET Older(recs) == [n \in Names |-> IF recs[n] = "recent" THEN "due" ELSE recs[n]] IN
         entries' = Older(entries) /\ manifest' = Older(manifest)
    /\ UNCHANGED <<index, store, pass, work, purge, sure, ignored>>

----------------------------------------------------------------------------
(* The store is replaced, or the process stops.                            *)

NewStore ==
    /\ entries' = NoRecords
    /\ store' = [loaded |-> FALSE, batch |-> 0, dirty |-> FALSE]
    /\ purge' = {}
    /\ sure' = {n \in sure : Loaded[n] = manifest[n]}
    /\ UNCHANGED manifest

\* UpdateFolder: sessions go on with the new store; a record on its way goes
\* to the old one, whose batch nobody ends.
UpdateFolder ==
    /\ "update" \in Operations /\ Use("fault") /\ Free
    /\ NewStore
    /\ work' = [p \in Passes |-> [n \in Names |->
                   IF work[p][n] = "moved" THEN "kept" ELSE work[p][n]]]
    /\ UNCHANGED <<disk, index, pass, ignored>>

Crash ==
    /\ Use("fault")
    /\ NewStore
    /\ pass' = [p \in Passes |-> "idle"]
    /\ work' = [p \in Passes |-> [n \in Names |-> "none"]]
    /\ UNCHANGED <<disk, index, ignored>>

\* Close flushes the store; the process ends later (Crash).
Flush ==
    /\ Free /\ (store.batch > 0 \/ store.dirty)
    /\ Use("fault")
    /\ store' = [store EXCEPT !.batch = 0, !.dirty = FALSE]
    /\ manifest' = IF store.dirty THEN entries ELSE manifest
    /\ UNCHANGED <<disk, index, entries, pass, work, purge, sure, ignored>>

----------------------------------------------------------------------------
Deletion(p, n) ==
    \/ PlanDeletion(p, n) \/ MoveAway(p, n) \/ RecordHeld(p, n)
    \/ Unlink(p, n) \/ PutTombstone(p, n)

PassStep(p) ==
    \/ ListDeletions(p) \/ BeginBatch(p) \/ EndBatch(p)
    \/ \E n \in Names : Deletion(p, n)

Maintenance == PurgeWalk \/ \E n \in Names : PurgeOne(n)

Next ==
    \/ \E p \in Passes : PassStep(p) \/ \E n \in Names : MoveFails(p, n)
    \/ Maintenance
    \/ \E n \in Names : RestoreHeld(n) \/ DeleteHeld(n) \/ Scan(n)
    \/ \E S \in SUBSET Names : PeerDeletes(S)
    \/ \E n \in Names, old \in BOOLEAN : Edit(n, old)
    \/ DeleteAllHeld \/ Week \/ UpdateFolder \/ Crash \/ Flush

Spec == Init /\ [][Next]_vars

\* Passes run to their end, scans and maintenance are periodic.
FairSpec ==
    /\ Spec
    /\ \A p \in Passes : WF_vars(PassStep(p))
    /\ \A n \in Names : WF_vars(Scan(n))
    /\ WF_vars(Maintenance)

----------------------------------------------------------------------------
Ages == {"none", "recent", "due"}
Steps == {"none", "listed", "planned", "moved", "failed", "kept"}
Open == {p \in Passes : pass[p] = "open"}

TypeOK ==
    /\ tree \in [Names -> [c : Nat, old : BOOLEAN]]
    /\ row \in [Names -> Nat] /\ deleted \subseteq Names
    /\ held \in [Names -> [c : Nat, old : BOOLEAN, due : BOOLEAN]]
    /\ entries \in [Names -> Ages] /\ manifest \in [Names -> Ages]
    /\ store \in [loaded : BOOLEAN, batch : Nat, dirty : BOOLEAN]
    /\ pass \in [Passes -> {"idle", "listed", "open"}]
    /\ store.batch <= Cardinality(Open)
    /\ work \in [Passes -> [Names -> Steps]]
    /\ purge \subseteq Names /\ sure \subseteq Names /\ ignored \subseteq Names
    /\ used \in [Bounds -> Nat]

\* Between batches the manifest on disk is what the store remembers, whatever
\* batches overlapped and whoever restored, deleted or purged inside them.
ManifestCurrent ==
    store.loaded /\ store.batch = 0 /\ ~store.dirty /\ purge = {} => manifest = entries

\* Maintenance removes no copy before MaxAge once its record has been made and
\* has not died with a process or a store.
RecordedCopiesKept ==
    [][\A n \in sure : PurgeOne(n) => held[n].due]_vars

\* The hold area empties: a copy that is due is removed, with or without a
\* record.
HoldDrains == \A n \in Names : (Held(n) /\ held[n].due) ~> ~(Held(n) /\ held[n].due)

\* The index ends up describing the tree, restored files included.
IndexDescribesTree == <>[](\A n \in Names : row[n] = tree[n].c)

\* A deletion pass deletes what a peer has deleted: a file whose own row has
\* become the winner in the meantime stays.
WinnersRespected == ignored = {}

\* A copy is kept for MaxAge before maintenance removes it.
UndoWindowKept == [][\A n \in Names : PurgeOne(n) => held[n].due]_vars

============================================================================
