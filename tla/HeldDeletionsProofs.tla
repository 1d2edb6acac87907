------------------------ MODULE HeldDeletionsProofs ------------------------
(***************************************************************************)
(* Proofs about HeldDeletions.  ManifestCurrent is not inductive: the      *)
(* records on disk may only be compared with the store's once they are     *)
(* read, and inside a batch what counts is that the store knows itself     *)
(* dirty.  RecordedCopiesKept needs that a copy whose record was made      *)
(* keeps a record of the right age, in the store or on disk, wherever the  *)
(* purge will look, and that a purge under way found no other.             *)
(***************************************************************************)
EXTENDS HeldDeletions, FiniteSetTheorems, TLAPS

\* The store's records: a dirty store and a purging one have read the manifest;
\* a store that is not dirty and that nobody purges says what the manifest says.
StoreRight ==
    /\ store.dirty => store.loaded
    /\ purge # {} => store.loaded
    /\ store.loaded /\ ~store.dirty /\ purge = {} => manifest = entries

\* A recorded copy is there, with a record that does not call it due too early.
CopiesRecorded ==
    \A n \in sure :
       /\ held[n].c # 0
       /\ Loaded[n] # "none"
       /\ Loaded[n] = "due" => held[n].due

\* What a purge is about to remove was due, unless another copy has taken its
\* place, which has no record yet.
PurgeRight == \A n \in purge \cap sure : held[n].due

IInv == TypeOK /\ StoreRight /\ CopiesRecorded /\ PurgeRight

----------------------------------------------------------------------------
(* Types.                                                                  *)

Files == [c : Nat, old : BOOLEAN]
Copies == [c : Nat, old : BOOLEAN, due : BOOLEAN]
Stores == [loaded : BOOLEAN, batch : Nat, dirty : BOOLEAN]
Places == {"idle", "listed", "open"}

LEMMA Types ==
    ASSUME TypeOK
    PROVE  /\ tree \in [Names -> Files] /\ held \in [Names -> Copies]
           /\ row \in [Names -> Nat] /\ deleted \subseteq Names
           /\ entries \in [Names -> Ages] /\ manifest \in [Names -> Ages]
           /\ store \in Stores /\ pass \in [Passes -> Places]
           /\ work \in [Passes -> [Names -> Steps]]
           /\ purge \subseteq Names /\ sure \subseteq Names /\ ignored \subseteq Names
           /\ used \in [Bounds -> Nat]
BY DEF TypeOK, Files, Copies, Stores, Places

LEMMA NoneTypes ==
    /\ NoFile \in Files /\ NoCopy \in Copies
    /\ NoRecords \in [Names -> Ages]
BY DEF NoFile, NoCopy, NoRecords, Files, Copies, Ages

LEMMA LoadedType ==
    ASSUME TypeOK
    PROVE  Loaded \in [Names -> Ages]
BY Types DEF Loaded

LEMMA UseType ==
    ASSUME TypeOK, NEW b \in Bounds, Use(b)
    PROVE  used' \in [Bounds -> Nat]
BY Types DEF Use

\* The open passes, when one of them is opened or closed.
LEMMA Counting ==
    ASSUME TypeOK
    PROVE  /\ IsFiniteSet(Open) /\ Cardinality(Open) \in Nat
           /\ \A p \in Passes : /\ pass[p] # "open" => Cardinality(Open \cup {p}) = Cardinality(Open) + 1
                                /\ pass[p] = "open" => Cardinality(Open \ {p}) = Cardinality(Open) - 1
<1>1. IsFiniteSet(Open)
  BY HeldAssumption, FS_Subset DEF Open
<1>. QED  BY <1>1, FS_CardinalityType, FS_AddElement, FS_RemoveElement DEF Open

\* Save writes a record of the right type, and leaves the batch as it is.
LEMMA SaveType ==
    ASSUME TypeOK, NEW recs \in [Names -> Ages], Save(recs)
    PROVE  /\ entries' = recs /\ manifest' \in {manifest, recs}
           /\ store' \in Stores /\ store'.batch = store.batch
           /\ store'.loaded /\ (store.dirty => store'.dirty)
           /\ ~store'.dirty => manifest' = recs
<1>1. store \in Stores
  BY Types
<1>2. CASE store.batch > 0
  <2>1. store' = [store EXCEPT !.loaded = TRUE, !.dirty = TRUE] /\ manifest' = manifest /\ entries' = recs
    BY <1>2 DEF Save
  <2>. QED  BY <1>1, <2>1 DEF Stores
<1>3. CASE ~(store.batch > 0)
  <2>1. store' = [store EXCEPT !.loaded = TRUE] /\ manifest' = recs /\ entries' = recs
    BY <1>3 DEF Save
  <2>. QED  BY <1>1, <2>1 DEF Stores
<1>. QED  BY <1>2, <1>3

\* The type invariant from its parts: a store whose batches are no more than
\* the open passes.
LEMMA TypeFrom ==
    ASSUME tree' \in [Names -> Files], held' \in [Names -> Copies],
           row' \in [Names -> Nat], deleted' \subseteq Names,
           entries' \in [Names -> Ages], manifest' \in [Names -> Ages],
           store' \in Stores, pass' \in [Passes -> Places],
           store'.batch <= Cardinality(Open'),
           work' \in [Passes -> [Names -> Steps]],
           purge' \subseteq Names, sure' \subseteq Names, ignored' \subseteq Names,
           used' \in [Bounds -> Nat]
    PROVE  TypeOK'
BY DEF TypeOK, Files, Copies, Stores, Places

\* A step that leaves passes and batches alone.
LEMMA TypeFromSame ==
    ASSUME TypeOK, pass' = pass, store'.batch = store.batch,
           tree' \in [Names -> Files], held' \in [Names -> Copies],
           row' \in [Names -> Nat], deleted' \subseteq Names,
           entries' \in [Names -> Ages], manifest' \in [Names -> Ages],
           store' \in Stores,
           work' \in [Passes -> [Names -> Steps]],
           purge' \subseteq Names, sure' \subseteq Names, ignored' \subseteq Names,
           used' \in [Bounds -> Nat]
    PROVE  TypeOK'
<1>1. Open' = Open
  BY DEF Open
<1>2. store'.batch <= Cardinality(Open')
  BY <1>1 DEF TypeOK
<1>3. pass' \in [Passes -> Places]
  BY Types
<1>. QED  BY <1>2, <1>3, TypeFrom

LEMMA TypeStep == TypeOK /\ [Next]_vars => TypeOK'
<1> SUFFICES ASSUME TypeOK, [Next]_vars PROVE TypeOK'
  OBVIOUS
<1>. USE Types, NoneTypes, LoadedType
<1>1. ASSUME NEW p \in Passes, ListDeletions(p) PROVE TypeOK'
  <2>1. /\ pass[p] = "idle" /\ pass' = [pass EXCEPT ![p] = "listed"]
        /\ UNCHANGED <<disk, index, records, purge, sure, ignored, used>>
    BY <1>1 DEF ListDeletions
  <2>2. work' = [work EXCEPT ![p] = [n \in Names |-> IF n \in PendingDeletions
                                                     THEN "listed" ELSE "none"]]
    BY <1>1 DEF ListDeletions
  <2>3. work' \in [Passes -> [Names -> Steps]]
    BY <2>2 DEF Steps
  <2>4. pass' \in [Passes -> Places] /\ Open' = Open
    BY <2>1 DEF Places, Open
  <2>5. store'.batch <= Cardinality(Open')
    BY <2>1, <2>4 DEF TypeOK, records
  <2>. QED  BY <2>1, <2>3, <2>4, <2>5, TypeFrom DEF disk, index, records
<1>2. ASSUME NEW p \in Passes, BeginBatch(p) PROVE TypeOK'
  <2>1. /\ pass[p] = "listed" /\ pass' = [pass EXCEPT ![p] = "open"]
        /\ store' = [store EXCEPT !.batch = store.batch + 1]
        /\ UNCHANGED <<disk, index, entries, manifest, work, purge, sure, ignored, used>>
    BY <1>2 DEF BeginBatch
  <2>2. store' \in Stores /\ store'.batch = store.batch + 1
    BY <2>1 DEF Stores
  <2>3. pass' \in [Passes -> Places] /\ Open' = Open \cup {p}
    BY <2>1 DEF Places, Open
  <2>4. store.batch <= Cardinality(Open) /\ store.batch \in Nat
    BY DEF TypeOK, Stores
  <2>5. Cardinality(Open') = Cardinality(Open) + 1 /\ Cardinality(Open) \in Nat
    <3>1. pass[p] # "open"
      BY <2>1
    <3>. QED  BY <2>3, <3>1, Counting
  <2>6. store'.batch <= Cardinality(Open')
    BY <2>2, <2>4, <2>5
  <2>. QED  BY <2>1, <2>2, <2>3, <2>6, TypeFrom DEF disk, index
<1>3. ASSUME NEW p \in Passes, EndBatch(p) PROVE TypeOK'
  <2>1. /\ pass[p] = "open" /\ pass' = [pass EXCEPT ![p] = "idle"]
        /\ store' = Settled(Closed(store.batch))
        /\ manifest' \in {entries, manifest}
        /\ UNCHANGED <<disk, index, entries, work, purge, sure, ignored, used>>
    BY <1>3 DEF EndBatch
  <2>2. store' \in Stores /\ store'.batch = Closed(store.batch)
    <3>1. Closed(store.batch) \in Nat
      BY DEF Closed, Stores
    <3>. QED  BY <2>1, <3>1 DEF Stores, Settled
  <2>3. pass' \in [Passes -> Places] /\ Open' = Open \ {p}
    BY <2>1 DEF Places, Open
  <2>4. store.batch <= Cardinality(Open) /\ store.batch \in Nat
    BY DEF TypeOK, Stores
  <2>5. p \in Open
    BY <2>1 DEF Open
  <2>6. IsFiniteSet(Open \ {p}) /\ Cardinality(Open \ {p}) \in Nat
    BY Counting, FS_RemoveElement, FS_CardinalityType
  <2>7. Cardinality(Open') = Cardinality(Open) - 1 /\ Cardinality(Open) \in Nat
        /\ Cardinality(Open') \in Nat
    BY <2>1, <2>3, <2>6, Counting
  <2>8. store'.batch <= Cardinality(Open')
    BY <2>2, <2>4, <2>7 DEF Closed
  <2>. QED  BY <2>1, <2>2, <2>3, <2>8, TypeFrom DEF disk, index
<1>4. ASSUME NEW p \in Passes, NEW n \in Names,
             \/ PlanDeletion(p, n) \/ MoveAway(p, n) \/ MoveFails(p, n)
             \/ Unlink(p, n) \/ PutTombstone(p, n)
      PROVE  TypeOK'
  <2>1. \E from, to \in Steps : Step(p, n, from, to)
    BY <1>4 DEF PlanDeletion, MoveAway, MoveFails, Unlink, PutTombstone, Steps
  <2>2. pass' = pass /\ work' \in [Passes -> [Names -> Steps]]
    BY <2>1 DEF Step
  <2>3. records' = records /\ purge' = purge
    BY <1>4 DEF PlanDeletion, MoveAway, MoveFails, Unlink, PutTombstone
  <2>4. tree' \in [Names -> Files]
    <3>1. tree' = tree \/ tree' = [tree EXCEPT ![n] = NoFile]
      BY <1>4 DEF PlanDeletion, MoveAway, MoveFails, Unlink, PutTombstone, disk
    <3>. QED  BY <3>1
  <2>5. held' \in [Names -> Copies]
    <3>1. \/ held' = held
          \/ \E old \in Relocations(tree[n].old) :
                held' = [held EXCEPT ![n] = [c |-> tree[n].c, old |-> old, due |-> FALSE]]
      BY <1>4 DEF PlanDeletion, MoveAway, MoveFails, Unlink, PutTombstone, disk
    <3>2. \A old \in Relocations(tree[n].old) : [c |-> tree[n].c, old |-> old, due |-> FALSE] \in Copies
      BY DEF Relocations, Files, Copies
    <3>. QED  BY <3>1, <3>2
  <2>6. row' \in [Names -> Nat] /\ deleted' \subseteq Names
    BY <1>4 DEF PlanDeletion, MoveAway, MoveFails, Unlink, PutTombstone, index
  <2>7. sure' \subseteq Names /\ ignored' \subseteq Names
    BY <1>4 DEF PlanDeletion, MoveAway, MoveFails, Unlink, PutTombstone
  <2>8. used' \in [Bounds -> Nat]
    BY <1>4, UseType DEF PlanDeletion, MoveAway, MoveFails, Unlink, PutTombstone, Bounds
  <2>. QED  BY <2>2, <2>3, <2>4, <2>5, <2>6, <2>7, <2>8, TypeFromSame DEF records
<1>5. ASSUME NEW p \in Passes, NEW n \in Names, RecordHeld(p, n) PROVE TypeOK'
  <2>1. Step(p, n, "moved", "kept") /\ Save([Loaded EXCEPT ![n] = "recent"])
        /\ UNCHANGED <<disk, index, purge, ignored, used>> /\ sure' \subseteq sure \cup {n}
    BY <1>5 DEF RecordHeld
  <2>2. pass' = pass /\ work' \in [Passes -> [Names -> Steps]]
    BY <2>1 DEF Step, Steps
  <2>3. [Loaded EXCEPT ![n] = "recent"] \in [Names -> Ages]
    BY DEF Ages
  <2>. QED  BY <2>1, <2>2, <2>3, SaveType, TypeFromSame DEF disk, index
<1>6. CASE PurgeWalk
  <2>1. /\ purge' \subseteq Names /\ entries' = Loaded /\ store' = [store EXCEPT !.loaded = TRUE]
        /\ UNCHANGED <<disk, index, manifest, pass, work, sure, ignored, used>>
    BY <1>6 DEF PurgeWalk
  <2>2. store' \in Stores /\ store'.batch = store.batch
    BY <2>1 DEF Stores
  <2>. QED  BY <2>1, <2>2, TypeFromSame DEF disk, index
<1>7. ASSUME NEW n \in Names, PurgeOne(n) PROVE TypeOK'
  <2>1. /\ purge' \subseteq purge /\ held' = [held EXCEPT ![n] = NoCopy] /\ sure' \subseteq sure
        /\ UNCHANGED <<tree, index, pass, work, ignored, used>>
    BY <1>7 DEF PurgeOne
  <2>2. [entries EXCEPT ![n] = "none"] \in [Names -> Ages]
    BY DEF Ages
  <2>3. \/ Save([entries EXCEPT ![n] = "none"])
        \/ entries' = [entries EXCEPT ![n] = "none"] /\ UNCHANGED <<manifest, store>>
    BY <1>7 DEF PurgeOne
  <2>4. held' \in [Names -> Copies]
    BY <2>1
  <2>5. entries' \in [Names -> Ages] /\ manifest' \in [Names -> Ages] /\ store' \in Stores
        /\ store'.batch = store.batch
    BY <2>2, <2>3, SaveType
  <2>. QED  BY <2>1, <2>4, <2>5, TypeFromSame DEF index
<1>8. ASSUME NEW n \in Names, RestoreHeld(n) \/ DeleteHeld(n) PROVE TypeOK'
  <2>1. /\ held' = [held EXCEPT ![n] = NoCopy] /\ sure' \subseteq sure
        /\ Use("order") /\ Save(Forgotten(n))
        /\ UNCHANGED <<index, pass, work, purge, ignored>>
    BY <1>8 DEF RestoreHeld, DeleteHeld
  <2>2. Forgotten(n) \in [Names -> Ages]
    BY DEF Forgotten, Ages
  <2>3. \/ tree' = tree
        \/ \E old \in Relocations(held[n].old) :
              tree' = [tree EXCEPT ![n] = [c |-> held[n].c, old |-> old]]
    BY <1>8 DEF RestoreHeld, DeleteHeld
  <2>4. \A old \in Relocations(held[n].old) : [c |-> held[n].c, old |-> old] \in Files
    BY DEF Relocations, Files, Copies
  <2>5. tree' \in [Names -> Files] /\ held' \in [Names -> Copies]
    BY <2>1, <2>3, <2>4
  <2>6. used' \in [Bounds -> Nat]
    BY <2>1, UseType DEF Bounds
  <2>. QED  BY <2>1, <2>2, <2>5, <2>6, SaveType, TypeFromSame DEF index
<1>9. CASE DeleteAllHeld
  <2>1. /\ held' = [n \in Names |-> NoCopy] /\ sure' = {} /\ Use("order")
        /\ entries' = NoRecords /\ manifest' = NoRecords
        /\ store' = [store EXCEPT !.loaded = TRUE]
        /\ UNCHANGED <<tree, index, pass, work, purge, ignored>>
    BY <1>9 DEF DeleteAllHeld
  <2>2. store' \in Stores /\ store'.batch = store.batch
    BY <2>1 DEF Stores
  <2>3. used' \in [Bounds -> Nat]
    BY <2>1, UseType DEF Bounds
  <2>. QED  BY <2>1, <2>2, <2>3, TypeFromSame DEF index
<1>10. ASSUME NEW n \in Names, Scan(n) PROVE TypeOK'
  <2>1. tree[n].c \in Nat
    BY DEF Files
  <2>. QED  BY <1>10, <2>1, TypeFromSame DEF Scan, Observed, disk, records
<1>11. ASSUME NEW n \in Names, NEW old \in BOOLEAN, Edit(n, old) PROVE TypeOK'
  <2>1. used' \in [Bounds -> Nat]
    BY <1>11, UseType DEF Edit, Bounds
  <2>2. [c |-> used["edit"] + 2, old |-> old] \in Files
    BY DEF Files, Bounds
  <2>. QED  BY <1>11, <2>1, <2>2, TypeFromSame DEF Edit, index, records
<1>12. ASSUME NEW S \in SUBSET Names, PeerDeletes(S) PROVE TypeOK'
  <2>1. used' \in [Bounds -> Nat]
    BY <1>12, UseType DEF PeerDeletes, Bounds
  <2>. QED  BY <1>12, <2>1, TypeFromSame DEF PeerDeletes, disk, records
<1>13. CASE Week
  <2>1. used' \in [Bounds -> Nat]
    BY <1>13, UseType DEF Week, Bounds
  <2>2. \A n \in Names : [tree[n] EXCEPT !.old = tree[n].old \/ Present(n)] \in Files
    BY DEF Files, Present
  <2>3. \A n \in Names : [held[n] EXCEPT !.old = held[n].old \/ Held(n), !.due = held[n].due \/ Held(n)]
                            \in Copies
    BY DEF Copies, Held
  <2>4. \A recs \in [Names -> Ages] :
           [n \in Names |-> IF recs[n] = "recent" THEN "due" ELSE recs[n]] \in [Names -> Ages]
    BY DEF Ages
  <2>. QED  BY <1>13, <2>1, <2>2, <2>3, <2>4, TypeFromSame DEF Week, index
<1>14. CASE UpdateFolder \/ Crash
  <2>1. /\ NewStore /\ Use("fault") /\ disk' = disk /\ index' = index /\ ignored' = ignored
    BY <1>14 DEF UpdateFolder, Crash
  <2>2. /\ entries' = NoRecords /\ manifest' = manifest /\ purge' = {} /\ sure' \subseteq sure
        /\ store' = [loaded |-> FALSE, batch |-> 0, dirty |-> FALSE]
    BY <2>1 DEF NewStore
  <2>3. store' \in Stores /\ store'.batch = 0
    BY <2>2 DEF Stores
  <2>4. pass' \in [Passes -> Places]
    BY <1>14 DEF UpdateFolder, Crash, Places
  <2>5. work' \in [Passes -> [Names -> Steps]]
    BY <1>14 DEF UpdateFolder, Crash, Steps
  <2>6. used' \in [Bounds -> Nat]
    BY <2>1, UseType DEF Bounds
  <2>7. IsFiniteSet(Open') /\ Cardinality(Open') \in Nat
    BY HeldAssumption, FS_Subset, FS_CardinalityType DEF Open
  <2>. QED  BY <2>1, <2>2, <2>3, <2>4, <2>5, <2>6, <2>7, TypeFrom DEF disk, index
<1>15. CASE Flush
  <2>1. /\ Use("fault") /\ store' = [store EXCEPT !.batch = 0, !.dirty = FALSE]
        /\ manifest' \in {entries, manifest}
        /\ UNCHANGED <<disk, index, entries, pass, work, purge, sure, ignored>>
    BY <1>15 DEF Flush
  <2>2. store' \in Stores /\ store'.batch = 0
    BY <2>1 DEF Stores
  <2>3. Open' = Open /\ pass' \in [Passes -> Places]
    BY <2>1 DEF Open
  <2>4. store'.batch <= Cardinality(Open')
    BY <2>2, <2>3, Counting
  <2>5. used' \in [Bounds -> Nat]
    BY <2>1, UseType DEF Bounds
  <2>. QED  BY <2>1, <2>2, <2>3, <2>4, <2>5, TypeFrom DEF disk, index
<1>16. CASE UNCHANGED vars
  BY <1>16, TypeFromSame DEF vars, disk, index, records
<1>. QED
  BY <1>1, <1>2, <1>3, <1>4, <1>5, <1>6, <1>7, <1>8, <1>9, <1>10, <1>11, <1>12, <1>13, <1>14,
     <1>15, <1>16 DEF Next, PassStep, Deletion, Maintenance

----------------------------------------------------------------------------
(* The records.                                                            *)

\* A save under a free store, and what the next reader then finds.
LEMMA SaveRight ==
    ASSUME TypeOK, StoreRight, NEW recs \in [Names -> Ages], Save(recs), purge' = {}
    PROVE  StoreRight' /\ Loaded' = recs
BY SaveType DEF StoreRight, Loaded

LEMMA StoreStep == TypeOK /\ StoreRight /\ [Next]_vars => StoreRight'
<1> SUFFICES ASSUME TypeOK, StoreRight, [Next]_vars PROVE StoreRight'
  OBVIOUS
<1>. USE Types, LoadedType
<1>1. ASSUME UNCHANGED records, purge' = purge PROVE StoreRight'
  BY <1>1 DEF StoreRight, records
<1>2. ASSUME NEW p \in Passes, BeginBatch(p) PROVE StoreRight'
  <2>1. /\ store' = [store EXCEPT !.batch = store.batch + 1]
        /\ UNCHANGED <<entries, manifest, purge>>
    BY <1>2 DEF BeginBatch
  <2>2. store'.loaded = store.loaded /\ store'.dirty = store.dirty
    BY <2>1 DEF Stores
  <2>. QED  BY <2>1, <2>2 DEF StoreRight
<1>3. ASSUME NEW p \in Passes, EndBatch(p) PROVE StoreRight'
  <2>. DEFINE b == Closed(store.batch)
  <2>1. /\ store' = [store EXCEPT !.batch = b, !.dirty = IF b = 0 THEN FALSE ELSE store.dirty]
        /\ manifest' = IF b = 0 /\ store.dirty THEN entries ELSE manifest
        /\ UNCHANGED <<entries, purge>>
    BY <1>3 DEF EndBatch, Settled
  <2>2. store'.loaded = store.loaded /\ store'.dirty = IF b = 0 THEN FALSE ELSE store.dirty
    BY <2>1 DEF Stores
  <2>. QED  BY <2>1, <2>2 DEF StoreRight
<1>4. ASSUME NEW p \in Passes, NEW n \in Names, RecordHeld(p, n) PROVE StoreRight'
  <2>1. Save([Loaded EXCEPT ![n] = "recent"]) /\ purge' = {}
    BY <1>4 DEF RecordHeld, Free
  <2>2. [Loaded EXCEPT ![n] = "recent"] \in [Names -> Ages]
    BY DEF Ages
  <2>. QED  BY <2>1, <2>2, SaveRight
<1>5. ASSUME PurgeWalk PROVE StoreRight'
  <2>1. purge' # {} /\ store' = [store EXCEPT !.loaded = TRUE]
    BY <1>5 DEF PurgeWalk
  <2>2. store'.loaded
    BY <2>1 DEF Stores
  <2>. QED  BY <2>1, <2>2 DEF StoreRight
<1>6. ASSUME NEW n \in Names, PurgeOne(n) PROVE StoreRight'
  <2>1. n \in purge /\ purge' = purge \ {n}
    BY <1>6 DEF PurgeOne
  <2>2. CASE purge = {n}
    <3>1. Save([entries EXCEPT ![n] = "none"]) /\ purge' = {}
      BY <1>6, <2>1, <2>2 DEF PurgeOne
    <3>2. [entries EXCEPT ![n] = "none"] \in [Names -> Ages]
      BY DEF Ages
    <3>. QED  BY <3>1, <3>2, SaveRight
  <2>3. CASE purge # {n}
    <3>1. store' = store /\ purge' # {}
      BY <1>6, <2>1, <2>3 DEF PurgeOne
    <3>. QED  BY <2>1, <3>1 DEF StoreRight
  <2>. QED  BY <2>2, <2>3
<1>7. ASSUME NEW n \in Names, RestoreHeld(n) \/ DeleteHeld(n) PROVE StoreRight'
  <2>1. Save(Forgotten(n)) /\ purge' = {}
    BY <1>7 DEF RestoreHeld, DeleteHeld, Free
  <2>2. Forgotten(n) \in [Names -> Ages]
    BY DEF Forgotten, Ages
  <2>. QED  BY <2>1, <2>2, SaveRight
<1>8. ASSUME DeleteAllHeld PROVE StoreRight'
  <2>1. /\ entries' = NoRecords /\ manifest' = NoRecords /\ purge' = {}
        /\ store' = [store EXCEPT !.loaded = TRUE]
    BY <1>8 DEF DeleteAllHeld, Free
  <2>2. store'.loaded
    BY <2>1 DEF Stores
  <2>. QED  BY <2>1, <2>2 DEF StoreRight
<1>9. ASSUME Week PROVE StoreRight'
  <2>. DEFINE Older(recs) == [n \in Names |-> IF recs[n] = "recent" THEN "due" ELSE recs[n]]
  <2>1. entries' = Older(entries) /\ manifest' = Older(manifest) /\ UNCHANGED <<store, purge>>
    BY <1>9 DEF Week
  <2>2. manifest = entries => manifest' = entries'
    BY <2>1
  <2>. QED  BY <2>1, <2>2 DEF StoreRight
<1>10. ASSUME NewStore PROVE StoreRight'
  BY <1>10 DEF NewStore, StoreRight
<1>11. ASSUME Flush PROVE StoreRight'
  <2>1. /\ store' = [store EXCEPT !.batch = 0, !.dirty = FALSE]
        /\ manifest' = IF store.dirty THEN entries ELSE manifest
        /\ UNCHANGED <<entries, purge>>
    BY <1>11 DEF Flush
  <2>2. store'.loaded = store.loaded /\ ~store'.dirty
    BY <2>1 DEF Stores
  <2>. QED  BY <2>1, <2>2 DEF StoreRight
<1>12. \/ UNCHANGED records /\ purge' = purge
       \/ \E p \in Passes : BeginBatch(p) \/ EndBatch(p) \/ \E n \in Names : RecordHeld(p, n)
       \/ \E n \in Names : PurgeOne(n) \/ RestoreHeld(n) \/ DeleteHeld(n)
       \/ PurgeWalk \/ DeleteAllHeld \/ Week \/ NewStore \/ Flush
  <2>1. ASSUME NEW p \in Passes, NEW n \in Names,
               \/ ListDeletions(p) \/ PlanDeletion(p, n) \/ MoveAway(p, n) \/ MoveFails(p, n)
               \/ Unlink(p, n) \/ PutTombstone(p, n)
        PROVE  UNCHANGED records /\ purge' = purge
    BY <2>1 DEF ListDeletions, PlanDeletion, MoveAway, MoveFails, Unlink, PutTombstone
  <2>2. ASSUME NEW p \in Passes, ListDeletions(p) PROVE UNCHANGED records /\ purge' = purge
    BY <2>2 DEF ListDeletions
  <2>3. ASSUME NEW n \in Names, Scan(n) \/ \E old \in BOOLEAN : Edit(n, old)
        PROVE  UNCHANGED records /\ purge' = purge
    BY <2>3 DEF Scan, Edit
  <2>4. ASSUME NEW S \in SUBSET Names, PeerDeletes(S) PROVE UNCHANGED records /\ purge' = purge
    BY <2>4 DEF PeerDeletes
  <2>5. ASSUME UNCHANGED vars PROVE UNCHANGED records /\ purge' = purge
    BY <2>5 DEF vars, records
  <2>. QED
    BY <2>1, <2>2, <2>3, <2>4, <2>5
    DEF Next, PassStep, Deletion, Maintenance, UpdateFolder, Crash
<1>. QED
  BY <1>1, <1>2, <1>3, <1>4, <1>5, <1>6, <1>7, <1>8, <1>9, <1>10, <1>11, <1>12

----------------------------------------------------------------------------
(* The copies.                                                             *)

\* What is left alone of a recorded copy and of its record stays right.
LEMMA StillRecorded ==
    ASSUME CopiesRecorded, NEW n \in sure, held'[n] = held[n], Loaded'[n] = Loaded[n]
    PROVE  /\ held'[n].c # 0 /\ Loaded'[n] # "none"
           /\ Loaded'[n] = "due" => held'[n].due
BY DEF CopiesRecorded

\* A copy is removed, and its record with it.
LEMMA Removed ==
    ASSUME TypeOK, CopiesRecorded, NEW n \in Names,
           held' = [held EXCEPT ![n] = NoCopy], sure' = sure \ {n},
           Loaded' = [Loaded EXCEPT ![n] = "none"]
    PROVE  CopiesRecorded'
<1> SUFFICES ASSUME NEW m \in sure'
             PROVE  /\ held'[m].c # 0 /\ Loaded'[m] # "none"
                    /\ Loaded'[m] = "due" => held'[m].due
  BY DEF CopiesRecorded
<1>1. m \in sure /\ m # n /\ m \in Names
  BY Types
<1>2. held'[m] = held[m] /\ Loaded'[m] = Loaded[m]
  BY <1>1, Types, LoadedType
<1>. QED  BY <1>1, <1>2, StillRecorded

LEMMA CopiesStep ==
    TypeOK /\ StoreRight /\ CopiesRecorded /\ [Next]_vars => CopiesRecorded'
<1> SUFFICES ASSUME TypeOK, StoreRight, CopiesRecorded, [Next]_vars PROVE CopiesRecorded'
  OBVIOUS
<1>. USE Types, LoadedType
<1>1. ASSUME Loaded' = Loaded, held' = held, sure' \subseteq sure PROVE CopiesRecorded'
  BY <1>1 DEF CopiesRecorded
<1>2. ASSUME NEW p \in Passes, NEW n \in Names, MoveAway(p, n) PROVE CopiesRecorded'
  <2>1. CASE Present(n)
    <3>1. /\ sure' = sure \ {n} /\ Loaded' = Loaded
          /\ \E f : held' = [held EXCEPT ![n] = f]
      BY <1>2, <2>1 DEF MoveAway, Loaded, records
    <3>2. \A m \in sure' : m \in sure /\ held'[m] = held[m]
      BY <3>1
    <3>. QED  BY <3>1, <3>2 DEF CopiesRecorded
  <2>2. CASE ~Present(n)
    <3>1. sure' = sure /\ held' = held /\ Loaded' = Loaded
      BY <1>2, <2>2 DEF MoveAway, Loaded, records, disk
    <3>. QED  BY <3>1, <1>1
  <2>. QED  BY <2>1, <2>2
<1>3. ASSUME NEW p \in Passes, NEW n \in Names, RecordHeld(p, n) PROVE CopiesRecorded'
  <2>1. /\ Save([Loaded EXCEPT ![n] = "recent"]) /\ purge' = {}
        /\ sure' = (IF Held(n) THEN sure \cup {n} ELSE sure) /\ held' = held
    BY <1>3 DEF RecordHeld, Free, disk
  <2>2. [Loaded EXCEPT ![n] = "recent"] \in [Names -> Ages]
    BY DEF Ages
  <2>3. Loaded' = [Loaded EXCEPT ![n] = "recent"]
    BY <2>1, <2>2, SaveRight
  <2>4. ASSUME NEW m \in sure'
        PROVE  /\ held'[m].c # 0 /\ Loaded'[m] # "none"
               /\ Loaded'[m] = "due" => held'[m].due
    <3>1. CASE m = n
      <4>1. n \in sure \/ held[n].c # 0
        BY <2>1, <2>4, <3>1 DEF Held
      <4>2. held'[n].c # 0
        BY <2>1, <4>1 DEF CopiesRecorded
      <4>3. Loaded'[n] = "recent"
        BY <2>3
      <4>. QED  BY <3>1, <4>2, <4>3
    <3>2. CASE m # n
      <4>1. m \in sure /\ held'[m] = held[m] /\ Loaded'[m] = Loaded[m]
        BY <2>1, <2>3, <2>4, <3>2
      <4>. QED  BY <4>1, StillRecorded
    <3>. QED  BY <3>1, <3>2
  <2>. QED  BY <2>4 DEF CopiesRecorded
<1>4. ASSUME NEW p \in Passes, EndBatch(p) PROVE CopiesRecorded'
  <2>. DEFINE b == Closed(store.batch)
  <2>1. /\ store' = [store EXCEPT !.batch = b, !.dirty = IF b = 0 THEN FALSE ELSE store.dirty]
        /\ manifest' = IF b = 0 /\ store.dirty THEN entries ELSE manifest
        /\ entries' = entries /\ held' = held /\ sure' = sure
    BY <1>4 DEF EndBatch, Settled, disk
  <2>2. store'.loaded = store.loaded
    BY <2>1 DEF Stores
  <2>3. Loaded' = Loaded
    BY <2>1, <2>2 DEF Loaded, StoreRight
  <2>. QED  BY <1>1, <2>1, <2>3
<1>5. ASSUME PurgeWalk PROVE CopiesRecorded'
  <2>1. /\ entries' = Loaded /\ store' = [store EXCEPT !.loaded = TRUE]
        /\ held' = held /\ sure' = sure
    BY <1>5 DEF PurgeWalk, disk
  <2>2. store'.loaded
    BY <2>1 DEF Stores
  <2>3. Loaded' = Loaded
    BY <2>1, <2>2 DEF Loaded
  <2>. QED  BY <1>1, <2>1, <2>3
<1>6. ASSUME NEW n \in Names, PurgeOne(n) PROVE CopiesRecorded'
  <2>1. /\ n \in purge /\ purge' = purge \ {n} /\ held' = [held EXCEPT ![n] = NoCopy]
        /\ sure' = sure \ {n}
    BY <1>6 DEF PurgeOne
  <2>2. store.loaded /\ Loaded = entries
    BY <2>1 DEF StoreRight, Loaded
  <2>3. Loaded' = [Loaded EXCEPT ![n] = "none"]
    <3>1. CASE purge = {n}
      <4>1. Save([entries EXCEPT ![n] = "none"])
        BY <1>6, <3>1 DEF PurgeOne
      <4>2. [entries EXCEPT ![n] = "none"] \in [Names -> Ages]
        BY DEF Ages
      <4>3. purge' = {}
        BY <2>1, <3>1
      <4>. QED  BY <2>2, <4>1, <4>2, <4>3, SaveRight
    <3>2. CASE purge # {n}
      <4>1. entries' = [entries EXCEPT ![n] = "none"] /\ store' = store
        BY <1>6, <3>2 DEF PurgeOne
      <4>. QED  BY <2>2, <4>1 DEF Loaded
    <3>. QED  BY <3>1, <3>2
  <2>. QED  BY <2>1, <2>3, Removed
<1>7. ASSUME NEW n \in Names, RestoreHeld(n) \/ DeleteHeld(n) PROVE CopiesRecorded'
  <2>1. /\ Save(Forgotten(n)) /\ purge' = {}
        /\ held' = [held EXCEPT ![n] = NoCopy] /\ sure' = sure \ {n}
    BY <1>7 DEF RestoreHeld, DeleteHeld, Free
  <2>2. Forgotten(n) \in [Names -> Ages] /\ Forgotten(n) = [Loaded EXCEPT ![n] = "none"]
    BY DEF Forgotten, Ages
  <2>3. Loaded' = [Loaded EXCEPT ![n] = "none"]
    BY <2>1, <2>2, SaveRight
  <2>. QED  BY <2>1, <2>3, Removed
<1>8. ASSUME DeleteAllHeld PROVE CopiesRecorded'
  BY <1>8 DEF DeleteAllHeld, CopiesRecorded
<1>9. ASSUME Week PROVE CopiesRecorded'
  <2>. DEFINE Older(recs) == [n \in Names |-> IF recs[n] = "recent" THEN "due" ELSE recs[n]]
  <2>1. /\ entries' = Older(entries) /\ manifest' = Older(manifest) /\ UNCHANGED <<store, sure>>
        /\ held' = [n \in Names |-> [held[n] EXCEPT !.old = held[n].old \/ Held(n),
                                                    !.due = held[n].due \/ Held(n)]]
    BY <1>9 DEF Week
  <2>2. Loaded' = Older(Loaded)
    BY <2>1 DEF Loaded
  <2>3. ASSUME NEW n \in sure'
        PROVE  /\ held'[n].c # 0 /\ Loaded'[n] # "none"
               /\ Loaded'[n] = "due" => held'[n].due
    <3>1. n \in sure /\ n \in Names
      BY <2>1, <2>3
    <3>2. held[n].c # 0 /\ Loaded[n] # "none"
      BY <3>1 DEF CopiesRecorded
    <3>3. held'[n] = [held[n] EXCEPT !.old = held[n].old \/ Held(n), !.due = held[n].due \/ Held(n)]
      BY <2>1, <3>1
    <3>4. held[n] \in Copies /\ Held(n)
      BY <3>1, <3>2 DEF Held
    <3>5. held'[n].c = held[n].c /\ held'[n].due
      BY <3>3, <3>4 DEF Copies
    <3>6. Loaded'[n] # "none"
      BY <2>2, <3>1, <3>2
    <3>. QED  BY <3>2, <3>5, <3>6
  <2>. QED  BY <2>3 DEF CopiesRecorded
<1>10. ASSUME NewStore, held' = held PROVE CopiesRecorded'
  <2>1. /\ store' = [loaded |-> FALSE, batch |-> 0, dirty |-> FALSE] /\ manifest' = manifest
        /\ sure' = {n \in sure : Loaded[n] = manifest[n]}
    BY <1>10 DEF NewStore
  <2>2. Loaded' = manifest
    BY <2>1 DEF Loaded
  <2>3. \A n \in sure' : n \in sure /\ Loaded'[n] = Loaded[n] /\ held'[n] = held[n]
    BY <1>10, <2>1, <2>2
  <2>. QED  BY <2>3 DEF CopiesRecorded
<1>11. ASSUME Flush PROVE CopiesRecorded'
  <2>1. /\ store' = [store EXCEPT !.batch = 0, !.dirty = FALSE]
        /\ manifest' = IF store.dirty THEN entries ELSE manifest
        /\ entries' = entries /\ held' = held /\ sure' = sure
    BY <1>11 DEF Flush, disk
  <2>2. store'.loaded = store.loaded
    BY <2>1 DEF Stores
  <2>3. Loaded' = Loaded
    BY <2>1, <2>2 DEF Loaded, StoreRight
  <2>. QED  BY <1>1, <2>1, <2>3
<1>12. ASSUME NEW p \in Passes, BeginBatch(p) PROVE CopiesRecorded'
  <2>1. /\ store' = [store EXCEPT !.batch = store.batch + 1]
        /\ UNCHANGED <<entries, manifest, sure, held>>
    BY <1>12 DEF BeginBatch, disk
  <2>2. store'.loaded = store.loaded
    BY <2>1 DEF Stores
  <2>3. Loaded' = Loaded
    BY <2>1, <2>2 DEF Loaded
  <2>. QED  BY <1>1, <2>1, <2>3
<1>13. ASSUME UNCHANGED <<records, held, sure>> PROVE CopiesRecorded'
  BY <1>1, <1>13 DEF Loaded, records
<1>14. \/ UNCHANGED <<records, held, sure>>
       \/ \E p \in Passes : \/ BeginBatch(p) \/ EndBatch(p)
                            \/ \E n \in Names : RecordHeld(p, n) \/ MoveAway(p, n)
       \/ \E n \in Names : PurgeOne(n) \/ RestoreHeld(n) \/ DeleteHeld(n)
       \/ PurgeWalk \/ DeleteAllHeld \/ Week \/ (NewStore /\ held' = held) \/ Flush
  <2>1. ASSUME NEW p \in Passes, NEW n \in Names,
               PlanDeletion(p, n) \/ MoveFails(p, n) \/ Unlink(p, n) \/ PutTombstone(p, n)
        PROVE  UNCHANGED <<records, held, sure>>
    BY <2>1 DEF PlanDeletion, MoveFails, Unlink, PutTombstone, disk
  <2>2. ASSUME NEW p \in Passes, ListDeletions(p) PROVE UNCHANGED <<records, held, sure>>
    BY <2>2 DEF ListDeletions, disk
  <2>3. ASSUME NEW n \in Names, Scan(n) \/ \E old \in BOOLEAN : Edit(n, old)
        PROVE  UNCHANGED <<records, held, sure>>
    BY <2>3 DEF Scan, Edit, disk
  <2>4. ASSUME NEW S \in SUBSET Names, PeerDeletes(S) PROVE UNCHANGED <<records, held, sure>>
    BY <2>4 DEF PeerDeletes, disk
  <2>5. ASSUME UNCHANGED vars PROVE UNCHANGED <<records, held, sure>>
    BY <2>5 DEF vars, disk, records
  <2>6. ASSUME UpdateFolder \/ Crash PROVE NewStore /\ held' = held
    BY <2>6 DEF UpdateFolder, Crash, disk
  <2>. QED
    BY <2>1, <2>2, <2>3, <2>4, <2>5, <2>6 DEF Next, PassStep, Deletion, Maintenance
<1>. QED
  BY <1>2, <1>3, <1>4, <1>5, <1>6, <1>7, <1>8, <1>9, <1>10, <1>11, <1>12, <1>13, <1>14

LEMMA PurgeStep ==
    TypeOK /\ StoreRight /\ CopiesRecorded /\ PurgeRight /\ [Next]_vars => PurgeRight'
<1> SUFFICES ASSUME TypeOK, StoreRight, CopiesRecorded, PurgeRight, [Next]_vars PROVE PurgeRight'
  OBVIOUS
<1>. USE Types
<1>1. ASSUME purge' = {} PROVE PurgeRight'
  BY <1>1 DEF PurgeRight
<1>2. ASSUME purge' = purge, sure' \subseteq sure, held' = held PROVE PurgeRight'
  BY <1>2 DEF PurgeRight
<1>3. ASSUME NEW p \in Passes, NEW n \in Names, MoveAway(p, n) PROVE PurgeRight'
  <2>1. CASE Present(n)
    <3>1. /\ sure' = sure \ {n} /\ purge' = purge
          /\ \E f : held' = [held EXCEPT ![n] = f]
      BY <1>3, <2>1 DEF MoveAway
    <3>2. \A m \in sure' : m \in sure /\ held'[m] = held[m]
      BY <3>1
    <3>. QED  BY <3>1, <3>2 DEF PurgeRight
  <2>2. CASE ~Present(n)
    BY <1>2, <1>3, <2>2 DEF MoveAway, disk
  <2>. QED  BY <2>1, <2>2
<1>4. ASSUME PurgeWalk PROVE PurgeRight'
  <2>1. /\ purge' = {n \in Names : Held(n) /\ FoundDue(n)} /\ held' = held /\ sure' = sure
    BY <1>4 DEF PurgeWalk, disk
  <2>2. ASSUME NEW n \in purge' \cap sure' PROVE held'[n].due
    <3>1. n \in sure /\ FoundDue(n)
      BY <2>1, <2>2
    <3>2. Loaded[n] # "none" /\ (Loaded[n] = "due" => held[n].due)
      BY <3>1 DEF CopiesRecorded
    <3>. QED  BY <2>1, <3>1, <3>2 DEF FoundDue
  <2>. QED  BY <2>2 DEF PurgeRight
<1>5. ASSUME NEW n \in Names, PurgeOne(n) PROVE PurgeRight'
  <2>1. purge' = purge \ {n} /\ sure' = sure \ {n} /\ held' = [held EXCEPT ![n] = NoCopy]
    BY <1>5 DEF PurgeOne
  <2>2. \A m \in purge' \cap sure' : m \in purge \cap sure /\ held'[m] = held[m]
    BY <2>1
  <2>. QED  BY <2>2 DEF PurgeRight
<1>6. \/ purge' = {}
      \/ purge' = purge /\ sure' \subseteq sure /\ held' = held
      \/ \E p \in Passes, n \in Names : MoveAway(p, n)
      \/ PurgeWalk \/ \E n \in Names : PurgeOne(n)
  <2>1. ASSUME NEW p \in Passes, NEW n \in Names,
               PlanDeletion(p, n) \/ MoveFails(p, n) \/ Unlink(p, n) \/ PutTombstone(p, n)
        PROVE  purge' = purge /\ sure' = sure /\ held' = held
    BY <2>1 DEF PlanDeletion, MoveFails, Unlink, PutTombstone, disk
  <2>2. ASSUME NEW p \in Passes, ListDeletions(p) \/ BeginBatch(p) \/ EndBatch(p)
        PROVE  purge' = purge /\ sure' = sure /\ held' = held
    BY <2>2 DEF ListDeletions, BeginBatch, EndBatch, disk
  <2>3. ASSUME NEW n \in Names, Scan(n) \/ \E old \in BOOLEAN : Edit(n, old)
        PROVE  purge' = purge /\ sure' = sure /\ held' = held
    BY <2>3 DEF Scan, Edit, disk
  <2>4. ASSUME NEW S \in SUBSET Names, PeerDeletes(S)
        PROVE  purge' = purge /\ sure' = sure /\ held' = held
    BY <2>4 DEF PeerDeletes, disk
  <2>5. ASSUME UNCHANGED vars PROVE purge' = purge /\ sure' = sure /\ held' = held
    BY <2>5 DEF vars, disk, records
  <2>6. ASSUME NEW p \in Passes, NEW n \in Names, RecordHeld(p, n) PROVE purge' = {}
    BY <2>6 DEF RecordHeld, Free
  <2>7. ASSUME NEW n \in Names, RestoreHeld(n) \/ DeleteHeld(n) PROVE purge' = {}
    BY <2>7 DEF RestoreHeld, DeleteHeld, Free
  <2>8. ASSUME DeleteAllHeld \/ Week \/ UpdateFolder \/ Crash \/ Flush PROVE purge' = {}
    BY <2>8 DEF DeleteAllHeld, Week, UpdateFolder, Crash, Flush, Free, NewStore
  <2>. QED
    BY <2>1, <2>2, <2>3, <2>4, <2>5, <2>6, <2>7, <2>8 DEF Next, PassStep, Deletion, Maintenance
<1>. QED  BY <1>1, <1>2, <1>3, <1>4, <1>5, <1>6

----------------------------------------------------------------------------
(* The invariant, and what it gives.                                       *)

LEMMA InitInv == Init => IInv
<1> SUFFICES ASSUME Init PROVE IInv
  OBVIOUS
<1>1. TypeOK
  <2>1. /\ tree \in [Names -> Files] /\ held \in [Names -> Copies]
        /\ row \in [Names -> Nat] /\ deleted \subseteq Names
        /\ entries \in [Names -> Ages] /\ manifest \in [Names -> Ages]
    BY NoneTypes DEF Init, Files
  <2>2. store \in Stores /\ store.batch = 0
    BY DEF Init, Stores
  <2>3. pass \in [Passes -> Places] /\ work \in [Passes -> [Names -> Steps]]
    BY DEF Init, Places, Steps
  <2>4. used \in [Bounds -> Nat] /\ purge = {} /\ sure = {} /\ ignored = {}
    BY DEF Init
  <2>5. Cardinality(Open) \in Nat
    BY HeldAssumption, FS_Subset, FS_CardinalityType DEF Open
  <2>. QED  BY <2>1, <2>2, <2>3, <2>4, <2>5 DEF TypeOK, Files, Copies, Stores, Places
<1>2. StoreRight /\ CopiesRecorded /\ PurgeRight
  BY DEF Init, StoreRight, CopiesRecorded, PurgeRight
<1>. QED  BY <1>1, <1>2 DEF IInv

LEMMA Inductive == Spec => []IInv
<1>1. IInv /\ [Next]_vars => IInv'
  BY TypeStep, StoreStep, CopiesStep, PurgeStep DEF IInv
<1>. QED  BY <1>1, InitInv, PTL DEF Spec

\* Every variable keeps its type, and a store never has more open batches than
\* there are passes inside one (BeginBatch, EndBatch), folder updates and
\* shutdowns included.
THEOREM TypeCorrect == Spec => []TypeOK
<1>1. IInv => TypeOK
  BY DEF IInv
<1>. QED  BY <1>1, Inductive, PTL

\* Between batches the manifest on disk is what the store remembers (saveLocked,
\* EndBatch), whatever batches overlapped, were abandoned by an update of the
\* folder, or had copies restored, deleted and purged inside them.
THEOREM ManifestIsCurrent == Spec => []ManifestCurrent
<1>1. IInv => ManifestCurrent
  BY DEF IInv, StoreRight, ManifestCurrent
<1>. QED  BY <1>1, Inductive, PTL

\* Maintenance removes no copy before its time once its record has been made
\* and has not died with a process or a store (purgeHeld, listLocked).
THEOREM UndoWindowHolds == Spec => RecordedCopiesKept
<1>1. IInv /\ [Next]_vars => [\A n \in sure : PurgeOne(n) => held[n].due]_vars
  <2> SUFFICES ASSUME IInv, NEW n \in sure, PurgeOne(n) PROVE held[n].due
    OBVIOUS
  <2>1. n \in purge
    BY DEF PurgeOne
  <2>. QED  BY <2>1 DEF IInv, PurgeRight
<1>. QED  BY <1>1, Inductive, PTL DEF Spec, RecordedCopiesKept

============================================================================
