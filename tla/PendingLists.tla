---------------------------- MODULE PendingLists ----------------------------
(***************************************************************************)
(* The incremental pending lists of one folder's engine (internal/sync:    *)
(* pending_incremental.go, NeedPulls, PendingUploads, SetInFlight,         *)
(* SetPeerIndex, the view exchange marks; internal/index: the write hook). *)
(*                                                                         *)
(* Names whose membership may have changed are kept in a dirty set; a call *)
(* looks at those only, or walks the whole index.  The engine lock covers  *)
(* a call and every change of a peer's view.  It does not cover the index  *)
(* writes of pulls, conflict copies and deletions, which the write hook    *)
(* reports after the commit, nor SetInFlight, which marks its names after  *)
(* it has stored the set; each walk of the index is one query.  Rows is a  *)
(* chain of entries (no conflicts: module FolderSync has those), so that   *)
(* the winner of a name does not depend on the order of the views.         *)
(***************************************************************************)
EXTENDS GlobalModel

CONSTANTS
    Self,        \* this device
    Names,       \* names of the folder
    Included,    \* names the include list covers
    Rows,        \* entries that indexes and views hold
    DirtyShare,  \* pendingDirtyShare (4 in the code)
    MaxChanges   \* bound: writes, view changes, gate changes, prunings, errors, agings

Peers == Devices \ {Self}
NoView == [n \in {} |-> NoEntry]

ASSUME PendingAssumption ==
    /\ Self \in Devices /\ Included \subseteq Names
    /\ DirtyShare \in Nat \ {0} /\ MaxChanges \in Nat
    /\ \A a, b \in Rows : a # b => Compare(a.ver, b.ver) \in {-1, 1}

VARIABLES
    idx,       \* name -> row of the local index
    view,      \* peer -> name -> row of the peer's index, or NoView
    halfway,   \* peers whose view is a partial snapshot (viewPending)
    inflight,  \* names the stability gate holds back
    unmarked,  \* writer ("index", "gate") -> names it wrote and has yet to mark dirty
    dirty,     \* names whose membership may have changed
    all,       \* everything may have changed
    cache,     \* pendingCache: valid, aged, indexed, the two sets and the two lists
    walk,      \* the call under way
    since,     \* history: names that changed since the call began
    lost,      \* history: names whose change was neither looked at nor stays dirty
    changes    \* changes so far

vars == <<idx, view, halfway, inflight, unmarked, dirty, all, cache, walk, since, lost, changes>>
inputs == <<idx, view, halfway, inflight>>
bookkeeping == <<cache, walk>>

Entry == Rows \cup {NoEntry}
Writers == {"index", "gate"}
Idle == [pc |-> "idle", todo |-> {}, taken |-> {}, snap |-> NoView, pulls |-> {}]

Init ==
    /\ idx = [n \in Names |-> NoEntry]
    /\ view = [p \in Peers |-> NoView]
    /\ halfway = {} /\ inflight = {}
    /\ unmarked = [w \in Writers |-> {}]
    /\ dirty = {} /\ all = FALSE
    /\ cache = [valid |-> FALSE, aged |-> FALSE, indexed |-> 0,
                pullSet |-> {}, upSet |-> {}, pulls |-> {}, ups |-> {}]
    /\ walk = Idle
    /\ since = {} /\ lost = {}
    /\ changes = 0

Unmarked == unmarked["index"] \cup unmarked["gate"]
Unlocked == walk.pc = "idle"
Counted == changes < MaxChanges /\ changes' = changes + 1

----------------------------------------------------------------------------
(* Membership.                                                             *)

Known == {p \in Peers : view[p] # NoView}
EntryOf(p, n) == view[p][n]

\* pullWanted, with the gates: in flight, and the include list for a name that
\* is not owned yet.
PullWanted(n, local) ==
    /\ n \notin inflight
    /\ \E g \in globalFrom(local, [p \in Known |-> EntryOf(p, n)]) :
         pullWanted(local, g) /\ (Exists(local) \/ n \in Included)

\* uploadWanted, over the authoritative views.
Authoritative == Known \ halfway

UploadWanted(n, local) ==
    /\ n \notin inflight
    /\ uploadWanted(local, [p \in Authoritative |-> EntryOf(p, n)])

----------------------------------------------------------------------------
(* Changes without the engine lock.                                        *)

Changed(S) == since' = IF Unlocked THEN {} ELSE since \cup S

\* Put, PutBatch and Delete: the rows are committed, the hook is called next,
\* all under the index lock.
Commit(S, e) ==
    /\ Counted
    /\ unmarked["index"] = {} /\ S # {}
    /\ idx' = [n \in Names |-> IF n \in S THEN e ELSE idx[n]]
    /\ unmarked' = [unmarked EXCEPT !["index"] = S]
    /\ Changed(S)
    /\ UNCHANGED <<view, halfway, inflight, dirty, all, bookkeeping, lost>>

\* SetInFlight stores the set, and marks the names that entered or left it
\* (mutant: only those that entered).
GateEntered(S) == S \ inflight
GateMoved(S) == (S \ inflight) \cup (inflight \ S)

SetInFlight(S) ==
    /\ Counted
    /\ unmarked["gate"] = {} /\ S # inflight
    /\ inflight' = S
    /\ unmarked' = [unmarked EXCEPT !["gate"] = GateMoved(S)]
    /\ Changed((S \ inflight) \cup (inflight \ S))
    /\ UNCHANGED <<idx, view, halfway, dirty, all, bookkeeping, lost>>

\* markPendingDirty, from the hook or from SetInFlight.
Mark(w, n) ==
    /\ n \in unmarked[w]
    /\ unmarked' = [unmarked EXCEPT ![w] = @ \ {n}]
    /\ dirty' = dirty \cup {n}
    /\ UNCHANGED <<inputs, all, bookkeeping, since, lost, changes>>

\* PruneTombstones removes rows under the index lock, and calls no hook.
Prune(S) ==
    /\ Counted
    /\ unmarked["index"] = {} /\ S # {}
    /\ \A n \in S : idx[n].del
    /\ idx' = [n \in Names |-> IF n \in S THEN NoEntry ELSE idx[n]]
    /\ lost' = lost \cup S
    /\ Changed(S)
    /\ UNCHANGED <<view, halfway, inflight, unmarked, dirty, all, bookkeeping>>

----------------------------------------------------------------------------
(* Changes under the engine lock.                                          *)

\* The view after SetPeerIndex: replaced, or merged (update, and every frame of
\* a chunked exchange: SetPeerIndexAppend).
Received(p, files, update) ==
    [n \in Names |->
        IF files[n] # NoEntry THEN files[n]
        ELSE IF update /\ view[p] # NoView THEN view[p][n]
        ELSE NoEntry]

\* Names to reconsider: those of the frame, those the view loses.
Reconsider(p, files, update) ==
    {n \in Names : \/ files[n] # NoEntry
                   \/ ~update /\ view[p] # NoView /\ view[p][n] # NoEntry}

SetPeerIndex(p, files, update) ==
    /\ Unlocked /\ Counted
    /\ view' = [view EXCEPT ![p] = Received(p, files, update)]
    /\ all' = (all \/ view[p] = NoView)
    /\ dirty' = dirty \cup Reconsider(p, files, update)
    /\ UNCHANGED <<idx, halfway, inflight, unmarked, bookkeeping, since, lost>>

\* BeginPeerViewExchange and EndPeerViewExchange.
MarkExchange(p, begins) ==
    /\ Unlocked /\ Counted
    /\ halfway' = IF begins THEN halfway \cup {p} ELSE halfway \ {p}
    /\ all' = TRUE
    /\ UNCHANGED <<idx, view, inflight, unmarked, dirty, bookkeeping, since, lost>>

CleanupPeerIndex(p) ==
    /\ Unlocked /\ Counted
    /\ view' = [view EXCEPT ![p] = NoView]
    /\ all' = TRUE
    /\ UNCHANGED <<idx, halfway, inflight, unmarked, dirty, bookkeeping, since, lost>>

----------------------------------------------------------------------------
(* A call: ensurePendingLocked, for NeedPulls and PendingUploads.          *)

NeedsRebuild ==
    \/ ~cache.valid \/ all
    \/ /\ dirty # {}
       /\ \/ cache.aged
          \/ cache.indexed > 0
             /\ Cardinality(dirty) >= (cache.indexed \div DirtyShare) + 1

\* takePendingDirty, and the choice between a walk, a look at the dirty names
\* and nothing.
Begin ==
    /\ Unlocked
    /\ walk' = [Idle EXCEPT !.pc = IF NeedsRebuild THEN "list"
                                   ELSE IF dirty = {} THEN "current" ELSE "names",
                            !.todo = dirty,
                            !.taken = IF all THEN Names ELSE dirty]
    /\ dirty' = {} /\ all' = FALSE
    /\ since' = Unmarked
    /\ UNCHANGED <<inputs, unmarked, cache, lost, changes>>

Current ==
    /\ walk.pc = "current"
    /\ walk' = Idle /\ since' = {}
    /\ UNCHANGED <<inputs, unmarked, dirty, all, cache, lost, changes>>

With(S, n, want) == IF want THEN S \cup {n} ELSE S \ {n}

Look(n) ==
    /\ walk.pc = "names" /\ n \in walk.todo
    /\ walk' = [walk EXCEPT !.todo = @ \ {n}]
    /\ cache' = [cache EXCEPT !.pullSet = With(@, n, PullWanted(n, idx[n])),
                              !.upSet = With(@, n, UploadWanted(n, idx[n]))]
    /\ lost' = lost \ {n}
    /\ UNCHANGED <<inputs, unmarked, dirty, all, since, changes>>

LookDone ==
    /\ walk.pc = "names" /\ walk.todo = {}
    /\ cache' = [cache EXCEPT !.pulls = cache.pullSet, !.ups = cache.upSet]
    /\ walk' = Idle /\ since' = {}
    /\ UNCHANGED <<inputs, unmarked, dirty, all, lost, changes>>

\* rebuildPendingLocked: computeNeedPullsLocked lists the index once, then
\* decides name by name; computePendingUploadsLocked lists it again.
List(from, to) ==
    /\ walk.pc = from
    /\ walk' = [walk EXCEPT !.pc = to, !.snap = idx, !.todo = {}]
    /\ UNCHANGED <<inputs, unmarked, dirty, all, cache, since, lost, changes>>

ListPulls == List("list", "pulls")
ListUps == List("listUps", "ups")

\* (mutant: the pull list is stored before the upload list is known)
EvalPullsStored ==
    /\ walk.pc = "pulls"
    /\ LET pulls == {n \in Names : PullWanted(n, walk.snap[n])} IN
         /\ walk' = [walk EXCEPT !.pc = "listUps", !.snap = NoView, !.pulls = pulls]
         /\ cache' = [cache EXCEPT !.pulls = pulls,
                         !.indexed = Cardinality({n \in Names : Exists(walk.snap[n])})]
    /\ UNCHANGED <<inputs, unmarked, dirty, all, since, lost, changes>>

EvalPulls ==
    /\ walk.pc = "pulls"
    /\ walk' = [walk EXCEPT !.pc = "listUps", !.snap = NoView,
                            !.pulls = {n \in Names : PullWanted(n, walk.snap[n])}]
    /\ cache' = [cache EXCEPT !.indexed = Cardinality({n \in Names : Exists(walk.snap[n])})]
    /\ UNCHANGED <<inputs, unmarked, dirty, all, since, lost, changes>>

\* The dirty set is drained again: a name that changed during the walk and is
\* marked already is lost, one that is yet to be marked is not.
Publish ==
    /\ walk.pc = "ups"
    /\ LET ups == {n \in Names : UploadWanted(n, walk.snap[n])} IN
       cache' = [cache EXCEPT !.valid = TRUE, !.aged = FALSE,
                              !.pullSet = walk.pulls, !.pulls = walk.pulls,
                              !.upSet = ups, !.ups = ups]
    /\ dirty' = {} /\ all' = FALSE
    /\ lost' = since \ Unmarked
    /\ walk' = Idle /\ since' = {}
    /\ UNCHANGED <<inputs, unmarked, changes>>

\* A read of the index fails: the call returns the error, with the dirty names
\* it has taken.
Fail ==
    /\ walk.pc \in {"list", "listUps"} \/ walk.todo # {}
    /\ walk.pc \in {"list", "listUps", "names"}
    /\ Counted
    /\ lost' = lost \cup walk.taken
    /\ walk' = Idle /\ since' = {}
    /\ UNCHANGED <<inputs, unmarked, dirty, all, cache>>

\* The lists grow older than pendingRebuildAfter.
Age ==
    /\ Unlocked /\ cache.valid /\ ~cache.aged /\ Counted
    /\ cache' = [cache EXCEPT !.aged = TRUE]
    /\ UNCHANGED <<inputs, unmarked, dirty, all, walk, since, lost>>

----------------------------------------------------------------------------
Write == \E S \in SUBSET Names, e \in Entry : Commit(S, e)
Gate == \E S \in SUBSET Names : SetInFlight(S)
Marking == \E w \in Writers, n \in Names : Mark(w, n)
Pruning == \E S \in SUBSET Names : Prune(S)
ViewChange ==
    \E p \in Peers :
        \/ \E files \in [Names -> Entry], update \in BOOLEAN : SetPeerIndex(p, files, update)
        \/ \E begins \in BOOLEAN : MarkExchange(p, begins)
        \/ CleanupPeerIndex(p)
Compute ==
    \/ Begin \/ Current \/ LookDone \/ ListPulls \/ EvalPulls \/ ListUps \/ Publish
    \/ \E n \in Names : Look(n)

Next == Write \/ Gate \/ Marking \/ Pruning \/ ViewChange \/ Compute \/ Fail \/ Age

Spec == Init /\ [][Next]_vars

----------------------------------------------------------------------------
Caches == [valid : BOOLEAN, aged : BOOLEAN, indexed : {Cardinality(S) : S \in SUBSET Names},
           pullSet : SUBSET Names, upSet : SUBSET Names,
           pulls : SUBSET Names, ups : SUBSET Names]

Walks == [pc : {"idle", "current", "names", "list", "pulls", "listUps", "ups"},
          todo : SUBSET Names, taken : SUBSET Names,
          snap : {NoView} \cup [Names -> Entry], pulls : SUBSET Names]

TypeOK ==
    /\ idx \in [Names -> Entry]
    /\ view \in [Peers -> {NoView} \cup [Names -> Entry]]
    /\ halfway \subseteq Peers /\ inflight \subseteq Names
    /\ unmarked \in [Writers -> SUBSET Names]
    /\ dirty \subseteq Names /\ all \in BOOLEAN
    /\ cache \in Caches
    /\ walk \in Walks /\ walk.todo \subseteq walk.taken
    /\ since \subseteq Names /\ lost \subseteq Names

Wanted == [pulls |-> {n \in Names : PullWanted(n, idx[n])},
           ups |-> {n \in Names : UploadWanted(n, idx[n])}]

\* Between calls the lists are what a full walk would compute now, except for
\* names that are dirty, that are about to be marked, or whose mark was lost.
ListsCurrent ==
    Unlocked /\ cache.valid /\ ~all =>
        \A n \in Names \ (dirty \cup Unmarked \cup lost) :
            /\ n \in cache.pulls <=> n \in Wanted.pulls
            /\ n \in cache.ups <=> n \in Wanted.ups

\* The incremental computation gives what the full walk promises.
Promise == INSTANCE PendingPromise
             WITH want <- Wanted, moving <- Unmarked,
                  calling <- ~Unlocked, blurred <- since,
                  answer <- [pulls |-> cache.pulls, ups |-> cache.ups]

AnswersAsPromised == Promise!Spec

\* The walk of a rebuild covered everything queued so far.
WalkCoversQueued ==
    Unlocked /\ cache.valid /\ ~all =>
        \A n \in Names \ (dirty \cup Unmarked) :
            n \in cache.pulls <=> n \in Wanted.pulls

=============================================================================
