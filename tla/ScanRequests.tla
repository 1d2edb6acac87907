--------------------------- MODULE ScanRequests ---------------------------
(***************************************************************************)
(* Who scans one folder, and when: the watcher and its path queue          *)
(* (internal/watcher, cmd/crosssync/pathqueue.go), the daemon's tickers    *)
(* (main.go), the operator's rescans, and pause and resume with the        *)
(* requests they queue (internal/node/node.go, internal/control).          *)
(*                                                                         *)
(* A pass is a walk under the folder's lock; what it does with the files   *)
(* is module ScanGates, here it observes changed paths. The confirmation   *)
(* walk that follows suspected deletions is one more full pass and is left *)
(* out. Pausing takes no lock: a resume may come while passes begun before  *)
(* the pause, those of earlier resumes among them, are still walking.      *)
(***************************************************************************)
EXTENDS Integers, Sequences, FiniteSets

CONSTANTS
    Paths,        \* paths of the folder
    Cap,          \* batches the watcher's channel holds
    Resumers,     \* names for the goroutines that run what a pause queued
    Lookers,      \* names for those that a resume starts to look at the tree
    MaxEdits,     \* bound: changes by users
    MaxPauses,    \* bound: pauses
    MaxAsks       \* bound: rescans the operator asks for

ASSUME RequestsAssumption ==
    /\ Cap \in Nat \ {0}
    /\ Resumers \cap Lookers = {}
    /\ (Resumers \cup Lookers) \cap {"main", "queue", "op", "none"} = {}
    /\ MaxEdits \in Nat /\ MaxPauses \in Nat /\ MaxAsks \in Nat

VARIABLES
    paused,   \* Folder.paused
    pend,     \* Folder.pend
    pc,       \* thread -> where it is
    job,      \* thread -> the pass it wants
    walk,     \* what the running pass found when it began
    unseen,   \* paths changed since a pass last observed them
    wpend,    \* the watcher's batch, its timer set
    chan,     \* the watcher's channel
    qpend,    \* pathQueue.pending
    edits, pauses, asks,
    owed,     \* history: requests queued and not run since
    unmet,    \* history: requests given up with no complete pass since
    late,     \* history: a request was queued after the resume
    missed    \* history: unseen paths that no batch names any more

watchVars == <<wpend, chan, qpend>>
counts == <<edits, pauses, asks>>
vars == <<paused, pend, pc, job, walk, unseen, watchVars, counts, owed, unmet, late, missed>>

\* The serve loop, the path queue's worker, a rescan by the operator, and the
\* two goroutines every resume starts: runPendingScan and the control plane's
\* own RequestRescan.
Requesters == {"op"} \cup Lookers
Carriers == Requesters \cup Resumers
Threads == {"main", "queue"} \cup Carriers
Kinds == {"full", "verify", "rebuild"}
Job(k, s) == [kind |-> k, paths |-> s]
NoJob == Job("none", {})
NoWalk == [by |-> "none", changed |-> {}, owed |-> {}, hit |-> FALSE]

TypeOK ==
    /\ paused \in BOOLEAN /\ pend \subseteq Kinds
    /\ pc \in [Threads -> {"idle", "drain", "ask", "put", "busy", "take", "lock", "walk"}]
    /\ job \in [Threads -> [kind : Kinds \cup {"none", "paths"}, paths : SUBSET Paths]]
    /\ walk \in [by : Threads \cup {"none"}, changed : SUBSET Paths, owed : SUBSET Kinds, hit : BOOLEAN]
    /\ \A t \in Threads : pc[t] = "walk" <=> walk.by = t
    /\ \A t \in Threads : pc[t] \in {"lock", "walk"} => job[t].kind # "none"
    /\ unseen \subseteq Paths /\ wpend \subseteq Paths /\ qpend \subseteq Paths
    /\ chan \in Seq(SUBSET Paths) /\ Len(chan) <= Cap
    /\ owed \subseteq Kinds /\ unmet \subseteq owed /\ missed \subseteq unseen

\* A folder starts scanned, or paused, with the rebuild of a corrupt index owed
\* or not. The watcher has reported something that the startup scan saw too.
Init ==
    /\ paused \in BOOLEAN
    /\ pend \in IF paused THEN {{}, {"rebuild"}} ELSE {{}}
    /\ pc = [t \in Threads |-> "idle"] /\ job = [t \in Threads |-> NoJob]
    /\ walk = NoWalk
    /\ unseen = {} /\ wpend = {} /\ chan = <<Paths>> /\ qpend = {}
    /\ edits = 0 /\ pauses = 0 /\ asks = 0
    /\ owed = pend /\ unmet = {} /\ late = FALSE /\ missed = {}

Goto(t, place) == pc' = [pc EXCEPT ![t] = place]
Drop(t) == job' = [job EXCEPT ![t] = NoJob]

\* A new goroutine gets a name that is not in use; which one does not matter.
Free(t, names) == pc[t] = "idle" /\ t = CHOOSE u \in names : pc[u] = "idle"

-----------------------------------------------------------------------------
(* Watcher and path queue.                                                 *)

\* A user changes p. The watcher's event may never come (a full kernel queue,
\* a directory that is not watched yet, a write over the network).
Edit(p) ==
    /\ edits < MaxEdits /\ edits' = edits + 1
    /\ unseen' = unseen \cup {p}
    /\ \/ wpend' = wpend \cup {p} /\ missed' = missed \ {p}
       \/ wpend' = wpend /\ missed' = missed \cup {p}
    /\ UNCHANGED <<paused, pend, pc, job, walk, chan, qpend, pauses, asks, owed, unmet, late>>

\* The debounce timer fires; a batch that finds the channel full is dropped.
Flush ==
    /\ wpend # {} /\ wpend' = {}
    /\ IF Len(chan) < Cap THEN chan' = Append(chan, wpend) /\ UNCHANGED missed
       ELSE missed' = missed \cup (wpend \cap unseen) /\ UNCHANGED chan
    /\ UNCHANGED <<paused, pend, pc, job, walk, unseen, qpend, counts, owed, unmet, late>>

AddWhenIdle ==
    /\ chan # <<>> /\ chan' = Tail(chan)
    /\ IF pc["queue"] = "idle" THEN Goto("queue", "drain") /\ qpend' = qpend \cup Head(chan)
       ELSE UNCHANGED <<pc, qpend>>
    /\ UNCHANGED <<paused, pend, job, walk, unseen, wpend, counts, owed, unmet, late, missed>>

\* Add: merge the batch, start the worker if there is none.
Add ==
    /\ chan # <<>> /\ chan' = Tail(chan)
    /\ qpend' = qpend \cup Head(chan)
    /\ IF pc["queue"] = "idle" THEN Goto("queue", "drain") ELSE UNCHANGED pc
    /\ UNCHANGED <<paused, pend, job, walk, unseen, wpend, counts, owed, unmet, late, missed>>

\* The worker takes all that is pending for one scoped pass, or ends.
Drain ==
    /\ pc["queue"] = "drain" /\ qpend' = {}
    /\ IF qpend = {} THEN Goto("queue", "idle") /\ UNCHANGED job
       ELSE Goto("queue", "lock") /\ job' = [job EXCEPT !["queue"] = Job("paths", qpend)]
    /\ UNCHANGED <<paused, pend, walk, unseen, wpend, chan, counts, owed, unmet, late, missed>>

-----------------------------------------------------------------------------
(* The serve loop: the full walk. (The held-back re-check is one more      *)
(* scoped pass that skips a paused folder, and is left out.)               *)

MainPassWatched ==
    /\ pc["main"] = "idle" /\ ~paused
    /\ job' = [job EXCEPT !["main"] = Job("full", wpend)]
    /\ Goto("main", "lock")
    /\ UNCHANGED <<paused, pend, walk, unseen, watchVars, counts, owed, unmet, late, missed>>

\* The full ticker fires; ScanAll skips a paused folder.
MainPass ==
    /\ pc["main"] = "idle" /\ ~paused
    /\ job' = [job EXCEPT !["main"] = Job("full", Paths)]
    /\ Goto("main", "lock")
    /\ UNCHANGED <<paused, pend, walk, unseen, watchVars, counts, owed, unmet, late, missed>>

-----------------------------------------------------------------------------
(* Requests.                                                               *)

\* The kinds merge upward.
Strongest(ks) ==
    CASE "rebuild" \in ks -> "rebuild"
      [] "rebuild" \notin ks /\ "verify" \in ks -> "verify"
      [] OTHER -> "full"

\* The requests that a pass of a kind answers.
Covers(k) ==
    CASE k = "rebuild" -> Kinds
      [] k = "verify" -> {"verify", "full"}
      [] k = "full" -> {"full"}
      [] OTHER -> {}

\* The operator asks for a verified rescan (the plain one is the resume's).
Ask ==
    /\ asks < MaxAsks /\ asks' = asks + 1
    /\ pc["op"] = "idle"
    /\ Goto("op", "ask") /\ job' = [job EXCEPT !["op"] = Job("verify", Paths)]
    /\ UNCHANGED <<paused, pend, walk, unseen, watchVars, edits, pauses, owed, unmet, late, missed>>

\* RequestRescan looks whether the folder is paused,
Request(t) ==
    /\ pc[t] = "ask"
    /\ Goto(t, IF paused THEN "put" ELSE "busy")
    /\ UNCHANGED <<paused, pend, job, walk, unseen, watchVars, counts, owed, unmet, late, missed>>

PutLast(t) ==
    /\ pc[t] = "put" /\ Goto(t, "idle") /\ Drop(t)
    /\ pend' = {job[t].kind}
    /\ owed' = owed \cup {job[t].kind} /\ unmet' = unmet \ {job[t].kind}
    /\ late' = (late \/ ~paused)
    /\ UNCHANGED <<paused, walk, unseen, watchVars, counts, missed>>

\* and then queues the request (addPending).
Put(t) ==
    /\ pc[t] = "put" /\ Goto(t, "idle") /\ Drop(t)
    /\ pend' = pend \cup {job[t].kind}
    /\ owed' = owed \cup {job[t].kind} /\ unmet' = unmet \ {job[t].kind}
    /\ late' = (late \/ ~paused)
    /\ UNCHANGED <<paused, walk, unseen, watchVars, counts, missed>>

\* ScanRunning, which does not see a rebuild: the caller is told to retry.
Busy(t) ==
    /\ pc[t] = "busy"
    /\ IF walk.by # "none" /\ job[walk.by].kind # "rebuild"
       THEN Goto(t, "idle") /\ Drop(t)
       ELSE Goto(t, "take") /\ UNCHANGED job
    /\ UNCHANGED <<paused, pend, walk, unseen, watchVars, counts, owed, unmet, late, missed>>

\* takePending, by a request that will serve what was queued,
Take(t) ==
    /\ pc[t] = "take" /\ t \in Requesters /\ Goto(t, "lock")
    /\ job' = [job EXCEPT ![t] = Job(Strongest(pend \cup {job[t].kind}), Paths)]
    /\ pend' = {}
    /\ UNCHANGED <<paused, walk, unseen, watchVars, counts, owed, unmet, late, missed>>

\* and by a resume, after which the control plane asks for a rescan of its own.
ResumeTake(t) ==
    /\ pc[t] = "take" /\ t \in Resumers
    /\ \E u \in Lookers :
          /\ Free(u, Lookers)
          /\ pc' = [pc EXCEPT ![t] = IF pend = {} THEN "idle" ELSE "lock", ![u] = "ask"]
          /\ job' = [job EXCEPT ![t] = IF pend = {} THEN NoJob ELSE Job(Strongest(pend), Paths),
                                ![u] = Job("full", Paths)]
    /\ pend' = {}
    /\ UNCHANGED <<paused, walk, unseen, watchVars, counts, owed, unmet, late, missed>>

\* SetFolderPaused: no lock; a running pass probes the flag.
Pause ==
    /\ ~paused /\ pauses < MaxPauses /\ pauses' = pauses + 1
    /\ paused' = TRUE
    /\ walk' = [walk EXCEPT !.hit = walk.by # "none"]
    /\ UNCHANGED <<pend, pc, job, unseen, watchVars, edits, asks, owed, unmet, late, missed>>

ResumeSilently(t) ==
    /\ paused /\ Free(t, Resumers)
    /\ paused' = FALSE
    /\ UNCHANGED <<pend, pc, job, walk, unseen, watchVars, counts, owed, unmet, late, missed>>

Resume(t) ==
    /\ paused /\ Free(t, Resumers)
    /\ paused' = FALSE /\ Goto(t, "take")
    /\ UNCHANGED <<pend, job, walk, unseen, watchVars, counts, owed, unmet, late, missed>>

-----------------------------------------------------------------------------
(* Passes.                                                                 *)

\* What becomes of a pass that a pause refused or cancelled: tickers and
\* watcher let it go, a request goes back to the queue, but a rebuild that a
\* resume started is only logged.
Unanswered(t, cancelled) ==
    LET rebuild == job[t].kind = "rebuild"
        back == t \in Requesters \/ (t \in Resumers /\ ~rebuild)
    IN  /\ Goto(t, CASE t = "queue" -> "drain" [] back -> "put" [] OTHER -> "idle")
        /\ IF back THEN UNCHANGED job ELSE Drop(t)
        /\ pend' = IF rebuild /\ ~cancelled THEN pend \cup {"rebuild"} ELSE pend
        /\ unmet' = IF t \in Resumers /\ rebuild /\ cancelled THEN owed ELSE unmet
        /\ missed' = IF t = "queue" THEN missed \cup (job[t].paths \cap unseen) ELSE missed

\* The folder's lock is free: refuse, or begin to walk.
Begin(t) ==
    /\ pc[t] = "lock" /\ walk.by = "none"
    /\ IF paused
       THEN Unanswered(t, FALSE) /\ UNCHANGED walk
       ELSE /\ Goto(t, "walk")
            /\ walk' = [by |-> t, changed |-> unseen \cap job[t].paths,
                        owed |-> Covers(job[t].kind), hit |-> FALSE]
            /\ UNCHANGED <<pend, job, unmet, missed>>
    /\ UNCHANGED <<paused, unseen, watchVars, counts, owed, late>>

\* The last probe sees the pause: nothing was applied.
Cancel(t) ==
    /\ pc[t] = "walk" /\ paused
    /\ Unanswered(t, TRUE)
    /\ walk' = NoWalk
    /\ UNCHANGED <<paused, unseen, watchVars, counts, owed, late>>

\* The pass is complete: it observed what had changed before it began, and what
\* changed since if it came by later. If a pause came and went meanwhile, the
\* walk may have stopped at it and passes for complete all the same.
End(t) ==
    /\ pc[t] = "walk" /\ ~paused
    /\ Goto(t, IF t = "queue" THEN "drain" ELSE "idle") /\ Drop(t)
    /\ \E s \in SUBSET (unseen \cap job[t].paths), whole \in {TRUE, ~walk.hit} :
          /\ whole => walk.changed \subseteq s
          /\ unseen' = unseen \ s
          /\ missed' = IF t = "queue" THEN (missed \cup (walk.changed \cap unseen)) \ s ELSE missed \ s
          /\ owed' = IF whole THEN owed \ walk.owed ELSE owed
          /\ unmet' = IF whole THEN unmet \ walk.owed ELSE unmet \cup (owed \cap walk.owed)
    /\ walk' = NoWalk
    /\ UNCHANGED <<paused, pend, watchVars, counts, late>>

-----------------------------------------------------------------------------
Step(t) == Request(t) \/ Put(t) \/ Busy(t) \/ Take(t) \/ Begin(t) \/ Cancel(t) \/ End(t)

Next ==
    \/ \E p \in Paths : Edit(p)
    \/ Ask \/ Flush \/ Add \/ Drain \/ MainPass \/ Pause
    \/ \E t \in Resumers : Resume(t) \/ ResumeTake(t)
    \/ \E t \in Threads : Step(t)

Spec == Init /\ [][Next]_vars

\* The full ticker fires, goroutines run on, the operator ends a pause. The
\* folder's mutex lets every request in, though the serve loop comes back for
\* it for ever. Nothing is assumed of the watcher and its queue.
FairSpec ==
    /\ Spec
    /\ WF_vars(MainPass) /\ WF_vars(Begin("main"))
    /\ WF_vars(\E t \in Resumers : Resume(t))
    /\ \A t \in Resumers : WF_vars(ResumeTake(t))
    /\ \A t \in Threads : WF_vars(Request(t) \/ Put(t) \/ Busy(t) \/ Take(t) \/ Cancel(t) \/ End(t))
    /\ \A t \in Carriers : SF_vars(Begin(t))

-----------------------------------------------------------------------------
(* Properties.                                                             *)

Carried(k) ==
    \/ \E q \in pend : k \in Covers(q)
    \/ \E t \in Carriers : pc[t] # "idle" /\ k \in Covers(job[t].kind)

\* A request that was queued stays queued or in some goroutine's hands until a
\* complete pass has answered it, however pauses, resumes and requests
\* interleave. There are two ways to lose one (unmet): with a rebuild that a
\* resume had begun and the next pause cancelled, and to a pass that walked
\* through a pause and its resume and passes for complete (addPending,
\* takePending, RequestRescan, runPendingScan).
RequestsKept ==
    \A k \in owed \ unmet : Carried(k)

\* node.go:1867: a queued request is not "treated as answered" by a pass that a
\* pause stopped: it stays carried, with neither of those exceptions.
RequestsAnswered ==
    \A k \in owed : Carried(k)

\* A changed path whose event arrived is in the watcher's batch, its channel,
\* the queue or the worker's pass until a pass has observed it, unless the
\* channel was full or a pause refused, cancelled or halved the pass
\* (pathQueue: "no dropped paths").
PathsKept ==
    \A p \in unseen \ missed :
       \/ p \in wpend \cup qpend
       \/ \E i \in 1..Len(chan) : p \in chan[i]
       \/ p \in job["queue"].paths

\* takePending: one pass runs per queued request "even when a resume and an
\* incoming request race", so none waits in the queue of a folder that is not
\* paused while no one is about to take it.
NoneStranded ==
    ~paused /\ pend # {} => \E t \in Carriers : pc[t] # "idle"

\* Every request runs in the end or is given up as above, unless one was queued
\* after the resume that should have taken it.
RequestsRun ==
    owed # {} ~> owed \subseteq unmet \/ late

\* Every change is observed in the end, whatever the watcher missed, the
\* channel dropped and pauses cut short: the full walk is the safety net.
ChangesScanned ==
    <>[](unseen = {})
=============================================================================
