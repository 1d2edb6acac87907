---------------------------- MODULE ScanGates ----------------------------
(***************************************************************************)
(* One folder's scanner and the node that applies its changes, next to the *)
(* users who write, move and delete files while it works                   *)
(* (internal/scanner/scanner.go; internal/node/node.go: scanFolderScoped,  *)
(* rebuildFromFS; internal/index/index.go: the settling and missing        *)
(* tables).                                                                *)
(*                                                                         *)
(* A pass walks the tree path by path, hashes what the stability gate      *)
(* releases, pairs renames, counts deletions and finally hands its changes *)
(* to the engine. The user and the pause flag act between any two steps;   *)
(* the flag is only looked at where the code probes it.                    *)
(*                                                                         *)
(* Below this module's level of detail:                                    *)
(*   - a stamp is the (size, mtime) pair of a file, a content its blocks;  *)
(*     directories, symbolic links, empty files and ignored paths are left *)
(*     out, versions are module FolderSync's subject;                      *)
(*   - times are ages, counted up to the quiet window: only "has the       *)
(*     window elapsed" is ever asked of them. The same holds for counts.   *)
(***************************************************************************)
EXTENDS Integers, FiniteSets

LOCAL INSTANCE FiniteSetsExt

CONSTANTS
    Names,          \* paths, numbered in the order of the walk
    Outside,        \* the paths the include gate excludes
    Large,          \* contents above maxVerifyFileSize
    Scopes,         \* the sets of paths that the watcher asks for
    SettleScans,    \* depth of the stability gate
    SettleSeconds,  \* its quiet window
    DeletionScans,  \* depth of the deletion gate
    MaxEdits,       \* bound: what users do to the files
    MaxFaults       \* bound: pauses, restarts, rebuilds, files a walk misses

ASSUME ScanAssumption ==
    /\ Names \subseteq Nat \ {0} /\ IsFiniteSet(Names)
    /\ Outside \subseteq Names
    /\ 1 \in Names \ Outside
    /\ Large \subseteq Nat
    /\ Scopes \subseteq (SUBSET Names) \ {{}, Names}
    /\ SettleScans \in Nat \ {0}
    /\ SettleSeconds \in Nat
    /\ DeletionScans \in Nat \ {0}
    /\ MaxEdits \in Nat
    /\ MaxFaults \in Nat

VARIABLES
    disk,      \* name -> the file on disk
    idle,      \* name -> time since its writer wrote last; -1: no writer
    row,       \* name -> entry of the index
    settle,    \* name -> row of the settling table
    missing,   \* name -> count in the missing table
    last,      \* the scanner's in-flight list
    held,      \* the in-flight list the engine was given
    paused,    \* the folder's pause flag
    pass,      \* the pass that is running
    newest,    \* stamps and contents given out so far
    edits,     \* user operations so far
    faults,    \* faults so far
    partial,   \* history: contents of files whose writer was not done
    ungated,   \* history: contents hashed by a pass that bypasses the gate
    hasty,     \* history: contents released by a run dated before it was seen
    gone       \* history: names that have been removed from disk

tableVars == <<row, settle, missing>>
history == <<ungated, hasty>>
scanVars == <<tableVars, last, held, pass, history>>
userVars == <<disk, idle, newest, edits, partial, gone>>
vars == <<scanVars, userVars, paused, faults>>

Inside == Names \ Outside

\* The stamps and contents given out so far; 0 stands for none.
Stamps == 0..newest

NoFile == [s |-> 0, c |-> 0]
NoRow == [st |-> "none", s |-> 0, c |-> 0]
Dead == [st |-> "dead", s |-> 0, c |-> 0]
LiveRow(f) == [st |-> "live", s |-> f.s, c |-> f.c]
NoSettle == [n |-> 0, s |-> 0, age |-> 0, early |-> FALSE]
NoJob == [kind |-> "none", s |-> 0, age |-> 0, early |-> FALSE]
NoFound == [kind |-> "none", s |-> 0, c |-> 0]
NoPass == [ph |-> "none", kind |-> "full", scope |-> {}, todo |-> {}, seen |-> {},
           snap |-> [n \in Names |-> NoSettle], next |-> [n \in Names |-> NoSettle],
           jobs |-> [n \in Names |-> NoJob], found |-> [n \in Names |-> NoFound],
           cand |-> [n \in Names |-> 0], renames |-> {}, deletes |-> {},
           el |-> 0]

Live(n) == row[n].st = "live"
Capped(x, top) == IF x > top THEN top ELSE x

\* A file, a live row and what was read from a file have a stamp and a content.
Files == {f \in [s : Stamps, c : Stamps] : f = NoFile \/ (f.s # 0 /\ f.c # 0)}
Entries == {e \in [st : {"none", "live", "dead"}, s : Stamps, c : Stamps] :
               e.st = "live" => e.s # 0 /\ e.c # 0}
Founds == {f \in [kind : {"none", "added", "modified"}, s : Stamps, c : Stamps] :
              f = NoFound \/ (f.kind # "none" /\ f.s # 0 /\ f.c # 0)}
Settles == {r \in [n : 0..SettleScans, s : Stamps, age : 0..SettleSeconds, early : BOOLEAN] :
               r = NoSettle \/ (r.n # 0 /\ r.s # 0)}
Jobs == {j \in [kind : {"none", "added", "modified"}, s : Stamps, age : 0..SettleSeconds,
                early : BOOLEAN] : j = NoJob \/ (j.kind # "none" /\ j.s # 0)}
Kinds == {"full", "scoped", "verify", "rebuild"}
Renames == [from : Names, to : Names, file : Files \ {NoFile}]
Passes == [ph : {"none", "walk", "hash", "confirmed", "scanned"}, kind : Kinds,
           scope : SUBSET Names, todo : SUBSET Names, seen : SUBSET Names,
           snap : [Names -> Settles], next : [Names -> Settles], jobs : [Names -> Jobs],
           found : [Names -> Founds], cand : [Names -> Names \cup {0}],
           renames : SUBSET Renames, deletes : SUBSET Names, el : 0..SettleSeconds]

TypeOK ==
    /\ disk \in [Names -> Files]
    /\ idle \in [Names -> -1..SettleSeconds]
    /\ row \in [Names -> Entries]
    /\ settle \in [Names -> Settles]
    /\ \A n \in Outside : settle[n] = NoSettle
    /\ missing \in [Names -> 0..DeletionScans]
    /\ last \subseteq Names /\ held \subseteq Names
    /\ paused \in BOOLEAN
    /\ pass \in Passes
    /\ partial \cup ungated \cup hasty \subseteq Stamps \ {0}
    /\ gone \subseteq Names
    /\ newest \in 1..(edits + 1) /\ edits \in 0..MaxEdits /\ faults \in 0..MaxFaults

Init ==
    /\ disk = [n \in Names |-> IF n = 1 THEN [s |-> 1, c |-> 1] ELSE NoFile]
    /\ idle = [n \in Names |-> -1]
    /\ row = [n \in Names |-> IF n = 1 THEN LiveRow(disk[1]) ELSE NoRow]
    /\ settle = [n \in Names |-> NoSettle]
    /\ missing = [n \in Names |-> 0]
    /\ last = {} /\ held = {}
    /\ paused = FALSE
    /\ pass = NoPass
    /\ newest = 1 /\ edits = 0 /\ faults = 0
    /\ partial = {} /\ ungated = {} /\ hasty = {} /\ gone = {}

-----------------------------------------------------------------------------
(* Users. A writer that has more to write writes again within the quiet    *)
(* window; the next edit of the same file may come at any time.            *)

Writers == {n \in Names : idle[n] >= 0}

\* A write, the writer's last one or not. Every open writer can still finish.
Write(n, done) ==
    /\ edits + Cardinality(Writers \ {n}) + (IF done THEN 0 ELSE 1) < MaxEdits
    /\ disk' = [disk EXCEPT ![n] = [s |-> newest + 1, c |-> newest + 1]]
    /\ idle' = [idle EXCEPT ![n] = IF done THEN -1 ELSE 0]
    /\ partial' = IF done THEN partial ELSE partial \cup {newest + 1}
    /\ newest' = newest + 1 /\ edits' = edits + 1
    /\ UNCHANGED <<scanVars, gone, paused, faults>>

CanEdit == edits + Cardinality(Writers) < MaxEdits

\* A tool that restores the modification time rewrites the file.
Rewrite(n) ==
    /\ CanEdit
    /\ disk[n] # NoFile /\ idle[n] < 0
    /\ disk' = [disk EXCEPT ![n].c = newest + 1]
    /\ newest' = newest + 1 /\ edits' = edits + 1
    /\ UNCHANGED <<scanVars, idle, partial, gone, paused, faults>>

\* mv: stamp, content and an open writer go along.
Move(n, m) ==
    /\ CanEdit
    /\ n # m /\ disk[n] # NoFile /\ disk[m] = NoFile
    /\ disk' = [disk EXCEPT ![m] = disk[n], ![n] = NoFile]
    /\ idle' = [idle EXCEPT ![m] = idle[n], ![n] = -1]
    /\ gone' = gone \cup {n}
    /\ edits' = edits + 1
    /\ UNCHANGED <<scanVars, newest, partial, paused, faults>>

\* cp -p: a second file with the stamp and content of the first.
Copy(n, m) ==
    /\ CanEdit
    /\ n # m /\ disk[n] # NoFile /\ idle[n] < 0 /\ disk[m] = NoFile
    /\ disk' = [disk EXCEPT ![m] = disk[n]]
    /\ edits' = edits + 1
    /\ UNCHANGED <<scanVars, idle, newest, partial, gone, paused, faults>>

Remove(n) ==
    /\ CanEdit
    /\ disk[n] # NoFile /\ idle[n] < 0
    /\ disk' = [disk EXCEPT ![n] = NoFile]
    /\ gone' = gone \cup {n}
    /\ edits' = edits + 1
    /\ UNCHANGED <<scanVars, idle, newest, partial, paused, faults>>

\* A second passes. No open writer has been silent for a whole window. A pass
\* compares with the time it started, so its own ages grow when they are saved.
Tick ==
    /\ \A n \in Writers : idle[n] + 1 < SettleSeconds
    /\ idle' = [n \in Names |-> IF idle[n] < 0 THEN -1 ELSE idle[n] + 1]
    /\ settle' = [n \in Names |-> IF settle[n].n = 0 THEN NoSettle
                                  ELSE [settle[n] EXCEPT !.age = Capped(@ + 1, SettleSeconds)]]
    /\ pass' = IF pass.ph = "none" THEN pass
               ELSE [pass EXCEPT !.el = Capped(@ + 1, SettleSeconds)]
    /\ UNCHANGED <<disk, row, missing, last, held, paused, newest, edits, faults, partial,
                   history, gone>>

-----------------------------------------------------------------------------
(* The walk.                                                               *)

Fault == faults < MaxFaults /\ faults' = faults + 1

\* SetFolderPaused takes no lock: the flag moves at any time.
Pause ==
    /\ ~paused /\ Fault
    /\ paused' = TRUE
    /\ UNCHANGED <<scanVars, userVars>>

Resume ==
    /\ paused
    /\ paused' = FALSE
    /\ UNCHANGED <<scanVars, userVars, faults>>

Started(kind, scope) ==
    [NoPass EXCEPT !.ph = "walk", !.kind = kind, !.scope = scope, !.todo = scope, !.snap = settle]

\* ScanFolder and ScanFolderPaths under the folder's lock.
StartPass(kind, scope) ==
    /\ pass.ph = "none" /\ ~paused
    /\ kind = "scoped" \/ scope = Names
    /\ pass' = Started(kind, scope)
    /\ UNCHANGED <<tableVars, last, held, history, userVars, paused, faults>>

\* ScanFolderDeep: every file is hashed.
StartDeep == StartPass("verify", Names)

\* ScanHeldBack: another look at the files the stability gate holds.
StartHeldBack == last # {} /\ StartPass("scoped", last)

\* RebuildFolder: a new, empty index, engine and scanner, and a pass that
\* takes the tree as it is.
StartRebuild ==
    /\ pass.ph = "none" /\ ~paused /\ Fault
    /\ row' = [n \in Names |-> NoRow]
    /\ settle' = [n \in Names |-> NoSettle]
    /\ missing' = [n \in Names |-> 0]
    /\ last' = {} /\ held' = {}
    /\ pass' = [Started("rebuild", Names) EXCEPT !.snap = [n \in Names |-> NoSettle]]
    /\ UNCHANGED <<history, userVars, paused>>

Gated == SettleScans > 1 /\ pass.kind \notin {"verify", "rebuild"}

\* The run of equal observations that this one continues or starts.
Run(n) ==
    LET prev == pass.snap[n]
    IN  IF prev.n > 0 /\ prev.s = disk[n].s
        THEN [prev EXCEPT !.n = Capped(@ + 1, SettleScans)]
        ELSE [n |-> 1, s |-> disk[n].s, age |-> 0, early |-> pass.el > 0]

\* Mutant: scan cadence as a safety property, no window.
HoldsByCount(run) == run.n < SettleScans

Holds(run) == run.n < SettleScans \/ run.age < SettleSeconds

Unchanged(n) == Live(n) /\ row[n].s = disk[n].s /\ pass.kind # "verify"

\* The only live file of the index inside the gate with this stamp, or 0.
OnlyFileWith(s) ==
    LET same == {v \in Inside : Live(v) /\ row[v].s = s}
    IN  IF Cardinality(same) = 1 THEN CHOOSE v \in same : TRUE ELSE 0

\* visit, for a path that is there.
Visited(n) ==
    LET seen == [pass EXCEPT !.seen = @ \cup {n}, !.todo = @ \ {n}]
        run == Run(n)
        job == [kind |-> IF row[n].st = "none" THEN "added" ELSE "modified", s |-> disk[n].s,
                age |-> IF Gated THEN run.age ELSE 0, early |-> run.early]
    IN  CASE n \in Outside -> [seen EXCEPT !.cand[n] = OnlyFileWith(disk[n].s)]
          [] n \in Inside /\ Unchanged(n) -> seen
          [] n \in Inside /\ ~Unchanged(n) /\ Gated /\ Holds(run) -> [seen EXCEPT !.next[n] = run]
          [] OTHER -> [seen EXCEPT !.jobs[n] = job]

Visit(n) ==
    /\ pass.ph = "walk" /\ ~paused
    /\ n \in pass.todo /\ \A m \in pass.todo : n <= m
    /\ pass' = IF disk[n] = NoFile THEN [pass EXCEPT !.todo = @ \ {n}] ELSE Visited(n)
    /\ UNCHANGED <<tableVars, last, held, history, userVars, paused, faults>>

\* A union or network mount hides a file from one walk.
VisitHidden(n) ==
    /\ pass.ph = "walk" /\ ~paused /\ Fault
    /\ n \in pass.todo /\ \A m \in pass.todo : n <= m
    /\ disk[n] # NoFile
    /\ pass' = [pass EXCEPT !.todo = @ \ {n}]
    /\ UNCHANGED <<tableVars, last, held, history, userVars, paused>>

\* A visit that finds the flag set ends the walk.
SkipAll ==
    /\ pass.ph = "walk" /\ paused /\ pass.todo # {}
    /\ pass' = [pass EXCEPT !.todo = {}]
    /\ UNCHANGED <<tableVars, last, held, history, userVars, paused, faults>>

\* ErrScanCancelled at one of the probes between the phases.
Cancel ==
    /\ paused
    /\ \/ pass.ph = "walk" /\ pass.todo = {}
       \/ pass.ph = "hash" /\ \A n \in Names : pass.jobs[n] = NoJob
       \/ pass.ph = "confirmed"
       \/ pass.ph = "scanned" /\ pass.kind # "rebuild"
    /\ pass' = NoPass
    /\ UNCHANGED <<tableVars, last, held, history, userVars, paused, faults>>

-----------------------------------------------------------------------------
(* Renames and hashes.                                                     *)

\* Live files of the index inside the gate that the walk covered and missed.
Vanished == {v \in pass.scope \cap Inside : Live(v) /\ v \notin pass.seen}

AddedJobs == {n \in Names : pass.jobs[n].kind = "added"}

\* Pairs of a vanished and an added file that only have each other's stamp.
StampPairs ==
    {p \in Vanished \X AddedJobs :
        /\ row[p[1]].s = pass.jobs[p[2]].s
        /\ \A w \in Vanished : row[w].s = row[p[1]].s => w = p[1]
        /\ \A m \in AddedJobs : pass.jobs[m].s = pass.jobs[p[2]].s => m = p[2]}

\* The majority gate and the sample: large files are believed unread.
Trusted(pairs) ==
    /\ 2 * Cardinality(pairs) >= Cardinality(AddedJobs)
    /\ 2 * Cardinality(pairs) >= Cardinality(Vanished)
    /\ \A p \in pairs : row[p[1]].c \in Large \/ disk[p[2]].c = row[p[1]].c

cheapRenames == IF Trusted(StampPairs) THEN StampPairs ELSE {}

\* The settling rows outside a scope stay, the stamp pairs become renames that
\* keep the old blocks, the rest is hashed.
EndWalk ==
    /\ pass.ph = "walk" /\ pass.todo = {} /\ ~paused
    /\ LET pairs == cheapRenames
           File(v) == [s |-> row[v].s, c |-> row[v].c]
       IN  pass' = [pass EXCEPT
              !.ph = "hash",
              !.next = [n \in Names |-> IF n \in pass.scope THEN @[n] ELSE pass.snap[n]],
              !.renames = {[from |-> p[1], to |-> p[2], file |-> File(p[1])] : p \in pairs},
              !.jobs = [n \in Names |-> IF \E p \in pairs : p[2] = n THEN NoJob ELSE @[n]]]
    /\ UNCHANGED <<tableVars, last, held, history, userVars, paused, faults>>

\* The run a file that changed under the reader starts: it keeps the time of
\* the run before.
DriftRun(n) == [n |-> 1, s |-> disk[n].s, age |-> pass.jobs[n].age, early |-> TRUE]

\* One worker reads one file and looks at its stamp again.
HashFile(n) ==
    /\ pass.ph = "hash"
    /\ pass.jobs[n] # NoJob
    /\ LET job == pass.jobs[n]
           done == [pass EXCEPT !.jobs[n] = NoJob]
           found == [kind |-> job.kind, s |-> job.s, c |-> disk[n].c]
           read == disk[n] # NoFile /\ disk[n].s = job.s
       IN  /\ pass' = IF disk[n] = NoFile THEN done
                      ELSE IF disk[n].s # job.s THEN [done EXCEPT !.next[n] = DriftRun(n)]
                      ELSE [done EXCEPT !.found[n] = found]
           /\ ungated' = IF read /\ ~Gated THEN ungated \cup {disk[n].c} ELSE ungated
           /\ hasty' = IF read /\ Gated /\ job.early THEN hasty \cup {disk[n].c} ELSE hasty
    /\ UNCHANGED <<tableVars, last, held, userVars, paused, faults>>

\* A worker that finds the flag set leaves its jobs.
DropJob(n) ==
    /\ pass.ph = "hash" /\ paused
    /\ pass.jobs[n] # NoJob
    /\ pass' = [pass EXCEPT !.jobs[n] = NoJob]
    /\ UNCHANGED <<tableVars, last, held, history, userVars, paused, faults>>

-----------------------------------------------------------------------------
(* The deletion pass.                                                      *)

AddedFiles == {n \in Names : pass.found[n].kind = "added"}
Claimed == {r.from : r \in pass.renames}

\* Entries that may be the old half of a rename: missed by the walk, or
\* outside a scoped walk, with the stamp of an added file, and gone from disk.
OldHalves ==
    (Vanished \ Claimed)
    \cup {v \in Names \ pass.scope :
             /\ Live(v) /\ disk[v] = NoFile
             /\ \E n \in AddedFiles : pass.found[n].s = row[v].s}

\* The added file that alone has the content of v; the first entry claims it.
Pairs(v, n) ==
    /\ n \in AddedFiles
    /\ {m \in AddedFiles : pass.found[m].c = row[v].c} = {n}
    /\ \A w \in OldHalves : row[w].c = row[v].c => v <= w

ContentRenames ==
    {[from |-> p[1], to |-> p[2], file |-> [s |-> pass.found[p[2]].s, c |-> pass.found[p[2]].c]] :
        p \in {q \in OldHalves \X AddedFiles : Pairs(q[1], q[2])}}

\* Files outside the gate that alone carry the stamp of a vanished entry, and
\* its content.
GateRenames ==
    LET targets(v) == {m \in Outside : pass.cand[m] = v}
        left == Vanished \ (Claimed \cup {r.from : r \in ContentRenames})
    IN  {[from |-> p[1], to |-> p[2], file |-> [s |-> row[p[1]].s, c |-> row[p[1]].c]] :
            p \in {q \in left \X Outside : targets(q[1]) = {q[2]} /\ disk[q[2]].c = row[q[1]].c}}

\* unsettledKeys: the stamps of the files the stability gate holds, before
\* this pass or after it.
Unsettled == {pass.snap[n].s : n \in Names} \cup {pass.next[n].s : n \in Names}

\* Mutant: only what this walk held back defers a deletion.
DeferredInScope(v) == row[v].s \in {pass.next[n].s : n \in pass.scope}

Deferred(v) == row[v].s \in Unsettled

\* Mutant: off by one.
ConfirmedEarly(v) == missing[v] + 1 >= DeletionScans - 1

Confirmed(v) == missing[v] + 1 >= DeletionScans

\* confirmDeletions: what the missing table becomes.
MissingAfter(deletions, reported) ==
    [v \in Names |->
        CASE DeletionScans = 1 -> 0
          [] DeletionScans > 1 /\ v \in deletions \ reported -> Capped(missing[v] + 1, DeletionScans)
          [] OTHER -> IF v \in pass.scope THEN 0 ELSE missing[v]]

\* detectRenames and confirmDeletions; the missing table is written before
\* the last probe of the flag.
Confirm ==
    /\ pass.ph = "hash" /\ ~paused
    /\ \A n \in Names : pass.jobs[n] = NoJob
    /\ LET renames == pass.renames \cup ContentRenames \cup GateRenames
           deletions == Vanished \ {r.from : r \in renames}
           reported == {v \in deletions : Confirmed(v) /\ (DeletionScans > 1 => ~Deferred(v))}
       IN  /\ pass' = [NoPass EXCEPT !.ph = "confirmed", !.kind = pass.kind, !.scope = pass.scope,
                                      !.next = pass.next, !.el = pass.el, !.found = pass.found,
                                      !.renames = renames, !.deletes = reported]
           /\ missing' = MissingAfter(deletions, reported)
    /\ UNCHANGED <<row, settle, last, held, history, userVars, paused, faults>>

Aged(run) == IF run.n = 0 THEN run ELSE [run EXCEPT !.age = Capped(@ + pass.el, SettleSeconds)]

HeldNow == {n \in pass.scope : pass.next[n].n > 0}

\* Mutant: a scoped pass publishes only its own list.
LastReplaced == HeldNow

\* A scoped pass keeps what the list says of the paths it did not walk.
LastAfter == (last \ pass.scope) \cup HeldNow

\* SettleReplace and the published in-flight list.
Commit ==
    /\ pass.ph = "confirmed" /\ ~paused
    /\ settle' = [n \in Names |-> Aged(pass.next[n])]
    /\ last' = LastAfter
    /\ pass' = [NoPass EXCEPT !.ph = "scanned", !.kind = pass.kind, !.found = pass.found,
                              !.renames = pass.renames, !.deletes = pass.deletes]
    /\ UNCHANGED <<row, missing, held, history, userVars, paused, faults>>

\* ApplyLocalChanges: tombstones for the old halves and the reported
\* deletions, entries for the new halves and the hashed files. A rename onto
\* a path that has an entry is a deletion and an addition, which writes the same.
ApplyPass ==
    /\ pass.ph = "scanned" /\ (~paused \/ pass.kind = "rebuild")
    /\ row' = [n \in Names |->
          LET new == {r \in pass.renames : r.to = n}
          IN  IF n \in pass.deletes \cup {r.from : r \in pass.renames} THEN Dead
              ELSE IF new # {} THEN LiveRow((CHOOSE r \in new : TRUE).file)
              ELSE IF pass.found[n] # NoFound THEN LiveRow(pass.found[n])
              ELSE row[n]]
    /\ held' = IF pass.kind = "rebuild" THEN held ELSE last
    /\ pass' = NoPass
    /\ UNCHANGED <<settle, missing, last, history, userVars, paused, faults>>

\* The process dies and the node opens the folder again.
Restart ==
    /\ Fault
    /\ pass' = NoPass
    /\ last' = {} /\ held' = {}
    /\ UNCHANGED <<tableVars, history, userVars, paused>>

-----------------------------------------------------------------------------
UserStep ==
    \E n \in Names :
        \/ \E done \in BOOLEAN : Write(n, done)
        \/ Rewrite(n) \/ Remove(n)
        \/ \E m \in Names : Move(n, m) \/ Copy(n, m)

PassStep ==
    \/ \E n \in Names : Visit(n) \/ HashFile(n) \/ DropJob(n)
    \/ SkipAll \/ Cancel \/ EndWalk \/ Confirm \/ Commit \/ ApplyPass

StartScan ==
    \/ StartPass("full", Names) \/ StartDeep \/ StartHeldBack
    \/ \E scope \in Scopes : StartPass("scoped", scope)
    \/ StartRebuild

Next ==
    \/ UserStep \/ Tick
    \/ Pause \/ Resume \/ Restart
    \/ StartScan \/ PassStep
    \/ \E n \in Names : VisitHidden(n)

Spec == Init /\ [][Next]_vars

\* The full walk is on a ticker and waits for the folder's lock, which Go's
\* mutex grants in order; passes run on, seconds go by, a pause ends and a
\* writer that was not done writes again.
FairSpec ==
    /\ Spec
    /\ SF_vars(StartPass("full", Names)) /\ WF_vars(PassStep)
    /\ WF_vars(Tick) /\ WF_vars(Resume)
    /\ \A n \in Names : WF_vars(n \in Writers /\ Write(n, TRUE))

-----------------------------------------------------------------------------
(* Properties.                                                             *)

\* The content of a file whose writer was not done reaches the index only
\* through a pass the operator asked to take the tree as it is, or through a
\* run of observations that was dated before the file was first seen with that
\* stamp (a slow pass, a file that changed under the hash): otherwise count,
\* window and second look keep it out, in whatever order passes, pauses,
\* restarts and writes come (scanner.go: visit, hashPending).
NoPartialIndexed ==
    \A n \in Names : Live(n) /\ row[n].c \in partial => row[n].c \in ungated \cup hasty

\* The quiet window as it is documented: what the gate lets through had been
\* still for the whole window, so no writer was at work
\* (scanner.go: settleSeconds).
QuietWindowKept ==
    \A n \in Names : Live(n) /\ row[n].c \in partial => row[n].c \in ungated

\* The two halves of a move stay together: no step tombstones a path while
\* a file the settling table holds carries its stamp and content and no entry
\* does (confirmDeletions' deferral, detectRenames).
MoveHalvesTogether ==
    [][\A a \in Names : \A m \in Inside \ {a} :
          /\ Live(a) /\ row'[a].st = "dead"
          /\ settle[m].s = row[a].s /\ disk[m] = [s |-> row[a].s, c |-> row[a].c]
          => \E k \in Names : row'[k].st = "live" /\ row'[k].c = row[a].c]_vars

\* One bad walk, one interrupted walk or one restart never makes a tombstone
\* of a file that was there all the time, unless its content lives on under
\* another name (the deletion gate).
OneFaultNeverDeletes ==
    [][\A n \in Names :
          /\ Live(n) /\ row'[n].st = "dead"
          /\ n \notin gone /\ faults < DeletionScans
          => \E k \in Names : row'[k].st = "live" /\ row'[k].c = row[n].c]_vars

\* Unless a pause or a restart came in between, the engine protects exactly
\* the files the settling table holds, whatever mix of scoped and full passes
\* wrote that table (lastInFlight, Engine.SetInFlight).
HeldFilesProtected ==
    faults = 0 /\ pass.ph = "none" => held = {n \in Names : settle[n].n > 0}

\* Once the users are done the index describes the disk for good: no file is
\* held, deferred or missed for ever.
IndexCatchesUp ==
    <>[](\A n \in Inside : row[n].s = disk[n].s)
=============================================================================
