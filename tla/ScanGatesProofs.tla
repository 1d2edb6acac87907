--------------------------- MODULE ScanGatesProofs ---------------------------
(***************************************************************************)
(* Proofs about the scanner's gates: no content of an unfinished write gets *)
(* past the stability gate, the engine protects what the gate holds, a     *)
(* move is not torn apart, and one fault deletes nothing, for every set of *)
(* paths, every depth of the gates and any number of user operations.      *)
(***************************************************************************)
EXTENDS ScanGates, FiniteSetTheorems, TLAPS

----------------------------------------------------------------------------
(* The inductive invariant.                                                *)

\* An unfinished content belongs to a writer that has not been silent for a
\* whole window.
WritersRight ==
    /\ \A n \in Names : disk[n].c \in partial => idle[n] >= 0
    /\ \A n \in Names : idle[n] < SettleSeconds
    /\ \A n \in Names : idle[n] >= 0 => disk[n] # NoFile

\* A run is not older than the last write of any file with its stamp.
OlderWrite(run, age) ==
    run.n # 0 /\ ~run.early =>
        \A m \in Names : disk[m].s = run.s /\ idle[m] >= 0 => idle[m] >= age

RunsRight ==
    \A n \in Names :
        /\ OlderWrite(settle[n], settle[n].age)
        /\ OlderWrite(pass.snap[n], pass.snap[n].age + pass.el)
        /\ OlderWrite(pass.next[n], pass.next[n].age + pass.el)

\* What the gate has released has no writer.
JobsRight ==
    Gated => \A n \in Names : pass.jobs[n] # NoJob /\ ~pass.jobs[n].early =>
                 \A m \in Names : disk[m].s = pass.jobs[n].s => idle[m] < 0

Clean(c) == c \in partial => c \in ungated \cup hasty

ContentsRight ==
    /\ \A n \in Names : Clean(row[n].c) /\ Clean(pass.found[n].c)
    /\ \A r \in pass.renames : Clean(r.file.c)

GateInv == WritersRight /\ RunsRight /\ JobsRight /\ ContentsRight

\* What the phases of a pass have filled in.
PhasesRight ==
    /\ pass.ph = "none" => pass = NoPass
    /\ pass.todo \cup pass.seen \subseteq pass.scope
    /\ pass.ph # "walk" => pass.todo = {}
    /\ pass.ph = "walk" => pass.renames = {} /\ \A n \in Names : pass.found[n] = NoFound
    /\ pass.ph # "hash" => pass.ph = "walk" \/ \A n \in Names : pass.jobs[n] = NoJob
    /\ \A n \in Outside : pass.snap[n] = NoSettle /\ pass.next[n] = NoSettle
    /\ \A n \in Names : pass.jobs[n] # NoJob \/ pass.found[n] # NoFound => n \in Inside
    /\ \A n \in Names : pass.jobs[n] # NoJob => n \in pass.seen
    /\ \A n \in Names : pass.jobs[n].kind = "added" \/ pass.found[n].kind = "added"
                           => row[n].st = "none"

HeldNames == {n \in Names : settle[n].n # 0}

\* Without pauses and restarts the published lists follow the table.
ListsRight ==
    faults = 0 =>
        /\ ~paused /\ pass.kind # "rebuild"
        /\ last = HeldNames
        /\ pass.ph # "scanned" => held = last
        /\ pass.ph = "walk" => \A n \in Names : pass.snap[n].n # 0 <=> settle[n].n # 0
        /\ pass.ph \in {"hash", "confirmed"} =>
              \A n \in Names \ pass.scope : pass.next[n].n # 0 <=> settle[n].n # 0

\* The pairs of stamps a pass has found, while files are hashed.
StampsRight ==
    pass.ph = "hash" => \A r \in pass.renames :
        /\ Live(r.from) /\ r.from \in Inside /\ r.file.c = row[r.from].c
        /\ row[r.to].st = "none" /\ r.to \in Inside
        /\ pass.jobs[r.to] = NoJob /\ pass.found[r.to] = NoFound
        /\ \A q \in pass.renames : q.to = r.to => q.file = r.file

\* A rename keeps the content, and nothing else will take its target.
RenamesRight ==
    pass.ph \in {"confirmed", "scanned"} => \A r \in pass.renames :
        /\ row[r.from].c = r.file.c
        /\ r.to \notin pass.deletes
        /\ \A q \in pass.renames : q.from # r.to /\ (q.to = r.to => q.file.c = r.file.c)

\* No deletion of a file whose stamp the gate holds.
DeferralRight ==
    DeletionScans > 1 => \A v \in pass.deletes, n \in Names :
        /\ pass.ph = "confirmed" => pass.next[n].s # row[v].s
        /\ pass.ph = "scanned" => settle[n].s # row[v].s

RenameInv == StampsRight /\ RenamesRight /\ DeferralRight

\* The files a user has not removed are there.
Kept(n) == n \notin gone => disk[n] # NoFile

KnownOnDisk ==
    /\ \A n \in Names : Live(n) \/ pass.jobs[n] # NoJob \/ pass.found[n] # NoFound => Kept(n)
    /\ \A r \in pass.renames : Kept(r.to)

\* A pass that misses a file that is there cost a fault, and so does a pause
\* that can make it miss one.
Missed(n) ==
    /\ pass.ph \in {"walk", "hash"} /\ Live(n)
    /\ n \in pass.scope \ (pass.todo \cup pass.seen)

FaultsCounted ==
    \A n \in Names \ gone : missing[n] + (IF Missed(n) \/ paused THEN 1 ELSE 0) <= faults

DeletesRight ==
    /\ pass.ph \notin {"confirmed", "scanned"} => pass.deletes = {}
    /\ \A v \in pass.deletes \ gone : faults >= DeletionScans

CountInv == KnownOnDisk /\ FaultsCounted /\ DeletesRight

\* What holds whatever the depth of the gates; GateInv needs a quiet window.
Sound == TypeOK /\ PhasesRight /\ ListsRight /\ RenameInv /\ CountInv

----------------------------------------------------------------------------
(* Types.                                                                  *)

USE ScanAssumption

LEMMA NothingTypes ==
    /\ 0 \in Stamps => NoFile \in Files /\ NoSettle \in Settles /\ NoJob \in Jobs
                       /\ NoFound \in Founds /\ NoRow \in Entries /\ Dead \in Entries
    /\ NoPass.ph = "none" /\ NoPass.kind = "full"
BY DEF NoFile, NoSettle, NoJob, NoFound, NoRow, Dead, Files, Settles, Jobs, Founds, Entries, NoPass

LEMMA ZeroStamp == ASSUME TypeOK PROVE 0 \in Stamps /\ newest \in Nat /\ newest >= 1
BY DEF TypeOK, Stamps

LEMMA NoPassType == ASSUME 0 \in Stamps PROVE NoPass \in Passes
BY NothingTypes DEF NoPass, Passes, Kinds

\* No step takes a stamp back, so what has a type keeps it.
LEMMA StampsGrow ==
    ASSUME newest \in Nat, newest' \in Nat, newest <= newest'
    PROVE  /\ Stamps \subseteq Stamps' /\ Files \subseteq Files' /\ Entries \subseteq Entries'
           /\ Founds \subseteq Founds' /\ Settles \subseteq Settles' /\ Jobs \subseteq Jobs'
           /\ Renames \subseteq Renames' /\ Passes \subseteq Passes'
<1>1. Stamps \subseteq Stamps'
  BY DEF Stamps
<1>2. /\ Files \subseteq Files' /\ Entries \subseteq Entries' /\ Founds \subseteq Founds'
      /\ Settles \subseteq Settles' /\ Jobs \subseteq Jobs'
  BY <1>1 DEF Files, Entries, Founds, Settles, Jobs
<1>3. Renames \subseteq Renames'
  BY <1>2 DEF Renames
<1>4. Passes \subseteq Passes'
  <2>1. /\ [Names -> Settles] \subseteq [Names -> Settles']
        /\ [Names -> Jobs] \subseteq [Names -> Jobs']
        /\ [Names -> Founds] \subseteq [Names -> Founds']
    BY <1>2
  <2>. QED  BY <1>3, <2>1 DEF Passes
<1>. QED  BY <1>1, <1>2, <1>3, <1>4

LEMMA SameStamps ==
    ASSUME newest' = newest
    PROVE  /\ Stamps' = Stamps /\ Files' = Files /\ Entries' = Entries
           /\ Founds' = Founds /\ Settles' = Settles /\ Jobs' = Jobs
           /\ Renames' = Renames /\ Passes' = Passes
BY DEF Stamps, Files, Entries, Founds, Settles, Jobs, Renames, Passes

LEMMA FileFacts ==
    ASSUME TypeOK, NEW n \in Names
    PROVE  /\ disk[n] \in Files /\ disk[n].s \in Stamps /\ disk[n].c \in Stamps
           /\ disk[n] # NoFile => disk[n].s # 0 /\ disk[n].c # 0
           /\ row[n] \in Entries /\ row[n].s \in Stamps /\ row[n].c \in Stamps
           /\ Live(n) => row[n].s # 0 /\ row[n].c # 0
           /\ NoFile.s = 0 /\ NoFile.c = 0
BY DEF TypeOK, Files, Entries, Live, NoFile

LEMMA WritersFinite == IsFiniteSet(Writers) /\ \A n \in Names : IsFiniteSet(Writers \ {n})
<1>1. Writers \in SUBSET Names /\ \A n \in Names : Writers \ {n} \in SUBSET Names
  BY DEF Writers
<1>2. IsFiniteSet(Names)
  OBVIOUS
<1>3. ASSUME NEW W \in SUBSET Names PROVE IsFiniteSet(W)
  BY <1>2, FS_Subset
<1>. QED  BY <1>1, <1>3

LEMMA Fewer ==
    /\ Cardinality(Writers) \in Nat
    /\ \A n \in Names : Cardinality(Writers \ {n}) \in Nat
BY WritersFinite, FS_CardinalityType

LEMMA UserTypes ==
    ASSUME TypeOK, UserStep
    PROVE  TypeOK'
<1>1. PICK n \in Names : \/ \E done \in BOOLEAN : Write(n, done)
                         \/ Rewrite(n) \/ Remove(n)
                         \/ \E m \in Names : Move(n, m) \/ Copy(n, m)
  BY DEF UserStep
<1>2. UNCHANGED <<scanVars, paused, faults>>
  BY <1>1 DEF Write, Rewrite, Remove, Move, Copy
<1>3. /\ edits < MaxEdits /\ edits' = edits + 1 /\ edits \in Nat
      /\ newest' \in {newest, newest + 1} /\ newest \in 1..(edits + 1)
  <2>1. /\ edits \in 0..MaxEdits /\ newest \in 1..(edits + 1)
    BY DEF TypeOK
  <2>2. /\ edits' = edits + 1 /\ newest' \in {newest, newest + 1}
    BY <1>1 DEF Write, Rewrite, Remove, Move, Copy
  <2>3. edits < MaxEdits
    BY <1>1, <2>1, Fewer DEF Write, Rewrite, Remove, Move, Copy, CanEdit
  <2>. QED  BY <2>1, <2>2, <2>3
<1>4. edits' \in 0..MaxEdits /\ newest' \in 1..(edits' + 1)
  BY <1>3
<1>5. /\ Stamps \subseteq Stamps' /\ Files \subseteq Files' /\ Entries \subseteq Entries'
      /\ Settles \subseteq Settles' /\ Passes \subseteq Passes'
  BY <1>3, StampsGrow
<1>6. ASSUME NEW s \in Stamps' \ {0}, NEW c \in Stamps' \ {0}
      PROVE  [s |-> s, c |-> c] \in Files'
  BY <1>6 DEF Files
<1>7. disk \in [Names -> Files'] /\ newest + 1 # 0 /\ (newest' = newest + 1 => newest + 1 \in Stamps')
  BY <1>3, <1>5 DEF TypeOK, Stamps
<1>8. disk' \in [Names -> Files']
  <2>1. ASSUME NEW done \in BOOLEAN, Write(n, done) PROVE disk' \in [Names -> Files']
    BY <1>6, <1>7, <2>1 DEF Write
  <2>2. ASSUME Rewrite(n) PROVE disk' \in [Names -> Files']
    <3>1. disk[n] # NoFile /\ disk' = [disk EXCEPT ![n].c = newest + 1] /\ newest' = newest + 1
      BY <2>2 DEF Rewrite
    <3>2. disk[n].s \in Stamps' \ {0} /\ disk[n] = [s |-> disk[n].s, c |-> disk[n].c]
      BY <1>5, <3>1, FileFacts DEF Files
    <3>3. [disk[n] EXCEPT !.c = newest + 1] = [s |-> disk[n].s, c |-> newest + 1]
      BY <3>2
    <3>4. [disk[n] EXCEPT !.c = newest + 1] \in Files'
      BY <1>6, <1>7, <3>1, <3>2, <3>3
    <3>. QED  BY <1>7, <3>1, <3>4
  <2>3. ASSUME Remove(n) PROVE disk' \in [Names -> Files']
    <3>1. NoFile \in Files'
      BY <1>5, NothingTypes, ZeroStamp
    <3>. QED  BY <1>7, <2>3, <3>1 DEF Remove
  <2>4. ASSUME NEW m \in Names, Move(n, m) \/ Copy(n, m) PROVE disk' \in [Names -> Files']
    <3>1. NoFile \in Files'
      BY <1>5, NothingTypes, ZeroStamp
    <3>. QED  BY <1>7, <2>4, <3>1 DEF Move, Copy
  <2>. QED  BY <1>1, <2>1, <2>2, <2>3, <2>4
<1>9. idle' \in [Names -> -1..SettleSeconds]
  <2>1. idle \in [Names -> -1..SettleSeconds]
    BY DEF TypeOK
  <2>. QED  BY <1>1, <2>1 DEF Write, Rewrite, Remove, Move, Copy
<1>10. partial' \cup ungated' \cup hasty' \subseteq Stamps' \ {0}
  <2>1. partial' \in {partial, partial \cup {newest'}} /\ newest' \in Stamps' \ {0}
    BY <1>1, <1>3 DEF Write, Rewrite, Remove, Move, Copy, Stamps
  <2>2. partial \cup ungated \cup hasty \subseteq Stamps' \ {0}
    BY <1>5 DEF TypeOK
  <2>3. ungated' = ungated /\ hasty' = hasty
    BY <1>2 DEF scanVars, history
  <2>. QED  BY <2>1, <2>2, <2>3
<1>11. gone' \subseteq Names
  BY <1>1 DEF Write, Rewrite, Remove, Move, Copy, TypeOK
<1>12. /\ row' \in [Names -> Entries'] /\ settle' \in [Names -> Settles'] /\ pass' \in Passes'
  <2>1. row' = row /\ settle' = settle /\ pass' = pass
    BY <1>2 DEF scanVars, tableVars
  <2>. QED  BY <1>5, <2>1 DEF TypeOK
<1>13. /\ \A k \in Outside : settle'[k] = NoSettle
       /\ missing' \in [Names -> 0..DeletionScans] /\ last' \subseteq Names /\ held' \subseteq Names
       /\ paused' \in BOOLEAN /\ faults' \in 0..MaxFaults
  BY <1>2 DEF scanVars, tableVars, TypeOK
<1>. QED  BY <1>4, <1>8, <1>9, <1>10, <1>11, <1>12, <1>13 DEF TypeOK

----------------------------------------------------------------------------
(* What one step of the walk does to the pass.                             *)

LEMMA PassTypes ==
    ASSUME TypeOK
    PROVE  /\ pass \in Passes
           /\ pass.kind \in Kinds /\ pass.scope \subseteq Names /\ pass.todo \subseteq Names
           /\ pass.seen \subseteq Names /\ pass.renames \subseteq Renames
           /\ pass.deletes \subseteq Names
           /\ pass.snap \in [Names -> Settles] /\ pass.next \in [Names -> Settles]
           /\ pass.jobs \in [Names -> Jobs] /\ pass.found \in [Names -> Founds]
           /\ pass.cand \in [Names -> Names \cup {0}]
           /\ pass.el \in 0..SettleSeconds
BY DEF TypeOK, Passes

LEMMA CapFacts ==
    ASSUME NEW x \in Nat, NEW top \in Nat
    PROVE  /\ Capped(x, top) \in 0..top /\ Capped(x, top) <= x
           /\ x <= top => Capped(x, top) = x
           /\ x > top => Capped(x, top) = top
BY DEF Capped

\* A run continues one of the table or starts now.
LEMMA RunFacts ==
    ASSUME TypeOK, NEW n \in Names, disk[n] # NoFile
    PROVE  /\ Run(n) \in Settles /\ Run(n).n \in Nat \ {0} /\ Run(n).s = disk[n].s
           /\ \/ /\ pass.snap[n].n # 0 /\ pass.snap[n].s = disk[n].s
                 /\ Run(n).age = pass.snap[n].age /\ Run(n).early = pass.snap[n].early
              \/ Run(n).age = 0 /\ (~Run(n).early => pass.el = 0)
<1>1. /\ disk[n].s \in Stamps /\ disk[n].s # 0 /\ pass.el \in 0..SettleSeconds
      /\ pass.snap[n] \in Settles
  BY FileFacts, PassTypes
<1>2. SettleScans \in Nat \ {0} /\ SettleSeconds \in Nat
  OBVIOUS
<1>3. CASE pass.snap[n].n > 0 /\ pass.snap[n].s = disk[n].s
  <2>1. Run(n) = [pass.snap[n] EXCEPT !.n = Capped(@ + 1, SettleScans)]
    BY <1>3 DEF Run
  <2>2. pass.snap[n].n \in 0..SettleScans
    BY <1>1 DEF Settles
  <2>3. Capped(pass.snap[n].n + 1, SettleScans) \in 1..SettleScans
    BY <1>2, <2>2 DEF Capped
  <2>. QED  BY <1>1, <1>2, <1>3, <2>1, <2>2, <2>3 DEF Settles, NoSettle
<1>4. CASE ~(pass.snap[n].n > 0 /\ pass.snap[n].s = disk[n].s)
  <2>1. Run(n) = [n |-> 1, s |-> disk[n].s, age |-> 0, early |-> pass.el > 0]
    BY <1>4 DEF Run
  <2>2. Run(n).n = 1 /\ Run(n).s = disk[n].s /\ Run(n).age = 0 /\ Run(n).early = (pass.el > 0)
    BY <2>1
  <2>3. pass.el > 0 => Run(n).early
    BY <2>2, Zenon
  <2>4. ~Run(n).early => pass.el = 0
    BY <1>1, <2>3
  <2>5. Run(n) \in Settles
    BY <1>1, <1>2, <2>1 DEF Settles
  <2>. QED  BY <2>2, <2>4, <2>5
<1>. QED  BY <1>3, <1>4

VisitJob(n) ==
    [kind |-> IF row[n].st = "none" THEN "added" ELSE "modified", s |-> disk[n].s,
     age |-> IF Gated THEN Run(n).age ELSE 0, early |-> Run(n).early]

LEMMA VisitJobType ==
    ASSUME TypeOK, NEW n \in Names, disk[n] # NoFile
    PROVE  VisitJob(n) \in Jobs /\ VisitJob(n) # NoJob
<1>1. disk[n].s \in Stamps /\ disk[n].s # 0
  BY FileFacts
<1>2. Run(n).age \in 0..SettleSeconds /\ Run(n).early \in BOOLEAN
  BY RunFacts DEF Settles
<1>. QED  BY <1>1, <1>2 DEF VisitJob, Jobs, NoJob

\* Which fields of the pass one visit changes.
VisitKeeps ==
    /\ pass'.ph = pass.ph /\ pass'.kind = pass.kind /\ pass'.scope = pass.scope
    /\ pass'.snap = pass.snap /\ pass'.found = pass.found /\ pass'.renames = pass.renames
    /\ pass'.deletes = pass.deletes /\ pass'.el = pass.el

VisitPasses(n) == pass'.next = pass.next /\ pass'.jobs = pass.jobs

VisitHolds(n) ==
    /\ n \in Inside /\ disk[n] # NoFile
    /\ Gated /\ Holds(Run(n))
    /\ pass'.next = [pass.next EXCEPT ![n] = Run(n)] /\ pass'.jobs = pass.jobs

VisitReleases(n) ==
    /\ n \in Inside /\ disk[n] # NoFile
    /\ ~(Gated /\ Holds(Run(n)))
    /\ pass'.jobs = [pass.jobs EXCEPT ![n] = VisitJob(n)] /\ pass'.next = pass.next

LEMMA VisitFacts ==
    ASSUME TypeOK, NEW n \in Names, Visit(n)
    PROVE  /\ pass.ph = "walk" /\ ~paused /\ n \in pass.todo
           /\ VisitKeeps /\ pass' \in Passes
           /\ pass'.todo = pass.todo \ {n}
           /\ pass'.seen = IF disk[n] = NoFile THEN pass.seen ELSE pass.seen \cup {n}
           /\ VisitPasses(n) \/ VisitHolds(n) \/ VisitReleases(n)
           /\ UNCHANGED <<tableVars, last, held, history, userVars, paused, faults>>
<1>1. /\ pass.ph = "walk" /\ ~paused /\ n \in pass.todo
      /\ pass' = IF disk[n] = NoFile THEN [pass EXCEPT !.todo = @ \ {n}] ELSE Visited(n)
      /\ UNCHANGED <<tableVars, last, held, history, userVars, paused, faults>>
  BY DEF Visit
<1>2. pass \in Passes
  BY PassTypes
<1>3. CASE disk[n] = NoFile
  <2>1. pass' = [pass EXCEPT !.todo = @ \ {n}]
    BY <1>1, <1>3
  <2>. QED  BY <1>1, <1>2, <1>3, <2>1 DEF Passes, VisitKeeps, VisitPasses
<1>4. CASE disk[n] # NoFile
  <2> DEFINE walked == [pass EXCEPT !.seen = @ \cup {n}, !.todo = @ \ {n}]
  <2>1. /\ walked \in Passes
        /\ walked.seen = pass.seen \cup {n} /\ walked.todo = pass.todo \ {n}
        /\ walked.ph = pass.ph /\ walked.kind = pass.kind /\ walked.scope = pass.scope
        /\ walked.snap = pass.snap /\ walked.found = pass.found
        /\ walked.renames = pass.renames /\ walked.deletes = pass.deletes
        /\ walked.el = pass.el /\ walked.next = pass.next /\ walked.jobs = pass.jobs
    BY <1>2 DEF Passes
  <2>2. pass' = Visited(n)
    BY <1>1, <1>4
  <2>3. Visited(n) =
          CASE n \in Outside -> [walked EXCEPT !.cand[n] = OnlyFileWith(disk[n].s)]
            [] n \in Inside /\ Unchanged(n) -> walked
            [] n \in Inside /\ ~Unchanged(n) /\ Gated /\ Holds(Run(n))
                  -> [walked EXCEPT !.next[n] = Run(n)]
            [] OTHER -> [walked EXCEPT !.jobs[n] = VisitJob(n)]
    BY DEF Visited, VisitJob
  <2>4. n \in Inside <=> n \notin Outside
    BY DEF Inside
  <2> HIDE DEF walked
  <2>5. CASE n \in Outside
    <3>1. pass' = [walked EXCEPT !.cand[n] = OnlyFileWith(disk[n].s)]
      BY <2>2, <2>3, <2>4, <2>5
    <3>2. OnlyFileWith(disk[n].s) \in Names \cup {0}
      BY DEF OnlyFileWith, Inside
    <3>3. pass' \in Passes
      BY <2>1, <3>1, <3>2 DEF Passes
    <3>. QED  BY <1>1, <1>4, <2>1, <3>1, <3>3 DEF Passes, VisitKeeps, VisitPasses
  <2>6. CASE n \in Inside /\ Unchanged(n)
    <3>1. pass' = walked
      BY <2>2, <2>3, <2>4, <2>6
    <3>. QED  BY <1>1, <1>4, <2>1, <3>1 DEF VisitKeeps, VisitPasses
  <2>7. CASE n \in Inside /\ ~Unchanged(n) /\ Gated /\ Holds(Run(n))
    <3>1. pass' = [walked EXCEPT !.next[n] = Run(n)]
      BY <2>2, <2>3, <2>4, <2>7
    <3>2. Run(n) \in Settles
      BY <1>4, RunFacts
    <3>3. pass' \in Passes
      BY <2>1, <3>1, <3>2 DEF Passes
    <3>. QED  BY <1>1, <1>4, <2>1, <2>7, <3>1, <3>3 DEF Passes, VisitKeeps, VisitHolds
  <2>8. CASE n \in Inside /\ ~Unchanged(n) /\ ~(Gated /\ Holds(Run(n)))
    <3>1. pass' = [walked EXCEPT !.jobs[n] = VisitJob(n)]
      BY <2>2, <2>3, <2>4, <2>8
    <3>2. VisitJob(n) \in Jobs
      BY <1>4, VisitJobType
    <3>3. pass' \in Passes
      BY <2>1, <3>1, <3>2 DEF Passes
    <3>. QED  BY <1>1, <1>4, <2>1, <2>8, <3>1, <3>3 DEF Passes, VisitKeeps, VisitReleases
  <2>. QED  BY <2>4, <2>5, <2>6, <2>7, <2>8
<1>. QED  BY <1>3, <1>4

\* Which fields of the pass the other steps leave alone.
WalkKept ==
    /\ pass'.kind = pass.kind /\ pass'.scope = pass.scope /\ pass'.snap = pass.snap
    /\ pass'.found = pass.found /\ pass'.deletes = pass.deletes /\ pass'.el = pass.el
    /\ pass'.todo = pass.todo /\ pass'.seen = pass.seen

StampRename(p) == [from |-> p[1], to |-> p[2], file |-> [s |-> row[p[1]].s, c |-> row[p[1]].c]]

LEMMA CheapFacts ==
    ASSUME TypeOK, NEW p \in cheapRenames
    PROVE  /\ p \in StampPairs /\ Trusted(StampPairs)
           /\ p[1] \in Vanished /\ p[2] \in AddedJobs /\ p[1] \in Names /\ p[2] \in Names
           /\ StampRename(p) \in Renames
<1>1. p \in StampPairs /\ Trusted(StampPairs)
  BY DEF cheapRenames
<1>2. p[1] \in Vanished /\ p[2] \in AddedJobs
  BY <1>1 DEF StampPairs
<1>3. p[1] \in Names /\ p[2] \in Names /\ Live(p[1])
  BY <1>2 DEF Vanished, AddedJobs, Inside
<1>4. [s |-> row[p[1]].s, c |-> row[p[1]].c] \in Files \ {NoFile}
  BY <1>3, FileFacts DEF Files, NoFile
<1>. QED  BY <1>1, <1>2, <1>3, <1>4 DEF StampRename, Renames

LEMMA EndWalkFacts ==
    ASSUME TypeOK, EndWalk
    PROVE  /\ pass.ph = "walk" /\ pass.todo = {} /\ ~paused
           /\ pass'.ph = "hash" /\ WalkKept /\ pass' \in Passes
           /\ pass'.next = [n \in Names |-> IF n \in pass.scope THEN pass.next[n] ELSE pass.snap[n]]
           /\ pass'.renames = {StampRename(p) : p \in cheapRenames}
           /\ pass'.jobs = [n \in Names |-> IF \E p \in cheapRenames : p[2] = n
                                            THEN NoJob ELSE pass.jobs[n]]
           /\ UNCHANGED <<tableVars, last, held, history, userVars, paused, faults>>
<1> DEFINE next == [n \in Names |-> IF n \in pass.scope THEN pass.next[n] ELSE pass.snap[n]]
           renames == {StampRename(p) : p \in cheapRenames}
           jobs == [n \in Names |-> IF \E p \in cheapRenames : p[2] = n THEN NoJob ELSE pass.jobs[n]]
<1>1. /\ pass.ph = "walk" /\ pass.todo = {} /\ ~paused
      /\ pass' = [pass EXCEPT !.ph = "hash", !.next = next, !.renames = renames, !.jobs = jobs]
      /\ UNCHANGED <<tableVars, last, held, history, userVars, paused, faults>>
  <2>1. pass \in Passes
    BY PassTypes
  <2>2. pass' = [pass EXCEPT
              !.ph = "hash",
              !.next = [n \in Names |-> IF n \in pass.scope THEN @[n] ELSE pass.snap[n]],
              !.renames = {[from |-> p[1], to |-> p[2], file |-> [s |-> row[p[1]].s, c |-> row[p[1]].c]]
                              : p \in cheapRenames},
              !.jobs = [n \in Names |-> IF \E p \in cheapRenames : p[2] = n THEN NoJob ELSE @[n]]]
    BY DEF EndWalk
  <2>3. pass' = [pass EXCEPT !.ph = "hash", !.next = next, !.renames = renames, !.jobs = jobs]
    BY <2>1, <2>2 DEF StampRename
  <2>. QED  BY <2>3 DEF EndWalk
<1>2. next \in [Names -> Settles] /\ jobs \in [Names -> Jobs]
  BY PassTypes, NothingTypes, ZeroStamp
<1>3. renames \subseteq Renames
  BY CheapFacts
<1> HIDE DEF next, renames, jobs
<1>4. pass \in Passes
  BY PassTypes
<1>5. pass' \in Passes
  BY <1>1, <1>2, <1>3, <1>4 DEF Passes
<1>6. /\ pass'.ph = "hash" /\ WalkKept
      /\ pass'.next = next /\ pass'.renames = renames /\ pass'.jobs = jobs
  BY <1>1, <1>4 DEF Passes, WalkKept
<1>. QED  BY <1>1, <1>5, <1>6 DEF next, renames, jobs

\* A file that is gone, one that has changed under the reader, and one read.
HashGone(n) == disk[n] = NoFile /\ pass'.next = pass.next /\ pass'.found = pass.found
HashDrifts(n) ==
    /\ disk[n] # NoFile /\ disk[n].s # pass.jobs[n].s
    /\ pass'.next = [pass.next EXCEPT ![n] = DriftRun(n)] /\ pass'.found = pass.found
HashReads(n) ==
    /\ disk[n] # NoFile /\ disk[n].s = pass.jobs[n].s
    /\ pass'.next = pass.next
    /\ pass'.found = [pass.found EXCEPT ![n] = [kind |-> pass.jobs[n].kind, s |-> disk[n].s,
                                                 c |-> disk[n].c]]

HashKeeps ==
    /\ pass'.ph = pass.ph /\ pass'.kind = pass.kind /\ pass'.scope = pass.scope
    /\ pass'.snap = pass.snap /\ pass'.todo = pass.todo /\ pass'.seen = pass.seen
    /\ pass'.renames = pass.renames /\ pass'.deletes = pass.deletes /\ pass'.el = pass.el

LEMMA DriftType ==
    ASSUME TypeOK, NEW n \in Names, disk[n] # NoFile
    PROVE  DriftRun(n) \in Settles
<1>1. disk[n].s \in Stamps /\ disk[n].s # 0 /\ pass.jobs[n] \in Jobs
  BY FileFacts, PassTypes
<1>2. pass.jobs[n].age \in 0..SettleSeconds /\ SettleScans \in Nat \ {0}
  BY <1>1 DEF Jobs
<1>. QED  BY <1>1, <1>2 DEF DriftRun, Settles

LEMMA HashFacts ==
    ASSUME TypeOK, NEW n \in Names, HashFile(n)
    PROVE  /\ pass.ph = "hash" /\ pass.jobs[n] # NoJob
           /\ HashKeeps /\ pass' \in Passes
           /\ pass'.jobs = [pass.jobs EXCEPT ![n] = NoJob]
           /\ HashGone(n) \/ HashDrifts(n) \/ HashReads(n)
           /\ ungated' = IF HashReads(n) /\ ~Gated THEN ungated \cup {disk[n].c} ELSE ungated
           /\ hasty' = IF HashReads(n) /\ Gated /\ pass.jobs[n].early
                       THEN hasty \cup {disk[n].c} ELSE hasty
           /\ UNCHANGED <<tableVars, last, held, userVars, paused, faults>>
<1> DEFINE done == [pass EXCEPT !.jobs[n] = NoJob]
           found == [kind |-> pass.jobs[n].kind, s |-> pass.jobs[n].s, c |-> disk[n].c]
           read == disk[n] # NoFile /\ disk[n].s = pass.jobs[n].s
<1>1. /\ pass.ph = "hash" /\ pass.jobs[n] # NoJob
      /\ pass' = IF disk[n] = NoFile THEN done
                 ELSE IF disk[n].s # pass.jobs[n].s THEN [done EXCEPT !.next[n] = DriftRun(n)]
                 ELSE [done EXCEPT !.found[n] = found]
      /\ ungated' = IF read /\ ~Gated THEN ungated \cup {disk[n].c} ELSE ungated
      /\ hasty' = IF read /\ Gated /\ pass.jobs[n].early THEN hasty \cup {disk[n].c} ELSE hasty
      /\ UNCHANGED <<tableVars, last, held, userVars, paused, faults>>
  BY DEF HashFile
<1>2. /\ pass \in Passes /\ NoJob \in Jobs
      /\ pass.jobs[n] \in Jobs /\ disk[n].s \in Stamps /\ disk[n].c \in Stamps
      /\ disk[n] # NoFile => disk[n].s # 0 /\ disk[n].c # 0
  BY PassTypes, FileFacts, NothingTypes, ZeroStamp
<1>3. /\ done \in Passes
      /\ done.jobs = [pass.jobs EXCEPT ![n] = NoJob]
      /\ done.next = pass.next /\ done.found = pass.found
      /\ done.ph = pass.ph /\ done.kind = pass.kind /\ done.scope = pass.scope
      /\ done.snap = pass.snap /\ done.todo = pass.todo /\ done.seen = pass.seen
      /\ done.renames = pass.renames /\ done.deletes = pass.deletes /\ done.el = pass.el
  BY <1>2 DEF Passes
<1>4. read => found \in Founds
  BY <1>1, <1>2 DEF Founds, Jobs, NoJob
<1> HIDE DEF done
<1>5. CASE disk[n] = NoFile
  <2>1. pass' = done
    BY <1>1, <1>5
  <2>2. ~read /\ ~HashReads(n)
    BY <1>5 DEF HashReads
  <2>. QED  BY <1>1, <1>3, <1>5, <2>1, <2>2 DEF HashKeeps, HashGone
<1>6. CASE disk[n] # NoFile /\ disk[n].s # pass.jobs[n].s
  <2>1. pass' = [done EXCEPT !.next[n] = DriftRun(n)]
    BY <1>1, <1>6
  <2>2. pass' \in Passes
    BY <1>3, <1>6, <2>1, DriftType DEF Passes
  <2>3. ~read /\ ~HashReads(n)
    BY <1>6 DEF HashReads
  <2>4. HashKeeps /\ HashDrifts(n) /\ pass'.jobs = done.jobs
    BY <1>3, <1>6, <2>1 DEF Passes, HashKeeps, HashDrifts
  <2>. QED  BY <1>1, <1>3, <2>2, <2>3, <2>4
<1>7. CASE read
  <2>1. pass' = [done EXCEPT !.found[n] = found]
    BY <1>1, <1>7
  <2>2. pass' \in Passes
    BY <1>3, <1>4, <1>7, <2>1 DEF Passes
  <2>3. HashKeeps /\ HashReads(n) /\ pass'.jobs = done.jobs
    BY <1>3, <1>7, <2>1 DEF Passes, HashKeeps, HashReads
  <2>. QED  BY <1>1, <1>3, <1>7, <2>2, <2>3
<1>. QED  BY <1>5, <1>6, <1>7

LEMMA DropFacts ==
    ASSUME TypeOK, NEW n \in Names, DropJob(n)
    PROVE  /\ pass.ph = "hash" /\ paused /\ pass.jobs[n] # NoJob
           /\ HashKeeps /\ pass' \in Passes
           /\ pass'.jobs = [pass.jobs EXCEPT ![n] = NoJob]
           /\ pass'.next = pass.next /\ pass'.found = pass.found
           /\ UNCHANGED <<tableVars, last, held, history, userVars, paused, faults>>
<1>1. pass \in Passes /\ NoJob \in Jobs
  BY PassTypes, NothingTypes, ZeroStamp
<1>2. /\ pass.ph = "hash" /\ paused /\ pass.jobs[n] # NoJob
      /\ pass' = [pass EXCEPT !.jobs[n] = NoJob]
      /\ UNCHANGED <<tableVars, last, held, history, userVars, paused, faults>>
  BY DEF DropJob
<1>3. pass' \in Passes
  BY <1>1, <1>2 DEF Passes
<1>. QED  BY <1>1, <1>2, <1>3 DEF Passes, HashKeeps

\* The renames and deletions that the last look at the walk decides on.
ConfirmedRenames == pass.renames \cup ContentRenames \cup GateRenames
Deletions == Vanished \ {r.from : r \in ConfirmedRenames}
Reported == {v \in Deletions : Confirmed(v) /\ (DeletionScans > 1 => ~Deferred(v))}

LEMMA ContentRenameFacts ==
    ASSUME TypeOK, NEW r \in ContentRenames
    PROVE  /\ r \in Renames /\ r.from \in OldHalves /\ r.to \in AddedFiles
           /\ Pairs(r.from, r.to)
           /\ r.file = [s |-> pass.found[r.to].s, c |-> pass.found[r.to].c]
<1>1. PICK p \in OldHalves \X AddedFiles :
          /\ Pairs(p[1], p[2])
          /\ r = [from |-> p[1], to |-> p[2],
                  file |-> [s |-> pass.found[p[2]].s, c |-> pass.found[p[2]].c]]
  BY DEF ContentRenames
<1>2. p[1] \in Names /\ p[2] \in Names /\ pass.found[p[2]].kind = "added"
  BY <1>1 DEF OldHalves, AddedFiles, Vanished, Inside
<1>3. pass.found[p[2]] \in Founds
  BY <1>2, PassTypes
<1>4. [s |-> pass.found[p[2]].s, c |-> pass.found[p[2]].c] \in Files \ {NoFile}
  BY <1>2, <1>3 DEF Founds, Files, NoFile, NoFound
<1>. QED  BY <1>1, <1>2, <1>4 DEF Renames

LEMMA GateRenameFacts ==
    ASSUME TypeOK, NEW r \in GateRenames
    PROVE  /\ r \in Renames /\ r.to \in Outside
           /\ r.from \in Vanished \ ({q.from : q \in pass.renames} \cup {q.from : q \in ContentRenames})
           /\ \A m \in Outside : pass.cand[m] = r.from <=> m = r.to
           /\ r.file = [s |-> row[r.from].s, c |-> row[r.from].c]
           /\ disk[r.to].c = row[r.from].c
<1> DEFINE targets(v) == {m \in Outside : pass.cand[m] = v}
           left == Vanished \ (Claimed \cup {q.from : q \in ContentRenames})
<1>1. PICK p \in left \X Outside :
          /\ targets(p[1]) = {p[2]} /\ disk[p[2]].c = row[p[1]].c
          /\ r = [from |-> p[1], to |-> p[2], file |-> [s |-> row[p[1]].s, c |-> row[p[1]].c]]
  BY DEF GateRenames
<1>2. p[1] \in Names /\ p[2] \in Names /\ Live(p[1]) /\ p[2] \in Outside
  BY <1>1 DEF Vanished, Inside
<1>3. [s |-> row[p[1]].s, c |-> row[p[1]].c] \in Files \ {NoFile}
  BY <1>2, FileFacts DEF Files, NoFile
<1>4. \A m \in Outside : pass.cand[m] = p[1] <=> m = p[2]
  BY <1>1
<1>. QED  BY <1>1, <1>2, <1>3, <1>4 DEF Renames, Claimed

LEMMA ConfirmFacts ==
    ASSUME TypeOK, Confirm
    PROVE  /\ pass.ph = "hash" /\ ~paused /\ \A n \in Names : pass.jobs[n] = NoJob
           /\ pass'.ph = "confirmed" /\ pass'.kind = pass.kind /\ pass'.scope = pass.scope
           /\ pass'.next = pass.next /\ pass'.el = pass.el /\ pass'.found = pass.found
           /\ pass'.renames = ConfirmedRenames /\ pass'.deletes = Reported
           /\ pass'.todo = {} /\ pass'.seen = {}
           /\ pass'.snap = NoPass.snap /\ pass'.jobs = NoPass.jobs
           /\ missing' = MissingAfter(Deletions, Reported)
           /\ pass' \in Passes
           /\ UNCHANGED <<row, settle, last, held, history, userVars, paused, faults>>
<1>1. /\ pass.ph = "hash" /\ ~paused /\ \A n \in Names : pass.jobs[n] = NoJob
      /\ pass' = [NoPass EXCEPT !.ph = "confirmed", !.kind = pass.kind, !.scope = pass.scope,
                                !.next = pass.next, !.el = pass.el, !.found = pass.found,
                                !.renames = ConfirmedRenames, !.deletes = Reported]
      /\ missing' = MissingAfter(Deletions, Reported)
      /\ UNCHANGED <<row, settle, last, held, history, userVars, paused, faults>>
  BY DEF Confirm, ConfirmedRenames, Deletions, Reported
<1>2. ConfirmedRenames \subseteq Renames
  BY PassTypes, ContentRenameFacts, GateRenameFacts DEF ConfirmedRenames
<1>3. Reported \subseteq Names
  BY DEF Reported, Deletions, Vanished, Inside
<1>4. NoPass \in Passes
  BY NoPassType, ZeroStamp
<1>5. pass' \in Passes
  BY <1>1, <1>2, <1>3, <1>4, PassTypes DEF Passes
<1>6. NoPass.todo = {} /\ NoPass.seen = {}
  BY DEF NoPass
<1>. QED  BY <1>1, <1>4, <1>5, <1>6 DEF Passes

LEMMA MissingType ==
    ASSUME TypeOK, NEW deletions, NEW reported
    PROVE  MissingAfter(deletions, reported) \in [Names -> 0..DeletionScans]
<1>1. ASSUME NEW v \in Names
      PROVE  /\ missing[v] \in 0..DeletionScans /\ Capped(missing[v] + 1, DeletionScans) \in 0..DeletionScans
             /\ 0 \in 0..DeletionScans
  <2>1. missing[v] \in 0..DeletionScans /\ DeletionScans \in Nat
    BY DEF TypeOK
  <2>. QED  BY <2>1 DEF Capped
<1>. QED  BY <1>1 DEF MissingAfter

LEMMA CommitFacts ==
    ASSUME TypeOK, Commit
    PROVE  /\ pass.ph = "confirmed" /\ ~paused
           /\ settle' = [n \in Names |-> Aged(pass.next[n])]
           /\ last' = LastAfter
           /\ pass'.ph = "scanned" /\ pass'.kind = pass.kind /\ pass'.found = pass.found
           /\ pass'.renames = pass.renames /\ pass'.deletes = pass.deletes
           /\ pass'.todo = {} /\ pass'.seen = {} /\ pass'.scope = {}
           /\ pass'.snap = NoPass.snap /\ pass'.jobs = NoPass.jobs /\ pass'.next = NoPass.next
           /\ pass' \in Passes
           /\ UNCHANGED <<row, missing, held, history, userVars, paused, faults>>
<1>1. /\ pass.ph = "confirmed" /\ ~paused
      /\ settle' = [n \in Names |-> Aged(pass.next[n])]
      /\ last' = LastAfter
      /\ pass' = [NoPass EXCEPT !.ph = "scanned", !.kind = pass.kind, !.found = pass.found,
                                !.renames = pass.renames, !.deletes = pass.deletes]
      /\ UNCHANGED <<row, missing, held, history, userVars, paused, faults>>
  BY DEF Commit
<1>2. NoPass \in Passes
  BY NoPassType, ZeroStamp
<1>3. pass' \in Passes
  BY <1>1, <1>2, PassTypes DEF Passes
<1>4. NoPass.todo = {} /\ NoPass.seen = {} /\ NoPass.scope = {}
  BY DEF NoPass
<1>. QED  BY <1>1, <1>2, <1>3, <1>4 DEF Passes

\* A run that is saved at the end of a pass is older by the pass.
LEMMA AgedFacts ==
    ASSUME TypeOK, NEW n \in Names
    PROVE  /\ Aged(pass.next[n]) \in Settles
           /\ Aged(pass.next[n]).n = pass.next[n].n /\ Aged(pass.next[n]).s = pass.next[n].s
           /\ Aged(pass.next[n]).early = pass.next[n].early
           /\ Aged(pass.next[n]).age <= pass.next[n].age + pass.el
           /\ pass.next[n] = NoSettle => Aged(pass.next[n]) = NoSettle
<1>1. /\ pass.next[n] \in Settles /\ pass.el \in 0..SettleSeconds
      /\ pass.next[n].age \in 0..SettleSeconds
  BY PassTypes DEF Settles
<1>2. /\ Capped(pass.next[n].age + pass.el, SettleSeconds) \in 0..SettleSeconds
      /\ Capped(pass.next[n].age + pass.el, SettleSeconds) <= pass.next[n].age + pass.el
  BY <1>1 DEF Capped
<1>. QED  BY <1>1, <1>2 DEF Aged, Settles, NoSettle

\* A path gets a tombstone, the file of a rename, what was read, or stays.
LEMMA ApplyFacts ==
    ASSUME TypeOK, ApplyPass
    PROVE  /\ pass.ph = "scanned" /\ (~paused \/ pass.kind = "rebuild")
           /\ held' = IF pass.kind = "rebuild" THEN held ELSE last
           /\ pass' = NoPass /\ pass' \in Passes
           /\ row' \in [Names -> Entries]
           /\ \A n \in Names :
                \/ row'[n] = Dead /\ n \in pass.deletes \cup {r.from : r \in pass.renames}
                \/ /\ n \notin pass.deletes \cup {r.from : r \in pass.renames}
                   /\ \E r \in pass.renames : r.to = n /\ row'[n] = LiveRow(r.file)
                \/ /\ n \notin pass.deletes \cup {r.from : r \in pass.renames}
                   /\ \A r \in pass.renames : r.to # n
                   /\ row'[n] = IF pass.found[n] # NoFound THEN LiveRow(pass.found[n]) ELSE row[n]
           /\ UNCHANGED <<settle, missing, last, history, userVars, paused, faults>>
<1> DEFINE New(n) == {r \in pass.renames : r.to = n}
           Gone == pass.deletes \cup {r.from : r \in pass.renames}
           Entry(n) == IF n \in Gone THEN Dead
                       ELSE IF New(n) # {} THEN LiveRow((CHOOSE r \in New(n) : TRUE).file)
                       ELSE IF pass.found[n] # NoFound THEN LiveRow(pass.found[n])
                       ELSE row[n]
<1>1. /\ pass.ph = "scanned" /\ (~paused \/ pass.kind = "rebuild")
      /\ held' = IF pass.kind = "rebuild" THEN held ELSE last
      /\ pass' = NoPass
      /\ UNCHANGED <<settle, missing, last, history, userVars, paused, faults>>
  BY DEF ApplyPass
<1>2. row' = [n \in Names |-> LET new == New(n)
                              IN  IF n \in Gone THEN Dead
                                  ELSE IF new # {} THEN LiveRow((CHOOSE r \in new : TRUE).file)
                                  ELSE IF pass.found[n] # NoFound THEN LiveRow(pass.found[n])
                                  ELSE row[n]]
  BY DEF ApplyPass
<1>3. ASSUME NEW n \in Names
      PROVE  /\ row'[n] \in Entries
             /\ \/ row'[n] = Dead /\ n \in Gone
                \/ n \notin Gone /\ \E r \in pass.renames : r.to = n /\ row'[n] = LiveRow(r.file)
                \/ /\ n \notin Gone /\ \A r \in pass.renames : r.to # n
                   /\ row'[n] = IF pass.found[n] # NoFound THEN LiveRow(pass.found[n]) ELSE row[n]
  <2>1. /\ 0 \in Stamps /\ Dead \in Entries /\ row[n] \in Entries /\ pass.found[n] \in Founds
        /\ pass.renames \subseteq Renames
    BY NothingTypes, ZeroStamp, FileFacts, PassTypes
  <2>2. row'[n] = Entry(n)
    BY <1>2
  <2> HIDE DEF New, Gone
  <2>3. CASE n \in Gone
    <3>1. row'[n] = Dead
      BY <2>2, <2>3
    <3>. QED  BY <2>1, <2>3, <3>1
  <2>4. CASE n \notin Gone /\ New(n) # {}
    <3>1. PICK r : r \in New(n) /\ r = (CHOOSE q \in New(n) : TRUE)
      BY <2>4
    <3>2. row'[n] = LiveRow((CHOOSE q \in New(n) : TRUE).file)
      BY <2>2, <2>4
    <3>3. r \in pass.renames /\ r.to = n /\ r \in Renames /\ row'[n] = LiveRow(r.file)
      BY <2>1, <3>1, <3>2 DEF New
    <3>4. LiveRow(r.file) \in Entries
      BY <3>3 DEF Renames, Files, NoFile, LiveRow, Entries
    <3>. QED  BY <2>4, <3>3, <3>4
  <2>5. CASE n \notin Gone /\ New(n) = {}
    <3>1. row'[n] = IF pass.found[n] # NoFound THEN LiveRow(pass.found[n]) ELSE row[n]
      BY <2>2, <2>5
    <3>2. pass.found[n] # NoFound => LiveRow(pass.found[n]) \in Entries
      BY <2>1 DEF Founds, LiveRow, Entries
    <3>3. \A r \in pass.renames : r.to # n
      BY <2>5 DEF New
    <3>. QED  BY <2>1, <2>5, <3>1, <3>2, <3>3
  <2>. QED  BY <2>3, <2>4, <2>5
<1>4. NoPass \in Passes
  BY NoPassType, ZeroStamp
<1>5. row' \in [Names -> Entries]
  BY <1>2, <1>3
<1>. QED  BY <1>1, <1>3, <1>4, <1>5

StartKeeps == UNCHANGED <<tableVars, last, held, history, userVars, paused, faults>>

Rebuilds ==
    /\ pass'.kind = "rebuild" /\ Fault
    /\ row' = [n \in Names |-> NoRow] /\ settle' = [n \in Names |-> NoSettle]
    /\ missing' = [n \in Names |-> 0] /\ last' = {} /\ held' = {}
    /\ UNCHANGED <<history, userVars, paused>>

LEMMA StartFacts ==
    ASSUME TypeOK, StartScan
    PROVE  /\ pass.ph = "none" /\ ~paused
           /\ pass'.ph = "walk" /\ pass'.todo = pass'.scope /\ pass'.seen = {}
           /\ pass'.snap = settle' /\ pass'.next = NoPass.next /\ pass'.jobs = NoPass.jobs
           /\ pass'.found = NoPass.found /\ pass'.renames = {} /\ pass'.deletes = {}
           /\ pass'.el = 0
           /\ (StartKeeps /\ pass'.kind # "rebuild") \/ Rebuilds
           /\ pass' \in Passes
<1>1. 0 \in Stamps /\ NoPass \in Passes /\ NoSettle \in Settles
  BY ZeroStamp, NoPassType, NothingTypes
<1>2. /\ NoPass.seen = {} /\ NoPass.renames = {} /\ NoPass.deletes = {} /\ NoPass.el = 0
  BY DEF NoPass
<1>3. settle \in [Names -> Settles] /\ last \subseteq Names
  BY DEF TypeOK
<1>4. ASSUME NEW kind \in {"full", "scoped", "verify"}, NEW scope \in SUBSET Names,
             StartPass(kind, scope)
      PROVE  /\ pass.ph = "none" /\ ~paused /\ pass' = Started(kind, scope) /\ StartKeeps
  BY <1>4 DEF StartPass, StartKeeps
<1>5. CASE StartRebuild
  <2> DEFINE empty == [n \in Names |-> NoSettle]
  <2>1. /\ pass.ph = "none" /\ ~paused /\ settle' = empty
        /\ pass' = [Started("rebuild", Names) EXCEPT !.snap = empty]
    BY <1>5 DEF StartRebuild
  <2>2. empty \in [Names -> Settles]
    BY <1>1
  <2> HIDE DEF empty
  <2>3. /\ pass' \in Passes
        /\ pass'.ph = "walk" /\ pass'.kind = "rebuild"
        /\ pass'.todo = pass'.scope /\ pass'.seen = NoPass.seen /\ pass'.snap = empty
        /\ pass'.next = NoPass.next /\ pass'.jobs = NoPass.jobs /\ pass'.found = NoPass.found
        /\ pass'.renames = NoPass.renames /\ pass'.deletes = NoPass.deletes
        /\ pass'.el = NoPass.el
    BY <1>1, <1>3, <2>1, <2>2 DEF Started, Passes, Kinds
  <2>4. Rebuilds
    BY <1>5, <2>3 DEF StartRebuild, Rebuilds
  <2>. QED  BY <1>2, <2>1, <2>3, <2>4
<1>6. ASSUME NEW kind \in {"full", "scoped", "verify"}, NEW scope \in SUBSET Names,
             pass.ph = "none", ~paused, pass' = Started(kind, scope), StartKeeps
      PROVE  /\ pass'.ph = "walk" /\ pass'.todo = pass'.scope /\ pass'.seen = {}
             /\ pass'.snap = settle' /\ pass'.next = NoPass.next /\ pass'.jobs = NoPass.jobs
             /\ pass'.found = NoPass.found /\ pass'.renames = {} /\ pass'.deletes = {}
             /\ pass'.el = 0 /\ pass'.kind # "rebuild"
             /\ pass' \in Passes
  <2>1. settle' = settle
    BY <1>6 DEF StartKeeps, tableVars
  <2>2. /\ pass' \in Passes
        /\ pass'.ph = "walk" /\ pass'.kind = kind
        /\ pass'.todo = pass'.scope /\ pass'.seen = NoPass.seen /\ pass'.snap = settle
        /\ pass'.next = NoPass.next /\ pass'.jobs = NoPass.jobs /\ pass'.found = NoPass.found
        /\ pass'.renames = NoPass.renames /\ pass'.deletes = NoPass.deletes
        /\ pass'.el = NoPass.el
    BY <1>1, <1>3, <1>6 DEF Started, Passes, Kinds
  <2>. QED  BY <1>2, <2>1, <2>2
<1>7. \/ \E kind \in {"full", "scoped", "verify"}, scope \in SUBSET Names : StartPass(kind, scope)
      \/ StartRebuild
  <2>1. Scopes \subseteq SUBSET Names
    OBVIOUS
  <2>. QED  BY <1>3, <2>1 DEF StartScan, StartDeep, StartHeldBack
<1>. QED  BY <1>4, <1>5, <1>6, <1>7

TodoKept ==
    /\ pass'.ph = pass.ph /\ pass'.kind = pass.kind /\ pass'.scope = pass.scope
    /\ pass'.seen = pass.seen /\ pass'.snap = pass.snap /\ pass'.next = pass.next
    /\ pass'.jobs = pass.jobs /\ pass'.found = pass.found /\ pass'.renames = pass.renames
    /\ pass'.deletes = pass.deletes

LEMMA SkipFacts ==
    ASSUME TypeOK, SkipAll
    PROVE  /\ pass.ph = "walk" /\ paused
           /\ TodoKept /\ pass'.todo = {} /\ pass'.el = pass.el /\ pass' \in Passes
           /\ UNCHANGED <<tableVars, last, held, history, userVars, paused, faults>>
<1>1. pass \in Passes
  BY PassTypes
<1>. QED  BY <1>1 DEF SkipAll, Passes, TodoKept

LEMMA HiddenFacts ==
    ASSUME TypeOK, NEW n \in Names, VisitHidden(n)
    PROVE  /\ pass.ph = "walk" /\ ~paused /\ Fault
           /\ TodoKept /\ pass'.todo = pass.todo \ {n} /\ pass'.el = pass.el /\ pass' \in Passes
           /\ UNCHANGED <<tableVars, last, held, history, userVars, paused>>
<1>1. pass \in Passes
  BY PassTypes
<1>. QED  BY <1>1 DEF VisitHidden, Passes, TodoKept

LEMMA TickFacts ==
    ASSUME TypeOK, Tick
    PROVE  /\ TodoKept /\ pass'.todo = pass.todo /\ pass' \in Passes
           /\ pass.ph = "none" => pass' = pass
           /\ pass.ph # "none" => pass'.el = Capped(pass.el + 1, SettleSeconds)
           /\ pass'.el <= pass.el + 1
           /\ idle' \in [Names -> -1..SettleSeconds]
           /\ \A n \in Names : idle'[n] = IF idle[n] < 0 THEN -1 ELSE idle[n] + 1
           /\ \A n \in Names : idle'[n] < SettleSeconds
           /\ settle' \in [Names -> Settles]
           /\ \A n \in Names : /\ settle[n].n = 0 => settle[n] = NoSettle /\ settle'[n] = NoSettle
                               /\ settle'[n].n = settle[n].n /\ settle'[n].s = settle[n].s
                               /\ settle'[n].early = settle[n].early
                               /\ settle'[n].age <= settle[n].age + 1
           /\ UNCHANGED <<disk, row, missing, last, held, paused, newest, edits, faults, partial,
                          history, gone>>
<1>1. /\ pass \in Passes /\ pass.el \in 0..SettleSeconds
      /\ idle \in [Names -> -1..SettleSeconds] /\ settle \in [Names -> Settles]
      /\ SettleSeconds \in Nat /\ NoSettle \in Settles
  BY PassTypes, NothingTypes, ZeroStamp DEF TypeOK
<1>2. /\ Capped(pass.el + 1, SettleSeconds) \in 0..SettleSeconds
      /\ Capped(pass.el + 1, SettleSeconds) <= pass.el + 1
  BY <1>1 DEF Capped
<1>3. pass' = IF pass.ph = "none" THEN pass
              ELSE [pass EXCEPT !.el = Capped(@ + 1, SettleSeconds)]
  BY DEF Tick
<1>4. /\ TodoKept /\ pass'.todo = pass.todo /\ pass' \in Passes
      /\ pass.ph = "none" => pass' = pass
      /\ pass.ph # "none" => pass'.el = Capped(pass.el + 1, SettleSeconds)
      /\ pass'.el <= pass.el + 1
  <2>1. CASE pass.ph = "none"
    BY <1>1, <1>3, <2>1 DEF TodoKept
  <2>2. CASE pass.ph # "none"
    <3>1. pass' = [pass EXCEPT !.el = Capped(pass.el + 1, SettleSeconds)]
      BY <1>3, <2>2
    <3>2. pass' \in Passes /\ TodoKept /\ pass'.todo = pass.todo
      BY <1>1, <1>2, <3>1 DEF Passes, TodoKept
    <3>3. pass'.el = Capped(pass.el + 1, SettleSeconds)
      BY <1>1, <3>1 DEF Passes
    <3>. QED  BY <1>2, <2>2, <3>2, <3>3
  <2>. QED  BY <2>1, <2>2
<1>5. /\ idle' \in [Names -> -1..SettleSeconds]
      /\ \A n \in Names : idle'[n] = IF idle[n] < 0 THEN -1 ELSE idle[n] + 1
      /\ \A n \in Names : idle'[n] < SettleSeconds
  <2>1. \A n \in Names : idle[n] >= 0 => idle[n] + 1 < SettleSeconds
    BY DEF Tick, Writers
  <2>2. idle' = [n \in Names |-> IF idle[n] < 0 THEN -1 ELSE idle[n] + 1]
    BY DEF Tick
  <2>. QED  BY <1>1, <2>1, <2>2
<1>6. ASSUME NEW n \in Names
      PROVE  /\ settle'[n] \in Settles
             /\ settle[n].n = 0 => settle[n] = NoSettle /\ settle'[n] = NoSettle
             /\ settle'[n].n = settle[n].n /\ settle'[n].s = settle[n].s
             /\ settle'[n].early = settle[n].early
             /\ settle'[n].age <= settle[n].age + 1
  <2>1. settle[n] \in Settles
    BY <1>1
  <2>2. settle'[n] = IF settle[n].n = 0 THEN NoSettle
                     ELSE [settle[n] EXCEPT !.age = Capped(settle[n].age + 1, SettleSeconds)]
    BY DEF Tick
  <2>3. /\ settle[n].age \in 0..SettleSeconds
        /\ settle[n].n = 0 => settle[n] = NoSettle
        /\ NoSettle.n = 0 /\ NoSettle.age = 0 /\ NoSettle.s = 0
    BY <2>1 DEF Settles, NoSettle
  <2>4. /\ Capped(settle[n].age + 1, SettleSeconds) \in 0..SettleSeconds
        /\ Capped(settle[n].age + 1, SettleSeconds) <= settle[n].age + 1
    BY <1>1, <2>3 DEF Capped
  <2>5. CASE settle[n].n = 0
    BY <1>1, <2>2, <2>3, <2>5
  <2>6. CASE settle[n].n # 0
    <3>1. settle'[n] = [settle[n] EXCEPT !.age = Capped(settle[n].age + 1, SettleSeconds)]
      BY <2>2, <2>6
    <3>. QED  BY <2>1, <2>4, <2>6, <3>1 DEF Settles, NoSettle
  <2>. QED  BY <2>5, <2>6
<1>7. settle' \in [Names -> Settles]
  <2>1. settle' = [n \in Names |-> settle'[n]]
    BY DEF Tick
  <2>. QED  BY <1>6, <2>1
<1>. QED  BY <1>4, <1>5, <1>6, <1>7 DEF Tick

----------------------------------------------------------------------------
(* Every step keeps the types.                                             *)

LEMMA FaultTypes == ASSUME TypeOK, Fault PROVE faults' \in 0..MaxFaults /\ faults' = faults + 1
BY DEF TypeOK, Fault

\* A step that leaves the users' side alone has the pass and the tables to show.
TypesOfTables ==
    /\ row' \in [Names -> Entries] /\ settle' \in [Names -> Settles]
    /\ \A n \in Outside : settle'[n] = NoSettle
    /\ missing' \in [Names -> 0..DeletionScans]
    /\ last' \subseteq Names /\ held' \subseteq Names

LEMMA TypesFrom ==
    ASSUME TypeOK, UNCHANGED userVars, pass' \in Passes, TypesOfTables,
           paused' \in BOOLEAN, faults' \in 0..MaxFaults,
           ungated' \cup hasty' \subseteq Stamps \ {0}
    PROVE  TypeOK'
<1>1. newest' = newest /\ UNCHANGED <<disk, idle, edits, partial, gone>>
  BY DEF userVars
<1>2. Stamps' = Stamps /\ Files' = Files /\ Entries' = Entries /\ Settles' = Settles
      /\ Passes' = Passes
  BY <1>1, SameStamps
<1>3. row' \in [Names -> Entries'] /\ settle' \in [Names -> Settles'] /\ pass' \in Passes'
      /\ disk' \in [Names -> Files']
  BY <1>1, <1>2 DEF TypesOfTables, TypeOK
<1>4. partial' \cup ungated' \cup hasty' \subseteq Stamps' \ {0}
  BY <1>1, <1>2 DEF TypeOK
<1>. QED  BY <1>1, <1>3, <1>4 DEF TypesOfTables, TypeOK

LEMMA SameTables ==
    ASSUME TypeOK, UNCHANGED <<tableVars, last, held>>
    PROVE  TypesOfTables
BY DEF TypeOK, TypesOfTables, tableVars

LEMMA TypeStep ==
    ASSUME TypeOK, PhasesRight, [Next]_vars
    PROVE  TypeOK'
<1> USE DEF history
<1>1. /\ ungated \cup hasty \subseteq Stamps \ {0} /\ paused \in BOOLEAN
      /\ faults \in 0..MaxFaults /\ pass \in Passes
      /\ 0 \in Stamps /\ NoPass \in Passes
  BY ZeroStamp, NoPassType DEF TypeOK
<1>2. CASE UserStep
  BY <1>2, UserTypes
<1>3. CASE Tick
  <2>1. /\ settle' \in [Names -> Settles] /\ \A n \in Outside : settle'[n] = NoSettle
    <3>1. \A n \in Outside : settle[n].n = 0
      BY DEF TypeOK, NoSettle
    <3>. QED  BY <1>3, <3>1, TickFacts
  <2>2. Passes' = Passes /\ Stamps' = Stamps /\ Files' = Files /\ Entries' = Entries
        /\ Settles' = Settles
    <3>1. newest' = newest
      BY <1>3 DEF Tick
    <3>. QED  BY <3>1, SameStamps
  <2>3. pass' \in Passes' /\ settle' \in [Names -> Settles'] /\ idle' \in [Names -> -1..SettleSeconds]
    BY <1>3, <2>1, <2>2, TickFacts
  <2>4. UNCHANGED <<disk, row, missing, last, held, paused, newest, edits, faults, partial,
                    ungated, hasty, gone>>
    BY <1>3, TickFacts
  <2>. QED  BY <2>1, <2>2, <2>3, <2>4 DEF TypeOK
<1>4. CASE Pause \/ Resume
  <2>1. UNCHANGED <<tableVars, last, held, pass, history, userVars>> /\ paused' \in BOOLEAN
    BY <1>4 DEF Pause, Resume, scanVars
  <2>2. faults' \in 0..MaxFaults
    BY <1>1, <1>4, FaultTypes DEF Pause, Resume
  <2>. QED  BY <1>1, <2>1, <2>2, SameTables, TypesFrom
<1>5. CASE Restart
  <2>1. /\ pass' = NoPass /\ last' = {} /\ held' = {}
        /\ UNCHANGED <<tableVars, history, userVars, paused>>
    BY <1>5 DEF Restart
  <2>2. faults' \in 0..MaxFaults
    BY <1>5, FaultTypes DEF Restart
  <2>3. TypesOfTables
    BY <2>1 DEF TypeOK, TypesOfTables, tableVars
  <2>. QED  BY <1>1, <2>1, <2>2, <2>3, TypesFrom
<1>6. CASE StartScan
  <2>1. pass' \in Passes
    BY <1>6, StartFacts
  <2>2. CASE StartKeeps
    BY <1>1, <2>1, <2>2, SameTables, TypesFrom DEF StartKeeps
  <2>3. CASE Rebuilds
    <3>1. faults' \in 0..MaxFaults
      BY <2>3, FaultTypes DEF Rebuilds
    <3>2. NoRow \in Entries /\ NoSettle \in Settles /\ Outside \subseteq Names
      BY <1>1, NothingTypes
    <3>3. TypesOfTables
      BY <2>3, <3>2 DEF Rebuilds, TypesOfTables
    <3>. QED  BY <1>1, <2>1, <2>3, <3>1, <3>3, TypesFrom DEF Rebuilds
  <2>. QED  BY <1>6, <2>2, <2>3, StartFacts
<1>7. ASSUME NEW n \in Names, Visit(n) PROVE TypeOK'
  BY <1>1, <1>7, VisitFacts, SameTables, TypesFrom
<1>8. ASSUME NEW n \in Names, VisitHidden(n) PROVE TypeOK'
  BY <1>1, <1>8, HiddenFacts, FaultTypes, SameTables, TypesFrom
<1>9. ASSUME NEW n \in Names, HashFile(n) PROVE TypeOK'
  <2>1. HashReads(n) => disk[n].c \in Stamps \ {0}
    BY FileFacts DEF HashReads
  <2>2. ungated' \cup hasty' \subseteq Stamps \ {0}
    <3>1. /\ ungated' = ungated \/ (HashReads(n) /\ ungated' = ungated \cup {disk[n].c})
          /\ hasty' = hasty \/ (HashReads(n) /\ hasty' = hasty \cup {disk[n].c})
      BY <1>9, HashFacts
    <3>. QED  BY <1>1, <2>1, <3>1
  <2>. QED  BY <1>1, <1>9, <2>2, HashFacts, SameTables, TypesFrom
<1>10. ASSUME NEW n \in Names, DropJob(n) PROVE TypeOK'
  BY <1>1, <1>10, DropFacts, SameTables, TypesFrom
<1>11. CASE SkipAll
  BY <1>1, <1>11, SkipFacts, SameTables, TypesFrom
<1>12. CASE Cancel
  BY <1>1, <1>12, SameTables, TypesFrom DEF Cancel
<1>13. CASE EndWalk
  BY <1>1, <1>13, EndWalkFacts, SameTables, TypesFrom
<1>14. CASE Confirm
  <2>1. missing' \in [Names -> 0..DeletionScans]
    BY <1>14, ConfirmFacts, MissingType
  <2>2. TypesOfTables
    BY <1>14, <2>1, ConfirmFacts DEF TypesOfTables, TypeOK
  <2>. QED  BY <1>1, <1>14, <2>2, ConfirmFacts, TypesFrom
<1>15. CASE Commit
  <2>1. settle' \in [Names -> Settles]
    BY <1>15, CommitFacts, AgedFacts
  <2>2. \A n \in Outside : settle'[n] = NoSettle
    <3>1. Outside \subseteq Names
      OBVIOUS
    <3>2. ASSUME NEW n \in Outside PROVE settle'[n] = NoSettle
      <4>1. n \in Names /\ pass.next[n] = NoSettle
        BY <3>1 DEF PhasesRight
      <4>2. settle'[n] = Aged(pass.next[n])
        BY <1>15, <4>1, CommitFacts
      <4>. QED  BY <4>1, <4>2, AgedFacts
    <3>. QED  BY <3>2
  <2>3. last' \subseteq Names
    BY <1>15, CommitFacts, PassTypes DEF LastAfter, HeldNow, TypeOK
  <2>4. TypesOfTables
    BY <1>15, <2>1, <2>2, <2>3, CommitFacts DEF TypesOfTables, TypeOK
  <2>. QED  BY <1>1, <1>15, <2>4, CommitFacts, TypesFrom
<1>16. CASE ApplyPass
  <2>1. held' \subseteq Names
    BY <1>16, ApplyFacts DEF TypeOK
  <2>2. TypesOfTables
    BY <1>16, <2>1, ApplyFacts DEF TypesOfTables, TypeOK
  <2>. QED  BY <1>1, <1>16, <2>2, ApplyFacts, TypesFrom
<1>17. CASE UNCHANGED vars
  <2>1. UNCHANGED <<scanVars, userVars, paused, faults>>
    BY <1>17 DEF vars
  <2>. QED  BY <1>1, <2>1, SameTables, TypesFrom DEF scanVars
<1>. QED
  BY <1>2, <1>3, <1>4, <1>5, <1>6, <1>7, <1>8, <1>9, <1>10, <1>11, <1>12, <1>13, <1>14, <1>15,
     <1>16, <1>17 DEF Next, PassStep

----------------------------------------------------------------------------
(* What the phases have filled in.                                         *)

LEMMA NoPassFields ==
    /\ NoPass.ph = "none" /\ NoPass.kind = "full" /\ NoPass.el = 0
    /\ NoPass.todo = {} /\ NoPass.seen = {} /\ NoPass.scope = {}
    /\ NoPass.renames = {} /\ NoPass.deletes = {}
    /\ \A n \in Names : /\ NoPass.snap[n] = NoSettle /\ NoPass.next[n] = NoSettle
                        /\ NoPass.jobs[n] = NoJob /\ NoPass.found[n] = NoFound
BY DEF NoPass

LEMMA NoKinds ==
    /\ NoJob.kind = "none" /\ NoFound.kind = "none" /\ NoSettle.n = 0 /\ NoSettle.s = 0
    /\ NoFound.c = 0 /\ NoRow.c = 0 /\ Dead.c = 0 /\ NoRow.st = "none" /\ Dead.st = "dead"
    /\ \A f : LiveRow(f).st = "live" /\ LiveRow(f).s = f.s /\ LiveRow(f).c = f.c
BY DEF NoJob, NoFound, NoSettle, NoRow, Dead, LiveRow

\* The steps that change nothing of the pass but its time and what is to do.
LEMMA PhasesKept ==
    ASSUME PhasesRight, TodoKept, UNCHANGED row, pass'.todo \subseteq pass.todo,
           pass.ph = "none" => pass' = pass
    PROVE  PhasesRight'
<1>1. pass'.ph = "none" => pass' = NoPass
  BY DEF PhasesRight, TodoKept
<1>. QED  BY <1>1 DEF PhasesRight, TodoKept

LEMMA PhasesNone ==
    ASSUME pass' = NoPass
    PROVE  PhasesRight'
<1>1. Outside \subseteq Names
  OBVIOUS
<1>. QED  BY <1>1, NoPassFields, NoKinds DEF PhasesRight

LEMMA PhasesStep ==
    ASSUME TypeOK, PhasesRight, [Next]_vars
    PROVE  PhasesRight'
<1>1. Outside \subseteq Names /\ Outside \cap Inside = {}
  BY DEF Inside
<1>2. CASE UNCHANGED <<pass, row>>
  BY <1>2 DEF PhasesRight
<1>3. CASE Tick
  BY <1>3, TickFacts, PhasesKept
<1>4. CASE Restart \/ Cancel \/ ApplyPass
  BY <1>4, PhasesNone DEF Restart, Cancel, ApplyPass
<1>5. CASE StartScan
  BY <1>1, <1>5, StartFacts, NoPassFields, NoKinds DEF PhasesRight, StartKeeps, Rebuilds,
     TypesOfTables, tableVars, TypeOK
<1>6. ASSUME NEW n \in Names, Visit(n) PROVE PhasesRight'
  <2>1. /\ pass.ph = "walk" /\ n \in pass.todo /\ VisitKeeps
        /\ pass'.todo = pass.todo \ {n}
        /\ pass'.seen = IF disk[n] = NoFile THEN pass.seen ELSE pass.seen \cup {n}
        /\ VisitPasses(n) \/ VisitHolds(n) \/ VisitReleases(n)
        /\ row' = row
    BY <1>6, VisitFacts DEF tableVars
  <2>2. /\ pass'.todo \cup pass'.seen \subseteq pass'.scope /\ pass'.ph = "walk"
        /\ pass'.renames = {} /\ \A k \in Names : pass'.found[k] = NoFound
        /\ pass'.snap = pass.snap /\ pass.seen \subseteq pass'.seen
    BY <2>1 DEF PhasesRight, VisitKeeps
  <2>3. /\ pass.next \in [Names -> Settles] /\ pass.jobs \in [Names -> Jobs]
    BY PassTypes
  <2>4. \A k \in Outside : pass'.next[k] = NoSettle
    <3>1. \A k \in Outside : k # n \/ pass'.next = pass.next
      BY <1>1, <2>1 DEF VisitPasses, VisitHolds, VisitReleases
    <3>. QED  BY <1>1, <2>1, <2>3, <3>1 DEF VisitPasses, VisitHolds, VisitReleases, PhasesRight
  <2>5. ASSUME NEW k \in Names
        PROVE  \/ pass'.jobs[k] = pass.jobs[k]
               \/ /\ k = n /\ n \in Inside /\ disk[n] # NoFile
                  /\ pass'.jobs[k] = VisitJob(n)
    BY <2>1, <2>3 DEF VisitPasses, VisitHolds, VisitReleases
  <2>6. VisitJob(n).kind = "added" => row[n].st = "none"
    BY DEF VisitJob
  <2>7. ASSUME NEW k \in Names
        PROVE  /\ pass'.jobs[k] # NoJob => k \in Inside /\ k \in pass'.seen
               /\ pass'.jobs[k].kind = "added" => row'[k].st = "none"
    <3>1. CASE pass'.jobs[k] = pass.jobs[k]
      BY <2>1, <2>2, <3>1 DEF PhasesRight
    <3>2. CASE k = n /\ n \in Inside /\ disk[n] # NoFile /\ pass'.jobs[k] = VisitJob(n)
      BY <2>1, <2>6, <3>2
    <3>. QED  BY <2>5, <3>1, <3>2
  <2>. QED  BY <2>2, <2>4, <2>7, NoKinds DEF PhasesRight
<1>7. ASSUME NEW n \in Names, VisitHidden(n) PROVE PhasesRight'
  BY <1>7, HiddenFacts, PhasesKept DEF tableVars
<1>8. CASE SkipAll
  BY <1>8, SkipFacts, PhasesKept DEF tableVars
<1>9. ASSUME NEW n \in Names, HashFile(n) \/ DropJob(n) PROVE PhasesRight'
  <2>1. /\ pass.ph = "hash" /\ pass.jobs[n] # NoJob /\ HashKeeps
        /\ pass'.jobs = [pass.jobs EXCEPT ![n] = NoJob]
        /\ \/ HashDrifts(n) \/ HashReads(n)
           \/ pass'.next = pass.next /\ pass'.found = pass.found
        /\ row' = row
    BY <1>9, HashFacts, DropFacts DEF tableVars, HashGone
  <2>2. n \in Inside
    BY <2>1 DEF PhasesRight
  <2>3. /\ pass.next \in [Names -> Settles] /\ pass.jobs \in [Names -> Jobs]
        /\ pass.found \in [Names -> Founds]
    BY PassTypes
  <2>4. \A k \in Outside : pass'.next[k] = NoSettle
    BY <1>1, <2>1, <2>2, <2>3 DEF HashDrifts, HashReads, PhasesRight
  <2>5. ASSUME NEW k \in Names
        PROVE  /\ pass'.jobs[k] = pass.jobs[k] \/ pass'.jobs[k] = NoJob
               /\ \/ pass'.found[k] = pass.found[k]
                  \/ k = n /\ pass'.found[k].kind = pass.jobs[k].kind
    BY <2>1, <2>3 DEF HashDrifts, HashReads
  <2>6. ASSUME NEW k \in Names
        PROVE  /\ pass'.jobs[k] # NoJob => k \in pass'.seen
               /\ pass'.jobs[k] # NoJob \/ pass'.found[k] # NoFound => k \in Inside
               /\ pass'.jobs[k].kind = "added" \/ pass'.found[k].kind = "added"
                     => row'[k].st = "none"
    BY <2>1, <2>2, <2>5, NoKinds DEF PhasesRight, HashKeeps
  <2>. QED  BY <2>1, <2>4, <2>6 DEF PhasesRight, HashKeeps
<1>10. CASE EndWalk
  <2>1. /\ pass.ph = "walk" /\ pass.todo = {} /\ pass'.ph = "hash" /\ WalkKept /\ row' = row
        /\ \A k \in Names : pass'.next[k] = IF k \in pass.scope THEN pass.next[k] ELSE pass.snap[k]
        /\ \A k \in Names : pass'.jobs[k] = NoJob \/ pass'.jobs[k] = pass.jobs[k]
    BY <1>10, EndWalkFacts DEF tableVars
  <2>. QED  BY <1>1, <2>1, NoKinds DEF PhasesRight, WalkKept
<1>11. CASE Confirm
  <2>1. /\ pass'.ph = "confirmed" /\ pass'.todo = {} /\ pass'.seen = {}
        /\ pass'.next = pass.next /\ pass'.found = pass.found /\ row' = row
        /\ \A k \in Names : pass'.snap[k] = NoSettle /\ pass'.jobs[k] = NoJob
    BY <1>11, ConfirmFacts, NoPassFields
  <2>. QED  BY <1>1, <2>1, NoKinds DEF PhasesRight
<1>12. CASE Commit
  <2>1. /\ pass'.ph = "scanned" /\ pass'.todo = {} /\ pass'.seen = {}
        /\ pass'.found = pass.found /\ row' = row
        /\ \A k \in Names : /\ pass'.snap[k] = NoSettle /\ pass'.jobs[k] = NoJob
                            /\ pass'.next[k] = NoSettle
    BY <1>12, CommitFacts, NoPassFields
  <2>. QED  BY <1>1, <2>1, NoKinds DEF PhasesRight
<1>13. UserStep \/ Pause \/ Resume \/ UNCHANGED vars => UNCHANGED <<pass, row>>
  BY DEF UserStep, Write, Rewrite, Remove, Move, Copy, Pause, Resume, vars, scanVars, tableVars
<1>. QED
  BY <1>2, <1>3, <1>4, <1>5, <1>6, <1>7, <1>8, <1>9, <1>10, <1>11, <1>12, <1>13
  DEF Next, PassStep

----------------------------------------------------------------------------
(* The published lists follow the settling table.                          *)

LEMMA SettleCounts ==
    ASSUME TypeOK, NEW n \in Names
    PROVE  settle[n].n \in Nat /\ pass.snap[n].n \in Nat /\ pass.next[n].n \in Nat
BY PassTypes DEF TypeOK, Settles

LEMMA ListsKept ==
    ASSUME ListsRight, UNCHANGED <<settle, last, held, paused, faults>>,
           pass'.ph = pass.ph, pass'.kind = pass.kind, pass'.scope = pass.scope,
           pass.ph = "walk" => pass'.snap = pass.snap,
           pass.ph \in {"hash", "confirmed"} =>
               \A n \in Names \ pass.scope : pass'.next[n] = pass.next[n]
    PROVE  ListsRight'
BY DEF ListsRight, HeldNames

LEMMA ListsStep ==
    ASSUME TypeOK, PhasesRight, ListsRight, [Next]_vars
    PROVE  ListsRight'
<1>1. CASE Pause \/ Restart \/ StartRebuild \/ \E n \in Names : VisitHidden(n)
  <2>1. faults' = faults + 1 /\ faults \in Nat
    BY <1>1 DEF Pause, Restart, StartRebuild, VisitHidden, Fault, TypeOK
  <2>. QED  BY <2>1 DEF ListsRight
<1>2. CASE UserStep \/ UNCHANGED vars
  <2>1. UNCHANGED <<settle, last, held, paused, faults, pass>>
    BY <1>2 DEF UserStep, Write, Rewrite, Remove, Move, Copy, vars, scanVars, tableVars
  <2>. QED  BY <2>1, ListsKept
<1>3. CASE Tick
  <2>1. \A n \in Names : settle'[n].n = settle[n].n
    BY <1>3, TickFacts
  <2>2. /\ pass'.ph = pass.ph /\ pass'.kind = pass.kind /\ pass'.scope = pass.scope
        /\ pass'.snap = pass.snap /\ pass'.next = pass.next
        /\ UNCHANGED <<last, held, paused, faults>>
    BY <1>3, TickFacts DEF TodoKept
  <2>. QED  BY <2>1, <2>2 DEF ListsRight, HeldNames
<1>4. CASE Resume
  BY <1>4 DEF Resume, ListsRight
<1>5. CASE StartScan
  <2>1. CASE StartKeeps /\ pass'.kind # "rebuild"
    <3>1. pass.ph = "none" /\ pass'.ph = "walk" /\ pass'.snap = settle'
      BY <1>5, StartFacts
    <3>. QED  BY <2>1, <3>1 DEF ListsRight, HeldNames, StartKeeps, tableVars
  <2>2. CASE Rebuilds
    <3>1. faults' = faults + 1 /\ faults \in Nat
      BY <2>2 DEF Rebuilds, Fault, TypeOK
    <3>. QED  BY <3>1 DEF ListsRight
  <2>. QED  BY <1>5, <2>1, <2>2, StartFacts
<1>6. ASSUME NEW n \in Names, Visit(n) PROVE ListsRight'
  BY <1>6, VisitFacts, ListsKept DEF VisitKeeps, tableVars
<1>7. ASSUME NEW n \in Names, HashFile(n) PROVE ListsRight'
  <2>1. /\ pass.ph = "hash" /\ HashKeeps /\ n \in pass.scope
        /\ HashGone(n) \/ HashDrifts(n) \/ HashReads(n)
        /\ UNCHANGED <<settle, last, held, paused, faults>>
    BY <1>7, HashFacts DEF tableVars, PhasesRight
  <2>2. \A k \in Names \ pass.scope : pass'.next[k] = pass.next[k]
    BY <2>1, PassTypes DEF HashGone, HashDrifts, HashReads
  <2>. QED  BY <2>1, <2>2, ListsKept DEF HashKeeps
<1>8. ASSUME NEW n \in Names, DropJob(n) PROVE ListsRight'
  BY <1>8, DropFacts, ListsKept DEF HashKeeps, tableVars
<1>9. CASE SkipAll
  BY <1>9, SkipFacts, ListsKept DEF TodoKept, tableVars
<1>10. CASE Cancel
  BY <1>10 DEF Cancel, ListsRight
<1>11. CASE EndWalk
  <2>1. /\ pass.ph = "walk" /\ pass'.ph = "hash" /\ WalkKept
        /\ \A n \in Names \ pass.scope : pass'.next[n] = pass.snap[n]
        /\ UNCHANGED <<settle, last, held, paused, faults>>
    BY <1>11, EndWalkFacts DEF tableVars
  <2>. QED  BY <2>1 DEF ListsRight, HeldNames, WalkKept
<1>12. CASE Confirm
  <2>1. /\ pass.ph = "hash" /\ pass'.ph = "confirmed"
        /\ pass'.kind = pass.kind /\ pass'.scope = pass.scope /\ pass'.next = pass.next
        /\ UNCHANGED <<settle, last, held, paused, faults>>
    BY <1>12, ConfirmFacts
  <2>. QED  BY <2>1 DEF ListsRight, HeldNames
<1>13. CASE Commit
  <2>1. /\ pass.ph = "confirmed" /\ pass'.ph = "scanned" /\ pass'.kind = pass.kind
        /\ last' = LastAfter /\ UNCHANGED <<held, paused, faults>>
        /\ \A n \in Names : settle'[n] = Aged(pass.next[n])
    BY <1>13, CommitFacts
  <2>2. \A n \in Names : settle'[n].n = pass.next[n].n
    BY <2>1, AgedFacts
  <2>3. ASSUME faults = 0 PROVE last' = HeldNames'
    <3>1. /\ last = HeldNames
          /\ \A n \in Names \ pass.scope : pass.next[n].n # 0 <=> settle[n].n # 0
      BY <2>1, <2>3 DEF ListsRight
    <3>2. pass.scope \subseteq Names /\ \A n \in Names : pass.next[n].n \in Nat
      BY PassTypes, SettleCounts
    <3>3. last' = (HeldNames \ pass.scope) \cup {n \in pass.scope : pass.next[n].n # 0}
      BY <2>1, <3>1, <3>2 DEF LastAfter, HeldNow
    <3>. QED  BY <2>2, <3>1, <3>2, <3>3 DEF HeldNames
  <2>. QED  BY <2>1, <2>3 DEF ListsRight
<1>14. CASE ApplyPass
  <2>1. /\ pass.ph = "scanned" /\ held' = IF pass.kind = "rebuild" THEN held ELSE last
        /\ pass'.ph = "none" /\ pass'.kind = "full" /\ UNCHANGED <<settle, last, paused, faults>>
    BY <1>14, ApplyFacts, NoPassFields
  <2>. QED  BY <2>1 DEF ListsRight, HeldNames
<1>. QED
  BY <1>1, <1>2, <1>3, <1>4, <1>5, <1>6, <1>7, <1>8, <1>9, <1>10, <1>11, <1>12, <1>13, <1>14
  DEF Next, PassStep

----------------------------------------------------------------------------
(* The stability gate.                                                     *)

LEMMA UserKeeps ==
    ASSUME UserStep
    PROVE  UNCHANGED <<row, settle, missing, last, held, pass, ungated, hasty, paused, faults>>
BY DEF UserStep, Write, Rewrite, Remove, Move, Copy, scanVars, tableVars, history

\* The writers a user leaves behind were there with the same stamp, or have
\* just written a new one.
LEMMA UserWriters ==
    ASSUME TypeOK, WritersRight, SettleSeconds > 0, UserStep
    PROVE  /\ WritersRight'
           /\ \A m \in Names : disk'[m].s \in Stamps /\ idle'[m] >= 0 =>
                  \E k \in Names : disk[k].s = disk'[m].s /\ idle[k] = idle'[m]
           /\ \A c \in Stamps : c \in partial' => c \in partial
<1>1. PICK n \in Names : \/ \E done \in BOOLEAN : Write(n, done)
                         \/ Rewrite(n) \/ Remove(n)
                         \/ \E m \in Names : Move(n, m) \/ Copy(n, m)
  BY DEF UserStep
<1>2. /\ disk \in [Names -> Files] /\ idle \in [Names -> -1..SettleSeconds]
      /\ \A m \in Names : disk[m].s \in Stamps /\ disk[m].c \in Stamps
      /\ newest \in Nat /\ newest + 1 \notin Stamps /\ partial \subseteq Stamps /\ 0 \notin partial
      /\ NoFile.s = 0 /\ NoFile.c = 0
  BY FileFacts, ZeroStamp DEF TypeOK, Stamps, NoFile
<1>3. ASSUME NEW done \in BOOLEAN, Write(n, done)
      PROVE  /\ WritersRight'
             /\ \A m \in Names : disk'[m].s \in Stamps /\ idle'[m] >= 0 =>
                    \E k \in Names : disk[k].s = disk'[m].s /\ idle[k] = idle'[m]
             /\ \A c \in Stamps : c \in partial' => c \in partial
  <2> DEFINE f == [s |-> newest + 1, c |-> newest + 1]
  <2>1. /\ disk' = [disk EXCEPT ![n] = f]
        /\ idle' = [idle EXCEPT ![n] = IF done THEN -1 ELSE 0]
        /\ partial' = IF done THEN partial ELSE partial \cup {newest + 1}
    BY <1>3 DEF Write
  <2>2. f.s = newest + 1 /\ f.c = newest + 1 /\ f # NoFile
    BY <1>2
  <2> HIDE DEF f
  <2>3. /\ disk'[n] = f /\ idle'[n] = IF done THEN -1 ELSE 0
        /\ \A m \in Names \ {n} : disk'[m] = disk[m] /\ idle'[m] = idle[m]
    BY <1>2, <2>1
  <2>. QED  BY <1>2, <2>1, <2>2, <2>3 DEF WritersRight
<1>4. ASSUME Rewrite(n)
      PROVE  /\ WritersRight'
             /\ \A m \in Names : disk'[m].s \in Stamps /\ idle'[m] >= 0 =>
                    \E k \in Names : disk[k].s = disk'[m].s /\ idle[k] = idle'[m]
             /\ \A c \in Stamps : c \in partial' => c \in partial
  <2>1. /\ disk[n] # NoFile /\ idle[n] < 0 /\ idle' = idle /\ partial' = partial
        /\ disk' = [disk EXCEPT ![n] = [disk[n] EXCEPT !.c = newest + 1]]
    BY <1>4 DEF Rewrite
  <2>2. /\ disk[n] \in Files
        /\ [disk[n] EXCEPT !.c = newest + 1].s = disk[n].s
        /\ [disk[n] EXCEPT !.c = newest + 1].c = newest + 1
    BY <1>2 DEF Files
  <2>3. /\ disk'[n].s = disk[n].s /\ disk'[n].c = newest + 1
        /\ \A m \in Names \ {n} : disk'[m] = disk[m]
    BY <1>2, <2>1, <2>2
  <2>. QED  BY <1>2, <2>1, <2>3 DEF WritersRight
<1>5. ASSUME Remove(n)
      PROVE  /\ WritersRight'
             /\ \A m \in Names : disk'[m].s \in Stamps /\ idle'[m] >= 0 =>
                    \E k \in Names : disk[k].s = disk'[m].s /\ idle[k] = idle'[m]
             /\ \A c \in Stamps : c \in partial' => c \in partial
  <2>1. /\ idle[n] < 0 /\ idle' = idle /\ partial' = partial
        /\ disk'[n] = NoFile /\ \A m \in Names \ {n} : disk'[m] = disk[m]
    BY <1>2, <1>5 DEF Remove
  <2>. QED  BY <1>2, <2>1 DEF WritersRight
<1>6. ASSUME NEW m \in Names, Move(n, m)
      PROVE  /\ WritersRight'
             /\ \A k \in Names : disk'[k].s \in Stamps /\ idle'[k] >= 0 =>
                    \E j \in Names : disk[j].s = disk'[k].s /\ idle[j] = idle'[k]
             /\ \A c \in Stamps : c \in partial' => c \in partial
  <2>1. /\ n # m /\ disk[n] # NoFile /\ partial' = partial
        /\ disk'[m] = disk[n] /\ disk'[n] = NoFile /\ idle'[m] = idle[n] /\ idle'[n] = -1
        /\ \A k \in Names \ {n, m} : disk'[k] = disk[k] /\ idle'[k] = idle[k]
    BY <1>2, <1>6 DEF Move
  <2>. QED  BY <1>2, <2>1 DEF WritersRight
<1>7. ASSUME NEW m \in Names, Copy(n, m)
      PROVE  /\ WritersRight'
             /\ \A k \in Names : disk'[k].s \in Stamps /\ idle'[k] >= 0 =>
                    \E j \in Names : disk[j].s = disk'[k].s /\ idle[j] = idle'[k]
             /\ \A c \in Stamps : c \in partial' => c \in partial
  <2>1. /\ n # m /\ disk[n] # NoFile /\ disk[m] = NoFile /\ idle[n] < 0
        /\ partial' = partial /\ idle' = idle
        /\ disk'[m] = disk[n] /\ \A k \in Names \ {m} : disk'[k] = disk[k]
    BY <1>2, <1>7 DEF Copy
  <2>. QED  BY <1>2, <2>1 DEF WritersRight
<1>. QED  BY <1>1, <1>3, <1>4, <1>5, <1>6, <1>7

\* The writers of after a step that are not the writers of before.
WritersKept ==
    \A m \in Names : disk'[m].s \in Stamps /\ idle'[m] >= 0 =>
        \E k \in Names : disk[k].s = disk'[m].s /\ idle[k] = idle'[m]

LEMMA RunTypes ==
    ASSUME TypeOK, NEW n \in Names
    PROVE  /\ settle[n] \in Settles /\ pass.snap[n] \in Settles /\ pass.next[n] \in Settles
           /\ settle[n].s \in Stamps /\ pass.snap[n].s \in Stamps /\ pass.next[n].s \in Stamps
           /\ settle[n].age \in Nat /\ pass.snap[n].age \in Nat /\ pass.next[n].age \in Nat
           /\ pass.jobs[n].s \in Stamps /\ pass.jobs[n] \in Jobs /\ pass.el \in Nat
           /\ idle[n] \in Int /\ SettleSeconds \in Nat /\ SettleScans \in Nat
BY PassTypes DEF TypeOK, Settles, Jobs

\* The steps in which only users act.
LEMMA GateUser ==
    ASSUME TypeOK, GateInv, SettleSeconds > 0, UserStep
    PROVE  GateInv'
<1>1. /\ WritersRight' /\ WritersKept /\ \A c \in Stamps : c \in partial' => c \in partial
  BY UserWriters DEF GateInv, WritersKept
<1>2. UNCHANGED <<row, settle, pass, ungated, hasty>>
  BY UserKeeps
<1>3. RunsRight'
  <2>1. ASSUME NEW n \in Names, NEW m \in Names, idle'[m] >= 0, disk'[m].s \in Stamps
        PROVE  \E k \in Names : disk[k].s = disk'[m].s /\ idle[k] = idle'[m] /\ idle[k] >= 0
    <3>1. PICK k \in Names : disk[k].s = disk'[m].s /\ idle[k] = idle'[m]
      BY <1>1, <2>1 DEF WritersKept
    <3>2. idle[k] >= 0
      BY <2>1, <3>1
    <3>. QED  BY <3>1, <3>2
  <2>. QED  BY <1>2, <2>1, RunTypes DEF GateInv, RunsRight, OlderWrite
<1>4. JobsRight'
  <2>1. ASSUME NEW n \in Names, NEW m \in Names, Gated, pass.jobs[n] # NoJob,
               ~pass.jobs[n].early, disk'[m].s = pass.jobs[n].s
        PROVE  idle'[m] < 0
    <3>1. SUFFICES ASSUME ~(idle'[m] < 0) PROVE FALSE
      OBVIOUS
    <3>2. idle'[m] \in Int
      BY UserTypes, RunTypes DEF TypeOK
    <3>3. PICK k \in Names : disk[k].s = disk'[m].s /\ idle[k] = idle'[m]
      <4>1. idle'[m] >= 0
        BY <3>1, <3>2
      <4>2. disk'[m].s \in Stamps
        BY <2>1, RunTypes
      <4>. QED  BY <1>1, <4>1, <4>2 DEF WritersKept
    <3>. QED  BY <2>1, <3>1, <3>2, <3>3 DEF GateInv, JobsRight
  <2>2. Gated' = Gated
    BY <1>2 DEF Gated
  <2>. QED  BY <1>2, <2>1, <2>2 DEF JobsRight
<1>5. ContentsRight'
  <2>1. /\ \A n \in Names : row[n].c \in Stamps /\ pass.found[n].c \in Stamps
        /\ \A r \in pass.renames : r.file.c \in Stamps
    BY FileFacts, PassTypes DEF Founds, Renames, Files
  <2>. QED  BY <1>1, <1>2, <2>1 DEF GateInv, ContentsRight, Clean
<1>. QED  BY <1>1, <1>3, <1>4, <1>5 DEF GateInv

LEMMA GateTick ==
    ASSUME TypeOK, GateInv, Tick
    PROVE  GateInv'
<1>1. /\ TodoKept /\ pass'.el <= pass.el + 1 /\ pass'.el \in Nat
      /\ UNCHANGED <<disk, row, partial, ungated, hasty>>
      /\ \A n \in Names : /\ idle'[n] = IF idle[n] < 0 THEN -1 ELSE idle[n] + 1
                          /\ idle'[n] < SettleSeconds
                          /\ idle[n] \in Int
      /\ \A n \in Names : /\ settle'[n].n = settle[n].n /\ settle'[n].s = settle[n].s
                          /\ settle'[n].early = settle[n].early
                          /\ settle'[n].age <= settle[n].age + 1 /\ settle'[n].age \in Int
  <2>1. pass'.el \in Nat /\ \A n \in Names : settle'[n].age \in Int
    BY TickFacts DEF Passes, Settles
  <2>. QED  BY <2>1, TickFacts, RunTypes DEF history
<1>2. WritersRight'
  BY <1>1 DEF GateInv, WritersRight
<1>3. ASSUME NEW n \in Names
      PROVE  /\ OlderWrite(settle[n], settle[n].age)'
             /\ OlderWrite(pass.snap[n], pass.snap[n].age + pass.el)'
             /\ OlderWrite(pass.next[n], pass.next[n].age + pass.el)'
  <2>1. /\ OlderWrite(settle[n], settle[n].age)
        /\ OlderWrite(pass.snap[n], pass.snap[n].age + pass.el)
        /\ OlderWrite(pass.next[n], pass.next[n].age + pass.el)
    BY DEF GateInv, RunsRight
  <2>2. OlderWrite(settle[n], settle[n].age)'
    BY <1>1, <2>1, RunTypes DEF OlderWrite
  <2>3. /\ OlderWrite(pass.snap[n], pass.snap[n].age + pass.el)'
        /\ OlderWrite(pass.next[n], pass.next[n].age + pass.el)'
    BY <1>1, <2>1, RunTypes DEF OlderWrite, TodoKept
  <2>. QED  BY <2>2, <2>3
<1>4. JobsRight'
  BY <1>1 DEF GateInv, JobsRight, Gated, TodoKept
<1>5. ContentsRight'
  BY <1>1 DEF GateInv, ContentsRight, Clean, TodoKept
<1>. QED  BY <1>2, <1>3, <1>4, <1>5 DEF GateInv, RunsRight

\* A visit continues a run or starts one, and releases no file with a writer.
LEMMA GateVisit ==
    ASSUME TypeOK, GateInv, NEW n \in Names, Visit(n)
    PROVE  GateInv'
<1>1. /\ VisitKeeps
      /\ VisitPasses(n) \/ VisitHolds(n) \/ VisitReleases(n)
      /\ UNCHANGED <<disk, idle, row, settle, partial, ungated, hasty>>
  BY VisitFacts DEF tableVars, userVars, history
<1>2. Gated' = Gated
  BY <1>1 DEF VisitKeeps, Gated
<1>3. ASSUME disk[n] # NoFile
      PROVE  OlderWrite(Run(n), Run(n).age + pass.el)
  <2>1. OlderWrite(pass.snap[n], pass.snap[n].age + pass.el)
    BY DEF GateInv, RunsRight
  <2>2. /\ Run(n).s = disk[n].s
        /\ \/ /\ pass.snap[n].n # 0 /\ pass.snap[n].s = disk[n].s
              /\ Run(n).age = pass.snap[n].age /\ Run(n).early = pass.snap[n].early
           \/ Run(n).age = 0 /\ (~Run(n).early => pass.el = 0)
    BY <1>3, RunFacts
  <2>3. CASE /\ pass.snap[n].n # 0 /\ pass.snap[n].s = disk[n].s
             /\ Run(n).age = pass.snap[n].age /\ Run(n).early = pass.snap[n].early
    BY <2>1, <2>2, <2>3 DEF OlderWrite
  <2>4. CASE Run(n).age = 0 /\ (~Run(n).early => pass.el = 0)
    <3>1. ~Run(n).early => Run(n).age + pass.el = 0
      BY <2>4
    <3>. QED  BY <3>1 DEF OlderWrite
  <2>. QED  BY <2>2, <2>3, <2>4
<1>4. ASSUME NEW k \in Names
      PROVE  OlderWrite(pass'.next[k], pass'.next[k].age + pass.el)
  <2>1. OlderWrite(pass.next[k], pass.next[k].age + pass.el)
    BY DEF GateInv, RunsRight
  <2>2. \/ pass'.next[k] = pass.next[k]
        \/ disk[n] # NoFile /\ pass'.next[k] = Run(n)
    BY <1>1, PassTypes DEF VisitPasses, VisitHolds, VisitReleases
  <2>. QED  BY <1>3, <2>1, <2>2
<1>5. RunsRight'
  BY <1>1, <1>4 DEF GateInv, RunsRight, OlderWrite, VisitKeeps
<1>6. ASSUME Gated, VisitReleases(n), ~VisitJob(n).early,
             NEW m \in Names, disk[m].s = VisitJob(n).s
      PROVE  idle[m] < 0
  <2>1. disk[n] # NoFile /\ ~Holds(Run(n))
    BY <1>6 DEF VisitReleases
  <2>2. /\ Run(n).early = VisitJob(n).early /\ Run(n).s = VisitJob(n).s
        /\ Run(n).n # 0 /\ Run(n).age \in Nat
    <3>1. Run(n) \in Settles /\ Run(n).n \in Nat \ {0} /\ Run(n).s = disk[n].s
      BY <2>1, RunFacts
    <3>2. Run(n).age \in Nat
      BY <3>1 DEF Settles
    <3>3. VisitJob(n).early = Run(n).early /\ VisitJob(n).s = disk[n].s
      BY DEF VisitJob
    <3>. QED  BY <3>1, <3>2, <3>3
  <2>3. Run(n).age >= SettleSeconds
    BY <2>1, <2>2 DEF Holds
  <2>4. OlderWrite(Run(n), Run(n).age + pass.el) /\ idle[m] < SettleSeconds
    BY <1>3, <2>1 DEF GateInv, WritersRight
  <2>. QED  BY <1>6, <2>2, <2>3, <2>4, RunTypes DEF OlderWrite
<1>7. JobsRight'
  <2>1. ASSUME NEW k \in Names
        PROVE  pass'.jobs[k] = pass.jobs[k] \/ (VisitReleases(n) /\ pass'.jobs[k] = VisitJob(n))
    BY <1>1, PassTypes DEF VisitPasses, VisitHolds, VisitReleases
  <2>. QED  BY <1>1, <1>2, <1>6, <2>1 DEF GateInv, JobsRight
<1>8. WritersRight' /\ ContentsRight'
  BY <1>1 DEF GateInv, WritersRight, ContentsRight, Clean, VisitKeeps
<1>. QED  BY <1>5, <1>7, <1>8 DEF GateInv

\* What is read is nobody's unfinished write, or one of the exceptions.
LEMMA GateHash ==
    ASSUME TypeOK, GateInv, NEW n \in Names, HashFile(n)
    PROVE  GateInv'
<1>1. /\ HashKeeps /\ pass.jobs[n] # NoJob
      /\ pass'.jobs = [pass.jobs EXCEPT ![n] = NoJob]
      /\ HashGone(n) \/ HashDrifts(n) \/ HashReads(n)
      /\ ungated' = IF HashReads(n) /\ ~Gated THEN ungated \cup {disk[n].c} ELSE ungated
      /\ hasty' = IF HashReads(n) /\ Gated /\ pass.jobs[n].early
                  THEN hasty \cup {disk[n].c} ELSE hasty
      /\ UNCHANGED <<disk, idle, row, settle, partial>>
  BY HashFacts DEF tableVars, userVars
<1>2. ungated \subseteq ungated' /\ hasty \subseteq hasty'
  BY <1>1
<1>3. ASSUME HashReads(n), disk[n].c \in partial PROVE disk[n].c \in ungated' \cup hasty'
  <2>1. disk[n].s = pass.jobs[n].s /\ idle[n] >= 0
    BY <1>3 DEF HashReads, GateInv, WritersRight
  <2>2. Gated => pass.jobs[n].early
    BY <1>1, <2>1, RunTypes DEF GateInv, JobsRight
  <2>. QED  BY <1>1, <1>3, <2>2
<1>4. ContentsRight'
  <2>1. ASSUME NEW k \in Names
        PROVE  pass'.found[k].c = pass.found[k].c \/ (HashReads(n) /\ pass'.found[k].c = disk[n].c)
    BY <1>1, PassTypes DEF HashGone, HashDrifts, HashReads
  <2>2. ASSUME NEW k \in Names PROVE Clean(row[k].c)' /\ Clean(pass.found[k].c)'
    BY <1>1, <1>2, <1>3, <2>1 DEF GateInv, ContentsRight, Clean
  <2>3. \A r \in pass.renames : Clean(r.file.c)'
    BY <1>1, <1>2 DEF GateInv, ContentsRight, Clean
  <2>. QED  BY <1>1, <2>2, <2>3 DEF ContentsRight, Clean, HashKeeps
<1>5. RunsRight'
  <2>1. DriftRun(n).early
    BY DEF DriftRun
  <2>2. ASSUME NEW k \in Names
        PROVE  pass'.next[k] = pass.next[k] \/ pass'.next[k] = DriftRun(n)
    BY <1>1, PassTypes DEF HashGone, HashDrifts, HashReads
  <2>. QED  BY <1>1, <2>1, <2>2 DEF GateInv, RunsRight, OlderWrite, HashKeeps
<1>6. JobsRight'
  <2>1. \A k \in Names : pass'.jobs[k] = NoJob \/ pass'.jobs[k] = pass.jobs[k]
    BY <1>1, PassTypes
  <2>. QED  BY <1>1, <2>1 DEF GateInv, JobsRight, Gated, HashKeeps
<1>7. WritersRight'
  BY <1>1 DEF GateInv, WritersRight
<1>. QED  BY <1>4, <1>5, <1>6, <1>7 DEF GateInv

\* The steps that only hand runs, jobs and contents on.
LEMMA GateCarries ==
    ASSUME GateInv, UNCHANGED <<disk, idle, partial, ungated, hasty>>, RunsRight', JobsRight',
           ContentsRight'
    PROVE  GateInv'
BY DEF GateInv, WritersRight

LEMMA GateStep ==
    ASSUME TypeOK, GateInv, SettleSeconds > 0, [Next]_vars
    PROVE  GateInv'
<1>0. \A age : OlderWrite(NoSettle, age)' /\ Outside \subseteq Names
  BY NoKinds DEF OlderWrite
<1>1. CASE UserStep
  BY <1>1, GateUser
<1>2. CASE Tick
  BY <1>2, GateTick
<1>3. CASE UNCHANGED <<settle, row, pass, userVars, history>>
  BY <1>3 DEF GateInv, WritersRight, RunsRight, OlderWrite, JobsRight, ContentsRight, Clean,
     Gated, userVars, history
<1>4. CASE Restart \/ Cancel
  <2>1. pass' = NoPass /\ UNCHANGED <<settle, row, disk, idle, partial, ungated, hasty>>
    BY <1>4 DEF Restart, Cancel, tableVars, userVars, history
  <2>2. RunsRight'
    BY <2>1, NoPassFields, NoKinds DEF GateInv, RunsRight, OlderWrite
  <2>3. JobsRight'
    BY <2>1, NoPassFields DEF JobsRight
  <2>4. ContentsRight'
    <3>1. 0 \notin partial
      BY DEF TypeOK
    <3>. QED  BY <2>1, <3>1, NoPassFields, NoKinds DEF GateInv, ContentsRight, Clean
  <2>. QED  BY <2>1, <2>2, <2>3, <2>4, GateCarries
<1>5. CASE StartScan
  <2>1. /\ pass'.snap = settle' /\ pass'.el = 0
        /\ \A n \in Names : /\ pass'.next[n] = NoSettle /\ pass'.jobs[n] = NoJob
                            /\ pass'.found[n] = NoFound
        /\ pass'.renames = {}
        /\ UNCHANGED <<disk, idle, partial, ungated, hasty>>
    BY <1>5, StartFacts, NoPassFields DEF StartKeeps, Rebuilds, userVars, history
  <2>2. \A n \in Names : /\ settle'[n] = settle[n] \/ settle'[n] = NoSettle
                         /\ row'[n] = row[n] \/ row'[n] = NoRow
    BY <1>5, StartFacts DEF StartKeeps, Rebuilds, tableVars
  <2>3. ASSUME NEW n \in Names
        PROVE  /\ OlderWrite(settle[n], settle[n].age)'
               /\ OlderWrite(pass.snap[n], pass.snap[n].age + pass.el)'
               /\ OlderWrite(pass.next[n], pass.next[n].age + pass.el)'
    <3>1. OlderWrite(settle[n], settle[n].age) /\ settle[n].age \in Nat
      BY RunTypes DEF GateInv, RunsRight
    <3>2. pass'.snap[n] = settle'[n] /\ pass'.next[n].n = 0
      BY <2>1, NoKinds
    <3>3. settle'[n].n # 0 => settle'[n] = settle[n]
      BY <2>2, NoKinds
    <3>4. settle'[n].n # 0 => settle'[n].age + pass'.el = settle'[n].age
      BY <2>1, <3>1, <3>3
    <3>5. disk' = disk /\ idle' = idle
      BY <2>1
    <3>6. OlderWrite(settle[n], settle[n].age)'
      BY <3>1, <3>3, <3>5 DEF OlderWrite
    <3>7. OlderWrite(pass.snap[n], pass.snap[n].age + pass.el)'
      BY <3>1, <3>2, <3>3, <3>4, <3>5 DEF OlderWrite
    <3>. QED  BY <3>2, <3>6, <3>7 DEF OlderWrite
  <2>4. RunsRight'
    BY <2>3 DEF RunsRight
  <2>5. JobsRight'
    BY <2>1 DEF JobsRight
  <2>6. ContentsRight'
    <3>1. 0 \notin partial
      BY DEF TypeOK
    <3>. QED  BY <2>1, <2>2, <3>1, NoKinds DEF GateInv, ContentsRight, Clean
  <2>. QED  BY <2>1, <2>4, <2>5, <2>6, GateCarries
<1>6. ASSUME NEW n \in Names, Visit(n) PROVE GateInv'
  BY <1>6, GateVisit
<1>7. ASSUME NEW n \in Names, HashFile(n) PROVE GateInv'
  BY <1>7, GateHash
<1>8. ASSUME NEW n \in Names, DropJob(n) \/ VisitHidden(n) \/ SkipAll PROVE GateInv'
  <2>1. /\ pass'.kind = pass.kind /\ pass'.snap = pass.snap /\ pass'.next = pass.next
        /\ pass'.el = pass.el /\ pass'.found = pass.found /\ pass'.renames = pass.renames
        /\ \A k \in Names : pass'.jobs[k] = NoJob \/ pass'.jobs[k] = pass.jobs[k]
        /\ UNCHANGED <<settle, row, disk, idle, partial, ungated, hasty>>
    <3>1. CASE DropJob(n)
      <4>1. /\ HashKeeps /\ pass'.next = pass.next /\ pass'.found = pass.found
            /\ pass'.jobs = [pass.jobs EXCEPT ![n] = NoJob]
            /\ UNCHANGED <<settle, row, disk, idle, partial, ungated, hasty>>
        BY <3>1, DropFacts DEF tableVars, userVars, history
      <4>2. \A k \in Names : pass'.jobs[k] = NoJob \/ pass'.jobs[k] = pass.jobs[k]
        BY <4>1, PassTypes
      <4>. QED  BY <4>1, <4>2 DEF HashKeeps
    <3>2. CASE VisitHidden(n) \/ SkipAll
      <4>1. /\ TodoKept /\ pass'.el = pass.el
            /\ UNCHANGED <<settle, row, disk, idle, partial, ungated, hasty>>
        BY <3>2, HiddenFacts, SkipFacts DEF tableVars, userVars, history
      <4>. QED  BY <4>1 DEF TodoKept
    <3>. QED  BY <1>8, <3>1, <3>2
  <2>2. RunsRight'
    BY <2>1 DEF GateInv, RunsRight, OlderWrite
  <2>3. JobsRight'
    BY <2>1 DEF GateInv, JobsRight, Gated
  <2>4. ContentsRight'
    BY <2>1 DEF GateInv, ContentsRight, Clean
  <2>. QED  BY <2>1, <2>2, <2>3, <2>4, GateCarries
<1>9. CASE EndWalk
  <2>1. /\ WalkKept
        /\ pass'.renames = {StampRename(p) : p \in cheapRenames}
        /\ \A n \in Names : pass'.next[n] = pass.next[n] \/ pass'.next[n] = pass.snap[n]
        /\ \A n \in Names : pass'.jobs[n] = NoJob \/ pass'.jobs[n] = pass.jobs[n]
        /\ UNCHANGED <<settle, row, disk, idle, partial, ungated, hasty>>
    BY <1>9, EndWalkFacts DEF tableVars, userVars, history
  <2>2. RunsRight'
    BY <2>1 DEF GateInv, RunsRight, OlderWrite, WalkKept
  <2>3. JobsRight'
    BY <2>1 DEF GateInv, JobsRight, Gated, WalkKept
  <2>4. ASSUME NEW p \in cheapRenames PROVE Clean(StampRename(p).file.c)
    BY CheapFacts DEF GateInv, ContentsRight, StampRename
  <2>5. ContentsRight'
    BY <2>1, <2>4 DEF GateInv, ContentsRight, Clean, WalkKept
  <2>. QED  BY <2>1, <2>2, <2>3, <2>5, GateCarries
<1>10. CASE Confirm
  <2>1. /\ pass'.next = pass.next /\ pass'.el = pass.el /\ pass'.found = pass.found
        /\ pass'.renames = ConfirmedRenames
        /\ \A n \in Names : pass'.snap[n] = NoSettle /\ pass'.jobs[n] = NoJob
        /\ UNCHANGED <<settle, row, disk, idle, partial, ungated, hasty>>
    BY <1>10, ConfirmFacts, NoPassFields DEF userVars, history
  <2>2. RunsRight'
    BY <2>1, NoKinds DEF GateInv, RunsRight, OlderWrite
  <2>3. JobsRight'
    BY <2>1 DEF JobsRight
  <2>4. ASSUME NEW r \in ConfirmedRenames PROVE Clean(r.file.c)
    <3>1. CASE r \in ContentRenames
      <4>1. r.to \in Names /\ r.file.c = pass.found[r.to].c
        <5>1. r.to \in AddedFiles /\ r.file = [s |-> pass.found[r.to].s, c |-> pass.found[r.to].c]
          BY <3>1, ContentRenameFacts
        <5>. QED  BY <5>1 DEF AddedFiles
      <4>. QED  BY <4>1 DEF GateInv, ContentsRight
    <3>2. CASE r \in GateRenames
      <4>1. r.from \in Names /\ r.file.c = row[r.from].c
        <5>1. r \in Renames /\ r.file = [s |-> row[r.from].s, c |-> row[r.from].c]
          BY <3>2, GateRenameFacts
        <5>. QED  BY <5>1 DEF Renames
      <4>. QED  BY <4>1 DEF GateInv, ContentsRight
    <3>. QED  BY <2>4, <3>1, <3>2 DEF ConfirmedRenames, GateInv, ContentsRight
  <2>5. ContentsRight'
    BY <2>1, <2>4 DEF GateInv, ContentsRight, Clean
  <2>. QED  BY <2>1, <2>2, <2>3, <2>5, GateCarries
<1>11. CASE Commit
  <2>1. /\ pass'.found = pass.found /\ pass'.renames = pass.renames
        /\ \A n \in Names : /\ pass'.snap[n] = NoSettle /\ pass'.jobs[n] = NoJob
                            /\ pass'.next[n] = NoSettle
        /\ \A n \in Names : settle'[n] = Aged(pass.next[n])
        /\ UNCHANGED <<row, disk, idle, partial, ungated, hasty>>
    BY <1>11, CommitFacts, NoPassFields DEF userVars, history
  <2>2. ASSUME NEW n \in Names PROVE OlderWrite(Aged(pass.next[n]), Aged(pass.next[n]).age)
    <3>1. OlderWrite(pass.next[n], pass.next[n].age + pass.el)
      BY DEF GateInv, RunsRight
    <3>2. Aged(pass.next[n]).age \in Int
      BY AgedFacts DEF Settles
    <3>3. /\ Aged(pass.next[n]).n = pass.next[n].n /\ Aged(pass.next[n]).s = pass.next[n].s
          /\ Aged(pass.next[n]).early = pass.next[n].early
          /\ Aged(pass.next[n]).age <= pass.next[n].age + pass.el
      BY AgedFacts
    <3>4. \A m \in Names : idle[m] \in Int
      BY RunTypes
    <3>5. pass.next[n].age \in Nat /\ pass.el \in Nat
      BY RunTypes
    <3>. QED  BY <3>1, <3>2, <3>3, <3>4, <3>5 DEF OlderWrite
  <2>3. RunsRight'
    <3>1. ASSUME NEW n \in Names
          PROVE  /\ settle'[n] = Aged(pass.next[n])
                 /\ pass'.snap[n].n = 0 /\ pass'.next[n].n = 0
      BY <2>1, NoKinds
    <3>2. disk' = disk /\ idle' = idle
      BY <2>1
    <3>3. ASSUME NEW n \in Names
          PROVE  /\ OlderWrite(settle[n], settle[n].age)'
                 /\ OlderWrite(pass.snap[n], pass.snap[n].age + pass.el)'
                 /\ OlderWrite(pass.next[n], pass.next[n].age + pass.el)'
      BY <2>2, <3>1, <3>2 DEF OlderWrite
    <3>. QED  BY <3>3 DEF RunsRight
  <2>4. JobsRight'
    BY <2>1 DEF JobsRight
  <2>5. ContentsRight'
    BY <2>1 DEF GateInv, ContentsRight, Clean
  <2>. QED  BY <2>1, <2>3, <2>4, <2>5, GateCarries
<1>12. CASE ApplyPass
  <2>1. /\ pass' = NoPass /\ UNCHANGED <<settle, disk, idle, partial, ungated, hasty>>
    BY <1>12, ApplyFacts DEF userVars, history
  <2>2. RunsRight'
    BY <2>1, NoPassFields, NoKinds DEF GateInv, RunsRight, OlderWrite
  <2>3. JobsRight'
    BY <2>1, NoPassFields DEF JobsRight
  <2>4. ASSUME NEW n \in Names PROVE Clean(row'[n].c)
    <3>1. 0 \notin partial
      BY DEF TypeOK
    <3>2. \/ row'[n] = Dead
          \/ \E r \in pass.renames : row'[n] = LiveRow(r.file)
          \/ row'[n] = LiveRow(pass.found[n])
          \/ row'[n] = row[n]
      BY <1>12, ApplyFacts
    <3>. QED  BY <3>1, <3>2, NoKinds DEF GateInv, ContentsRight, Clean
  <2>5. ContentsRight'
    <3>1. 0 \notin partial
      BY DEF TypeOK
    <3>. QED  BY <2>1, <2>4, <3>1, NoPassFields, NoKinds DEF ContentsRight, Clean
  <2>. QED  BY <2>1, <2>2, <2>3, <2>5, GateCarries
<1>13. Pause \/ Resume \/ UNCHANGED vars => UNCHANGED <<settle, row, pass, userVars, history>>
  BY DEF Pause, Resume, vars, scanVars, tableVars
<1>. QED
  BY <1>1, <1>2, <1>3, <1>4, <1>5, <1>6, <1>7, <1>8, <1>9, <1>10, <1>11, <1>12, <1>13
  DEF Next, PassStep

----------------------------------------------------------------------------
(* Renames and deferred deletions.                                         *)

LEMMA RenameKept ==
    ASSUME TypeOK, RenameInv, UNCHANGED row, pass'.ph = pass.ph,
           pass'.renames = pass.renames, pass'.deletes = pass.deletes,
           pass.ph = "hash" => \A n \in Names :
               /\ pass'.jobs[n] = pass.jobs[n] \/ pass'.jobs[n] = NoJob
               /\ pass'.found[n] = pass.found[n] \/ pass.jobs[n] # NoJob,
           pass.ph = "confirmed" => pass'.next = pass.next,
           pass.ph = "scanned" => \A n \in Names : settle'[n].s = settle[n].s
    PROVE  RenameInv'
<1>1. StampsRight'
  <2>1. \A r \in pass.renames : r.to \in Names
    BY PassTypes DEF Renames
  <2>. QED  BY <2>1 DEF RenameInv, StampsRight, Live
<1>2. RenamesRight'
  BY DEF RenameInv, RenamesRight
<1>3. DeferralRight'
  BY DEF RenameInv, DeferralRight
<1>. QED  BY <1>1, <1>2, <1>3 DEF RenameInv

LEMMA StampsFound ==
    ASSUME TypeOK, PhasesRight, EndWalk
    PROVE  StampsRight'
<1>1. /\ pass.ph = "walk" /\ pass'.renames = {StampRename(p) : p \in cheapRenames}
      /\ pass'.jobs = [n \in Names |-> IF \E p \in cheapRenames : p[2] = n
                                       THEN NoJob ELSE pass.jobs[n]]
      /\ pass'.found = pass.found /\ row' = row
  BY EndWalkFacts DEF WalkKept, tableVars
<1>2. ASSUME NEW p \in cheapRenames
      PROVE  /\ p[1] \in Names /\ p[2] \in Names /\ Live(p[1]) /\ p[1] \in Inside
             /\ row[p[2]].st = "none" /\ p[2] \in Inside
             /\ pass'.jobs[p[2]] = NoJob /\ pass'.found[p[2]] = NoFound
             /\ \A q \in cheapRenames : q[2] = p[2] => q[1] = p[1]
  <2>1. /\ p \in StampPairs /\ p[1] \in Vanished /\ p[2] \in AddedJobs
        /\ p[1] \in Names /\ p[2] \in Names
    BY CheapFacts
  <2>2. Live(p[1]) /\ p[1] \in Inside
    BY <2>1 DEF Vanished
  <2>3. /\ pass.jobs[p[2]].kind = "added" /\ pass.jobs[p[2]] # NoJob
    BY <2>1, NoKinds DEF AddedJobs
  <2>4. row[p[2]].st = "none" /\ p[2] \in Inside /\ pass.found[p[2]] = NoFound
    BY <1>1, <2>1, <2>3 DEF PhasesRight
  <2>5. pass'.jobs[p[2]] = NoJob
    BY <1>1, <2>1
  <2>6. ASSUME NEW q \in cheapRenames, q[2] = p[2] PROVE q[1] = p[1]
    <3>1. q \in StampPairs /\ q[1] \in Vanished
      BY CheapFacts
    <3>2. row[q[1]].s = row[p[1]].s
      BY <2>1, <2>6, <3>1 DEF StampPairs
    <3>. QED  BY <2>1, <3>1, <3>2 DEF StampPairs
  <2>. QED  BY <1>1, <2>1, <2>2, <2>4, <2>5, <2>6
<1>3. \A p \in cheapRenames : /\ StampRename(p).from = p[1] /\ StampRename(p).to = p[2]
                              /\ StampRename(p).file.c = row[p[1]].c
                              /\ \A q \in cheapRenames : q[1] = p[1] =>
                                     StampRename(q).file = StampRename(p).file
  BY DEF StampRename
<1>4. ASSUME NEW r \in pass'.renames
      PROVE  /\ Live(r.from)' /\ r.from \in Inside /\ r.file.c = row'[r.from].c
             /\ row'[r.to].st = "none" /\ r.to \in Inside
             /\ pass'.jobs[r.to] = NoJob /\ pass'.found[r.to] = NoFound
             /\ \A q \in pass'.renames : q.to = r.to => q.file = r.file
  <2>1. PICK p \in cheapRenames : r = StampRename(p)
    BY <1>1
  <2>2. \A q \in pass'.renames : \E o \in cheapRenames : q = StampRename(o)
    BY <1>1
  <2>. QED  BY <1>1, <1>2, <1>3, <2>1, <2>2 DEF Live
<1>. QED  BY <1>4 DEF StampsRight

\* Every way to pair two paths agrees on the content, and what one way takes
\* the others leave alone.
LEMMA ConfirmedAgree ==
    ASSUME TypeOK, PhasesRight, StampsRight, pass.ph = "hash", NEW r \in ConfirmedRenames
    PROVE  /\ row[r.from].c = r.file.c /\ Live(r.from) /\ r.from \in Names /\ r.to \in Names
           /\ ~Live(r.to) \/ r.to \in Outside
           /\ \A q \in ConfirmedRenames : q.from # r.to /\ (q.to = r.to => q.file.c = r.file.c)
<1>1. ASSUME NEW q \in ConfirmedRenames
      PROVE  /\ q \in Renames /\ Live(q.from) /\ row[q.from].c = q.file.c
             /\ \/ q \in pass.renames \/ q \in ContentRenames \/ q \in GateRenames
             /\ q \in pass.renames \/ q \in GateRenames => q.from \in Inside
             /\ q.from \in Inside \/ disk[q.from] = NoFile
             /\ q \in pass.renames \/ q \in ContentRenames =>
                    row[q.to].st = "none" /\ q.to \in Inside
             /\ q \in pass.renames => pass.found[q.to].kind = "none"
             /\ q \in ContentRenames => /\ pass.found[q.to].kind = "added"
                                        /\ q.file.c = pass.found[q.to].c
             /\ q \in GateRenames => /\ q.to \in Outside /\ pass.cand[q.to] = q.from
                                     /\ disk[q.to].c = row[q.from].c
  <2>1. CASE q \in pass.renames
    <3>1. /\ Live(q.from) /\ q.from \in Inside /\ q.file.c = row[q.from].c
          /\ row[q.to].st = "none" /\ q.to \in Inside /\ pass.found[q.to] = NoFound
      BY <2>1 DEF StampsRight
    <3>2. q \notin ContentRenames
      <4>1. q \in ContentRenames => pass.found[q.to].kind = "added"
        BY ContentRenameFacts DEF AddedFiles
      <4>. QED  BY <3>1, <4>1, NoKinds
    <3>3. q \notin GateRenames
      <4>1. q \in GateRenames => q.to \in Outside
        BY GateRenameFacts
      <4>. QED  BY <3>1, <4>1 DEF Inside
    <3>. QED  BY <2>1, <3>1, <3>2, <3>3, PassTypes, NoKinds
  <2>2. CASE q \in ContentRenames
    <3>1. /\ q \in Renames /\ q.from \in OldHalves /\ q.to \in AddedFiles
          /\ Pairs(q.from, q.to)
          /\ q.file = [s |-> pass.found[q.to].s, c |-> pass.found[q.to].c]
      BY <2>2, ContentRenameFacts
    <3>2. Live(q.from) /\ (q.from \in Inside \/ disk[q.from] = NoFile)
      BY <3>1 DEF OldHalves, Vanished
    <3>3. row[q.from].c = pass.found[q.to].c
      BY <3>1 DEF Pairs
    <3>4. /\ pass.found[q.to].kind = "added" /\ q.to \in Names /\ q.from \in Names
      BY <3>1 DEF AddedFiles, Renames
    <3>5. pass.found[q.to] # NoFound /\ row[q.to].st = "none" /\ q.to \in Inside
      BY <3>4, NoKinds DEF PhasesRight
    <3>6. q \notin pass.renames /\ q \notin GateRenames
      <4>1. q \in pass.renames => pass.found[q.to] = NoFound
        BY DEF StampsRight
      <4>2. q \in GateRenames => q.to \in Outside
        BY GateRenameFacts
      <4>. QED  BY <3>5, <4>1, <4>2 DEF Inside
    <3>. QED  BY <2>2, <3>1, <3>2, <3>3, <3>4, <3>5, <3>6
  <2>3. CASE q \in GateRenames
    <3>1. /\ q \in Renames /\ q.to \in Outside /\ q.from \in Vanished
          /\ pass.cand[q.to] = q.from
          /\ q.file = [s |-> row[q.from].s, c |-> row[q.from].c]
          /\ disk[q.to].c = row[q.from].c
      BY <2>3, GateRenameFacts
    <3>2. Live(q.from) /\ q.from \in Inside
      BY <3>1 DEF Vanished
    <3>3. q.to \notin Inside
      BY <3>1 DEF Inside
    <3>4. q \in ContentRenames => q.to \in Inside
      <4>1. q \in ContentRenames => q.to \in Names /\ pass.found[q.to].kind = "added"
        BY ContentRenameFacts DEF AddedFiles
      <4>. QED  BY <4>1, NoKinds DEF PhasesRight
    <3>5. q \notin pass.renames
      BY <3>3 DEF StampsRight
    <3>. QED  BY <2>3, <3>1, <3>2, <3>3, <3>4, <3>5
  <2>. QED  BY <1>1, <2>1, <2>2, <2>3 DEF ConfirmedRenames
<1>2. \A q \in ConfirmedRenames : q.from \in Names /\ q.to \in Names
  BY <1>1 DEF Renames
<1>3. \A q \in ConfirmedRenames : ~Live(q.to) \/ q.to \in Outside
  BY <1>1 DEF Live
<1>4. ASSUME NEW q \in ConfirmedRenames PROVE q.from # r.to
  <2>1. CASE r \in pass.renames \/ r \in ContentRenames
    BY <1>1, <2>1 DEF Live
  <2>2. CASE r \in GateRenames
    <3>1. disk[r.to].c = row[r.from].c /\ Live(r.from) /\ r.to \in Outside
      BY <1>1, <2>2
    <3>2. row[r.from].c # 0 /\ disk[r.to] # NoFile
      BY <1>2, <3>1, FileFacts
    <3>3. q.from \in Inside \/ disk[q.from] = NoFile
      BY <1>1
    <3>. QED  BY <3>1, <3>2, <3>3 DEF Inside
  <2>. QED  BY <1>1, <2>1, <2>2
<1>5. ASSUME NEW q \in ConfirmedRenames, q.to = r.to PROVE q.file.c = r.file.c
  <2>1. CASE q \in pass.renames /\ r \in pass.renames
    BY <1>5, <2>1 DEF StampsRight
  <2>2. CASE q \in ContentRenames /\ r \in ContentRenames
    BY <1>1, <1>5, <2>2
  <2>3. CASE q \in GateRenames /\ r \in GateRenames
    BY <1>1, <1>5, <2>3
  <2>4. \/ q \in pass.renames /\ r \in pass.renames
        \/ q \in ContentRenames /\ r \in ContentRenames
        \/ q \in GateRenames /\ r \in GateRenames
    <3>1. Inside \cap Outside = {}
      BY DEF Inside
    <3>. QED  BY <1>1, <1>5, <3>1
  <2>. QED  BY <2>1, <2>2, <2>3, <2>4
<1>. QED  BY <1>1, <1>2, <1>3, <1>4, <1>5

LEMMA RenameStep ==
    ASSUME TypeOK, PhasesRight, RenameInv, [Next]_vars
    PROVE  RenameInv'
<1>1. CASE UserStep \/ Pause \/ Resume \/ UNCHANGED vars
  <2>1. UNCHANGED <<row, settle, pass>>
    BY <1>1, UserKeeps DEF Pause, Resume, vars, scanVars, tableVars
  <2>. QED  BY <2>1, RenameKept
<1>2. CASE Tick
  <2>1. TodoKept /\ UNCHANGED row /\ \A n \in Names : settle'[n].s = settle[n].s
    BY <1>2, TickFacts
  <2>. QED  BY <2>1, RenameKept DEF TodoKept
<1>3. ASSUME pass'.ph = "none" PROVE RenameInv'
  BY <1>3 DEF RenameInv, StampsRight, RenamesRight, DeferralRight
<1>4. CASE Restart \/ Cancel \/ ApplyPass
  BY <1>3, <1>4, NoPassFields DEF Restart, Cancel, ApplyPass
<1>5. CASE StartScan
  BY <1>5, StartFacts DEF RenameInv, StampsRight, RenamesRight, DeferralRight
<1>6. ASSUME NEW n \in Names, Visit(n) PROVE RenameInv'
  BY <1>6, VisitFacts, RenameKept DEF VisitKeeps, tableVars
<1>7. ASSUME NEW n \in Names, VisitHidden(n) PROVE RenameInv'
  BY <1>7, HiddenFacts, RenameKept DEF TodoKept, tableVars
<1>8. CASE SkipAll
  BY <1>8, SkipFacts, RenameKept DEF TodoKept, tableVars
<1>9. ASSUME NEW n \in Names, HashFile(n) \/ DropJob(n) PROVE RenameInv'
  <2>1. /\ pass.ph = "hash" /\ pass.jobs[n] # NoJob /\ HashKeeps /\ row' = row
        /\ pass'.jobs = [pass.jobs EXCEPT ![n] = NoJob]
        /\ HashReads(n) \/ pass'.found = pass.found
    BY <1>9, HashFacts, DropFacts DEF tableVars, HashGone, HashDrifts
  <2>2. \A k \in Names : /\ pass'.jobs[k] = pass.jobs[k] \/ pass'.jobs[k] = NoJob
                         /\ pass'.found[k] = pass.found[k] \/ pass.jobs[k] # NoJob
    BY <2>1, PassTypes DEF HashReads
  <2>. QED  BY <2>1, <2>2, RenameKept DEF HashKeeps
<1>10. CASE EndWalk
  <2>1. pass'.ph = "hash"
    BY <1>10, EndWalkFacts
  <2>. QED  BY <1>10, <2>1, StampsFound DEF RenameInv, RenamesRight, DeferralRight
<1>11. CASE Confirm
  <2>1. /\ pass.ph = "hash" /\ pass'.ph = "confirmed" /\ row' = row /\ pass'.next = pass.next
        /\ pass'.renames = ConfirmedRenames /\ pass'.deletes = Reported
    BY <1>11, ConfirmFacts
  <2>2. \A v \in Reported : Live(v) /\ v \in Inside /\ v \in Names
    BY DEF Reported, Deletions, Vanished, Inside
  <2>3. RenamesRight'
    <3>1. ASSUME NEW r \in ConfirmedRenames
          PROVE  /\ row[r.from].c = r.file.c /\ r.to \notin Reported
                 /\ \A q \in ConfirmedRenames :
                        q.from # r.to /\ (q.to = r.to => q.file.c = r.file.c)
      BY <2>1, <2>2, ConfirmedAgree DEF RenameInv, Inside
    <3>. QED  BY <2>1, <3>1 DEF RenamesRight
  <2>4. DeferralRight'
    <3>1. ASSUME DeletionScans > 1, NEW v \in Reported, NEW n \in Names
          PROVE  pass.next[n].s # row[v].s
      BY <3>1 DEF Reported, Deferred, Unsettled
    <3>. QED  BY <2>1, <3>1 DEF DeferralRight
  <2>. QED  BY <2>1, <2>3, <2>4 DEF RenameInv, StampsRight
<1>12. CASE Commit
  <2>1. /\ pass.ph = "confirmed" /\ pass'.ph = "scanned" /\ row' = row
        /\ pass'.renames = pass.renames /\ pass'.deletes = pass.deletes
        /\ \A n \in Names : settle'[n] = Aged(pass.next[n])
    BY <1>12, CommitFacts
  <2>2. \A n \in Names : settle'[n].s = pass.next[n].s
    BY <2>1, AgedFacts
  <2>. QED  BY <2>1, <2>2 DEF RenameInv, StampsRight, RenamesRight, DeferralRight
<1>. QED
  BY <1>1, <1>2, <1>4, <1>5, <1>6, <1>7, <1>8, <1>9, <1>10, <1>11, <1>12 DEF Next, PassStep

\* What is written keeps the content of a renamed entry alive.
LEMMA RenameLives ==
    ASSUME TypeOK, RenamesRight, ApplyPass, NEW r \in pass.renames
    PROVE  r.to \in Names /\ row'[r.to].st = "live" /\ row'[r.to].c = row[r.from].c
<1>1. r.to \in Names /\ pass.ph = "scanned"
  BY PassTypes, ApplyFacts DEF Renames
<1>2. /\ row[r.from].c = r.file.c /\ r.to \notin pass.deletes
      /\ \A q \in pass.renames : q.from # r.to /\ (q.to = r.to => q.file.c = r.file.c)
  BY <1>1 DEF RenamesRight
<1>3. \E q \in pass.renames : q.to = r.to /\ row'[r.to] = LiveRow(q.file)
  <2>1. r.to \notin pass.deletes \cup {q.from : q \in pass.renames}
    BY <1>2
  <2>2. ~\A q \in pass.renames : q.to # r.to
    OBVIOUS
  <2>. QED  BY <1>1, <2>1, <2>2, ApplyFacts
<1>. QED  BY <1>1, <1>2, <1>3, NoKinds

\* A tombstone is that of a deletion or of a rename.
LEMMA TombstoneSource ==
    ASSUME TypeOK, [Next]_vars, NEW a \in Names, Live(a), row'[a].st = "dead"
    PROVE  /\ ApplyPass /\ pass.ph = "scanned"
           /\ a \in pass.deletes \/ \E r \in pass.renames : r.from = a
<1>1. ApplyPass \/ StartScan \/ UNCHANGED row
  <2>1. UserStep => UNCHANGED row
    BY UserKeeps
  <2>. QED
    BY <2>1 DEF Next, Tick, Pause, Resume, Restart, PassStep, VisitHidden, Visit, HashFile,
       DropJob, SkipAll, Cancel, EndWalk, Confirm, Commit, scanVars, tableVars, vars
<1>2. ~UNCHANGED row
  BY DEF Live
<1>3. ~StartScan
  <2>1. StartScan => row'[a] = row[a] \/ row'[a] = NoRow
    BY StartFacts DEF StartKeeps, Rebuilds, tableVars
  <2>. QED  BY <2>1, NoKinds DEF Live
<1>4. ApplyPass
  BY <1>1, <1>2, <1>3
<1>5. a \in pass.deletes \cup {r.from : r \in pass.renames}
  <2>1. SUFFICES ASSUME a \notin pass.deletes \cup {r.from : r \in pass.renames} PROVE FALSE
    OBVIOUS
  <2>2. \/ \E r \in pass.renames : row'[a] = LiveRow(r.file)
        \/ row'[a] = LiveRow(pass.found[a])
        \/ row'[a] = row[a]
    BY <1>4, <2>1, ApplyFacts
  <2>. QED  BY <2>2, NoKinds DEF Live
<1>. QED  BY <1>4, <1>5, ApplyFacts

----------------------------------------------------------------------------
(* The deletion gate.                                                      *)

\* What a step may change of the counts when it does not touch the walk.
LEMMA UserGone ==
    ASSUME TypeOK, UserStep
    PROVE  /\ gone \subseteq gone' /\ \A n \in Names : Kept(n) => Kept(n)'
<1>1. PICK n \in Names : \/ \E done \in BOOLEAN : Write(n, done)
                         \/ Rewrite(n) \/ Remove(n)
                         \/ \E m \in Names : Move(n, m) \/ Copy(n, m)
  BY DEF UserStep
<1>2. gone \subseteq gone'
  BY <1>1 DEF Write, Rewrite, Remove, Move, Copy
<1>3. /\ disk \in [Names -> Files] /\ newest \in Nat
      /\ NoFile.c = 0 /\ NoFile.s = 0
  BY ZeroStamp DEF TypeOK, NoFile
<1>4. ASSUME NEW k \in Names, k \notin gone', disk[k] # NoFile PROVE disk'[k] # NoFile
  <2>1. ASSUME NEW done \in BOOLEAN, Write(n, done) PROVE disk'[k] # NoFile
    BY <1>3, <1>4, <2>1 DEF Write, NoFile
  <2>2. ASSUME Rewrite(n) PROVE disk'[k] # NoFile
    <3>1. disk' = [disk EXCEPT ![n] = [disk[n] EXCEPT !.c = newest + 1]]
      BY <2>2 DEF Rewrite
    <3>2. disk[n] \in Files
      BY <1>3
    <3> DEFINE f == [disk[n] EXCEPT !.c = newest + 1]
    <3>3. f.c = newest + 1
      BY <3>2 DEF Files
    <3>4. disk' = [disk EXCEPT ![n] = f]
      BY <3>1
    <3> HIDE DEF f
    <3>5. f # NoFile
      BY <1>3, <3>3
    <3>. QED  BY <1>3, <1>4, <3>4, <3>5
  <2>3. ASSUME Remove(n) PROVE disk'[k] # NoFile
    BY <1>3, <1>4, <2>3 DEF Remove
  <2>4. ASSUME NEW m \in Names, Move(n, m) PROVE disk'[k] # NoFile
    BY <1>3, <1>4, <2>4 DEF Move
  <2>5. ASSUME NEW m \in Names, Copy(n, m) PROVE disk'[k] # NoFile
    BY <1>3, <1>4, <2>5 DEF Copy
  <2>. QED  BY <1>1, <2>1, <2>2, <2>3, <2>4, <2>5
<1>. QED  BY <1>2, <1>4 DEF Kept

\* A path is known when an entry, a job or a hashed file speaks of it.
Known(n) == Live(n) \/ pass.jobs[n] # NoJob \/ pass.found[n] # NoFound

LEMMA KnownKept ==
    ASSUME KnownOnDisk, UNCHANGED <<disk, gone>>,
           \A n \in Names : Known(n)' => Known(n) \/ Kept(n),
           \A r \in pass'.renames : r \in pass.renames \/ Kept(r.to)
    PROVE  KnownOnDisk'
BY DEF KnownOnDisk, Known, Kept

LEMMA KnownStep ==
    ASSUME TypeOK, PhasesRight, KnownOnDisk, [Next]_vars
    PROVE  KnownOnDisk'
<1>1. CASE UserStep
  <2>1. UNCHANGED <<row, pass>> /\ \A n \in Names : Kept(n) => Kept(n)'
    BY <1>1, UserKeeps, UserGone
  <2>2. \A r \in pass.renames : r.to \in Names
    BY PassTypes DEF Renames
  <2>. QED  BY <2>1, <2>2 DEF KnownOnDisk, Live, Kept
<1>2. CASE Pause \/ Resume \/ UNCHANGED vars
  BY <1>2, KnownKept DEF Pause, Resume, vars, scanVars, tableVars, userVars, Known, Live
<1>3. CASE Tick
  BY <1>3, TickFacts, KnownKept DEF TodoKept, Known, Live
<1>4. CASE Restart \/ Cancel
  <2>1. pass' = NoPass /\ UNCHANGED <<row, disk, gone>>
    BY <1>4 DEF Restart, Cancel, tableVars, userVars
  <2>. QED  BY <2>1, NoPassFields, KnownKept DEF Known, Live
<1>5. CASE StartScan
  <2>1. /\ \A n \in Names : pass'.jobs[n] = NoJob /\ pass'.found[n] = NoFound
        /\ pass'.renames = {} /\ UNCHANGED <<disk, gone>>
    BY <1>5, StartFacts, NoPassFields DEF StartKeeps, Rebuilds, userVars
  <2>2. \A n \in Names : row'[n] = row[n] \/ row'[n] = NoRow
    BY <1>5, StartFacts DEF StartKeeps, Rebuilds, tableVars
  <2>. QED  BY <2>1, <2>2, NoKinds, KnownKept DEF Known, Live
<1>6. ASSUME NEW n \in Names, Visit(n) PROVE KnownOnDisk'
  <2>1. /\ VisitKeeps /\ UNCHANGED <<row, disk, gone>>
    BY <1>6, VisitFacts DEF tableVars, userVars
  <2>2. VisitPasses(n) \/ VisitHolds(n) \/ VisitReleases(n)
    BY <1>6, VisitFacts
  <2>3. \A k \in Names : pass'.jobs[k] = pass.jobs[k] \/ (k = n /\ disk[n] # NoFile)
    BY <2>2, PassTypes DEF VisitPasses, VisitHolds, VisitReleases
  <2>. QED  BY <2>1, <2>3, KnownKept DEF Known, Live, Kept, VisitKeeps
<1>7. CASE SkipAll \/ \E n \in Names : VisitHidden(n)
  <2>1. TodoKept /\ UNCHANGED <<row, disk, gone>>
    BY <1>7, SkipFacts, HiddenFacts DEF tableVars, userVars
  <2>. QED  BY <2>1, KnownKept DEF TodoKept, Known, Live
<1>8. ASSUME NEW n \in Names, HashFile(n) \/ DropJob(n) PROVE KnownOnDisk'
  <2>1. /\ HashKeeps /\ UNCHANGED <<row, disk, gone>>
        /\ pass'.jobs = [pass.jobs EXCEPT ![n] = NoJob]
        /\ HashReads(n) \/ pass'.found = pass.found
    BY <1>8, HashFacts, DropFacts DEF tableVars, userVars, HashGone, HashDrifts
  <2>2. \A k \in Names : /\ pass'.jobs[k] = pass.jobs[k] \/ pass'.jobs[k] = NoJob
                         /\ pass'.found[k] = pass.found[k] \/ (k = n /\ disk[n] # NoFile)
    BY <2>1, PassTypes DEF HashReads
  <2>. QED  BY <2>1, <2>2, KnownKept DEF Known, Live, Kept, HashKeeps
<1>9. CASE EndWalk
  <2>1. /\ WalkKept /\ UNCHANGED <<row, disk, gone>>
        /\ pass'.renames = {StampRename(p) : p \in cheapRenames}
        /\ \A n \in Names : pass'.jobs[n] = NoJob \/ pass'.jobs[n] = pass.jobs[n]
    BY <1>9, EndWalkFacts DEF tableVars, userVars
  <2>2. ASSUME NEW p \in cheapRenames PROVE Kept(StampRename(p).to)
    <3>1. p[2] \in Names /\ pass.jobs[p[2]].kind = "added"
      BY CheapFacts DEF AddedJobs
    <3>. QED  BY <3>1, NoKinds DEF KnownOnDisk, StampRename
  <2>. QED  BY <2>1, <2>2, KnownKept DEF Known, Live, WalkKept
<1>10. CASE Confirm
  <2>1. /\ pass'.found = pass.found /\ pass'.renames = ConfirmedRenames
        /\ \A n \in Names : pass'.jobs[n] = NoJob
        /\ UNCHANGED <<row, disk, gone>>
    BY <1>10, ConfirmFacts, NoPassFields DEF userVars
  <2>2. ASSUME NEW r \in ContentRenames PROVE Kept(r.to)
    <3>1. r.to \in Names /\ pass.found[r.to].kind = "added"
      BY ContentRenameFacts DEF AddedFiles
    <3>. QED  BY <3>1, NoKinds DEF KnownOnDisk
  <2>3. ASSUME NEW r \in GateRenames PROVE Kept(r.to)
    <3>1. r.from \in Names /\ Live(r.from) /\ disk[r.to].c = row[r.from].c
      BY GateRenameFacts DEF Vanished, Inside
    <3>2. row[r.from].c # 0 /\ NoFile.c = 0
      BY <3>1, FileFacts
    <3>. QED  BY <3>1, <3>2 DEF Kept
  <2>. QED  BY <2>1, <2>2, <2>3, KnownKept DEF Known, Live, ConfirmedRenames
<1>11. CASE Commit
  <2>1. /\ pass'.found = pass.found /\ pass'.renames = pass.renames
        /\ \A n \in Names : pass'.jobs[n] = NoJob
        /\ UNCHANGED <<row, disk, gone>>
    BY <1>11, CommitFacts, NoPassFields DEF userVars
  <2>. QED  BY <2>1, KnownKept DEF Known, Live
<1>12. CASE ApplyPass
  <2>1. /\ pass' = NoPass /\ UNCHANGED <<disk, gone>>
    BY <1>12, ApplyFacts DEF userVars
  <2>2. ASSUME NEW n \in Names, Live(n)' PROVE Known(n) \/ Kept(n)
    <3>1. \/ row'[n] = Dead
          \/ \E r \in pass.renames : r.to = n
          \/ row'[n] = IF pass.found[n] # NoFound THEN LiveRow(pass.found[n]) ELSE row[n]
      BY <1>12, ApplyFacts
    <3>2. row'[n].st = "live"
      BY <2>2 DEF Live
    <3>. QED  BY <3>1, <3>2, NoKinds DEF Known, Live, KnownOnDisk
  <2>. QED  BY <2>1, <2>2, NoPassFields, KnownKept DEF Known
<1>. QED
  BY <1>1, <1>2, <1>3, <1>4, <1>5, <1>6, <1>7, <1>8, <1>9, <1>10, <1>11, <1>12
  DEF Next, PassStep

\* What the missing table and the pause flag have cost.
Owed(n) == missing[n] + (IF Missed(n) \/ paused THEN 1 ELSE 0)

LEMMA FaultTypesNow ==
    ASSUME TypeOK
    PROVE  faults \in Nat /\ \A n \in Names : missing[n] \in Nat
BY DEF TypeOK

\* A step that takes no fault and misses nothing new.
LEMMA CountsKept ==
    ASSUME TypeOK, FaultsCounted, gone \subseteq gone', faults \in Nat, faults' \in Nat, faults <= faults',
           \A n \in Names \ gone : missing'[n] = missing[n] \/ missing'[n] = 0,
           \A n \in Names \ gone' : Missed(n)' \/ paused' => Missed(n) \/ paused \/ faults < faults'
    PROVE  FaultsCounted'
<1>1. \A n \in Names : missing[n] \in Nat
  BY DEF TypeOK
<1>2. ASSUME NEW n \in Names \ gone' PROVE Owed(n)' <= faults'
  <2>1. missing[n] + (IF Missed(n) \/ paused THEN 1 ELSE 0) <= faults
    BY <1>2 DEF FaultsCounted
  <2>2. missing[n] <= faults /\ missing[n] \in Nat
    BY <1>1, <2>1
  <2>3. missing'[n] <= missing[n] /\ missing'[n] \in Nat
    BY <1>1, <1>2
  <2>4. CASE Missed(n)' \/ paused'
    BY <1>2, <2>1, <2>2, <2>3, <2>4 DEF Owed
  <2>5. CASE ~(Missed(n)' \/ paused')
    BY <2>1, <2>2, <2>3, <2>5 DEF Owed
  <2>. QED  BY <2>4, <2>5
<1>. QED  BY <1>2 DEF Owed, FaultsCounted

\* A path the deletion pass does not find has cost a fault.
LEMMA ReportedPaid ==
    ASSUME TypeOK, PhasesRight, FaultsCounted, pass.ph = "hash", ~paused,
           NEW v \in Deletions \ gone
    PROVE  v \in Names /\ missing[v] + 1 <= faults
<1>1. v \in Vanished
  BY DEF Deletions
<1>2. v \in Names /\ Live(v) /\ v \in pass.scope /\ v \notin pass.seen
  BY <1>1 DEF Vanished, Inside
<1>3. Missed(v)
  BY <1>2 DEF Missed, PhasesRight
<1>. QED  BY <1>2, <1>3 DEF FaultsCounted

LEMMA FaultsStep ==
    ASSUME TypeOK, PhasesRight, KnownOnDisk, FaultsCounted, [Next]_vars
    PROVE  FaultsCounted'
<1>1. faults \in Nat
  BY FaultTypesNow
<1>2. CASE Pause \/ Restart \/ StartRebuild \/ \E n \in Names : VisitHidden(n)
  <2>1. /\ Fault /\ gone' = gone
        /\ \A n \in Names : missing'[n] = missing[n] \/ missing'[n] = 0
    BY <1>2 DEF Pause, Restart, StartRebuild, VisitHidden, userVars, scanVars, tableVars
  <2>2. faults' = faults + 1
    BY <2>1 DEF Fault
  <2>. QED  BY <1>1, <2>1, <2>2, CountsKept
<1>3. CASE UserStep
  <2>1. UNCHANGED <<row, missing, pass, paused, faults>> /\ gone \subseteq gone'
    BY <1>3, UserKeeps, UserGone
  <2>. QED  BY <1>1, <2>1, CountsKept DEF Missed, Live
<1>4. CASE Tick
  <2>1. /\ TodoKept /\ pass'.todo = pass.todo
        /\ UNCHANGED <<row, missing, paused, faults, gone>>
    BY <1>4, TickFacts
  <2>. QED  BY <1>1, <2>1, CountsKept DEF Missed, Live, TodoKept
<1>5. CASE Resume \/ UNCHANGED vars
  <2>1. /\ UNCHANGED <<row, missing, pass, faults, gone>> /\ (paused' => paused)
    BY <1>5 DEF Resume, vars, scanVars, tableVars, userVars
  <2>. QED  BY <1>1, <2>1, CountsKept DEF Missed, Live
<1>6. CASE StartScan /\ ~StartRebuild
  <2>1. pass'.todo = pass'.scope
    BY <1>6, StartFacts
  <2>2. UNCHANGED <<missing, paused, faults, gone>>
    BY <1>6 DEF StartScan, StartDeep, StartHeldBack, StartPass, tableVars, userVars
  <2>. QED  BY <1>1, <2>1, <2>2, CountsKept DEF Missed
<1>7. ASSUME NEW n \in Names, Visit(n) PROVE FaultsCounted'
  <2>1. /\ pass.ph = "walk" /\ pass'.ph = "walk" /\ pass'.scope = pass.scope
        /\ pass'.todo = pass.todo \ {n}
        /\ pass'.seen = IF disk[n] = NoFile THEN pass.seen ELSE pass.seen \cup {n}
        /\ UNCHANGED <<row, missing, paused, faults, gone>>
    BY <1>7, VisitFacts DEF VisitKeeps, tableVars, userVars
  <2>2. Live(n) /\ n \notin gone => disk[n] # NoFile
    BY DEF KnownOnDisk, Kept
  <2>3. \A k \in Names \ gone : Missed(k)' => Missed(k)
    BY <2>1, <2>2 DEF Missed, Live
  <2>. QED  BY <1>1, <2>1, <2>3, CountsKept
<1>8. CASE SkipAll
  <2>1. paused /\ UNCHANGED <<missing, paused, faults, gone>>
    BY <1>8 DEF SkipAll, tableVars, userVars
  <2>. QED  BY <1>1, <2>1, CountsKept
<1>9. ASSUME NEW n \in Names, HashFile(n) \/ DropJob(n) PROVE FaultsCounted'
  <2>1. HashKeeps /\ UNCHANGED <<row, missing, paused, faults, gone>>
    BY <1>9, HashFacts, DropFacts DEF tableVars, userVars
  <2>. QED  BY <1>1, <2>1, CountsKept DEF Missed, Live, HashKeeps
<1>10. CASE EndWalk
  <2>1. /\ WalkKept /\ pass.ph = "walk" /\ UNCHANGED <<row, missing, paused, faults, gone>>
    BY <1>10, EndWalkFacts DEF tableVars, userVars
  <2>. QED  BY <1>1, <2>1, CountsKept DEF Missed, Live, WalkKept
<1>11. CASE Cancel \/ Commit \/ ApplyPass
  <2>1. /\ pass'.ph \in {"none", "scanned"} /\ UNCHANGED <<missing, paused, faults, gone>>
    <3>1. CASE Cancel
      BY <3>1, NoPassFields DEF Cancel, tableVars, userVars
    <3>2. CASE Commit
      BY <3>2, CommitFacts DEF userVars
    <3>3. CASE ApplyPass
      BY <3>3, ApplyFacts, NoPassFields DEF userVars
    <3>. QED  BY <1>11, <3>1, <3>2, <3>3
  <2>. QED  BY <1>1, <2>1, CountsKept DEF Missed
<1>12. CASE Confirm
  <2>1. /\ pass.ph = "hash" /\ ~paused /\ pass'.ph = "confirmed"
        /\ missing' = MissingAfter(Deletions, Reported)
        /\ UNCHANGED <<paused, faults, gone>>
    BY <1>12, ConfirmFacts DEF userVars
  <2>2. ASSUME NEW n \in Names \ gone PROVE missing'[n] <= faults
    <3>1. missing[n] <= faults /\ missing[n] \in Nat
      BY FaultTypesNow, <1>1 DEF FaultsCounted
    <3>2. \/ missing'[n] = 0 \/ missing'[n] = missing[n]
          \/ n \in Deletions /\ missing'[n] = Capped(missing[n] + 1, DeletionScans)
      BY <2>1 DEF MissingAfter
    <3>3. Capped(missing[n] + 1, DeletionScans) <= missing[n] + 1
      BY <3>1 DEF Capped
    <3>4. n \in Deletions => missing[n] + 1 <= faults
      BY <2>1, ReportedPaid
    <3>5. Capped(missing[n] + 1, DeletionScans) \in Nat
      BY <3>1 DEF Capped
    <3>. QED  BY <1>1, <3>1, <3>2, <3>3, <3>4, <3>5
  <2>3. \A n \in Names : missing'[n] \in Int
    BY <1>12, ConfirmFacts, MissingType
  <2>4. \A n \in Names : ~Missed(n)'
    BY <2>1 DEF Missed
  <2>. QED  BY <2>1, <2>2, <2>3, <2>4 DEF FaultsCounted
<1>. QED
  BY <1>2, <1>3, <1>4, <1>5, <1>6, <1>7, <1>8, <1>9, <1>10, <1>11, <1>12 DEF Next, PassStep

\* What a pass reports deleted was removed, or enough faults hid it.
LEMMA DeletesStep ==
    ASSUME TypeOK, PhasesRight, FaultsCounted, DeletesRight, [Next]_vars
    PROVE  DeletesRight'
<1>1. /\ faults \in Nat /\ faults' \in Int /\ faults <= faults' /\ gone \subseteq gone'
      /\ DeletionScans \in Nat
  <2>1. faults \in Nat
    BY FaultTypesNow
  <2>2. faults' = faults \/ faults' = faults + 1
    BY UserKeeps DEF Next, Tick, Pause, Resume, Restart, PassStep, VisitHidden, Visit, HashFile,
       DropJob, SkipAll, Cancel, EndWalk, Confirm, Commit, ApplyPass, StartScan, StartDeep,
       StartHeldBack, StartPass, StartRebuild, Fault, vars
  <2>3. gone \subseteq gone'
    BY UserGone DEF Next, Tick, Pause, Resume, Restart, PassStep, VisitHidden, Visit, HashFile,
       DropJob, SkipAll, Cancel, EndWalk, Confirm, Commit, ApplyPass, StartScan, StartDeep,
       StartHeldBack, StartPass, StartRebuild, userVars, vars
  <2>. QED  BY <2>1, <2>2, <2>3
<1>2. CASE pass'.deletes = {}
  BY <1>2 DEF DeletesRight
<1>3. CASE pass'.deletes = pass.deletes /\ (pass'.ph = pass.ph \/ pass'.ph = "scanned")
  BY <1>1, <1>3 DEF DeletesRight
<1>4. CASE Confirm
  <2>1. /\ pass.ph = "hash" /\ ~paused /\ pass'.ph = "confirmed" /\ pass'.deletes = Reported
        /\ faults' = faults /\ gone' = gone
    BY <1>4, ConfirmFacts DEF userVars
  <2>2. ASSUME NEW v \in Reported \ gone PROVE faults >= DeletionScans
    <3>1. v \in Deletions /\ missing[v] + 1 >= DeletionScans
      BY <2>2 DEF Reported, Confirmed
    <3>2. v \in Names /\ missing[v] + 1 <= faults
      BY <2>1, <2>2, <3>1, ReportedPaid
    <3>. QED  BY <1>1, <3>1, <3>2, FaultTypesNow
  <2>. QED  BY <2>1, <2>2 DEF DeletesRight
<1>5. \/ pass'.deletes = {}
      \/ pass'.deletes = pass.deletes /\ (pass'.ph = pass.ph \/ pass'.ph = "scanned")
      \/ Confirm
  <2>1. CASE UserStep \/ Pause \/ Resume \/ UNCHANGED vars
    BY <2>1, UserKeeps DEF Pause, Resume, vars, scanVars
  <2>2. CASE Restart \/ Cancel \/ ApplyPass
    BY <2>2, NoPassFields DEF Restart, Cancel, ApplyPass
  <2>3. CASE Tick \/ SkipAll \/ \E n \in Names : VisitHidden(n)
    BY <2>3, TickFacts, SkipFacts, HiddenFacts DEF TodoKept
  <2>4. CASE StartScan
    BY <2>4, StartFacts
  <2>5. CASE \E n \in Names : Visit(n) \/ HashFile(n) \/ DropJob(n)
    BY <2>5, VisitFacts, HashFacts, DropFacts DEF VisitKeeps, HashKeeps
  <2>6. CASE EndWalk \/ Commit
    <3>1. CASE EndWalk
      <4>1. pass.deletes = {} /\ WalkKept
        BY <3>1, EndWalkFacts DEF DeletesRight
      <4>. QED  BY <4>1 DEF WalkKept
    <3>2. CASE Commit
      BY <3>2, CommitFacts
    <3>. QED  BY <2>6, <3>1, <3>2
  <2>. QED  BY <2>1, <2>2, <2>3, <2>4, <2>5, <2>6 DEF Next, PassStep
<1>. QED  BY <1>2, <1>3, <1>4, <1>5

----------------------------------------------------------------------------
(* Theorems.                                                               *)

LEMMA InitSound ==
    ASSUME Init
    PROVE  Sound /\ GateInv
<1>1. TypeOK
  <2>1. /\ Stamps = 0..1 /\ NoPass \in Passes
        /\ NoFile \in Files /\ NoRow \in Entries /\ NoSettle \in Settles
    BY NothingTypes, NoPassType DEF Init, Stamps
  <2>2. [s |-> 1, c |-> 1] \in Files /\ LiveRow([s |-> 1, c |-> 1]) \in Entries
    BY <2>1 DEF Files, Entries, LiveRow
  <2>3. Outside \subseteq Names /\ 1 \in Names /\ -1 \in -1..SettleSeconds
    OBVIOUS
  <2>4. /\ disk \in [Names -> Files] /\ row \in [Names -> Entries]
        /\ idle \in [Names -> -1..SettleSeconds] /\ settle \in [Names -> Settles]
        /\ missing \in [Names -> 0..DeletionScans] /\ \A n \in Outside : settle[n] = NoSettle
    BY <2>1, <2>2, <2>3 DEF Init
  <2>5. /\ last = {} /\ held = {} /\ paused = FALSE /\ pass = NoPass
        /\ newest = 1 /\ edits = 0 /\ faults = 0
        /\ partial = {} /\ ungated = {} /\ hasty = {} /\ gone = {}
    BY DEF Init
  <2>6. newest \in 1..(edits + 1) /\ edits \in 0..MaxEdits /\ faults \in 0..MaxFaults
    BY <2>5
  <2>7. /\ partial \cup ungated \cup hasty \subseteq Stamps \ {0} /\ gone \subseteq Names
        /\ last \subseteq Names /\ held \subseteq Names /\ paused \in BOOLEAN /\ pass \in Passes
    BY <2>1, <2>5
  <2>. QED  BY <2>4, <2>6, <2>7 DEF TypeOK
<1>2. PhasesRight
  <2>1. Outside \subseteq Names
    OBVIOUS
  <2>. QED  BY <2>1, NoPassFields, NoKinds DEF Init, PhasesRight
<1>3. GateInv
  BY NoPassFields, NoKinds DEF Init, GateInv, WritersRight, RunsRight, OlderWrite, JobsRight,
     ContentsRight, Clean
<1>4. ListsRight /\ RenameInv
  BY NoPassFields, NoKinds DEF Init, ListsRight, HeldNames, RenameInv, StampsRight, RenamesRight,
     DeferralRight
<1>5. CountInv
  <2>1. KnownOnDisk
    <3>1. \A n \in Names : Live(n) => n = 1
      BY NoKinds DEF Init, Live
    <3>2. disk[1] # NoFile
      BY DEF Init, NoFile
    <3>. QED  BY <3>1, <3>2, NoPassFields DEF Init, KnownOnDisk, Kept
  <2>. QED  BY <2>1, NoPassFields DEF Init, CountInv, FaultsCounted, Missed, DeletesRight
<1>. QED  BY <1>1, <1>2, <1>3, <1>4, <1>5 DEF Sound

LEMMA SoundInvariant == Spec => []Sound
<1>1. Init => Sound
  BY InitSound
<1>2. Sound /\ [Next]_vars => Sound'
  <2>. SUFFICES ASSUME Sound, [Next]_vars PROVE Sound'
    OBVIOUS
  <2>1. TypeOK /\ PhasesRight /\ ListsRight /\ RenameInv
    BY DEF Sound
  <2>2. KnownOnDisk /\ FaultsCounted /\ DeletesRight
    BY DEF Sound, CountInv
  <2>3. TypeOK' /\ PhasesRight' /\ ListsRight' /\ RenameInv'
    BY <2>1, TypeStep, PhasesStep, ListsStep, RenameStep
  <2>4. KnownOnDisk' /\ FaultsCounted' /\ DeletesRight'
    BY <2>1, <2>2, KnownStep, FaultsStep, DeletesStep
  <2>. QED  BY <2>3, <2>4 DEF Sound, CountInv
<1>. QED  BY <1>1, <1>2, PTL DEF Spec

LEMMA GateInvariant ==
    ASSUME SettleSeconds > 0
    PROVE  Spec => []GateInv
<1>1. Init => GateInv
  BY InitSound
<1>2. Sound /\ GateInv /\ [Next]_vars => GateInv'
  BY GateStep DEF Sound
<1>. QED  BY <1>1, <1>2, SoundInvariant, PTL DEF Spec

\* Every variable keeps its type: ages, counts and runs stay within the
\* windows and depths they are compared with (scanner.go: visit,
\* confirmDeletions; index.go: SettleReplace).
THEOREM TypeCorrect == Spec => []TypeOK
<1>1. Sound => TypeOK
  BY DEF Sound
<1>. QED  BY <1>1, SoundInvariant, PTL

\* With a quiet window of any length, the content of a file whose writer was
\* not done reaches the index only through a pass that bypasses the gate or a
\* run dated before the file was first seen (scanner.go: visit, hashPending).
THEOREM GateKeepsPartialOut ==
    ASSUME SettleSeconds > 0
    PROVE  Spec => []NoPartialIndexed
<1>1. GateInv => NoPartialIndexed
  BY DEF GateInv, ContentsRight, Clean, NoPartialIndexed
<1>. QED  BY <1>1, GateInvariant, PTL

\* Between passes the engine protects exactly the files that the settling
\* table holds (scanner.go: lastInFlight; Engine.SetInFlight).
THEOREM ListsFollowTable == Spec => []HeldFilesProtected
<1>1. Sound => HeldFilesProtected
  <2>1. SUFFICES ASSUME Sound, faults = 0, pass.ph = "none"
                 PROVE  held = {n \in Names : settle[n].n > 0}
    BY DEF HeldFilesProtected
  <2>2. held = HeldNames
    BY <2>1 DEF Sound, ListsRight
  <2>3. \A n \in Names : settle[n].n \in Nat
    BY <2>1, SettleCounts DEF Sound
  <2>. QED  BY <2>2, <2>3 DEF HeldNames
<1>. QED  BY <1>1, SoundInvariant, PTL

\* No step buries a path whose moved file the stability gate still holds, as
\* long as deletions wait at all (scanner.go: confirmDeletions, detectRenames).
THEOREM MovesStayWhole ==
    ASSUME DeletionScans > 1
    PROVE  Spec => MoveHalvesTogether
<1> DEFINE Half(a, m) ==
       /\ Live(a) /\ row'[a].st = "dead"
       /\ settle[m].s = row[a].s /\ disk[m] = [s |-> row[a].s, c |-> row[a].c]
       => \E k \in Names : row'[k].st = "live" /\ row'[k].c = row[a].c
<1>1. Sound /\ [Next]_vars => [\A a \in Names : \A m \in Inside \ {a} : Half(a, m)]_vars
  <2>. SUFFICES ASSUME Sound, [Next]_vars,
                       NEW a \in Names, NEW m \in Inside \ {a}, Live(a), row'[a].st = "dead",
                       settle[m].s = row[a].s
                PROVE  \E k \in Names : row'[k].st = "live" /\ row'[k].c = row[a].c
    OBVIOUS
  <2>1. TypeOK /\ RenamesRight /\ DeferralRight
    BY DEF Sound, RenameInv
  <2>2. /\ ApplyPass /\ pass.ph = "scanned"
        /\ a \in pass.deletes \/ \E r \in pass.renames : r.from = a
    BY <2>1, TombstoneSource
  <2>3. a \notin pass.deletes
    BY <2>1, <2>2 DEF DeferralRight, Inside
  <2>4. PICK r \in pass.renames : r.from = a
    BY <2>2, <2>3
  <2>. QED  BY <2>1, <2>2, <2>4, RenameLives
<1>2. MoveHalvesTogether <=> [][\A a \in Names : \A m \in Inside \ {a} : Half(a, m)]_vars
  BY DEF MoveHalvesTogether
<1> HIDE DEF Half
<1>. QED  BY <1>1, <1>2, SoundInvariant, PTL DEF Spec

\* A tombstone of a file that nobody removed took as many faults as the
\* deletion gate is deep, or its content lives on under another name
\* (scanner.go: confirmDeletions; index.go: the missing table).
THEOREM DeletionsTakeFaults == Spec => OneFaultNeverDeletes
<1> DEFINE Lost(n) ==
       /\ Live(n) /\ row'[n].st = "dead"
       /\ n \notin gone /\ faults < DeletionScans
       => \E k \in Names : row'[k].st = "live" /\ row'[k].c = row[n].c
<1>1. Sound /\ [Next]_vars => [\A n \in Names : Lost(n)]_vars
  <2>. SUFFICES ASSUME Sound, [Next]_vars, NEW n \in Names, Live(n), row'[n].st = "dead",
                       n \notin gone, faults < DeletionScans
                PROVE  \E k \in Names : row'[k].st = "live" /\ row'[k].c = row[n].c
    OBVIOUS
  <2>1. TypeOK /\ RenamesRight /\ DeletesRight
    BY DEF Sound, RenameInv, CountInv
  <2>2. /\ ApplyPass
        /\ n \in pass.deletes \/ \E r \in pass.renames : r.from = n
    BY <2>1, TombstoneSource
  <2>3. n \notin pass.deletes
    BY <2>1, FaultTypesNow DEF DeletesRight
  <2>4. PICK r \in pass.renames : r.from = n
    BY <2>2, <2>3
  <2>. QED  BY <2>1, <2>2, <2>4, RenameLives
<1>2. OneFaultNeverDeletes <=> [][\A n \in Names : Lost(n)]_vars
  BY DEF OneFaultNeverDeletes
<1> HIDE DEF Lost
<1>. QED  BY <1>1, <1>2, SoundInvariant, PTL DEF Spec

=============================================================================
