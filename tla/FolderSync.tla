---------------------------- MODULE FolderSync ----------------------------
(***************************************************************************)
(* One folder shared by several devices: users edit files, scans record    *)
(* the edits in each device's index, and sessions between pairs of devices *)
(* bring disks and indexes together (internal/sync: Engine;                *)
(* internal/node/session.go: pullAll, SyncOnce, Serve; internal/node/      *)
(* pull_batch.go: start, complete, abandon).                               *)
(*                                                                         *)
(* Below this module's level of detail:                                    *)
(*   - the frames of an index exchange are module IndexExchange's subject; *)
(*     here an exchange is one step that sends the entries after the       *)
(*     marker, or all of them to a process that is not the marker's;       *)
(*   - a block list is a number, the content; a transfer is one step,      *)
(*     possible while the serving device still has the content;            *)
(*   - a conflict copy or an archived version is the content, in "saved":  *)
(*     it lives under a name of its own that nothing else uses.            *)
(***************************************************************************)
EXTENDS GlobalModel, FiniteSetsExt

CONSTANTS
    Names,       \* paths of the folder, numbers in the order of the index
    Times,       \* modification times
    Preserve,    \* device -> what it does with the loser of a conflict
    Operations,  \* what happens besides edits, scans and sessions
    MaxEdits,    \* bound: user operations
    MaxDrops     \* bound: connections lost, restarts, rebuilds, pauses, and
                 \* session steps that overtake a scan

AllOperations == {"seed", "touch", "verify", "rename", "unscanned", "prune", "restart",
                  "rebuild", "pause", "archivefail"}

ASSUME FolderAssumption ==
    /\ Names \subseteq Nat \ {0}
    /\ Times \subseteq Nat \ {0}
    /\ Preserve \in [Devices -> {"copy", "archive", "nothing"}]
    /\ Operations \subseteq AllOperations
    /\ MaxEdits \in Nat
    /\ MaxDrops \in Nat

VARIABLES
    disk,    \* device -> name -> [content, time]; content 0: no file
    scan,    \* device -> the scan that is running: what it saw, what it knew
    idx,     \* device -> name -> entry of its index
    view,    \* device -> peer -> name -> entry the device believes the peer has
    told,    \* device -> peer -> names whose row is covered by the marker
    met,     \* device -> peer -> the marker is of the peer's running process
    snap,    \* device -> peer -> names unwritten since the session's snapshot
    link,    \* pair of devices -> session
    needs,   \* pair -> names the puller still has to start
    job,     \* pair -> name -> entry that is being pulled
    paused,  \* devices whose transfers are paused
    saved,   \* contents kept as conflict copy or archived version
    gone,    \* contents a user overwrote or deleted
    newest,  \* the newest content: contents are numbered as they are written
    edits,   \* user operations so far
    drops    \* failures so far

diskVars == <<disk, saved, gone, newest, edits>>
indexVars == <<idx, told, snap>>
linkVars == <<link, needs, job>>
vars == <<diskVars, scan, indexVars, view, met, linkVars, paused, drops>>

NoFile == [content |-> 0, time |-> 0]
NoFiles == [n \in Names |-> NoFile]
NoRows == [n \in Names |-> NoEntry]
NoScan == [on |-> FALSE, verify |-> FALSE, seen |-> NoFiles, rows |-> NoRows]

\* Contents 1 and 2 have one size, 3 and 4 another, and so on.
SizeOf(c) == (c + 1) \div 2

Links == {l \in SUBSET Devices : Cardinality(l) = 2}
Other(l, d) == CHOOSE p \in l : p # d
Peers(d) == Devices \ {d}

\* phase 0: no session; 1: the initiator pulls; 2: the responder pulls.
NoLink == [phase |-> 0, first |-> 0, planned |-> FALSE]
Puller(l) == IF link[l].phase = 1 THEN link[l].first ELSE Other(l, link[l].first)
Server(l) == Other(l, Puller(l))

Files == [content : 0..MaxEdits, time : Nat]

\* Only live entries have a content.
WellFormed(e) == e.content # 0 <=> Live(e)

Rows == {e \in Entries : e.content \in 0..MaxEdits /\ WellFormed(e)}

TypeOK ==
    /\ disk \in [Devices -> [Names -> Files]]
    /\ idx \in [Devices -> [Names -> Rows]]
    /\ view \in [Devices -> [Devices -> [Names -> Rows]]]
    /\ scan \in [Devices -> [on : BOOLEAN, verify : BOOLEAN, seen : [Names -> Files],
                             rows : [Names -> Rows]]]
    /\ told \in [Devices -> [Devices -> SUBSET Names]]
    /\ snap \in [Devices -> [Devices -> SUBSET Names]]
    /\ met \in [Devices -> [Devices -> BOOLEAN]]
    /\ link \in [Links -> [phase : 0..2, first : Devices \cup {0}, planned : BOOLEAN]]
    /\ \A l \in Links : link[l] = NoLink \/ (link[l].phase # 0 /\ link[l].first \in l)
    /\ needs \in [Links -> SUBSET Names]
    /\ job \in [Links -> [Names -> Rows]]
    /\ paused \subseteq Devices
    /\ saved \cup gone \subseteq 1..MaxEdits
    /\ edits \in 0..MaxEdits
    /\ newest \in 0..edits
    /\ drops \in 0..MaxDrops

Init ==
    /\ disk = [d \in Devices |-> NoFiles]
    /\ scan = [d \in Devices |-> NoScan]
    /\ idx = [d \in Devices |-> NoRows]
    /\ view = [d \in Devices |-> [p \in Devices |-> NoRows]]
    /\ told = [d \in Devices |-> [p \in Devices |-> {}]]
    /\ met = [d \in Devices |-> [p \in Devices |-> FALSE]]
    /\ snap = [d \in Devices |-> [p \in Devices |-> {}]]
    /\ link = [l \in Links |-> NoLink]
    /\ needs = [l \in Links |-> {}]
    /\ job = [l \in Links |-> NoRows]
    /\ paused = {}
    /\ saved = {} /\ gone = {}
    /\ newest = 0 /\ edits = 0 /\ drops = 0

----------------------------------------------------------------------------
(* The user.                                                               *)

OnDisk(d, n) == disk[d][n].content # 0

\* Does the index of d describe its disk?  A scan compares size and time.
StatMatches(d, n) ==
    IF Live(idx[d][n])
    THEN OnDisk(d, n) /\ SizeOf(disk[d][n].content) = idx[d][n].size
                      /\ disk[d][n].time = idx[d][n].time
    ELSE ~OnDisk(d, n)

Scanned(d) == ~scan[d].on /\ \A n \in Names : StatMatches(d, n)

\* A session step normally finds every edit scanned and no scan running.  With
\* "unscanned" it may overtake the scan, at most MaxDrops times, and a user may
\* edit the file that is being pulled.
Overtakes(d) == ~Scanned(d) /\ "unscanned" \in Operations /\ drops < MaxDrops

Quiet(d) ==
    /\ Scanned(d) \/ Overtakes(d)
    /\ drops' = IF Scanned(d) THEN drops ELSE drops + 1

Pulling(d, n) ==
    \E l \in Links : d \in l /\ link[l].phase # 0 /\ Puller(l) = d /\ Exists(job[l][n])

MayEdit(d, n) ==
    /\ edits < MaxEdits
    /\ "unscanned" \in Operations \/ (~scan[d].on /\ ~Pulling(d, n))

\* A file is created or rewritten with content c.  Every write gives the path
\* a modification time and a content that neither the file nor its row has
\* (UserTouch is the write of the same content).
UserWrite(d, n, c, t) ==
    /\ MayEdit(d, n)
    /\ c = newest + 1 \/ "seed" \in Operations
    /\ t \notin {disk[d][n].time, idx[d][n].time} 
    /\ c \notin {disk[d][n].content, idx[d][n].content}
    /\ edits' = edits + 1
    /\ disk' = [disk EXCEPT ![d][n] = [content |-> c, time |-> t]]
    /\ newest' = IF c > newest THEN c ELSE newest
    /\ gone' = (gone \cup {disk[d][n].content}) \ {0}
    /\ UNCHANGED <<saved, scan, indexVars, view, met, linkVars, paused, drops>>

UserDelete(d, n) ==
    /\ MayEdit(d, n) /\ OnDisk(d, n)
    /\ edits' = edits + 1
    /\ disk' = [disk EXCEPT ![d][n] = NoFile]
    /\ gone' = gone \cup {disk[d][n].content}
    /\ UNCHANGED <<saved, newest, scan, indexVars, view, met, linkVars, paused, drops>>

UserRename(d, f, g) ==
    /\ "rename" \in Operations
    /\ MayEdit(d, f) /\ MayEdit(d, g) /\ OnDisk(d, f) /\ ~OnDisk(d, g)
    /\ edits' = edits + 1
    /\ disk' = [disk EXCEPT ![d] = [@ EXCEPT ![g] = disk[d][f], ![f] = NoFile]]
    /\ UNCHANGED <<saved, gone, newest, scan, indexVars, view, met, linkVars, paused, drops>>

UserTouch(d, n, t) ==
    /\ "touch" \in Operations
    /\ MayEdit(d, n) /\ OnDisk(d, n) /\ t # disk[d][n].time
    /\ edits' = edits + 1
    /\ disk' = [disk EXCEPT ![d][n].time = t]
    /\ UNCHANGED <<saved, gone, newest, scan, indexVars, view, met, linkVars, paused, drops>>

----------------------------------------------------------------------------
(* Scans.  A scan compares the disk with the index as it walks, and later  *)
(* applies what it found to the index as it is then.                       *)

\* A verified scan hashes every file; another one only those whose size or
\* time differs from the row.  A verified scan that finds every row right
\* matters only when a session step can still overtake it, and is left out
\* otherwise: it would write back the rows it read.
Right(d) == \A n \in Names : StatMatches(d, n) /\ disk[d][n].content = idx[d][n].content

ScanWalk(d, verify) ==
    /\ ~scan[d].on
    /\ IF verify THEN "verify" \in Operations /\ (~Right(d) \/ drops < MaxDrops)
       ELSE ~Scanned(d)
    /\ scan' = [scan EXCEPT ![d] = [on |-> TRUE, verify |-> verify, seen |-> disk[d],
                                   rows |-> idx[d]]]
    /\ UNCHANGED <<diskVars, indexVars, view, met, linkVars, paused, drops>>

Seen(s, n) == s.seen[n].content # 0

Deleted(s) == {n \in Names : Live(s.rows[n]) /\ ~Seen(s, n)}
Added(s) == {n \in Names : ~Live(s.rows[n]) /\ Seen(s, n)}
Differs(s) == {n \in Names : Live(s.rows[n]) /\ Seen(s, n)
                 /\ (s.verify \/ s.rows[n].size # SizeOf(s.seen[n].content)
                              \/ s.rows[n].time # s.seen[n].time)}

\* A verified scan that finds the content of the row only adopts the stat; to
\* another one every difference is a change.
Touched(s) == {n \in Differs(s) : s.verify /\ s.rows[n].content = s.seen[n].content}

\* Paths with a row of any kind are modified, not added.
Fresh(s) == {n \in Added(s) : ~Exists(s.rows[n])}

\* detectRenames: the only fresh file with some content pairs with the first
\* vanished one of that content.
Renames(s) ==
    {r \in Deleted(s) \X Fresh(s) :
        LET same == {n \in Deleted(s) : s.rows[n].content = s.seen[r[2]].content} IN
        /\ r[1] \in same /\ \A n \in same : r[1] <= n
        /\ \A g \in Fresh(s) : s.seen[g].content = s.seen[r[2]].content => g = r[2]}

FileEntry(v, file) ==
    [ver |-> v, del |-> FALSE, time |-> file.time, content |-> file.content,
     size |-> SizeOf(file.content)]

\* planRename: the source is live with that content and the target has no
\* row, not even a tombstone; otherwise the pair is a deletion and an addition.
RenameHolds(d, s, f, g) ==
    /\ Live(idx[d][f]) /\ idx[d][f].content = s.seen[g].content
    /\ ~Exists(idx[d][g])

\* The version of a change: the row's vector, tombstones included, with the
\* device's counter advanced (mutant: only when the path comes to life).
NewVersionKept(d, row) == IF Live(row) THEN row.ver ELSE Bump(row.ver, d)

NewVersion(d, row) == Bump(row.ver, d)

\* What ApplyLocalChanges (and its per-change fallback) leaves in row n.
Applied(d, s, n) ==
    LET row == idx[d][n]
        source == {f \in Names : <<f, n>> \in Renames(s) /\ RenameHolds(d, s, f, n)}
    IN  IF n \in Deleted(s) THEN Tombstone(NewVersion(d, row))
        ELSE IF source # {}
        THEN FileEntry(NewVersion(d, idx[d][CHOOSE f \in source : TRUE]), s.seen[n])
        ELSE IF n \in Touched(s)
        THEN IF Exists(row)
             THEN [row EXCEPT !.time = s.seen[n].time, !.size = SizeOf(s.seen[n].content)]
             ELSE row
        ELSE IF n \in Added(s) \cup Differs(s) THEN FileEntry(NewVersion(d, row), s.seen[n])
        ELSE row

\* Rows written with a new sequence are not covered by any marker, nor by the
\* one a running session is going to record (mutant: by the latter they are).
RewrittenAfterSnapshot(d, S) ==
    /\ told' = [told EXCEPT ![d] = [p \in Devices |-> @[p] \ S]]
    /\ snap' = snap

Rewritten(d, S) ==
    /\ told' = [told EXCEPT ![d] = [p \in Devices |-> @[p] \ S]]
    /\ snap' = [snap EXCEPT ![d] = [p \in Devices |-> @[p] \ S]]

ScanApply(d) ==
    /\ scan[d].on
    /\ LET s == scan[d] IN
         /\ idx' = [idx EXCEPT ![d] = [n \in Names |-> Applied(d, s, n)]]
         /\ Rewritten(d, (Deleted(s) \cup Added(s) \cup Differs(s)) \ Touched(s))
    /\ scan' = [scan EXCEPT ![d] = NoScan]
    /\ UNCHANGED <<diskVars, view, met, linkVars, paused, drops>>

----------------------------------------------------------------------------
(* Sessions.                                                               *)

\* The index exchange: a delta of the rows after the marker when the peer's
\* process is the one the marker was recorded for, the whole index otherwise.
Exchanged(d, p) ==
    [n \in Names |-> IF ~met[d][p] THEN idx[d][n]
                     ELSE IF n \in told[d][p] \/ ~Exists(idx[d][n]) THEN view[p][d][n]
                     ELSE idx[d][n]]

OpenLink(l, d) ==
    /\ d \in l /\ link[l].phase = 0
    /\ link' = [link EXCEPT ![l] = [phase |-> 1, first |-> d, planned |-> FALSE]]
    /\ LET p == Other(l, d) IN
         /\ view' = [view EXCEPT ![p][d] = Exchanged(d, p), ![d][p] = Exchanged(p, d)]
         /\ snap' = [snap EXCEPT ![d][p] = Names, ![p][d] = Names]
    /\ UNCHANGED <<diskVars, scan, idx, told, met, needs, job, paused, drops>>

Best(d, n, row) == globalFrom(row, [p \in Peers(d) |-> view[d][p][n]])
Winners(d, n) == Best(d, n, idx[d][n])

\* PlanMoves: a path the peer deleted pairs with the path it added when they
\* are the only two with that content.
MoveSources(d, p, e) ==
    {n \in Names : Live(idx[d][n]) /\ view[d][p][n].del /\ sameContent(idx[d][n], e)}
MoveTargets(d, p, e) ==
    {n \in Names : ~Live(idx[d][n]) /\ Live(view[d][p][n]) /\ sameContent(view[d][p][n], e)}

Moves(d, p) ==
    {m \in Names \X Names :
        /\ Live(idx[d][m[1]]) /\ Live(view[d][p][m[2]])
        /\ MoveSources(d, p, idx[d][m[1]]) = {m[1]}
        /\ MoveTargets(d, p, idx[d][m[1]]) = {m[2]}}

\* applyMove refuses a target that has a row and fails without a source file.
AppliedMoves(d, p) == {m \in Moves(d, p) : ~Exists(idx[d][m[2]]) /\ OnDisk(d, m[1])}

\* identicalContent.
Identical(a, b) == Live(a) /\ Live(b) /\ sameContent(a, b)

\* JoinIdentical, for a row and the stat of its file: the vectors of all the
\* peers with that content are merged into the row's.
Joined(d, n, row, file) ==
    LET with == {p \in Peers(d) : Identical(row, view[d][p][n])} IN
    IF /\ Live(row)
       /\ \A p \in Peers(d) : ~view[d][p][n].del
       /\ SizeOf(file.content) = row.size /\ file.time = row.time /\ file.content # 0
    THEN [row EXCEPT !.ver =
            [x \in Devices |-> Max({row.ver[x]} \cup {view[d][p][n].ver[x] : p \in with})]]
    ELSE row

\* The files and rows after the moves, and the rows after the joins.
MovedFiles(d, p, moves) ==
    [n \in Names |->
        IF \E m \in moves : m[1] = n THEN NoFile
        ELSE IF \E m \in moves : m[2] = n
        THEN [content |-> disk[d][(CHOOSE m \in moves : m[2] = n)[1]].content,
              time |-> view[d][p][n].time]
        ELSE disk[d][n]]

MovedRows(d, p, moves, files) ==
    [n \in Names |->
        IF \E m \in moves : m[1] = n THEN Tombstone(Bump(idx[d][n].ver, d))
        ELSE IF \E m \in moves : m[2] = n
        THEN [view[d][p][n] EXCEPT !.size = SizeOf(files[n].content)]
        ELSE idx[d][n]]

JoinedRows(d, rows, files) == [n \in Names |-> Joined(d, n, rows[n], files[n])]

\* NeedPulls, for the rows of device d, in whatever order the views are visited
\* (mutant: only the paths that have a row here are visited).
WantedOfRows(d, rows) ==
    {{n \in Names : Exists(rows[n]) /\ \A g \in Best(d, n, rows[n]) : pullWanted(rows[n], g)}}

Wanted(d, rows) ==
    {S \in SUBSET Names :
        /\ \A n \in S : \E g \in Best(d, n, rows[n]) : pullWanted(rows[n], g)
        /\ \A n \in Names \ S : \E g \in Best(d, n, rows[n]) : ~pullWanted(rows[n], g)}

\* pullAll up to its pull list: moves, joins, then NeedPulls.
Plan(l) ==
    /\ link[l].phase # 0 /\ ~link[l].planned
    /\ link' = [link EXCEPT ![l].planned = TRUE]
    /\ \E d, p \in l :
         /\ d = Puller(l) /\ p = Server(l)
         /\ Quiet(d)
         /\ \E moves \in {AppliedMoves(d, p)} :
            \E files \in {MovedFiles(d, p, moves)} :
            \E moved \in {MovedRows(d, p, moves, files)} :
            \E rows \in {JoinedRows(d, moved, files)} :
              /\ disk' = [disk EXCEPT ![d] = files]
              /\ idx' = [idx EXCEPT ![d] = rows]
              /\ Rewritten(d, {n \in Names : rows[n] # idx[d][n]})
              /\ \E S \in Wanted(d, rows) :
                   needs' = [needs EXCEPT ![l] = IF d \in paused THEN {} ELSE S]
    /\ UNCHANGED <<saved, gone, newest, edits, scan, view, met, job, paused>>

\* PlanOverwrite and Execute: what becomes of the local file before the
\* winner g is applied.  Versioning archives the live file whatever the
\* winner; a conflict copy is made only of the loser of a conflict.
\* (mutant: contents of one size are taken for the same)
ConflictBySize(local, g) == Compare(g.ver, local.ver) = 2 /\ local.size # g.size

Conflict(local, g) == Compare(g.ver, local.ver) = 2 /\ ~sameContent(local, g)

MovesAside(d, local, g) ==
    /\ Live(local)
    /\ Preserve[d] = "archive" \/ (Preserve[d] = "copy" /\ Conflict(local, g))

\* The rename into a conflict copy fails when the file is not there; a missing
\* file is simply not archived.
CannotCopy(d, n, g) ==
    Preserve[d] = "copy" /\ Live(idx[d][n]) /\ Conflict(idx[d][n], g) /\ ~OnDisk(d, n)

Start(l, n) ==
    /\ link[l].planned /\ n \in needs[l]
    /\ needs' = [needs EXCEPT ![l] = @ \ {n}]

\* Index.Put of a row and sendIndexUpdate, which the peer merges.
Record(d, p, n, e) ==
    /\ idx' = [idx EXCEPT ![d][n] = e]
    /\ Rewritten(d, {n})
    /\ view' = [view EXCEPT ![p][d][n] = e]

\* pullBatch.start of a name whose winner is live.
StartPull(l, n) ==
    LET d == Puller(l) IN
    /\ Start(l, n) /\ Quiet(d) /\ d \notin paused
    /\ \E g \in Winners(d, n) :
         /\ Live(g) /\ ~CannotCopy(d, n, g)
         /\ job' = [job EXCEPT ![l][n] = g]
         /\ IF MovesAside(d, idx[d][n], g) /\ OnDisk(d, n)
            THEN \/ /\ disk' = [disk EXCEPT ![d][n] = NoFile]
                    /\ saved' = saved \cup {disk[d][n].content}
                 \/ \* archiving failed: logged, and the pull goes on
                    /\ Preserve[d] = "archive" /\ "archivefail" \in Operations
                    /\ UNCHANGED <<disk, saved>>
            ELSE UNCHANGED <<disk, saved>>
    /\ UNCHANGED <<gone, newest, edits, scan, indexVars, view, met, link, paused>>

\* pullBatch.start of a name whose winner is a tombstone: ApplyDeletion.  Its
\* own Execute finds nothing to archive any more; after a conflict copy it
\* fails, and the row stays as it is.  A row that is a tombstone by now is
\* only announced.
StartDeletion(l, n) ==
    LET d == Puller(l)
        row == idx[d][n]
    IN
    /\ Start(l, n) /\ Quiet(d) /\ d \notin paused
    /\ \E g \in Winners(d, n) :
         /\ Exists(g) /\ g.del /\ ~CannotCopy(d, n, g)
         /\ IF MovesAside(d, row, g) /\ OnDisk(d, n)
            THEN saved' = saved \cup {disk[d][n].content}
            ELSE UNCHANGED saved
         /\ disk' = IF row.del THEN disk ELSE [disk EXCEPT ![d][n] = NoFile]
         /\ \/ /\ row.del
               /\ view' = [view EXCEPT ![Server(l)][d][n] = row]
               /\ UNCHANGED indexVars
            \/ /\ Preserve[d] = "copy" /\ Live(row) /\ Conflict(row, g)
               /\ UNCHANGED <<indexVars, view>>
            \/ /\ ~row.del /\ ~(Preserve[d] = "copy" /\ Live(row) /\ Conflict(row, g))
               /\ Record(d, Server(l), n, Tombstone(Bump(row.ver, d)))
    /\ UNCHANGED <<gone, newest, edits, scan, met, link, job, paused>>

\* A name that is not started: the conflict copy cannot be made, the folder
\* was paused in the middle of the batch, or no device has the name any more.
SkipPull(l, n) ==
    LET d == Puller(l) IN
    /\ Start(l, n) /\ Quiet(d)
    /\ \/ d \in paused
       \/ \E g \in Winners(d, n) : ~Exists(g) \/ CannotCopy(d, n, g)
    /\ UNCHANGED <<diskVars, scan, indexVars, view, met, link, job, paused>>

\* The blocks come from the serving device, while its file has them and its
\* transfers are not paused, or from another local file with that content.
Obtainable(l, n) ==
    LET d == Puller(l)
        p == Server(l)
        c == job[l][n].content
    IN  \/ disk[p][n].content = c /\ p \notin paused
        \/ \E m \in Names \ {n} : Live(idx[d][m]) /\ idx[d][m].content = c
                                  /\ disk[d][m].content = c

\* Pull.Finish: the temp replaces whatever is at the path by now, and the
\* row becomes the winner's entry.
FinishPull(l, n) ==
    LET d == Puller(l) IN
    /\ link[l].planned /\ Exists(job[l][n]) /\ Obtainable(l, n) /\ Quiet(d)
    /\ disk' = [disk EXCEPT ![d][n] = [content |-> job[l][n].content,
                                       time |-> job[l][n].time]]
    /\ Record(d, Server(l), n, [job[l][n] EXCEPT !.size = SizeOf(job[l][n].content)])
    /\ job' = [job EXCEPT ![l][n] = NoEntry]
    /\ UNCHANGED <<saved, gone, newest, edits, scan, met, link, needs, paused>>

\* The server no longer has the content: the pull is left to a later round.
AbandonPull(l, n) ==
    /\ link[l].planned /\ Exists(job[l][n]) /\ ~Obtainable(l, n)
    /\ job' = [job EXCEPT ![l][n] = NoEntry]
    /\ UNCHANGED <<diskVars, scan, indexVars, view, met, link, needs, paused, drops>>

\* PhaseDone, then Close: both sides record the markers of their snapshots.
EndPhase(l) ==
    /\ link[l].planned /\ needs[l] = {} /\ job[l] = NoRows
    /\ IF link[l].phase = 1
       THEN /\ link' = [link EXCEPT ![l].phase = 2, ![l].planned = FALSE]
            /\ UNCHANGED <<told, met, snap>>
       ELSE LET d == Puller(l)
                p == Server(l)
            IN /\ link' = [link EXCEPT ![l] = NoLink]
               /\ told' = [told EXCEPT ![d][p] = snap[d][p], ![p][d] = snap[p][d]]
               /\ met' = [met EXCEPT ![d][p] = TRUE, ![p][d] = TRUE]
               /\ snap' = [snap EXCEPT ![d][p] = {}, ![p][d] = {}]
    /\ UNCHANGED <<diskVars, scan, idx, view, needs, job, paused, drops>>

----------------------------------------------------------------------------
(* Failures and the operator.                                              *)

\* The sessions of the links L are over; nothing is recorded.
Broken(L) ==
    /\ link' = [l \in Links |-> IF l \in L THEN NoLink ELSE link[l]]
    /\ needs' = [l \in Links |-> IF l \in L THEN {} ELSE needs[l]]
    /\ job' = [l \in Links |-> IF l \in L THEN NoRows ELSE job[l]]

Unsnapped(old, L) ==
    [d \in Devices |-> [p \in Devices |-> IF {d, p} \in L THEN {} ELSE old[d][p]]]

Drop(l) ==
    /\ drops < MaxDrops /\ link[l].phase # 0
    /\ drops' = drops + 1
    /\ Broken({l})
    /\ snap' = Unsnapped(snap, {l})
    /\ UNCHANGED <<diskVars, scan, idx, told, view, met, paused>>

LinksOf(d) == {l \in Links : d \in l}
Unmet(d) == [x \in Devices |-> [y \in Devices |-> IF y = d THEN FALSE ELSE met[x][y]]]

\* The process restarts: views, running scan and sessions are lost.
Restart(d) ==
    /\ "restart" \in Operations /\ drops < MaxDrops
    /\ drops' = drops + 1
    /\ view' = [view EXCEPT ![d] = [p \in Devices |-> NoRows]]
    /\ met' = Unmet(d)
    /\ scan' = [scan EXCEPT ![d] = NoScan]
    /\ Broken(LinksOf(d))
    /\ snap' = Unsnapped(snap, LinksOf(d))
    /\ UNCHANGED <<diskVars, idx, told, paused>>

\* The row that a rebuild gives a path (mutant: one for every path).
RebuiltUnseen(d, n) == FileEntry(Bump(New, d), disk[d][n])

Rebuilt(d, n) == IF OnDisk(d, n) THEN FileEntry(Bump(New, d), disk[d][n]) ELSE NoEntry

\* A corrupt index is found at start, or the operator rebuilds it: the new
\* one is filled from the disk and has no markers.
Rebuild(d) ==
    /\ "rebuild" \in Operations /\ drops < MaxDrops
    /\ drops' = drops + 1
    /\ idx' = [idx EXCEPT ![d] = [n \in Names |-> Rebuilt(d, n)]]
    /\ told' = [told EXCEPT ![d] = [p \in Devices |-> {}]]
    /\ view' = [view EXCEPT ![d] = [p \in Devices |-> NoRows]]
    /\ met' = [Unmet(d) EXCEPT ![d] = [p \in Devices |-> FALSE]]
    /\ scan' = [scan EXCEPT ![d] = NoScan]
    /\ Broken(LinksOf(d))
    /\ snap' = Unsnapped(snap, LinksOf(d))
    /\ UNCHANGED <<diskVars, paused>>

\* PruneTombstones below the lowest marker.
Prunable(d, n) == idx[d][n].del /\ \A p \in Peers(d) : n \in told[d][p]

Prune(d) ==
    /\ "prune" \in Operations
    /\ \E n \in Names : Prunable(d, n)
    /\ idx' = [idx EXCEPT ![d] = [n \in Names |-> IF Prunable(d, n) THEN NoEntry ELSE @[n]]]
    /\ UNCHANGED <<diskVars, scan, told, snap, view, met, linkVars, paused, drops>>

\* SetFolderTransfersPaused.
Pause(d) ==
    /\ "pause" \in Operations /\ drops < MaxDrops
    /\ d \notin paused
    /\ drops' = drops + 1
    /\ paused' = paused \cup {d}
    /\ UNCHANGED <<diskVars, scan, indexVars, view, met, linkVars>>

Resume(d) ==
    /\ d \in paused
    /\ paused' = paused \ {d}
    /\ UNCHANGED <<diskVars, scan, indexVars, view, met, linkVars, drops>>

----------------------------------------------------------------------------
Edit(d, n) ==
    \/ \E c \in 1..(newest + 1), t \in Times : UserWrite(d, n, c, t)
    \/ UserDelete(d, n)
    \/ \E g \in Names : UserRename(d, n, g)
    \/ \E t \in Times : UserTouch(d, n, t)

ScanStep(d) == (\E verify \in BOOLEAN : ScanWalk(d, verify)) \/ ScanApply(d)

SessionStep(l) ==
    \/ \E d \in l : OpenLink(l, d)
    \/ Plan(l)
    \/ \E n \in Names :
         \/ StartPull(l, n)
         \/ StartDeletion(l, n)
         \/ SkipPull(l, n)
         \/ FinishPull(l, n)
         \/ AbandonPull(l, n)
    \/ EndPhase(l)

Next ==
    \/ \E d \in Devices :
         \/ \E n \in Names : Edit(d, n)
         \/ ScanStep(d)
         \/ Restart(d)
         \/ Rebuild(d)
         \/ Prune(d)
         \/ Pause(d)
         \/ Resume(d)
    \/ \E l \in Links :
         \/ SessionStep(l)
         \/ Drop(l)

Spec == Init /\ [][Next]_vars

\* Scans, resumed transfers and the session itself are repeated by the nodes'
\* loops; edits, failures and pauses need not happen.
Fairness ==
    /\ \A d \in Devices : WF_vars(ScanStep(d)) /\ WF_vars(Resume(d))
    /\ \A l \in Links : WF_vars(SessionStep(l))

FairSpec == Spec /\ Fairness

----------------------------------------------------------------------------
(* What the folder promises.                                               *)

\* Every content a user wrote is still on some disk, or was kept as a conflict
\* copy or an archived version, or a user overwrote or deleted it somewhere:
\* no pull, move or deletion destroys the only copy of an edit.
NoLostUpdate ==
    \A c \in 1..newest :
        \/ c \in saved \cup gone
        \/ \E d \in Devices, n \in Names : disk[d][n].content = c

\* Two entries of one name with the same vector are the same version, in
\* whatever index or view they are: JoinIdentical, renames and pulls never
\* give one vector to two contents.
Copies(n) ==
    {idx[d][n] : d \in Devices} \cup {view[d][p][n] : d \in Devices, p \in Devices}
      \cup {job[l][n] : l \in Links}

VersionIdentifiesContent ==
    \A n \in Names : \A a, b \in Copies(n) :
        a.ver = b.ver => a.del = b.del /\ a.content = b.content

\* The version of a row never goes back to one that the row had superseded,
\* whatever order a scan, a join and a late pull write it in (but for a
\* rebuild, which starts the vectors again).
VersionNeverRegresses ==
    [][\A d \in Devices, n \in Names :
         Exists(idx[d][n]) /\ Exists(idx'[d][n])
            => Compare(idx'[d][n].ver, idx[d][n].ver) # -1]_vars

\* What the marker of a live process lets a delta leave out is in the peer's
\* view, whichever of scan, join, move, pull, deletion, prune or rebuild wrote
\* the row last and whenever the sessions broke (recordPeerIndex).
MarkersMatchViews ==
    \A d, p \in Devices : met[d][p] =>
        \A n \in told[d][p] : Exists(idx[d][n]) => view[p][d][n].ver = idx[d][n].ver

\* When both sides of a pair have told each other every row and no session
\* runs, both pick the same winner for every name: the choice does not depend
\* on which side makes it, so a later round cannot leave them apart.
AllTold(l) ==
    link[l].phase = 0 /\ \A d, p \in l : d # p => told[d][p] = Names /\ met[d][p]

WinnersAgree ==
    \A l \in Links : AllTold(l) =>
        \A d, p \in l, n \in Names : \A g \in Winners(d, n), h \in Winners(p, n) :
            g.del = h.del /\ g.content = h.content

\* An upload a device counts for a peer is a file that peer, once it has been
\* told, lists for pulling (uploadWanted against globalFrom and pullWanted).
UploadsArePulled ==
    \A l \in Links : \A d, p \in l : d # p => \A n \in Names :
        uploadWanted(idx[d][n], [q \in {p} |-> idx[p][n]])
            => \A g \in globalFrom(idx[p][n], [q \in {d} |-> idx[d][n]]) :
                   pullWanted(idx[p][n], g)

\* Once users and failures stop, the disks agree for good.
Converges ==
    <>[](\A d, p \in Devices, n \in Names : disk[d][n].content = disk[p][n].content)

============================================================================
