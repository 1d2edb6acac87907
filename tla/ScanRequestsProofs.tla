------------------------- MODULE ScanRequestsProofs -------------------------
(***************************************************************************)
(* Proofs about the scan requests of one folder: a queued request stays    *)
(* queued or in somebody's hands until a pass has answered it or it is     *)
(* given up (unmet), and a reported path stays in the watcher's pipeline   *)
(* until a pass has observed it, for any paths, any channel, any number of *)
(* resumes at work at once and any number of edits and pauses.             *)
(***************************************************************************)
EXTENDS ScanRequests, SequenceTheorems, TLAPS

----------------------------------------------------------------------------
(* The inductive invariant.                                                *)

\* Where each thread can be, and what it wants there.
ThreadsRight ==
    /\ pc["main"] \in {"idle", "lock", "walk"} /\ pc["queue"] \in {"idle", "drain", "lock", "walk"}
    /\ \A t \in Resumers : pc[t] \in {"idle", "take", "lock", "walk", "put"}
    /\ \A t \in Requesters : pc[t] \in {"idle", "ask", "put", "busy", "take", "lock", "walk"}
    /\ \A t \in Requesters : pc[t] # "idle" => job[t].kind \in Kinds
    /\ \A t \in Resumers : pc[t] \in {"lock", "walk", "put"} => job[t].kind \in Kinds
    /\ pc["queue"] \in {"idle", "drain"} => job["queue"].paths = {}

\* A pass answers what its job covers, and has found nothing but its paths.
WalkRight ==
    \A t \in Threads : walk.by = t => walk.owed = Covers(job[t].kind)
                                      /\ walk.changed \subseteq job[t].paths

\* Requests are carried by the queue and by threads that have taken one.
Holding(t) == pc[t] \in {"lock", "walk", "put"}

Held(k) ==
    \/ \E q \in pend : k \in Covers(q)
    \/ \E t \in Carriers : Holding(t) /\ k \in Covers(job[t].kind)

RequestsHeld == \A k \in owed \ unmet : Held(k)

\* A pass of the worker has found the paths it carries.
Worked == IF pc["queue"] = "walk" THEN walk.changed ELSE job["queue"].paths
Reported == UNION {chan[i] : i \in 1..Len(chan)}
Pipeline == wpend \cup qpend \cup Reported \cup Worked

PathsHeld == unseen \ missed \subseteq Pipeline

IInv == TypeOK /\ ThreadsRight /\ WalkRight /\ RequestsHeld /\ PathsHeld

----------------------------------------------------------------------------
(* Types.                                                                  *)

\* Who is who: the names of the threads do not overlap.
LEMMA Names ==
    /\ Threads = {"main", "queue"} \cup Carriers /\ Carriers \subseteq Threads
    /\ Carriers = Requesters \cup Resumers
    /\ "main" \notin Carriers /\ "queue" \notin Carriers /\ "none" \notin Threads
    /\ "main" \in Threads /\ "queue" \in Threads
    /\ "op" \in Requesters /\ "op" \notin Resumers /\ "op" \notin Lookers
    /\ Lookers \subseteq Requesters /\ Requesters \subseteq Carriers /\ Resumers \subseteq Carriers
    /\ \A t \in Resumers : t \notin Requesters
BY RequestsAssumption DEF Threads, Carriers, Requesters

Places == {"idle", "drain", "ask", "put", "busy", "take", "lock", "walk"}
Jobs == [kind : Kinds \cup {"none", "paths"}, paths : SUBSET Paths]
Walks == [by : Threads \cup {"none"}, changed : SUBSET Paths, owed : SUBSET Kinds, hit : BOOLEAN]

\* The parts of TypeOK, and who walks.
LEMMA Types ==
    ASSUME TypeOK
    PROVE  /\ pc \in [Threads -> Places] /\ job \in [Threads -> Jobs] /\ walk \in Walks
           /\ pend \subseteq Kinds /\ owed \subseteq Kinds /\ unmet \subseteq owed
           /\ unseen \subseteq Paths /\ wpend \subseteq Paths /\ qpend \subseteq Paths
           /\ missed \subseteq unseen
           /\ chan \in Seq(SUBSET Paths) /\ Len(chan) <= Cap
           /\ \A t \in Threads : pc[t] = "walk" <=> walk.by = t
           /\ \A t \in Threads : pc[t] \in {"lock", "walk"} => job[t].kind # "none"
BY DEF TypeOK, Places, Jobs, Walks

LEMMA StrongestKind ==
    ASSUME NEW ks \in SUBSET Kinds
    PROVE  /\ Strongest(ks) \in Kinds
           /\ \A q \in ks : Covers(q) \subseteq Covers(Strongest(ks))
BY DEF Strongest, Covers, Kinds

LEMMA CoversOwn == \A k \in Kinds : k \in Covers(k)
BY DEF Covers, Kinds

LEMMA CoversKinds == \A k : Covers(k) \subseteq Kinds
BY DEF Covers, Kinds

LEMMA NoJobType ==
    /\ NoJob \in Jobs /\ NoJob.kind = "none" /\ NoJob.paths = {}
    /\ \A k \in Kinds \cup {"paths"}, s \in SUBSET Paths :
         Job(k, s) \in Jobs /\ Job(k, s).kind = k /\ Job(k, s).paths = s
BY DEF NoJob, Job, Jobs

LEMMA NoWalkType == NoWalk \in Walks /\ NoWalk.by = "none" /\ ~NoWalk.hit
BY DEF NoWalk, Walks

\* A step that neither starts nor ends a pass keeps TypeOK when it keeps the
\* types of what it touches.
LEMMA QuietTypes ==
    ASSUME TypeOK, NEW t \in Threads, NEW x \in Places \ {"walk"}, Goto(t, x),
           pc[t] # "walk", walk' = walk,
           job' \in [Threads -> Jobs], \A u \in Threads \ {t} : job'[u] = job[u],
           x = "lock" => job'[t].kind # "none",
           pend' \subseteq Kinds, owed' \subseteq Kinds, unmet' \subseteq owed',
           UNCHANGED <<paused, unseen, wpend, chan, missed>>, qpend' \subseteq Paths
    PROVE  TypeOK'
<1>1. \A u \in Threads : pc'[u] = IF u = t THEN x ELSE pc[u]
  BY Types DEF Goto
<1>2. pc' \in [Threads -> Places]
  BY Types DEF Goto
<1>3. \A u \in Threads : pc'[u] = "walk" <=> walk.by = u
  BY <1>1, Types
<1>4. \A u \in Threads : pc'[u] \in {"lock", "walk"} => job'[u].kind # "none"
  BY <1>1, Types
<1>. QED  BY <1>2, <1>3, <1>4 DEF TypeOK, Places, Jobs

LEMMA InitType == Init => TypeOK
<1> SUFFICES ASSUME Init PROVE TypeOK
  OBVIOUS
<1>1. pc = [t \in Threads |-> "idle"] /\ job = [t \in Threads |-> NoJob] /\ walk = NoWalk
      /\ chan = <<Paths>>
  BY DEF Init
<1>2. pc \in [Threads -> Places] /\ job \in [Threads -> Jobs] /\ walk \in Walks
  BY <1>1, NoJobType, NoWalkType DEF Places
<1>3. \A t \in Threads : pc[t] = "walk" <=> walk.by = t
  BY <1>1, Names DEF NoWalk
<1>4. \A t \in Threads : pc[t] \notin {"lock", "walk"}
  BY <1>1
<1>5. chan \in Seq(SUBSET Paths) /\ Len(chan) <= Cap
  BY <1>1, RequestsAssumption
<1>6. pend \subseteq Kinds /\ owed \subseteq Kinds /\ unmet \subseteq owed
  BY DEF Init, Kinds
<1>7. unseen = {} /\ wpend = {} /\ qpend = {} /\ missed = {}
  BY DEF Init
<1>8. paused \in BOOLEAN
  BY DEF Init
<1>. QED  BY <1>2, <1>3, <1>4, <1>5, <1>6, <1>7, <1>8 DEF TypeOK, Places, Jobs, Walks

LEMMA UnansweredType ==
    ASSUME TypeOK, NEW t \in Threads, NEW c \in BOOLEAN, Unanswered(t, c)
    PROVE  /\ \E x \in Places \ {"walk", "lock"} : Goto(t, x)
           /\ job' \in [Threads -> Jobs] /\ \A u \in Threads \ {t} : job'[u] = job[u]
           /\ pend' \subseteq Kinds
           /\ missed' \subseteq unseen /\ (unmet' = unmet \/ unmet' = owed)
<1>1. \E x \in Places \ {"walk", "lock"} : Goto(t, x)
  BY DEF Unanswered, Places
<1>2. job' = job \/ job' = [job EXCEPT ![t] = NoJob]
  BY DEF Unanswered, Drop
<1>3. pend' \subseteq Kinds
  BY Types DEF Unanswered, Kinds
<1>4. missed' \subseteq unseen
  BY Types DEF Unanswered
<1>5. unmet' = unmet \/ unmet' = owed
  BY DEF Unanswered
<1>. QED  BY <1>1, <1>2, <1>3, <1>4, <1>5, Types, NoJobType

\* What a resume takes, and where its two goroutines are then.
LEMMA ResumeTakes ==
    ASSUME TypeOK, NEW r \in Resumers, ResumeTake(r)
    PROVE  \E u \in Lookers :
              /\ pc[r] = "take" /\ pc[u] = "idle" /\ pc' \in [Threads -> Places]
              /\ \A t \in Threads :
                    /\ pc'[t] = IF t = r THEN IF pend = {} THEN "idle" ELSE "lock"
                                ELSE IF t = u THEN "ask" ELSE pc[t]
                    /\ job'[t] = IF t = r THEN IF pend = {} THEN NoJob ELSE Job(Strongest(pend), Paths)
                                 ELSE IF t = u THEN Job("full", Paths) ELSE job[t]
              /\ job' \in [Threads -> Jobs] /\ pend' = {}
              /\ UNCHANGED <<paused, walk, unseen, wpend, chan, qpend, owed, unmet, missed>>
<1> DEFINE j == IF pend = {} THEN NoJob ELSE Job(Strongest(pend), Paths)
           f == Job("full", Paths)
<1>1. j \in Jobs /\ f \in Jobs
  BY Types, StrongestKind, NoJobType DEF Kinds
<1>2. PICK u \in Lookers :
         /\ pc[u] = "idle"
         /\ pc' = [pc EXCEPT ![r] = IF pend = {} THEN "idle" ELSE "lock", ![u] = "ask"]
         /\ job' = [job EXCEPT ![r] = j, ![u] = f]
  BY DEF ResumeTake, Free
<1>3. r \in Threads /\ u \in Threads /\ r # u
  BY Names
<1> HIDE DEF j, f
<1>4. pc' \in [Threads -> Places] /\ job' \in [Threads -> Jobs]
  BY <1>1, <1>2, Types DEF Places
<1>5. \A t \in Threads :
         /\ pc'[t] = IF t = r THEN IF pend = {} THEN "idle" ELSE "lock"
                     ELSE IF t = u THEN "ask" ELSE pc[t]
         /\ job'[t] = IF t = r THEN j ELSE IF t = u THEN f ELSE job[t]
  BY <1>2, <1>3, Types
<1>. QED  BY <1>2, <1>4, <1>5 DEF ResumeTake, watchVars, j, f

LEMMA TypeStep == TypeOK /\ ThreadsRight /\ [Next]_vars => TypeOK'
<1> SUFFICES ASSUME TypeOK, ThreadsRight, [Next]_vars PROVE TypeOK'
  OBVIOUS
<1> USE DEF watchVars, counts
<1>1. ASSUME NEW p \in Paths, Edit(p) PROVE TypeOK'
  <2>1. /\ unseen' = unseen \cup {p} /\ wpend' \subseteq Paths /\ missed' \subseteq unseen'
        /\ UNCHANGED <<paused, pend, pc, job, walk, chan, qpend, owed, unmet>>
    BY <1>1, Types DEF Edit
  <2>. QED  BY <2>1, Types DEF TypeOK
<1>2. CASE Flush
  <2>1. chan' \in Seq(SUBSET Paths) /\ Len(chan') <= Cap
    <3>1. chan \in Seq(SUBSET Paths) /\ Len(chan) <= Cap /\ wpend \in SUBSET Paths
      BY Types
    <3>2. chan' = IF Len(chan) < Cap THEN Append(chan, wpend) ELSE chan
      BY <1>2 DEF Flush
    <3>. QED  BY <3>1, <3>2, RequestsAssumption
  <2>2. /\ wpend' = {} /\ missed' \subseteq unseen
        /\ UNCHANGED <<paused, pend, pc, job, walk, unseen, qpend, owed, unmet>>
    BY <1>2, Types DEF Flush
  <2>. QED  BY <2>1, <2>2, Types DEF TypeOK
<1>3. CASE Add
  <2>1. chan \in Seq(SUBSET Paths) /\ chan # << >> /\ Len(chan) <= Cap /\ chan' = Tail(chan)
    BY <1>3, Types DEF Add
  <2>2. Head(chan) \in SUBSET Paths /\ Tail(chan) \in Seq(SUBSET Paths) /\ Len(Tail(chan)) <= Cap
    BY <2>1, RequestsAssumption
  <2>3. qpend' \subseteq Paths
    BY <1>3, <2>2, Types DEF Add
  <2>4. pc' \in [Threads -> Places]
    BY <1>3, Types DEF Add, Goto, Places
  <2>5. \A t \in Threads : pc'[t] = pc[t] \/ (pc[t] = "idle" /\ pc'[t] = "drain")
    BY <1>3, Types DEF Add, Goto
  <2>6. UNCHANGED <<paused, pend, job, walk, unseen, wpend, owed, unmet, missed>>
    BY <1>3 DEF Add
  <2>7. /\ \A t \in Threads : pc'[t] = "walk" <=> walk.by = t
        /\ \A t \in Threads : pc'[t] \in {"lock", "walk"} => job[t].kind # "none"
    BY <2>5, Types
  <2>. QED  BY <2>1, <2>2, <2>3, <2>4, <2>6, <2>7, Types DEF TypeOK, Places
<1>4. CASE Drain
  <2>1. pc["queue"] = "drain" /\ qpend' = {} /\ walk' = walk
        /\ UNCHANGED <<paused, pend, unseen, wpend, chan, owed, unmet, missed>>
    BY <1>4 DEF Drain
  <2>2. "queue" \in Threads /\ "idle" \in Places \ {"walk"} /\ "lock" \in Places \ {"walk"}
    BY Names DEF Places
  <2>3. CASE qpend = {}
    BY <1>4, <2>1, <2>2, <2>3, QuietTypes, Types DEF Drain
  <2>4. CASE qpend # {}
    <3>1. Goto("queue", "lock") /\ job' = [job EXCEPT !["queue"] = Job("paths", qpend)]
      BY <1>4, <2>4 DEF Drain
    <3>2. Job("paths", qpend) \in Jobs /\ Job("paths", qpend).kind = "paths"
      BY NoJobType, Types
    <3>3. job' \in [Threads -> Jobs] /\ \A u \in Threads \ {"queue"} : job'[u] = job[u]
      BY <3>1, <3>2, Types
    <3>4. job'["queue"].kind # "none"
      BY <2>2, <3>1, <3>2, Types
    <3>. QED  BY <2>1, <2>2, <3>1, <3>3, <3>4, QuietTypes, Types
  <2>. QED  BY <2>3, <2>4
<1>5. CASE MainPass \/ Ask
  <2>1. PICK t \in {"main", "op"}, x \in {"lock", "ask"}, k \in Kinds :
            pc[t] = "idle" /\ Goto(t, x) /\ job' = [job EXCEPT ![t] = Job(k, Paths)]
    BY <1>5 DEF MainPass, Ask, Kinds
  <2>2. t \in Threads /\ x \in Places \ {"walk"}
    BY Names DEF Places
  <2>3. Job(k, Paths) \in Jobs /\ Job(k, Paths).kind # "none"
    BY NoJobType DEF Kinds
  <2>4. job' \in [Threads -> Jobs] /\ \A u \in Threads \ {t} : job'[u] = job[u]
    BY <2>1, <2>3, Types
  <2>5. job'[t].kind # "none"
    BY <2>1, <2>2, <2>3, Types
  <2>6. UNCHANGED <<paused, pend, walk, unseen, wpend, chan, qpend, owed, unmet, missed>>
    BY <1>5 DEF MainPass, Ask
  <2>. QED  BY <2>1, <2>2, <2>4, <2>5, <2>6, QuietTypes, Types
<1>6. ASSUME NEW t \in Threads, Request(t) \/ Busy(t) PROVE TypeOK'
  <2>1. PICK x \in Places \ {"walk", "lock"} : Goto(t, x)
    BY <1>6 DEF Request, Busy, Places
  <2>2. job' = job \/ job' = [job EXCEPT ![t] = NoJob]
    BY <1>6 DEF Request, Busy, Drop
  <2>3. job' \in [Threads -> Jobs] /\ \A u \in Threads \ {t} : job'[u] = job[u]
    BY <2>2, Types, NoJobType
  <2>4. pc[t] # "walk" /\ UNCHANGED <<paused, pend, walk, unseen, wpend, chan, qpend, owed, unmet, missed>>
    BY <1>6 DEF Request, Busy
  <2>. QED  BY <2>1, <2>3, <2>4, QuietTypes, Types
<1>7. ASSUME NEW t \in Threads, Put(t) PROVE TypeOK'
  <2>1. job[t].kind \in Kinds
    BY <1>7, Names DEF Put, ThreadsRight
  <2>2. job' \in [Threads -> Jobs] /\ \A u \in Threads \ {t} : job'[u] = job[u]
    BY <1>7, Types, NoJobType DEF Put, Drop
  <2>3. /\ pc[t] # "walk" /\ Goto(t, "idle") /\ pend' = pend \cup {job[t].kind}
        /\ owed' = owed \cup {job[t].kind} /\ unmet' = unmet \ {job[t].kind}
        /\ UNCHANGED <<paused, walk, unseen, wpend, chan, qpend, missed>>
    BY <1>7 DEF Put
  <2>4. "idle" \in Places \ {"walk"}
    BY DEF Places
  <2>. QED  BY <2>1, <2>2, <2>3, <2>4, QuietTypes, Types
<1>8. ASSUME NEW t \in Threads, Take(t) PROVE TypeOK'
  <2> DEFINE j == Job(Strongest(pend \cup {job[t].kind}), Paths)
  <2>1. job[t].kind \in Kinds
    BY <1>8 DEF Take, ThreadsRight
  <2>2. Strongest(pend \cup {job[t].kind}) \in Kinds
    BY <2>1, StrongestKind, Types
  <2>3. j \in Jobs /\ j.kind # "none"
    BY <2>2, NoJobType DEF Kinds
  <2>4. /\ pc[t] # "walk" /\ Goto(t, "lock") /\ job' = [job EXCEPT ![t] = j] /\ pend' = {}
        /\ UNCHANGED <<paused, walk, unseen, wpend, chan, qpend, owed, unmet, missed>>
    BY <1>8 DEF Take
  <2> HIDE DEF j
  <2>5. job' \in [Threads -> Jobs] /\ (\A u \in Threads \ {t} : job'[u] = job[u]) /\ job'[t] = j
    BY <2>3, <2>4, Types
  <2>6. "lock" \in Places \ {"walk"}
    BY DEF Places
  <2>. QED  BY <2>3, <2>4, <2>5, <2>6, QuietTypes, Types
<1>9. ASSUME NEW r \in Resumers, ResumeTake(r) PROVE TypeOK'
  <2>1. PICK u \in Lookers :
              /\ pc[r] = "take" /\ pc[u] = "idle" /\ pc' \in [Threads -> Places]
              /\ \A t \in Threads :
                    /\ pc'[t] = IF t = r THEN IF pend = {} THEN "idle" ELSE "lock"
                                ELSE IF t = u THEN "ask" ELSE pc[t]
                    /\ job'[t] = IF t = r THEN IF pend = {} THEN NoJob ELSE Job(Strongest(pend), Paths)
                                 ELSE IF t = u THEN Job("full", Paths) ELSE job[t]
              /\ job' \in [Threads -> Jobs] /\ pend' = {}
              /\ UNCHANGED <<paused, walk, unseen, wpend, chan, qpend, owed, unmet, missed>>
    BY <1>9, ResumeTakes
  <2>2. pend # {} => Job(Strongest(pend), Paths).kind # "none"
    BY Types, StrongestKind, NoJobType DEF Kinds
  <2>3. \A t \in Threads : pc'[t] = "walk" <=> walk.by = t
    BY <2>1, Types
  <2>4. \A t \in Threads : pc'[t] \in {"lock", "walk"} => job'[t].kind # "none"
    BY <2>1, <2>2, Types
  <2>. QED  BY <2>1, <2>3, <2>4, Types DEF TypeOK, Places, Jobs
<1>10. CASE Pause
  <2>1. /\ walk' = [walk EXCEPT !.hit = walk.by # "none"] /\ paused' = TRUE
        /\ UNCHANGED <<pend, pc, job, unseen, wpend, chan, qpend, owed, unmet, missed>>
    BY <1>10 DEF Pause
  <2>2. (walk.by # "none") \in BOOLEAN
    OBVIOUS
  <2>3. walk' \in Walks /\ walk'.by = walk.by
    BY <2>1, <2>2, Types DEF Walks
  <2>4. paused' \in BOOLEAN
    BY <2>1
  <2>. QED  BY <2>1, <2>3, <2>4, Types DEF TypeOK, Places, Jobs, Walks
<1>11. ASSUME NEW r \in Resumers, Resume(r) PROVE TypeOK'
  <2>1. r \in Threads /\ "take" \in Places \ {"walk", "lock"}
    BY Names DEF Places
  <2>2. /\ pc[r] = "idle" /\ Goto(r, "take") /\ paused' = FALSE
        /\ UNCHANGED <<pend, job, walk, unseen, wpend, chan, qpend, owed, unmet, missed>>
    BY <1>11 DEF Resume, Free
  <2>3. pc' \in [Threads -> Places]
    BY <2>1, <2>2, Types DEF Goto
  <2>4. \A u \in Threads : pc'[u] = IF u = r THEN "take" ELSE pc[u]
    BY <2>2, Types DEF Goto
  <2>5. \A u \in Threads : pc'[u] = "walk" <=> walk.by = u
    BY <2>2, <2>4, Types
  <2>6. \A u \in Threads : pc'[u] \in {"lock", "walk"} => job[u].kind # "none"
    BY <2>4, Types
  <2>7. paused' \in BOOLEAN
    BY <2>2
  <2>. QED  BY <2>2, <2>3, <2>5, <2>6, <2>7, Types DEF TypeOK, Places, Jobs
<1>12. ASSUME NEW t \in Threads, Begin(t) PROVE TypeOK'
  <2>1. CASE paused
    <3>1. Unanswered(t, FALSE) /\ walk' = walk /\ pc[t] = "lock"
          /\ UNCHANGED <<paused, unseen, wpend, chan, qpend, owed>>
      BY <1>12, <2>1 DEF Begin
    <3>2. PICK x \in Places \ {"walk", "lock"} : Goto(t, x)
      BY <3>1, UnansweredType
    <3>3. \A u \in Threads : pc'[u] = IF u = t THEN x ELSE pc[u]
      BY <3>2, Types DEF Goto
    <3>4. pc' \in [Threads -> Places]
      BY <3>2, Types DEF Goto
    <3>5. /\ job' \in [Threads -> Jobs] /\ \A u \in Threads \ {t} : job'[u] = job[u]
          /\ pend' \subseteq Kinds /\ missed' \subseteq unseen /\ (unmet' = unmet \/ unmet' = owed)
      BY <3>1, UnansweredType
    <3>6. \A u \in Threads : pc'[u] = "walk" <=> walk.by = u
      BY <3>1, <3>3, Types
    <3>7. \A u \in Threads : pc'[u] \in {"lock", "walk"} => job'[u].kind # "none"
      BY <3>2, <3>3, <3>5, Types
    <3>. QED  BY <3>1, <3>4, <3>5, <3>6, <3>7, Types DEF TypeOK, Places, Jobs
  <2>2. CASE ~paused
    <3>1. /\ pc[t] = "lock" /\ walk.by = "none" /\ Goto(t, "walk")
          /\ walk' = [by |-> t, changed |-> unseen \cap job[t].paths,
                      owed |-> Covers(job[t].kind), hit |-> FALSE]
          /\ UNCHANGED <<paused, pend, job, unseen, wpend, chan, qpend, owed, unmet, missed>>
      BY <1>12, <2>2 DEF Begin
    <3>2. walk' \in Walks /\ walk'.by = t
      <4>1. Covers(job[t].kind) \subseteq Kinds
        BY CoversKinds
      <4>2. unseen \cap job[t].paths \subseteq Paths
        BY Types
      <4>. QED  BY <3>1, <4>1, <4>2 DEF Walks
    <3>3. \A u \in Threads : pc'[u] = IF u = t THEN "walk" ELSE pc[u]
      BY <3>1, Types DEF Goto
    <3>4. pc' \in [Threads -> Places]
      BY <3>1, Types DEF Goto, Places
    <3>5. \A u \in Threads : pc'[u] = "walk" <=> walk'.by = u
      BY <3>1, <3>2, <3>3, Types, Names
    <3>6. \A u \in Threads : pc'[u] \in {"lock", "walk"} => job[u].kind # "none"
      BY <3>1, <3>3, Types
    <3>. QED  BY <3>1, <3>2, <3>4, <3>5, <3>6, Types DEF TypeOK, Places, Jobs, Walks
  <2>. QED  BY <2>1, <2>2
<1>13. ASSUME NEW t \in Threads, Cancel(t) \/ End(t) PROVE TypeOK'
  <2>1. pc[t] = "walk" /\ walk' = NoWalk /\ UNCHANGED <<paused, wpend, chan, qpend>>
    BY <1>13 DEF Cancel, End
  <2>2. PICK x \in Places \ {"walk", "lock"} : Goto(t, x)
    <3>1. CASE Cancel(t)
      BY <3>1, UnansweredType DEF Cancel
    <3>2. CASE End(t)
      BY <3>2 DEF End, Places
    <3>. QED  BY <1>13, <3>1, <3>2
  <2>3. job' \in [Threads -> Jobs] /\ \A u \in Threads \ {t} : job'[u] = job[u]
    <3>1. CASE Cancel(t)
      BY <3>1, UnansweredType DEF Cancel
    <3>2. CASE End(t)
      BY <3>2, Types, NoJobType DEF End, Drop
    <3>. QED  BY <1>13, <3>1, <3>2
  <2>4. /\ pend' \subseteq Kinds /\ owed' \subseteq Kinds /\ unmet' \subseteq owed'
        /\ unseen' \subseteq Paths /\ missed' \subseteq unseen'
    <3>1. CASE Cancel(t)
      BY <3>1, Types, UnansweredType DEF Cancel
    <3>2. CASE End(t)
      BY <3>2, Types DEF End
    <3>. QED  BY <1>13, <3>1, <3>2
  <2>5. \A u \in Threads : pc'[u] = IF u = t THEN x ELSE pc[u]
    BY <2>2, Types DEF Goto
  <2>6. pc' \in [Threads -> Places]
    BY <2>2, Types DEF Goto
  <2>7. \A u \in Threads : pc'[u] = "walk" <=> walk'.by = u
    BY <2>1, <2>2, <2>5, Types, NoWalkType, Names
  <2>8. \A u \in Threads : pc'[u] \in {"lock", "walk"} => job'[u].kind # "none"
    BY <2>2, <2>3, <2>5, Types
  <2>. QED
    BY <2>1, <2>3, <2>4, <2>6, <2>7, <2>8, Types, NoWalkType DEF TypeOK, Places, Jobs, Walks
<1>14. CASE UNCHANGED vars
  BY <1>14 DEF vars, TypeOK
<1>. QED
  BY <1>1, <1>2, <1>3, <1>4, <1>5, <1>6, <1>7, <1>8, <1>9, <1>10, <1>11, <1>12, <1>13, <1>14
     DEF Next, Step

----------------------------------------------------------------------------
(* Threads and walks.                                                      *)

\* Where the threads and their jobs are after one of them moved.
LEMMA Went ==
    ASSUME TypeOK, NEW t \in Threads, NEW x, Goto(t, x)
    PROVE  \A u \in Threads : pc'[u] = IF u = t THEN x ELSE pc[u]
BY Types DEF Goto

LEMMA Dropped ==
    ASSUME TypeOK, NEW t \in Threads, Drop(t)
    PROVE  \A u \in Threads : job'[u] = IF u = t THEN NoJob ELSE job[u]
BY Types DEF Drop

\* Where a pass that a pause stopped goes.
LEMMA WhereUnanswered ==
    ASSUME TypeOK, NEW t \in Threads, NEW c \in BOOLEAN, Unanswered(t, c)
    PROVE  \/ t \in Carriers /\ Goto(t, "put") /\ job' = job
           \/ t = "queue" /\ Goto(t, "drain") /\ Drop(t)
           \/ /\ t = "main" \/ (t \in Resumers /\ job[t].kind = "rebuild")
              /\ Goto(t, "idle") /\ Drop(t)
BY Names DEF Unanswered

LEMMA ThreadsStep == TypeOK /\ ThreadsRight /\ [Next]_vars => ThreadsRight'
<1> SUFFICES ASSUME TypeOK, ThreadsRight, [Next]_vars PROVE ThreadsRight'
  OBVIOUS
<1> USE DEF watchVars, counts
<1>1. CASE (\E p \in Paths : Edit(p)) \/ Flush \/ Pause \/ UNCHANGED vars
  <2>1. pc' = pc /\ job' = job
    BY <1>1 DEF Edit, Flush, Pause, vars
  <2>. QED  BY <2>1 DEF ThreadsRight
<1>2. CASE Add
  <2>1. /\ \A t \in Threads \ {"queue"} : pc'[t] = pc[t]
        /\ pc'["queue"] = pc["queue"] \/ (pc["queue"] = "idle" /\ pc'["queue"] = "drain")
        /\ job' = job
    BY <1>2, Types DEF Add, Goto
  <2>. QED  BY <2>1, Names DEF ThreadsRight
<1>3. CASE Drain
  <2>1. PICK x \in {"idle", "lock"} : /\ Goto("queue", x)
                                      /\ \A u \in Threads \ {"queue"} : job'[u] = job[u]
                                      /\ x = "idle" => job' = job
    BY <1>3, Types DEF Drain
  <2>2. \A u \in Threads : pc'[u] = IF u = "queue" THEN x ELSE pc[u]
    BY <2>1, Went, Names
  <2>3. pc["queue"] = "drain"
    BY <1>3 DEF Drain
  <2>. QED  BY <2>1, <2>2, <2>3, Names DEF ThreadsRight
<1>4. CASE MainPass
  <2>1. Goto("main", "lock") /\ \A u \in Threads \ {"main"} : job'[u] = job[u]
    BY <1>4, Types DEF MainPass
  <2>2. \A u \in Threads : pc'[u] = IF u = "main" THEN "lock" ELSE pc[u]
    BY <2>1, Went, Names
  <2>. QED  BY <2>1, <2>2, Names DEF ThreadsRight
<1>5. CASE Ask
  <2>1. /\ Goto("op", "ask") /\ \A u \in Threads \ {"op"} : job'[u] = job[u]
        /\ job'["op"].kind = "verify"
    BY <1>5, Types, NoJobType, Names DEF Ask, Job
  <2>2. \A u \in Threads : pc'[u] = IF u = "op" THEN "ask" ELSE pc[u]
    BY <2>1, Went, Names
  <2>. QED  BY <2>1, <2>2, Names DEF ThreadsRight, Kinds
<1>6. ASSUME NEW t \in Threads, Request(t) \/ Busy(t) \/ Put(t) PROVE ThreadsRight'
  <2>1. PICK x \in {"put", "busy", "take", "idle"} :
             /\ Goto(t, x)
             /\ job' = job \/ (x = "idle" /\ Drop(t))
    BY <1>6 DEF Request, Busy, Put
  <2>2. \A u \in Threads : pc'[u] = IF u = t THEN x ELSE pc[u]
    BY <2>1, Went
  <2>3. \A u \in Threads \ {t} : job'[u] = job[u]
    BY <2>1, Dropped
  <2>6. pc[t] \in {"ask", "busy", "put"} /\ (pc[t] = "put" => Goto(t, "idle"))
    BY <1>6 DEF Request, Busy, Put
  <2>4. pc[t] \in {"ask", "busy", "put"} /\ (t \in Resumers => x = "idle")
    <3>1. Goto(t, "idle") => x = "idle"
      BY <2>2, Went
    <3>. QED  BY <2>6, <3>1 DEF ThreadsRight
  <2>5. x # "idle" => job' = job
    BY <2>1
  <2>. QED  BY <2>2, <2>3, <2>4, <2>5, Names DEF ThreadsRight
<1>7. ASSUME NEW t \in Threads, Take(t) PROVE ThreadsRight'
  <2>1. /\ t \in Requesters /\ Goto(t, "lock") /\ \A u \in Threads \ {t} : job'[u] = job[u]
        /\ job'[t] = Job(Strongest(pend \cup {job[t].kind}), Paths) /\ pc[t] = "take"
    BY <1>7, Types DEF Take
  <2>2. \A u \in Threads : pc'[u] = IF u = t THEN "lock" ELSE pc[u]
    BY <2>1, Went
  <2>3. Strongest(pend \cup {job[t].kind}) \in Kinds
    BY <2>1, StrongestKind, Types DEF ThreadsRight
  <2>4. job'[t].kind \in Kinds
    BY <2>1, <2>3, NoJobType
  <2>. QED  BY <2>1, <2>2, <2>4, Names DEF ThreadsRight
<1>8. ASSUME NEW r \in Resumers, ResumeTake(r) PROVE ThreadsRight'
  <2>1. PICK u \in Lookers : \A t \in Threads :
           /\ pc'[t] = IF t = r THEN IF pend = {} THEN "idle" ELSE "lock"
                       ELSE IF t = u THEN "ask" ELSE pc[t]
           /\ job'[t] = IF t = r THEN IF pend = {} THEN NoJob ELSE Job(Strongest(pend), Paths)
                        ELSE IF t = u THEN Job("full", Paths) ELSE job[t]
    BY <1>8, ResumeTakes
  <2>2. pend # {} => Job(Strongest(pend), Paths).kind \in Kinds
    BY StrongestKind, Types, NoJobType
  <2>3. Job("full", Paths).kind \in Kinds
    BY NoJobType DEF Kinds
  <2>. QED  BY <2>1, <2>2, <2>3, Names DEF ThreadsRight
<1>9. ASSUME NEW r \in Resumers, Resume(r) PROVE ThreadsRight'
  <2>1. Goto(r, "take") /\ job' = job
    BY <1>9 DEF Resume
  <2>2. \A u \in Threads : pc'[u] = IF u = r THEN "take" ELSE pc[u]
    BY <2>1, Went, Names
  <2>. QED  BY <2>1, <2>2, Names DEF ThreadsRight
<1>10. ASSUME NEW t \in Threads, Begin(t) \/ Cancel(t) PROVE ThreadsRight'
  <2>1. pc[t] \in {"lock", "walk"}
    BY <1>10 DEF Begin, Cancel
  <2>2. CASE \E c \in BOOLEAN : Unanswered(t, c)
    <3>1. PICK x : /\ Goto(t, x)
                   /\ \/ t \in Carriers /\ x = "put" /\ job' = job
                      \/ t = "queue" /\ x = "drain" /\ Drop(t)
                      \/ t \in {"main"} \cup Resumers /\ x = "idle" /\ Drop(t)
      BY <2>2, WhereUnanswered
    <3>2. \A u \in Threads : pc'[u] = IF u = t THEN x ELSE pc[u]
      BY <3>1, Went
    <3>3. \A u \in Threads \ {t} : job'[u] = job[u]
      BY <3>1, Dropped
    <3>4. t = "queue" => job'[t].paths = {}
      BY <3>1, Dropped, NoJobType, Names
    <3>. QED  BY <2>1, <3>1, <3>2, <3>3, <3>4, Names DEF ThreadsRight
  <2>3. CASE Goto(t, "walk") /\ job' = job
    <3>1. \A u \in Threads : pc'[u] = IF u = t THEN "walk" ELSE pc[u]
      BY <2>3, Went
    <3>2. pc[t] = "lock"
      <4>1. CASE Begin(t)
        BY <4>1 DEF Begin
      <4>2. CASE Cancel(t)
        <5>1. \E c \in BOOLEAN : Unanswered(t, c)
          BY <4>2 DEF Cancel
        <5>2. pc'[t] # "walk"
          BY <5>1, UnansweredType, Went
        <5>. QED  BY <3>1, <5>2
      <4>. QED  BY <1>10, <4>1, <4>2
    <3>. QED  BY <2>3, <3>1, <3>2, Names DEF ThreadsRight
  <2>. QED  BY <1>10, <2>2, <2>3 DEF Begin, Cancel
<1>11. ASSUME NEW t \in Threads, End(t) PROVE ThreadsRight'
  <2>1. PICK x : Goto(t, x) /\ x = (IF t = "queue" THEN "drain" ELSE "idle") /\ Drop(t)
    BY <1>11 DEF End
  <2>2. \A u \in Threads : pc'[u] = IF u = t THEN x ELSE pc[u]
    BY <2>1, Went
  <2>3. \A u \in Threads : job'[u] = IF u = t THEN NoJob ELSE job[u]
    BY <2>1, Dropped
  <2>4. pc[t] = "walk"
    BY <1>11 DEF End
  <2>. QED  BY <2>1, <2>2, <2>3, <2>4, NoJobType, Names DEF ThreadsRight
<1>. QED
  BY <1>1, <1>2, <1>3, <1>4, <1>5, <1>6, <1>7, <1>8, <1>9, <1>10, <1>11 DEF Next, Step

\* What a step that is no pass's beginning or end does to the pass under way.
LEMMA WalkGoesOn ==
    ASSUME TypeOK, ThreadsRight, [Next]_vars,
           \A t \in Threads : ~Begin(t) /\ ~Cancel(t) /\ ~End(t)
    PROVE  /\ walk'.by = walk.by /\ walk'.owed = walk.owed /\ walk'.changed = walk.changed
           /\ \A t \in Threads : pc[t] = "walk" => job'[t] = job[t] /\ pc'[t] = "walk"
           /\ walk' = walk \/ Pause
<1>1. CASE \E p \in Paths : Edit(p)
  BY <1>1 DEF Edit
<1>2. CASE Flush \/ UNCHANGED vars
  BY <1>2 DEF Flush, vars
<1>3. CASE Add
  <2>1. \A t \in Threads : pc[t] = "walk" => pc'[t] = "walk"
    BY <1>3, Types DEF Add, Goto
  <2>. QED  BY <1>3, <2>1 DEF Add
<1>4. CASE Pause
  <2>1. walk'.by = walk.by /\ walk'.owed = walk.owed /\ walk'.changed = walk.changed
    BY <1>4, Types DEF Pause, Walks
  <2>. QED  BY <1>4, <2>1 DEF Pause
<1>5. CASE Drain \/ MainPass \/ Ask \/ \E r \in Resumers : Resume(r)
  <2>1. PICK t \in Threads, x \in Places : /\ pc[t] # "walk" /\ Goto(t, x)
                                           /\ \A u \in Threads \ {t} : job'[u] = job[u]
    <3>1. CASE Drain \/ MainPass \/ Ask
      BY <3>1, Types, Names DEF Drain, MainPass, Ask, Places
    <3>2. ASSUME NEW r \in Resumers, Resume(r)
          PROVE  pc[r] # "walk" /\ Goto(r, "take") /\ job' = job /\ r \in Threads
      BY <3>2, Names DEF Resume, Free
    <3>. QED  BY <1>5, <3>1, <3>2 DEF Places
  <2>2. \A u \in Threads : u # t => pc'[u] = pc[u]
    BY <2>1, Went
  <2>3. walk' = walk
    BY <1>5 DEF Drain, MainPass, Ask, Resume
  <2>. QED  BY <2>1, <2>2, <2>3
<1>6. ASSUME NEW r \in Resumers, ResumeTake(r)
      PROVE  /\ walk' = walk /\ \A t \in Threads : pc[t] = "walk" => job'[t] = job[t] /\ pc'[t] = "walk"
  <2>1. PICK u \in Lookers :
           /\ pc[r] = "take" /\ pc[u] = "idle" /\ walk' = walk
           /\ \A t \in Threads \ {r, u} : pc'[t] = pc[t] /\ job'[t] = job[t]
    BY <1>6, ResumeTakes
  <2>. QED  BY <2>1
<1>7. ASSUME NEW t \in Threads, Request(t) \/ Busy(t) \/ Put(t) \/ Take(t)
      PROVE  /\ walk' = walk /\ \A u \in Threads : pc[u] = "walk" => job'[u] = job[u] /\ pc'[u] = "walk"
  <2>1. PICK x \in Places : Goto(t, x)
    BY <1>7 DEF Request, Busy, Put, Take, Places
  <2>2. \A u \in Threads : u # t => pc'[u] = pc[u]
    BY <2>1, Went
  <2>3. pc[t] # "walk" /\ walk' = walk
    BY <1>7 DEF Request, Busy, Put, Take
  <2>4. \A u \in Threads \ {t} : job'[u] = job[u]
    BY <1>7, Types DEF Request, Busy, Put, Take, Drop
  <2>. QED  BY <2>2, <2>3, <2>4
<1>. QED
  BY <1>1, <1>2, <1>3, <1>4, <1>5, <1>6, <1>7 DEF Next, Step

LEMMA WalkStep ==
    ASSUME TypeOK, TypeOK', ThreadsRight, WalkRight, [Next]_vars
    PROVE  WalkRight'
<1>1. CASE \A t \in Threads : ~Begin(t) /\ ~Cancel(t) /\ ~End(t)
  <2>1. ASSUME NEW t \in Threads, walk'.by = t
        PROVE  walk'.owed = Covers(job'[t].kind) /\ walk'.changed \subseteq job'[t].paths
    <3>1. walk.by = t /\ pc[t] = "walk"
      BY <1>1, <2>1, WalkGoesOn, Types
    <3>2. walk'.owed = walk.owed /\ walk'.changed = walk.changed /\ job'[t] = job[t]
      BY <1>1, <3>1, WalkGoesOn
    <3>. QED  BY <3>1, <3>2 DEF WalkRight
  <2>. QED  BY <2>1 DEF WalkRight
<1>2. ASSUME NEW t \in Threads, Begin(t) PROVE WalkRight'
  <2>1. CASE paused
    BY <1>2, <2>1, Names DEF Begin, WalkRight
  <2>2. CASE ~paused
    BY <1>2, <2>2 DEF Begin, WalkRight
  <2>. QED  BY <2>1, <2>2
<1>3. ASSUME NEW t \in Threads, Cancel(t) \/ End(t) PROVE WalkRight'
  BY <1>3, NoWalkType, Names DEF Cancel, End, WalkRight
<1>. QED  BY <1>1, <1>2, <1>3

----------------------------------------------------------------------------
(* The requests.                                                           *)

\* What takes nothing out of the queue or of anybody's hands keeps the requests.
LEMMA NothingDropped ==
    ASSUME RequestsHeld, owed' = owed, unmet' = unmet, pend \subseteq pend',
           \A t \in Carriers : Holding(t) => Holding(t)' /\ job'[t] = job[t]
    PROVE  RequestsHeld'
<1> SUFFICES ASSUME NEW k \in owed \ unmet PROVE Held(k)'
  BY DEF RequestsHeld
<1>1. Held(k)
  BY DEF RequestsHeld
<1>. QED  BY <1>1 DEF Held

\* A thread that was asking goes somewhere else.
LEMMA AskingMoves ==
    ASSUME TypeOK, RequestsHeld, owed' = owed, unmet' = unmet, pend' = pend,
           NEW t \in Threads, NEW x, Goto(t, x), ~Holding(t) \/ t \notin Carriers,
           \A u \in Carriers \ {t} : job'[u] = job[u]
    PROVE  RequestsHeld'
<1>1. \A u \in Threads : pc'[u] = IF u = t THEN x ELSE pc[u]
  BY Went
<1>2. \A u \in Carriers : Holding(u) => Holding(u)' /\ job'[u] = job[u]
  BY <1>1, Names DEF Holding
<1>. QED  BY <1>2, NothingDropped

LEMMA PutRequests ==
    ASSUME TypeOK, ThreadsRight, RequestsHeld, NEW t \in Threads, Put(t)
    PROVE  RequestsHeld'
<1> SUFFICES ASSUME NEW k \in owed' \ unmet' PROVE Held(k)'
  BY DEF RequestsHeld
<1>1. /\ pc[t] = "put" /\ Goto(t, "idle") /\ Drop(t) /\ unmet' = unmet \ {job[t].kind}
      /\ pend' = pend \cup {job[t].kind} /\ owed' = owed \cup {job[t].kind}
  BY DEF Put
<1>2. job[t].kind \in Kinds
  BY <1>1, Names DEF ThreadsRight
<1>3. \A u \in Threads \ {t} : pc'[u] = pc[u] /\ job'[u] = job[u]
  BY <1>1, Went, Dropped
<1>4. CASE k \in Covers(job[t].kind)
  BY <1>1, <1>4 DEF Held
<1>5. CASE k \notin Covers(job[t].kind)
  <2>1. Held(k)
    BY <1>1, <1>2, <1>5, CoversOwn DEF RequestsHeld, Put
  <2>2. CASE \E q \in pend : k \in Covers(q)
    BY <1>1, <2>2 DEF Held
  <2>3. CASE \E u \in Carriers : Holding(u) /\ k \in Covers(job[u].kind)
    <3>1. PICK u \in Carriers : Holding(u) /\ k \in Covers(job[u].kind)
      BY <2>3
    <3>2. u \in Threads \ {t}
      BY <1>5, <3>1, Names
    <3>. QED  BY <1>3, <3>1, <3>2 DEF Held, Holding
  <2>. QED  BY <2>1, <2>2, <2>3 DEF Held
<1>. QED  BY <1>4, <1>5

\* Who takes the queue carries what was in it.
LEMMA TakeRequests ==
    ASSUME TypeOK, ThreadsRight, RequestsHeld,
           \/ \E r \in Resumers : ResumeTake(r)
           \/ \E t \in Threads : Take(t)
    PROVE  RequestsHeld'
<1> USE DEF watchVars
<1>0. owed' = owed /\ unmet' = unmet
  BY DEF ResumeTake, Take
<1> SUFFICES ASSUME NEW k \in owed' \ unmet' PROVE Held(k)'
  BY DEF RequestsHeld
<1>1. Held(k)
  BY <1>0 DEF RequestsHeld
<1>2. ASSUME NEW r \in Resumers, ResumeTake(r) PROVE Held(k)'
  <2>1. PICK u \in Lookers :
           /\ pc[r] = "take" /\ pc[u] = "idle"
           /\ \A t \in Threads :
                /\ pc'[t] = IF t = r THEN IF pend = {} THEN "idle" ELSE "lock"
                            ELSE IF t = u THEN "ask" ELSE pc[t]
                /\ job'[t] = IF t = r THEN IF pend = {} THEN NoJob ELSE Job(Strongest(pend), Paths)
                             ELSE IF t = u THEN Job("full", Paths) ELSE job[t]
    BY <1>2, ResumeTakes
  <2>2. ~Holding(r) /\ ~Holding(u)
    BY <2>1 DEF Holding
  <2>3. CASE \E q \in pend : k \in Covers(q)
    <3>1. pend # {} /\ k \in Covers(Strongest(pend)) /\ Strongest(pend) \in Kinds
      BY <2>3, StrongestKind, Types
    <3>2. r \in Carriers /\ r \in Threads
      BY Names
    <3>3. pc'[r] = "lock" /\ job'[r].kind = Strongest(pend)
      BY <2>1, <3>1, <3>2, NoJobType
    <3>. QED  BY <3>1, <3>2, <3>3 DEF Held, Holding
  <2>4. CASE \E v \in Carriers : Holding(v) /\ k \in Covers(job[v].kind)
    <3>1. PICK v \in Carriers : Holding(v) /\ k \in Covers(job[v].kind)
      BY <2>4
    <3>2. pc'[v] = pc[v] /\ job'[v] = job[v]
      BY <2>1, <2>2, <3>1, Names
    <3>. QED  BY <3>1, <3>2 DEF Held, Holding
  <2>. QED  BY <1>1, <2>3, <2>4 DEF Held
<1>3. ASSUME NEW t \in Threads, Take(t) PROVE Held(k)'
  <2> DEFINE ks == pend \cup {job[t].kind}
  <2>1. /\ pc[t] = "take" /\ t \in Requesters /\ Goto(t, "lock")
        /\ job' = [job EXCEPT ![t] = Job(Strongest(ks), Paths)]
    BY <1>3 DEF Take
  <2>2. ks \in SUBSET Kinds
    BY <2>1, Types DEF ThreadsRight
  <2>3. Strongest(ks) \in Kinds /\ \A q \in ks : Covers(q) \subseteq Covers(Strongest(ks))
    <3> HIDE DEF ks
    <3>. QED  BY <2>2, StrongestKind
  <2>4. pend \subseteq ks
    OBVIOUS
  <2> HIDE DEF ks
  <2>5. pc'[t] = "lock" /\ \A u \in Threads \ {t} : pc'[u] = pc[u] /\ job'[u] = job[u]
    BY <2>1, Went, Types
  <2>6. job'[t].kind = Strongest(ks)
    BY <2>1, <2>3, NoJobType, Types
  <2>7. CASE \E q \in pend : k \in Covers(q)
    <3>1. k \in Covers(Strongest(ks))
      BY <2>3, <2>4, <2>7
    <3>. QED  BY <2>1, <2>5, <2>6, <3>1, Names DEF Held, Holding
  <2>8. CASE \E u \in Carriers : Holding(u) /\ k \in Covers(job[u].kind)
    <3>1. PICK u \in Carriers : Holding(u) /\ k \in Covers(job[u].kind)
      BY <2>8
    <3>2. u \in Threads \ {t}
      BY <2>1, <3>1, Names DEF Holding
    <3>. QED  BY <2>5, <3>1, <3>2 DEF Held, Holding
  <2>. QED  BY <1>1, <2>7, <2>8 DEF Held
<1>. QED  BY <1>2, <1>3

\* A pass that a pause stops hands its request back, unless it was a rebuild
\* that a resume had begun.
LEMMA StoppedRequests ==
    ASSUME TypeOK, ThreadsRight, RequestsHeld, NEW t \in Threads, NEW c \in BOOLEAN,
           Unanswered(t, c), pc[t] \in {"lock", "walk"}, owed' = owed
    PROVE  RequestsHeld'
<1>1. /\ pend \subseteq pend'
      /\ unmet' = IF t \in Resumers /\ job[t].kind = "rebuild" /\ c THEN owed ELSE unmet
  BY DEF Unanswered
<1>0. unmet \subseteq unmet'
  BY <1>1, Types
<1>2. CASE t \in Carriers /\ Goto(t, "put") /\ job' = job
  <2>1. \A u \in Carriers : Holding(u) => Holding(u)' /\ job'[u] = job[u]
    BY <1>2, Went, Names DEF Holding
  <2> SUFFICES ASSUME NEW k \in owed' \ unmet' PROVE Held(k)'
    BY DEF RequestsHeld
  <2>2. Held(k)
    BY <1>0 DEF RequestsHeld
  <2>. QED  BY <1>1, <2>1, <2>2 DEF Held
<1>3. CASE t \notin Carriers
  <2>1. \A u \in Carriers : pc'[u] = pc[u] /\ job'[u] = job[u]
    BY <1>3, WhereUnanswered, Went, Dropped, Names
  <2>2. \A u \in Carriers : Holding(u) => Holding(u)' /\ job'[u] = job[u]
    BY <2>1 DEF Holding
  <2> SUFFICES ASSUME NEW k \in owed' \ unmet' PROVE Held(k)'
    BY DEF RequestsHeld
  <2>3. Held(k)
    BY <1>0 DEF RequestsHeld
  <2>. QED  BY <1>1, <2>2, <2>3 DEF Held
<1>4. CASE t \in Resumers /\ job[t].kind = "rebuild"
  <2>1. CASE c
    BY <1>1, <1>4, <2>1 DEF RequestsHeld
  <2>2. CASE ~c
    <3>1. "rebuild" \in pend'
      BY <1>4, <2>2 DEF Unanswered
    <3>2. Covers("rebuild") = Kinds
      BY DEF Covers
    <3>. QED  BY <3>1, <3>2, Types DEF RequestsHeld, Held
  <2>. QED  BY <2>1, <2>2
<1>. QED  BY <1>2, <1>3, <1>4, WhereUnanswered, Names

\* A pass that completes has answered what it covers.
LEMMA EndRequests ==
    ASSUME TypeOK, ThreadsRight, WalkRight, RequestsHeld, NEW t \in Threads, End(t)
    PROVE  RequestsHeld'
<1> SUFFICES ASSUME NEW k \in owed' \ unmet' PROVE Held(k)'
  BY DEF RequestsHeld
<1>1. pc[t] = "walk" /\ walk.by = t
  BY Types DEF End
<1>2. \/ owed' = owed \ walk.owed /\ unmet' = unmet \ walk.owed
      \/ owed' = owed /\ unmet' = unmet \cup (owed \cap walk.owed)
  BY DEF End
<1>3. k \in owed \ unmet /\ k \notin Covers(job[t].kind)
  BY <1>1, <1>2 DEF WalkRight
<1>4. Held(k)
  BY <1>3 DEF RequestsHeld
<1>5. \A u \in Threads \ {t} : pc'[u] = pc[u] /\ job'[u] = job[u]
  BY Went, Dropped DEF End
<1>6. pend' = pend
  BY DEF End
<1>7. CASE \E q \in pend : k \in Covers(q)
  BY <1>6, <1>7 DEF Held
<1>8. CASE \E u \in Carriers : Holding(u) /\ k \in Covers(job[u].kind)
  <2>1. PICK u \in Carriers : Holding(u) /\ k \in Covers(job[u].kind)
    BY <1>8
  <2>2. u \in Threads \ {t}
    BY <1>3, <2>1, Names
  <2>. QED  BY <1>5, <2>1, <2>2 DEF Held, Holding
<1>. QED  BY <1>4, <1>7, <1>8 DEF Held

LEMMA RequestsStep ==
    ASSUME TypeOK, ThreadsRight, WalkRight, RequestsHeld, [Next]_vars
    PROVE  RequestsHeld'
<1> USE DEF watchVars, counts
<1>1. CASE (\E p \in Paths : Edit(p)) \/ Flush \/ Pause \/ UNCHANGED vars
  <2>1. UNCHANGED <<pend, owed, unmet, pc, job>>
    BY <1>1 DEF Edit, Flush, Pause, vars
  <2>. QED  BY <2>1, NothingDropped DEF Holding
<1>2. CASE Add
  <2>1. UNCHANGED <<pend, owed, unmet, job>> /\ \A u \in Carriers : pc'[u] = pc[u]
    <3>1. pc' = pc \/ pc' = [pc EXCEPT !["queue"] = "drain"]
      BY <1>2 DEF Add, Goto
    <3>2. UNCHANGED <<pend, owed, unmet, job>>
      BY <1>2 DEF Add
    <3>. QED  BY <3>1, <3>2, Types, Names
  <2>. QED  BY <2>1, NothingDropped DEF Holding
<1>3. CASE Drain \/ MainPass \/ Ask \/ \E r \in Resumers : Resume(r)
  <2>1. PICK t \in Threads, x \in Places : /\ t \in Carriers => pc[t] = "idle"
                                           /\ Goto(t, x)
                                           /\ \A u \in Threads \ {t} : job'[u] = job[u]
    <3>1. CASE Drain \/ MainPass \/ Ask
      BY <3>1, Types, Names DEF Drain, MainPass, Ask, Places
    <3>2. ASSUME NEW r \in Resumers, Resume(r)
          PROVE  pc[r] = "idle" /\ Goto(r, "take") /\ job' = job /\ r \in Threads
      BY <3>2, Names DEF Resume, Free
    <3>. QED  BY <1>3, <3>1, <3>2 DEF Places
  <2>2. UNCHANGED <<pend, owed, unmet>>
    BY <1>3 DEF Drain, MainPass, Ask, Resume
  <2>3. ~Holding(t) \/ t \notin Carriers
    BY <2>1 DEF Holding
  <2>4. \A u \in Carriers \ {t} : job'[u] = job[u]
    BY <2>1, Names
  <2>. QED  BY <2>1, <2>2, <2>3, <2>4, AskingMoves
<1>4. ASSUME NEW t \in Threads, Request(t) \/ Busy(t) PROVE RequestsHeld'
  <2>1. PICK x : Goto(t, x)
    BY <1>4 DEF Request, Busy
  <2>2. ~Holding(t) /\ UNCHANGED <<pend, owed, unmet>>
    BY <1>4 DEF Request, Busy, Holding
  <2>3. \A u \in Carriers \ {t} : job'[u] = job[u]
    BY <1>4, Dropped, Names DEF Request, Busy
  <2>. QED  BY <2>1, <2>2, <2>3, AskingMoves
<1>5. ASSUME NEW t \in Threads, Begin(t) PROVE RequestsHeld'
  <2>1. CASE paused
    BY <1>5, <2>1, StoppedRequests DEF Begin
  <2>2. CASE ~paused
    <3>1. Goto(t, "walk") /\ UNCHANGED <<pend, job, unmet, owed>> /\ pc[t] = "lock"
      BY <1>5, <2>2 DEF Begin
    <3>2. \A u \in Carriers : Holding(u) => Holding(u)'
      BY <3>1, Went, Names DEF Holding
    <3>. QED  BY <3>1, <3>2, NothingDropped
  <2>. QED  BY <2>1, <2>2
<1>6. ASSUME NEW t \in Threads, Cancel(t) PROVE RequestsHeld'
  BY <1>6, StoppedRequests DEF Cancel
<1>. QED
  BY <1>1, <1>2, <1>3, <1>4, <1>5, <1>6, PutRequests, TakeRequests, EndRequests DEF Next, Step

----------------------------------------------------------------------------
(* The paths.                                                              *)

\* A batch that joins the channel, and one that leaves it.
LEMMA ReportedMore ==
    ASSUME TypeOK, chan' = Append(chan, wpend)
    PROVE  Reported \cup wpend \subseteq Reported'
<1>1. chan \in Seq(SUBSET Paths) /\ wpend \in SUBSET Paths
  BY Types
<1>2. Len(chan') = Len(chan) + 1 /\ chan'[Len(chan) + 1] = wpend
      /\ \A i \in 1..Len(chan) : chan'[i] = chan[i]
  BY <1>1
<1>3. Len(chan) \in Nat
  BY <1>1
<1>. QED  BY <1>2, <1>3 DEF Reported

LEMMA ReportedLess ==
    ASSUME TypeOK, chan # << >>, chan' = Tail(chan)
    PROVE  Reported \subseteq Reported' \cup Head(chan)
<1>1. chan \in Seq(SUBSET Paths)
  BY Types
<1>2. Len(chan') = Len(chan) - 1 /\ Len(chan) \in Nat
      /\ \A i \in 1..Len(chan') : chan'[i] = chan[i + 1]
  BY <1>1
<1>3. Head(chan) = chan[1]
  BY <1>1
<1>4. ASSUME NEW i \in 1..Len(chan) PROVE chan[i] \subseteq Reported' \cup Head(chan)
  <2>1. CASE i = 1
    BY <1>3, <2>1
  <2>2. CASE i # 1
    <3>1. i - 1 \in 1..Len(chan') /\ chan'[i - 1] = chan[i]
      BY <1>2, <2>2
    <3>. QED  BY <3>1 DEF Reported
  <2>. QED  BY <2>1, <2>2
<1>. QED  BY <1>4 DEF Reported

LEMMA PathsStep ==
    ASSUME TypeOK, TypeOK', ThreadsRight, WalkRight, PathsHeld, [Next]_vars
    PROVE  PathsHeld'
<1> USE DEF watchVars, counts, PathsHeld, Pipeline
<1>1. ASSUME NEW p \in Paths, Edit(p) PROVE PathsHeld'
  <2>1. UNCHANGED <<pc, job, walk, chan, qpend>>
    BY <1>1 DEF Edit
  <2>2. Reported' = Reported /\ Worked' = Worked
    BY <2>1 DEF Reported, Worked
  <2>. QED  BY <1>1, <2>1, <2>2 DEF Edit
<1>2. CASE Flush
  <2>1. UNCHANGED <<pc, job, walk, unseen, qpend>> /\ wpend' = {}
    BY <1>2 DEF Flush
  <2>2. Worked' = Worked
    BY <2>1 DEF Worked
  <2>3. CASE Len(chan) < Cap
    <3>1. chan' = Append(chan, wpend) /\ missed' = missed
      BY <1>2, <2>3 DEF Flush
    <3>. QED  BY <2>1, <2>2, <3>1, ReportedMore
  <2>4. CASE ~(Len(chan) < Cap)
    <3>1. missed' = missed \cup (wpend \cap unseen) /\ chan' = chan
      BY <1>2, <2>4 DEF Flush
    <3>2. Reported' = Reported
      BY <3>1 DEF Reported
    <3>. QED  BY <2>1, <2>2, <3>1, <3>2
  <2>. QED  BY <2>3, <2>4
<1>3. CASE Add
  <2>1. /\ chan # << >> /\ chan' = Tail(chan) /\ qpend' = qpend \cup Head(chan)
        /\ UNCHANGED <<job, walk, unseen, wpend, missed>>
        /\ pc' = pc \/ (pc' = [pc EXCEPT !["queue"] = "drain"] /\ pc["queue"] = "idle")
    BY <1>3 DEF Add, Goto
  <2>2. pc'["queue"] = "walk" <=> pc["queue"] = "walk"
    BY <2>1, Types, Names
  <2>3. Worked' = Worked
    BY <2>1, <2>2 DEF Worked
  <2>4. Reported \subseteq Reported' \cup Head(chan)
    BY <2>1, ReportedLess
  <2>. QED  BY <2>1, <2>3, <2>4
<1>4. CASE Drain
  <2>1. pc["queue"] = "drain" /\ qpend' = {} /\ UNCHANGED <<walk, unseen, wpend, chan, missed>>
    BY <1>4 DEF Drain
  <2>2. Worked = {}
    BY <2>1 DEF Worked, ThreadsRight
  <2>3. Reported' = Reported
    BY <2>1 DEF Reported
  <2>4. qpend \subseteq Worked'
    <3>1. CASE qpend = {}
      BY <3>1
    <3>2. CASE qpend # {}
      <4>1. pc'["queue"] = "lock"
        BY <1>4, <3>2, Types, Names DEF Drain, Goto
      <4>2. job' = [job EXCEPT !["queue"] = Job("paths", qpend)]
        BY <1>4, <3>2 DEF Drain
      <4>3. Job("paths", qpend).paths = qpend
        BY DEF Job
      <4>4. job'["queue"] = Job("paths", qpend)
        BY <4>2, Types, Names
      <4>. QED  BY <4>1, <4>3, <4>4 DEF Worked
    <3>. QED  BY <3>1, <3>2
  <2>. QED  BY <2>1, <2>2, <2>3, <2>4
<1>5. ASSUME Worked' = Worked,
             \/ MainPass \/ Ask \/ Pause \/ UNCHANGED vars
             \/ \E r \in Resumers : Resume(r) \/ ResumeTake(r)
             \/ \E t \in Threads : Request(t) \/ Put(t) \/ Busy(t) \/ Take(t)
      PROVE  PathsHeld'
  <2>1. UNCHANGED <<unseen, missed, wpend, chan, qpend>>
    BY <1>5 DEF MainPass, Ask, ResumeTake, Pause, Resume, Request, Put, Busy, Take, vars
  <2>2. Reported' = Reported
    BY <2>1 DEF Reported
  <2>. QED  BY <1>5, <2>1, <2>2
<1>6. ASSUME \/ MainPass \/ Ask \/ Pause \/ UNCHANGED vars
             \/ \E r \in Resumers : Resume(r) \/ ResumeTake(r)
             \/ \E t \in Threads : Request(t) \/ Put(t) \/ Busy(t) \/ Take(t)
      PROVE  Worked' = Worked
  <2>1. pc'["queue"] = pc["queue"] /\ job'["queue"] = job["queue"]
    <3>1. CASE Pause \/ UNCHANGED vars
      BY <3>1 DEF Pause, vars
    <3>2. CASE MainPass \/ Ask
      BY <3>2, Types, Names DEF MainPass, Ask, Goto
    <3>4. ASSUME NEW r \in Resumers, Resume(r) \/ ResumeTake(r)
          PROVE  pc'["queue"] = pc["queue"] /\ job'["queue"] = job["queue"]
      <4>1. CASE Resume(r)
        BY <4>1, Types, Names DEF Resume, Goto
      <4>2. CASE ResumeTake(r)
        BY <4>2, ResumeTakes, Names
      <4>. QED  BY <3>4, <4>1, <4>2
    <3>3. ASSUME NEW t \in Threads, Request(t) \/ Put(t) \/ Busy(t) \/ Take(t)
          PROVE  pc'["queue"] = pc["queue"] /\ job'["queue"] = job["queue"]
      <4>1. t # "queue"
        BY <3>3 DEF ThreadsRight, Request, Put, Busy, Take
      <4>2. "queue" \in Threads
        BY Names
      <4>3. \E x : Goto(t, x)
        BY <3>3 DEF Request, Put, Busy, Take
      <4>4. job'["queue"] = job["queue"]
        BY <3>3, <4>1, <4>2, Types DEF Request, Put, Busy, Take, Drop
      <4>. QED  BY <4>1, <4>2, <4>3, <4>4, Went
    <3>. QED  BY <1>6, <3>1, <3>2, <3>3, <3>4
  <2>2. walk'.changed = walk.changed
    BY <1>6, Types DEF MainPass, Ask, ResumeTake, Pause, Resume, Request, Put, Busy, Take, vars, Walks
  <2>. QED  BY <2>1, <2>2 DEF Worked
<1>7. ASSUME NEW t \in Threads, Begin(t) \/ Cancel(t) \/ End(t), t # "queue" PROVE PathsHeld'
  <2>1. UNCHANGED <<wpend, chan, qpend>>
    BY <1>7 DEF Begin, Cancel, End
  <2>2. Reported' = Reported
    BY <2>1 DEF Reported
  <2>3. pc["queue"] # "walk"
    BY <1>7, Types, Names DEF Begin, Cancel, End
  <2>4. (\E x : Goto(t, x)) /\ (job' = job \/ Drop(t))
    BY <1>7 DEF Begin, Cancel, End, Unanswered
  <2>5. pc'["queue"] = pc["queue"] /\ job'["queue"] = job["queue"]
    BY <1>7, <2>4, Went, Dropped, Names
  <2>6. Worked' = Worked
    BY <2>3, <2>5 DEF Worked
  <2>7. unseen' \ missed' \subseteq unseen \ missed
    BY <1>7 DEF Begin, Cancel, End, Unanswered
  <2>. QED  BY <2>1, <2>2, <2>6, <2>7
<1>8. CASE Begin("queue") \/ Cancel("queue") \/ End("queue")
  <2>1. UNCHANGED <<wpend, chan, qpend>>
    BY <1>8 DEF Begin, Cancel, End
  <2>2. Reported' = Reported
    BY <2>1 DEF Reported
  <2>3. Worked \subseteq job["queue"].paths
    BY Types, Names DEF Worked, WalkRight
  <2>4. CASE \E c \in BOOLEAN : Unanswered("queue", c) /\ unseen' = unseen
    <3>1. missed' = missed \cup (job["queue"].paths \cap unseen)
      BY <2>4 DEF Unanswered
    <3>. QED  BY <2>1, <2>2, <2>3, <2>4, <3>1
  <2>5. CASE /\ Goto("queue", "walk") /\ walk'.changed = unseen \cap job["queue"].paths
             /\ unseen' = unseen /\ missed' = missed
    <3>1. pc'["queue"] = "walk"
      BY <2>5, Went, Names
    <3>2. Worked' = unseen \cap job["queue"].paths
      BY <2>5, <3>1 DEF Worked
    <3>. QED  BY <2>1, <2>2, <2>3, <2>5, <3>2
  <2>6. CASE End("queue")
    <3>1. PICK s : /\ unseen' = unseen \ s
                   /\ missed' = (missed \cup (walk.changed \cap unseen)) \ s
      BY <2>6 DEF End
    <3>2. Worked = walk.changed
      BY <2>6 DEF Worked, End
    <3>. QED  BY <2>1, <2>2, <3>1, <3>2
  <2>7. CASE Begin("queue")
    <3>1. CASE paused
      <4>1. Unanswered("queue", FALSE) /\ unseen' = unseen
        BY <2>7, <3>1 DEF Begin
      <4>. QED  BY <4>1, <2>4
    <3>2. CASE ~paused
      <4>1. /\ Goto("queue", "walk") /\ unseen' = unseen /\ missed' = missed
            /\ walk' = [by |-> "queue", changed |-> unseen \cap job["queue"].paths,
                        owed |-> Covers(job["queue"].kind), hit |-> FALSE]
        BY <2>7, <3>2 DEF Begin
      <4>2. walk'.changed = unseen \cap job["queue"].paths
        BY <4>1
      <4>. QED  BY <4>1, <4>2, <2>5
    <3>. QED  BY <3>1, <3>2
  <2>8. CASE Cancel("queue")
    <3>1. Unanswered("queue", TRUE) /\ unseen' = unseen
      BY <2>8 DEF Cancel
    <3>. QED  BY <3>1, <2>4
  <2>. QED  BY <1>8, <2>6, <2>7, <2>8
<1>. QED
  BY <1>1, <1>2, <1>3, <1>4, <1>5, <1>6, <1>7, <1>8 DEF Next, Step

----------------------------------------------------------------------------
(* The invariant, and what it gives.                                       *)

LEMMA InitInv == Init => IInv
<1> SUFFICES ASSUME Init PROVE IInv
  OBVIOUS
<1>1. /\ \A t \in Threads : pc[t] = "idle" /\ job[t] = NoJob
      /\ walk = NoWalk /\ unseen = {} /\ owed = pend
  BY DEF Init
<1>2. ThreadsRight
  BY <1>1, NoJobType, Names DEF ThreadsRight
<1>3. WalkRight
  BY <1>1, NoWalkType, Names DEF WalkRight
<1>4. RequestsHeld
  BY <1>1, InitType, Types, CoversOwn DEF RequestsHeld, Held
<1>5. PathsHeld
  BY <1>1 DEF PathsHeld
<1>. QED  BY <1>2, <1>3, <1>4, <1>5, InitType DEF IInv

LEMMA Inductive == Spec => []IInv
<1>1. IInv /\ [Next]_vars => IInv'
  BY TypeStep, ThreadsStep, WalkStep, RequestsStep, PathsStep DEF IInv
<1>. QED  BY <1>1, InitInv, PTL DEF Spec

\* Every variable keeps its type, and the pass under way is the one of the
\* thread that walks.
THEOREM TypeCorrect == Spec => []TypeOK
<1>1. IInv => TypeOK
  BY DEF IInv
<1>. QED  BY <1>1, Inductive, PTL

\* A queued request stays queued or in some goroutine's hands until a complete
\* pass has answered it, whatever pauses, resumes and requests do in between. It
\* is given up with a rebuild of a resume that a pause cancels, and to a pass that
\* a pause and its resume halved (addPending, takePending, RequestRescan).
THEOREM NoRequestLost == Spec => []RequestsKept
<1>1. IInv => RequestsKept
  <2> SUFFICES ASSUME IInv, NEW k \in owed \ unmet PROVE Carried(k)
    BY DEF RequestsKept
  <2>1. Held(k)
    BY DEF IInv, RequestsHeld
  <2>. QED  BY <2>1 DEF Held, Holding, Carried
<1>. QED  BY <1>1, Inductive, PTL

\* A changed path whose event arrived is somewhere between the watcher and the
\* worker until a pass has observed it, unless the channel was full or a pause
\* refused its pass (pathQueue: "no dropped paths").
THEOREM NoPathDropped == Spec => []PathsKept
<1>1. IInv => PathsKept
  <2> SUFFICES ASSUME IInv, NEW p \in unseen \ missed
               PROVE  \/ p \in wpend \cup qpend
                      \/ \E i \in 1..Len(chan) : p \in chan[i]
                      \/ p \in job["queue"].paths
    BY DEF PathsKept
  <2>1. p \in Pipeline
    BY DEF IInv, PathsHeld
  <2>2. Worked \subseteq job["queue"].paths
    BY Types, Names DEF IInv, Worked, WalkRight
  <2>. QED  BY <2>1, <2>2 DEF Pipeline, Reported
<1>. QED  BY <1>1, Inductive, PTL

=============================================================================
