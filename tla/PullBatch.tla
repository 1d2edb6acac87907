----------------------------- MODULE PullBatch -----------------------------
(***************************************************************************)
(* One pull batch over one connection (internal/node/pull_batch.go) and    *)
(* the peer that serves it (internal/node/session.go: serveUntil,          *)
(* serveBlock; internal/transfer/conn.go).                                 *)
(*                                                                         *)
(* The files of the batch are numbered in pull order.  A file is a set of  *)
(* blocks of one size, the unit of bytes; a resumed temp or local reuse    *)
(* may leave any subset of them to fetch.  A request is identified by the  *)
(* file and the run it asks for: a batch sends each run at most once.      *)
(* The goroutine of the batch runs from one Recv to the next without       *)
(* touching anything the peer reads but the wire, so a handled message and *)
(* a started file are one step each.                                       *)
(***************************************************************************)
EXTENDS Integers, Sequences, FiniteSets

CONSTANTS
    FileCount,    \* length of the pull list
    BlockCount,   \* blocks of a file
    Concurrency,  \* pull_concurrency: files in flight
    Window,       \* pullWindowSize: requests in flight per file
    MaxRun,       \* pull_run_kb: blocks per request
    Budget,       \* pull_inflight_mb: response bytes outstanding
    Workers,      \* serveWorkers of the peer
    Operations    \* "fail": files the peer cannot serve, corrupted answers;
                  \* "pause": the operator pauses transfers; "silent": the
                  \* peer vanishes without closing the connection

ASSUME BatchAssumption ==
    /\ FileCount \in Nat /\ BlockCount \in Nat /\ Budget \in Nat
    /\ Concurrency \in Nat \ {0} /\ Window \in Nat \ {0}
    /\ MaxRun \in Nat \ {0} /\ Workers \in Nat \ {0}
    /\ Operations \subseteq {"fail", "pause", "silent"}

VARIABLES
    needs,          \* file -> blocks to fetch (Pull.NeedBlocks)
    runs,           \* file -> its needs, grouped into requests
    next,           \* the next file to start
    state,          \* file -> waiting, active, done or abandoned
    sent,           \* file -> runs requested
    received,       \* file -> blocks received
    written,        \* file -> blocks written to the temp
    inFlight,       \* requests without an answer, as <<file, run>>
    inflightBytes,  \* the batch's account of the bytes owed to it
    paused,         \* TransfersPaused
    outcome,        \* running, returned or failed
    requests,       \* the wire to the peer
    serving,        \* requests in the peer's worker pool
    responses,      \* the wire from the peer
    peer            \* serving or gone

batchVars == <<next, state, sent, received, written, inFlight, inflightBytes, outcome>>
plan == <<needs, runs>>
wireVars == <<requests, serving, responses, peer>>
transferVars == <<plan, batchVars, paused, wireVars>>

Files == 1..FileCount
Blocks == 1..BlockCount

----------------------------------------------------------------------------
(* Runs.                                                                   *)

\* planPulls: consecutive blocks in runs of at most MaxRun, in order.
\* (mutant: a run may cross a gap)
ExtendsOverGap(run, block) == run.size < MaxRun

Extends(run, block) == block = run.first + run.size /\ run.size < MaxRun

\* The loop body of planPulls: the block joins the last run or opens one.
WithBlock(list, block) ==
    IF list # <<>> /\ Extends(list[Len(list)], block)
    THEN [list EXCEPT ![Len(list)].size = @ + 1]
    ELSE Append(list, [first |-> block, size |-> 1])

planPulls(blocks) ==
    LET list[block \in 0..BlockCount] ==
          IF block = 0 THEN <<>>
          ELSE IF block \in blocks THEN WithBlock(list[block - 1], block)
          ELSE list[block - 1]
    IN list[BlockCount]

\* The blocks a run asks for.
Covered(run) == run.first..(run.first + run.size - 1)

Size(id) == runs[id[1]][id[2]].size

\* The bytes of the first i runs of a list (mutant: the first is left out).
BytesOfFewer(list, i) ==
    LET bytes[j \in 0..i] == IF j <= 1 THEN 0 ELSE bytes[j - 1] + list[j].size IN bytes[i]

BytesOf(list, i) ==
    LET bytes[j \in 0..i] == IF j = 0 THEN 0 ELSE bytes[j - 1] + list[j].size IN bytes[i]

\* The account after an answer of so many bytes; it is never negative.
Less(bytes, size) == IF bytes < size THEN 0 ELSE bytes - size

----------------------------------------------------------------------------
Jobs == {f \in Files : state[f] = "active"}

Ids == Files \X (1..BlockCount)
Codes == {"ok", "refused", "corrupt"}

BatchTypeOK ==
    /\ needs \in [Files -> SUBSET Blocks]
    /\ \A f \in Files : runs[f] \in Seq([first : Blocks, size : 1..MaxRun])
    /\ next \in 1..(FileCount + 1)
    /\ state \in [Files -> {"waiting", "active", "done", "abandoned"}]
    /\ sent \in [Files -> 0..BlockCount]
    /\ received \in [Files -> 0..BlockCount]
    /\ written \in [Files -> SUBSET Blocks]
    /\ inFlight \subseteq Ids
    /\ inflightBytes \in Nat
    /\ paused \in BOOLEAN
    /\ outcome \in {"running", "returned", "failed"}
    /\ requests \in Seq(Ids) /\ serving \subseteq Ids
    /\ responses \in Seq([id : Ids, code : Codes])
    /\ peer \in {"serving", "gone"}

\* StartPull keeps a partial temp up to its first block that is not valid.
Resumed == {1..k : k \in 0..BlockCount}

\* FillBlocksFromLocal copies whichever blocks other files of the folder have.
FilledFromLocal == SUBSET Blocks

Missing == {Blocks \ (kept \cup copied) : kept \in Resumed, copied \in FilledFromLocal}

BatchInit ==
    /\ needs \in [Files -> Missing]
    /\ runs = [f \in Files |-> planPulls(needs[f])]
    /\ next = 1
    /\ state = [f \in Files |-> "waiting"]
    /\ sent = [f \in Files |-> 0]
    /\ received = [f \in Files |-> 0]
    /\ written = [f \in Files |-> {}]
    /\ inFlight = {} /\ inflightBytes = 0
    /\ paused = FALSE /\ outcome = "running"
    /\ requests = <<>> /\ serving = {} /\ responses = <<>> /\ peer = "serving"

----------------------------------------------------------------------------
(* The batch.                                                              *)

\* sendNext sends a run of this size while so many bytes are owed; the budget
\* never holds back the only request.
Fits(bytes, size) == bytes = 0 \/ bytes + size <= Budget

\* How many runs the window loop of start sends.
Burst(list) ==
    LET limit == IF Len(list) < Window THEN Len(list) ELSE Window IN
    CHOOSE m \in 0..limit :
        /\ \A i \in 1..m : Fits(inflightBytes + BytesOf(list, i - 1), list[i].size)
        /\ m < limit => ~Fits(inflightBytes + BytesOf(list, m), list[m + 1].size)

\* Nothing can be started before the next message is read.
AdmissionOver == Cardinality(Jobs) >= Concurrency \/ next > FileCount

Running == outcome = "running"

\* start: a file that needs nothing is committed at once and takes no slot.
Start ==
    /\ Running /\ ~AdmissionOver /\ ~paused
    /\ next' = next + 1
    /\ LET burst == Burst(runs[next]) IN
          IF runs[next] = <<>>
          THEN /\ state' = [state EXCEPT ![next] = "done"]
               /\ UNCHANGED <<sent, inFlight, inflightBytes, requests>>
          ELSE /\ state' = [state EXCEPT ![next] = "active"]
               /\ sent' = [sent EXCEPT ![next] = burst]
               /\ inFlight' = inFlight \cup {<<next, i>> : i \in 1..burst}
               /\ inflightBytes' = inflightBytes + BytesOf(runs[next], burst)
               /\ requests' = requests \o [i \in 1..burst |-> <<next, i>>]
    /\ UNCHANGED <<plan, received, written, paused, outcome, serving, responses, peer>>

\* A pause in the middle of the batch leaves the rest to the next round.
LeaveRest ==
    /\ Running /\ ~AdmissionOver /\ paused
    /\ next' = FileCount + 1
    /\ UNCHANGED <<plan, state, sent, received, written, inFlight, inflightBytes,
                   outcome, paused, wireVars>>

\* The batch is over when no file is active and no answer is outstanding
\* (mutants: outstanding answers are not awaited; every file must be done).
OverWithoutJobs == Jobs = {}
OverWhenAllDone == \A f \in Files : state[f] = "done"

Over == Jobs = {} /\ inFlight = {}

Return ==
    /\ Running /\ AdmissionOver /\ Over
    /\ outcome' = "returned"
    /\ UNCHANGED <<plan, next, state, sent, received, written, inFlight,
                   inflightBytes, paused, wireVars>>

\* The next answer is taken off the wire; the requests asked go out.
Receive(asked) ==
    /\ Running /\ AdmissionOver /\ ~Over
    /\ responses # <<>>
    /\ responses' = Tail(responses)
    /\ inFlight' = (inFlight \ {Head(responses).id}) \cup {asked[i] : i \in DOMAIN asked}
    /\ requests' = requests \o asked

\* The answer of an abandoned file goes nowhere.
DropAnswer ==
    /\ Receive(<<>>)
    /\ Head(responses).id[1] \notin Jobs
    /\ UNCHANGED <<plan, next, state, sent, received, written, inflightBytes,
                   outcome, paused, serving, peer>>

\* The peer is still writing the file, has lost it, or could not read it.
Refused ==
    /\ Receive(<<>>)
    /\ Head(responses).id[1] \in Jobs /\ Head(responses).code = "refused"
    /\ state' = [state EXCEPT ![Head(responses).id[1]] = "abandoned"]
    /\ UNCHANGED <<plan, next, sent, received, written, inflightBytes, outcome,
                   paused, serving, peer>>

\* A run that is short or does not match its hashes.
Corrupt ==
    /\ Receive(<<>>)
    /\ Head(responses).id[1] \in Jobs /\ Head(responses).code = "corrupt"
    /\ state' = [state EXCEPT ![Head(responses).id[1]] = "abandoned"]
    /\ inflightBytes' = Less(inflightBytes, Size(Head(responses).id))
    /\ UNCHANGED <<plan, next, sent, received, written, outcome, paused, serving, peer>>

\* Finish refuses a file with a block missing.
Finished(f, blocks) == IF needs[f] \subseteq blocks THEN "done" ELSE "abandoned"

\* A run that arrives makes room for the next run of its file.
\* (mutant: the batch leaves it at the first window)
RefillsNever(f, bytes) == FALSE

Refills(f, bytes) ==
    sent[f] < Len(runs[f]) /\ Fits(bytes, runs[f][sent[f] + 1].size)

\* A run is written; the file is complete, or its next run is requested.
RunArrives ==
    /\ responses # <<>>
    /\ LET id == Head(responses).id
           f == id[1]
           run == runs[f][id[2]]
           bytes == Less(inflightBytes, run.size)
           blocks == written[f] \cup Covered(run)
           complete == received[f] + run.size = Cardinality(needs[f])
           asked == IF ~complete /\ Refills(f, bytes) THEN << <<f, sent[f] + 1>> >> ELSE <<>>
       IN
         /\ Receive(asked)
         /\ f \in Jobs /\ Head(responses).code = "ok"
         /\ written' = [written EXCEPT ![f] = blocks]
         /\ received' = [received EXCEPT ![f] = @ + run.size]
         /\ state' = [state EXCEPT ![f] = IF complete THEN Finished(f, blocks) ELSE @]
         /\ sent' = [sent EXCEPT ![f] = @ + Len(asked)]
         /\ inflightBytes' = IF asked = <<>> THEN bytes ELSE bytes + Size(asked[1])
    /\ UNCHANGED <<plan, next, outcome, paused, serving, peer>>

\* The deadline of Recv (Conn.stallNanos) ends the wait for a peer that is
\* gone; a peer that is there sends pings, which count as progress.
Timeout ==
    /\ Running /\ AdmissionOver /\ ~Over
    /\ peer = "gone" /\ responses = <<>>
    /\ state' = [f \in Files |-> IF f \in Jobs THEN "abandoned" ELSE state[f]]
    /\ outcome' = "failed"
    /\ UNCHANGED <<plan, next, sent, received, written, inFlight, inflightBytes,
                   paused, wireVars>>

----------------------------------------------------------------------------
(* The peer and the operator.                                              *)

\* serveUntil reads a request when a worker is free.
Serve ==
    /\ peer = "serving" /\ requests # <<>>
    /\ Cardinality(serving) < Workers
    /\ serving' = serving \cup {Head(requests)}
    /\ requests' = Tail(requests)
    /\ UNCHANGED <<plan, batchVars, paused, responses, peer>>

\* serveBlock: workers finish in any order, each request is answered once.
Answer(id, code) ==
    /\ peer = "serving" /\ id \in serving
    /\ code = "ok" \/ "fail" \in Operations
    /\ serving' = serving \ {id}
    /\ responses' = Append(responses, [id |-> id, code |-> code])
    /\ UNCHANGED <<plan, batchVars, paused, requests, peer>>

\* The peer's host is gone, and with it what it had not answered.
Vanish ==
    /\ "silent" \in Operations /\ peer = "serving" /\ Running
    /\ peer' = "gone"
    /\ requests' = <<>> /\ serving' = {}
    /\ UNCHANGED <<plan, batchVars, paused, responses>>

Pause ==
    /\ "pause" \in Operations /\ ~paused /\ Running
    /\ paused' = TRUE
    /\ UNCHANGED <<plan, batchVars, wireVars>>

BatchStep ==
    Start \/ LeaveRest \/ Return \/ DropAnswer \/ Refused \/ Corrupt \/ RunArrives \/ Timeout

PeerStep == Serve \/ \E id \in serving, code \in Codes : Answer(id, code)

BatchNext == BatchStep \/ PeerStep \/ Vanish \/ Pause

BatchSpec == BatchInit /\ [][BatchNext]_transferVars

\* The batch goroutine runs on, and the peer's read loop and workers serve.
FairBatchSpec == BatchSpec /\ WF_transferVars(BatchStep) /\ WF_transferVars(PeerStep)

----------------------------------------------------------------------------
(* What a batch promises.                                                  *)

\* sendNext: the budget must not hold back the only request, "or the batch
\* would wait for a response that was never asked for": while files are active
\* and none can be started, some request is outstanding.
NeverWaitsForNothing == Running /\ AdmissionOver /\ Jobs # {} => inFlight # {}

\* No request of a file is outstanding.
Unserved(f) == \A id \in inFlight : id[1] # f

\* The blocks asked for other files and not received, whose bytes the account
\* may hold; an abandoned file's are among them.
AskedOf(f) == UNION {Covered(runs[f][i]) : i \in 1..sent[f]}
AskedOfOthers(f) == UNION {{g} \X (AskedOf(g) \ written[g]) : g \in Files \ {f}}

\* The next run of a file does not fit beside what the others have asked for.
HeldBack(f) ==
    LET bytes == Cardinality(AskedOfOthers(f)) IN
    /\ sent[f] < Len(runs[f])
    /\ 0 < bytes /\ bytes + runs[f][sent[f] + 1].size > Budget

\* A step leaves an active file without a request.
LeftUnserved(f) == f \in Jobs' /\ Unserved(f)' /\ ~(f \in Jobs /\ Unserved(f))

\* A file is left without a request, when it starts or when its last answer
\* arrives, only because the other files fill the budget: neither the window,
\* nor what it asked for itself, nor an answer booked twice or not at all ever
\* stops one (start, sendNext, handle).
HeldBackByOthers ==
    [][\A f \in Files : LeftUnserved(f) => HeldBack(f)']_transferVars

\* What is outstanding, block by block; the runs of a file do not overlap.
OwedBlocks == UNION {{id[1]} \X Covered(runs[id[1]][id[2]]) : id \in inFlight}

Owed == Cardinality(OwedBlocks)

\* The account never falls below the bytes owed, so the clamp at zero and the
\* answers that are dropped cannot make the batch ask for too much.
AccountCoversOwed == inflightBytes >= Owed

\* A file whose block count is reached has every block it needed, whatever
\* runs they came in and in whatever order: Finish never meets a missing one.
CountedMeansWritten ==
    \A f \in Files : received[f] = Cardinality(needs[f]) => needs[f] \subseteq written[f]

\* A batch that returns leaves nothing on the wire: the next folder's batch on
\* the connection cannot meet an answer to a question it did not ask.
WireDrained ==
    outcome = "returned" => requests = <<>> /\ serving = {} /\ responses = <<>>

\* The batch ends, whether the peer serves, refuses or vanishes, or comes to
\* wait for nothing: its files were all held back and nobody will wake them.
BatchEnds == <>(outcome # "running" \/ ~NeverWaitsForNothing)

============================================================================
