---------------------------- MODULE PeerRounds ----------------------------
(***************************************************************************)
(* When two devices sync: the connection manager's backoff and in-flight   *)
(* slot (internal/node/connmgr.go), the change-driven kicks of the daemon  *)
(* (cmd/crosssync/synckick.go, main.go), SyncWithPeer and the session slot *)
(* that both the dialling and the serving side of a round take             *)
(* (internal/node/run.go, session.go).                                     *)
(*                                                                         *)
(* Each device runs some threads: "tick" is the daemon's interval ticker,  *)
(* "kick" the goroutine of the sync kicker, "manual" an operator's         *)
(* SyncNow. What a round transfers is a number here, how many changes of   *)
(* the other device it has; modules IndexExchange, FolderSync and          *)
(* PullBatch say how. Every device has one address of the other.           *)
(***************************************************************************)
EXTENDS Integers, FiniteSets

CONSTANTS
    Threads,     \* device -> its threads
    MaxBackoff,  \* longest backoff, in ticks
    MaxChanges,  \* bound: device -> changes its scans apply
    MaxFaults    \* bound: network outages and pauses

Devices == {1, 2}
Other(d) == 3 - d

ASSUME RoundsAssumption ==
    /\ Threads \in [Devices -> SUBSET {"tick", "kick", "manual"}]
    /\ MaxBackoff \in Nat \ {0}
    /\ MaxChanges \in [Devices -> Nat]
    /\ MaxFaults \in Nat

VARIABLES
    pc,       \* device -> thread -> where it is
    err,      \* device -> thread -> how its round failed, or ""
    slot,     \* device -> the connection manager's in-flight mark
    sem,      \* device -> who has the session slot
    srv,      \* device -> thread of the peer -> the inbound session it opened
    conn,     \* device -> thread -> the connection it opened
    fails,    \* device -> consecutive failures
    wait,     \* device -> ticks until the peer is due
    lastErr,  \* device -> last failure reported
    alert,    \* device -> an open "peer offline" event
    again,    \* device -> a kick arrived during the kicked round
    cur,      \* device -> changes its scans have applied
    sent,     \* device -> thread -> changes of both sides when its round began
    seen,     \* device -> changes of the other device it has
    up,       \* the network works
    paused,   \* devices whose transfers are all paused
    faults,   \* faults so far
    owed      \* history: devices with a kick that no kicked round has followed

roundVars == <<pc, err, slot, sem, srv, conn>>
stateVars == <<fails, wait, lastErr, alert, again>>
dataVars == <<cur, sent, seen>>
envVars == <<up, paused, faults>>
vars == <<roundVars, stateVars, dataVars, envVars, owed>>

Sessions == {s \in Devices \X {"tick", "kick", "manual"} : s[2] \in Threads[s[1]]}
Reasons == {"", "dial", "session"}

\* The slot of a device is free, or has an outbound or inbound round in it.
Free == <<"free", 0, "none">>
Out(d, t) == <<"out", d, t>>
In(d, t) == <<"in", d, t>>

ThreadMap(v) == [d \in Devices |-> [t \in Threads[d] |-> v]]
PeerThreadMap(v) == [d \in Devices |-> [t \in Threads[Other(d)] |-> v]]

\* A map over the devices, and for each over threads of its own or of its peer.
PerThread(v, S) == DOMAIN v = Devices /\ \A d \in Devices : v[d] \in [Threads[d] -> S]
PerPeerThread(v, S) == DOMAIN v = Devices /\ \A d \in Devices : v[d] \in [Threads[Other(d)] -> S]

Places == {"idle", "check", "claim", "sync", "dial", "wait", "data", "end", "ok", "bad", "recover"}
Slots == {Free} \cup {<<x, d, t>> : x \in {"in", "out"}, d \in Devices,
                                    t \in {"tick", "kick", "manual"}}

TypeOK ==
    /\ PerThread(pc, Places) /\ PerThread(err, Reasons)
    /\ PerThread(conn, {"none", "open", "gone"})
    /\ PerPeerThread(srv, {"none", "wait", "held"})
    /\ sem \in [Devices -> Slots]
    /\ DOMAIN sent = Devices
    /\ \A d \in Devices :
          sent[d] \in [Threads[d] -> (0..MaxChanges[d]) \X (0..MaxChanges[Other(d)])]
    /\ \A s \in Sessions :
          sent[s[1]][s[2]][1] <= cur[s[1]] /\ sent[s[1]][s[2]][2] <= cur[Other(s[1])]
    /\ slot \in [Devices -> BOOLEAN]
    /\ fails \in [Devices -> 0..MaxBackoff]
    /\ wait \in [Devices -> 0..MaxBackoff]
    /\ \A d \in Devices : wait[d] > 0 => fails[d] > 0
    /\ lastErr \in [Devices -> Reasons]
    /\ alert \in [Devices -> BOOLEAN] /\ again \in [Devices -> BOOLEAN]
    /\ cur \in [Devices -> Nat] /\ seen \in [Devices -> Nat]
    /\ \A d \in Devices : cur[d] <= MaxChanges[d] /\ seen[d] <= cur[Other(d)]
    /\ up \in BOOLEAN /\ paused \subseteq Devices /\ faults \in 0..MaxFaults
    /\ owed \subseteq Devices

Init ==
    /\ pc = ThreadMap("idle") /\ err = ThreadMap("") /\ conn = ThreadMap("none")
    /\ slot = [d \in Devices |-> FALSE]
    /\ sem = [d \in Devices |-> Free]
    /\ srv = PeerThreadMap("none")
    /\ fails = [d \in Devices |-> 0] /\ wait = [d \in Devices |-> 0]
    /\ lastErr = [d \in Devices |-> ""]
    /\ alert = [d \in Devices |-> FALSE] /\ again = [d \in Devices |-> FALSE]
    /\ cur = [d \in Devices |-> 0] /\ seen = [d \in Devices |-> 0]
    /\ sent = ThreadMap(<<0, 0>>)
    /\ up = TRUE /\ paused = {} /\ faults = 0
    /\ owed = {}

At(d, t, place) == pc[d][t] = place
Goto(d, t, place) == pc' = [pc EXCEPT ![d][t] = place]

-----------------------------------------------------------------------------
(* Who starts a round.                                                     *)

\* The interval ticker fires.
TickRound(d) ==
    /\ "tick" \in Threads[d] /\ At(d, "tick", "idle")
    /\ Goto(d, "tick", "check")
    /\ UNCHANGED <<err, slot, sem, srv, conn, stateVars, dataVars, envVars, owed>>

\* A scan applies a change and kicks a round: the kicker starts its
\* goroutine, or tells the running one to go round again.
Change(d) ==
    /\ cur[d] < MaxChanges[d]
    /\ cur' = [cur EXCEPT ![d] = @ + 1]
    /\ IF "kick" \notin Threads[d] THEN UNCHANGED <<pc, again, owed>>
       ELSE /\ owed' = owed \cup {d}
            /\ IF At(d, "kick", "idle")
               THEN Goto(d, "kick", "check") /\ UNCHANGED again
               ELSE again' = [again EXCEPT ![d] = TRUE] /\ UNCHANGED pc
    /\ UNCHANGED <<err, slot, sem, srv, conn, fails, wait, lastErr, alert, sent, seen, envVars>>

\* SyncRunning: some session of the device is under way.
Busy(d) ==
    \/ \E t \in Threads[d] : pc[d][t] \in {"dial", "wait", "data"}
    \/ \E t \in Threads[Other(d)] : srv[d][t] # "none"

\* SyncNow: straight to SyncWithPeer, past the connection manager.
ManualRound(d) ==
    /\ "manual" \in Threads[d] /\ At(d, "manual", "idle") /\ ~Busy(d)
    /\ Goto(d, "manual", "sync")
    /\ UNCHANGED <<err, slot, sem, srv, conn, stateVars, dataVars, envVars, owed>>

\* Time, in the unit of the shortest backoff.
Tick ==
    /\ \E d \in Devices : wait[d] > 0
    /\ wait' = [d \in Devices |-> IF wait[d] > 0 THEN wait[d] - 1 ELSE 0]
    /\ UNCHANGED <<roundVars, fails, lastErr, alert, again, dataVars, envVars, owed>>

-----------------------------------------------------------------------------
(* SyncAll.                                                                *)

\* Where a thread goes after its round; the kicker's goroutine looks whether
\* a kick came in the meantime.
AfterRoundDone(d, t) == "idle"
AfterRound(d, t) == IF t = "kick" /\ again[d] THEN "check" ELSE "idle"
AgainAfter(d, t) == IF t = "kick" THEN [again EXCEPT ![d] = FALSE] ELSE again

\* The peer is due or in backoff. A kicked round that begins serves the kicks
\* before it.
Check(d, t) ==
    /\ At(d, t, "check")
    /\ owed' = IF t = "kick" THEN owed \ {d} ELSE owed
    /\ IF wait[d] = 0 THEN Goto(d, t, "claim") /\ UNCHANGED again
       ELSE Goto(d, t, AfterRound(d, t)) /\ again' = AgainAfter(d, t)
    /\ UNCHANGED <<err, slot, sem, srv, conn, fails, wait, lastErr, alert, dataVars, envVars>>

\* inFlightMuOK.
Claim(d, t) ==
    /\ At(d, t, "claim")
    /\ IF slot[d] THEN Goto(d, t, AfterRound(d, t)) /\ again' = AgainAfter(d, t) /\ UNCHANGED slot
       ELSE Goto(d, t, "sync") /\ slot' = [slot EXCEPT ![d] = TRUE] /\ UNCHANGED again
    /\ UNCHANGED <<err, sem, srv, conn, fails, wait, lastErr, alert, dataVars, envVars, owed>>

EndOnSuccess(d, t) ==
    /\ At(d, t, "end")
    /\ Goto(d, t, IF err[d][t] = "" THEN "ok" ELSE "bad")
    /\ slot' = [slot EXCEPT ![d] = err[d][t] # ""]
    /\ UNCHANGED <<err, sem, srv, conn, stateVars, dataVars, envVars, owed>>

\* clearInFlight, before the result is reported.
End(d, t) ==
    /\ At(d, t, "end")
    /\ Goto(d, t, IF err[d][t] = "" THEN "ok" ELSE "bad")
    /\ slot' = [slot EXCEPT ![d] = FALSE]
    /\ UNCHANGED <<err, sem, srv, conn, stateVars, dataVars, envVars, owed>>

\* backoffDelay doubles up to the longest delay; the count is kept as far as
\* the delay depends on it.
Delay(n) == LET d == 2 ^ (n - 1) IN IF d \in 1..MaxBackoff THEN d ELSE MaxBackoff
Counted(n) == IF n >= MaxBackoff THEN MaxBackoff ELSE n + 1

Failed(d, t) ==
    /\ At(d, t, "bad")
    /\ fails' = [fails EXCEPT ![d] = Counted(@)]
    /\ wait' = [wait EXCEPT ![d] = Delay(fails'[d])]
    /\ alert' = [alert EXCEPT ![d] = @ \/ fails[d] = 0 \/ err[d][t] # lastErr[d]]
    /\ lastErr' = [lastErr EXCEPT ![d] = err[d][t]]
    /\ err' = [err EXCEPT ![d][t] = ""]
    /\ Goto(d, t, AfterRound(d, t)) /\ again' = AgainAfter(d, t)
    /\ UNCHANGED <<slot, sem, srv, conn, dataVars, envVars, owed>>

Succeeded(d, t) ==
    /\ At(d, t, "ok")
    /\ fails' = [fails EXCEPT ![d] = 0]
    /\ wait' = [wait EXCEPT ![d] = 0]
    /\ lastErr' = [lastErr EXCEPT ![d] = ""]
    /\ Goto(d, t, "recover")
    /\ UNCHANGED <<err, slot, sem, srv, conn, alert, again, dataVars, envVars, owed>>

\* onRecover (peerRecovered): after every round that succeeded.
Recover(d, t) ==
    /\ At(d, t, "recover")
    /\ alert' = [alert EXCEPT ![d] = FALSE]
    /\ Goto(d, t, AfterRound(d, t)) /\ again' = AgainAfter(d, t)
    /\ UNCHANGED <<err, slot, sem, srv, conn, fails, wait, lastErr, dataVars, envVars, owed>>

-----------------------------------------------------------------------------
(* SyncWithPeer, on the dialling side.                                     *)

\* SyncNow only returns the error; the connection manager goes on with it.
Finish(d, t, reason) ==
    IF t = "manual" THEN Goto(d, t, "idle") /\ UNCHANGED err
    ELSE Goto(d, t, "end") /\ err' = [err EXCEPT ![d][t] = reason]

\* All transfers are paused, or a round with the peer holds the slot: nothing
\* to do, which counts as a success. Otherwise the round takes the slot.
Sync(d, t) ==
    /\ At(d, t, "sync")
    /\ IF d \in paused \/ sem[d] # Free
       THEN Finish(d, t, "") /\ UNCHANGED sem
       ELSE /\ sem' = [sem EXCEPT ![d] = Out(d, t)]
            /\ Goto(d, t, "dial") /\ UNCHANGED err
    /\ UNCHANGED <<slot, srv, conn, stateVars, dataVars, envVars, owed>>

\* Release the slot and report.
Leave(d, t, reason) ==
    /\ sem' = [sem EXCEPT ![d] = Free]
    /\ Finish(d, t, reason)

\* The dial fails, or the peer accepts and starts an inbound session. (A
\* thread dials again only once the peer is done with the session it opened
\* before.)
Dial(d, t) ==
    /\ At(d, t, "dial")
    /\ \/ ~up /\ Leave(d, t, "dial") /\ UNCHANGED <<srv, conn>>
       \/ /\ up /\ conn[d][t] = "none"
          /\ conn' = [conn EXCEPT ![d][t] = "open"]
          /\ srv' = [srv EXCEPT ![Other(d)][t] = "wait"]
          /\ Goto(d, t, "wait") /\ UNCHANGED <<err, sem>>
    /\ UNCHANGED <<slot, stateVars, dataVars, envVars, owed>>

\* The peer took its slot and answers the cluster config.
BeginData(d, t) ==
    /\ At(d, t, "wait") /\ conn[d][t] = "open" /\ srv[Other(d)][t] = "held"
    /\ sent' = [sent EXCEPT ![d][t] = <<cur[d], cur[Other(d)]>>]
    /\ Goto(d, t, "data")
    /\ UNCHANGED <<err, slot, sem, srv, conn, stateVars, cur, seen, envVars, owed>>

\* A complete round syncs both directions, but no blocks move while either
\* side has paused its transfers. Then the dialling side hangs up.
EndData(d, t) ==
    /\ At(d, t, "data") /\ conn[d][t] = "open"
    /\ seen' = IF paused # {} THEN seen
               ELSE [x \in Devices |-> IF x = d THEN sent[d][t][2] ELSE sent[d][t][1]]
    /\ conn' = [conn EXCEPT ![d][t] = "gone"]
    /\ sent' = [sent EXCEPT ![d][t] = <<0, 0>>]
    /\ Leave(d, t, "")
    /\ UNCHANGED <<slot, srv, stateVars, cur, envVars, owed>>

\* The peer declined, or the connection broke.
Broken(d, t) ==
    /\ pc[d][t] \in {"wait", "data"} /\ conn[d][t] = "gone"
    /\ Leave(d, t, "session")
    /\ conn' = [conn EXCEPT ![d][t] = IF srv[Other(d)][t] = "none" THEN "none" ELSE "gone"]
    /\ sent' = [sent EXCEPT ![d][t] = <<0, 0>>]
    /\ UNCHANGED <<slot, srv, stateVars, cur, seen, envVars, owed>>

-----------------------------------------------------------------------------
(* Serve, on the accepting side p; (d, t) is the thread that dialled.      *)

\* The dialling side still uses the connection.
Attached(d, t) == pc[d][t] \in {"wait", "data"}

AcquireShared(d, t) ==
    LET p == Other(d) IN
    /\ srv[p][t] = "wait" /\ sem[p][1] # "in"
    /\ sem' = [sem EXCEPT ![p] = In(d, t)]
    /\ srv' = [srv EXCEPT ![p][t] = "held"]
    /\ UNCHANGED <<pc, err, slot, conn, stateVars, dataVars, envVars, owed>>

\* acquirePeerSession: an inbound session queues behind the round in the slot,
Acquire(d, t) ==
    LET p == Other(d) IN
    /\ srv[p][t] = "wait" /\ sem[p] = Free
    /\ sem' = [sem EXCEPT ![p] = In(d, t)]
    /\ srv' = [srv EXCEPT ![p][t] = "held"]
    /\ UNCHANGED <<pc, err, slot, conn, stateVars, dataVars, envVars, owed>>

\* up to peerSessionWait, and then declines.
Decline(d, t) ==
    LET p == Other(d) IN
    /\ srv[p][t] = "wait" /\ sem[p] # Free
    /\ srv' = [srv EXCEPT ![p][t] = "none"]
    /\ conn' = [conn EXCEPT ![d][t] = IF Attached(d, t) THEN "gone" ELSE "none"]
    /\ UNCHANGED <<pc, err, slot, sem, stateVars, dataVars, envVars, owed>>

SrvEndLeaking(d, t) ==
    LET p == Other(d) IN
    /\ srv[p][t] = "held" /\ conn[d][t] = "gone"
    /\ srv' = [srv EXCEPT ![p][t] = "none"]
    /\ sem' = [sem EXCEPT ![p] = IF Attached(d, t) THEN @ ELSE Free]
    /\ conn' = [conn EXCEPT ![d][t] = IF Attached(d, t) THEN @ ELSE "none"]
    /\ UNCHANGED <<pc, err, slot, stateVars, dataVars, envVars, owed>>

\* The session ends when the dialling side hung up or the connection broke.
SrvEnd(d, t) ==
    LET p == Other(d) IN
    /\ srv[p][t] = "held" /\ conn[d][t] = "gone"
    /\ srv' = [srv EXCEPT ![p][t] = "none"]
    /\ sem' = [sem EXCEPT ![p] = Free]
    /\ conn' = [conn EXCEPT ![d][t] = IF Attached(d, t) THEN @ ELSE "none"]
    /\ UNCHANGED <<pc, err, slot, stateVars, dataVars, envVars, owed>>

-----------------------------------------------------------------------------
(* Outages, and the operator's pause of all transfers.                     *)

NetDown ==
    /\ up /\ faults < MaxFaults
    /\ up' = FALSE /\ faults' = faults + 1
    /\ conn' = [d \in Devices |-> [t \in Threads[d] |->
                   IF conn[d][t] = "open" THEN "gone" ELSE conn[d][t]]]
    /\ UNCHANGED <<pc, err, slot, sem, srv, stateVars, dataVars, paused, owed>>

NetUp ==
    /\ ~up /\ up' = TRUE
    /\ UNCHANGED <<roundVars, stateVars, dataVars, paused, faults, owed>>

PauseTransfers(d) ==
    /\ d \notin paused /\ faults < MaxFaults
    /\ paused' = paused \cup {d} /\ faults' = faults + 1
    /\ UNCHANGED <<roundVars, stateVars, dataVars, up, owed>>

ResumeTransfers(d) ==
    /\ d \in paused /\ paused' = paused \ {d}
    /\ UNCHANGED <<roundVars, stateVars, dataVars, up, faults, owed>>

-----------------------------------------------------------------------------
ThreadStep(d, t) ==
    \/ Check(d, t) \/ Claim(d, t) \/ Sync(d, t) \/ Dial(d, t)
    \/ BeginData(d, t) \/ EndData(d, t) \/ Broken(d, t)
    \/ End(d, t) \/ Failed(d, t) \/ Succeeded(d, t) \/ Recover(d, t)

ServeStep(d, t) == Acquire(d, t) \/ Decline(d, t) \/ SrvEnd(d, t)

Next ==
    \/ \E d \in Devices : \E t \in Threads[d] : ThreadStep(d, t) \/ ServeStep(d, t)
    \/ \E d \in Devices :
          TickRound(d) \/ Change(d) \/ ManualRound(d) \/ PauseTransfers(d) \/ ResumeTransfers(d)
    \/ Tick \/ NetDown \/ NetUp

Spec == Init /\ [][Next]_vars

\* Goroutines run on, timers fire, outages and pauses end. A session that
\* waits for the slot gets it or gives up.
FairSpec ==
    /\ Spec
    /\ \A d \in Devices : \A t \in Threads[d] :
          WF_vars(ThreadStep(d, t)) /\ WF_vars(ServeStep(d, t))
    /\ \A d \in Devices : WF_vars(TickRound(d)) /\ WF_vars(ResumeTransfers(d))
    /\ WF_vars(Tick) /\ WF_vars(NetUp)

-----------------------------------------------------------------------------
(* Properties.                                                             *)

\* However both devices dial, never two rounds of the pair move data at the
\* same time, and a device's own rounds never overlap (SyncWithPeer: two would
\* stage the same temporary files).
OneRoundPerPair ==
    /\ Cardinality({s \in Sessions : At(s[1], s[2], "data") /\ conn[s[1]][s[2]] = "open"}) <= 1
    /\ \A d \in Devices : Cardinality({t \in Threads[d] : pc[d][t] \in {"dial", "wait", "data"}}) <= 1

\* A kick is never lost: until a kicked round has begun after it, the goroutine
\* is about to begin one or will go round again (syncKicker).
NoLostKick ==
    \A d \in owed : At(d, "kick", "check") \/ again[d]

\* Backoff and attention agree: while the peer is in backoff its "peer offline"
\* event is open (connmgr.go: inFlight, "event order").
OfflineVisible ==
    \A d \in Devices :
       fails[d] > 0 /\ (\A t \in Threads[d] : pc[d][t] \notin {"ok", "recover"}) => alert[d]

\* Whatever waits on whatever, every round gives up its slot: two devices that
\* dial each other at once do not block each other for ever
\* (acquirePeerSession, peerSessionWait).
SlotsFreed ==
    \A d \in Devices : []<>(sem[d] = Free)

\* Both devices hold their slot for a round of their own.
Crossed == \A d \in Devices : sem[d][1] = "out"

\* Unless the two devices keep dialling each other at the same moment for ever,
\* every change reaches the other device: neither backoff, the in-flight mark,
\* a skipped round counted as a success nor a kick that came too early stops
\* the rounds.
ChangesSync ==
    <>[]~Crossed => <>[](\A d \in Devices : seen[d] = cur[Other(d)])
=============================================================================
